----------------------------- MODULE Interrupts -----------------------------
(***************************************************************************)
(* What the other modules take for granted: that code between               *)
(* irq_enter_protection and irq_leave_protection, and code of an interrupt  *)
(* handler, is not interrupted, and that interrupts come in the end.        *)
(* cpu/irq.c with the two interrupt controllers, the interrupt flag of the  *)
(* processor, which every task has its own copy of (the far jump to a TSS    *)
(* stores and loads eflags), and the frames on each task's stack: handlers, *)
(* exceptions and protected sections, nested and left by a switch at any    *)
(* place the kernel switches.                                               *)
(*                                                                          *)
(* Abstracted is what the sections do: of a frame only remains how often it  *)
(* may still switch or open a section.  Processor and controllers are        *)
(* external: an interrupt is taken before the next instruction, the         *)
(* controllers know priorities and which interrupts are in service.         *)
(***************************************************************************)
EXTENDS Integers, Sequences, FiniteSetsExt

CONSTANTS
  Proc,       \* tasks
  IdleTask,   \* idle_task
  FirstTask,  \* first_task
  MaxDepth,   \* bound: frames of one task
  Calls       \* bound: sections a handler or an exception opens

ASSUME InterruptAssumption ==
  /\ IdleTask \in Proc /\ FirstTask \in Proc \ {IdleTask}
  /\ MaxDepth \in Nat /\ Calls \in Nat

Timer == 0
Keyboard == 1
Cascade == 2
HardDisk == 14

(* init_pic masks all lines but the cascade, irq_enable takes a mask away.  *)
InitPic == 0 .. 15 \ {Cascade}
IrqEnable(masks, line) == masks \ {line}
Masked == IrqEnable(IrqEnable(IrqEnable(InitPic, Timer), Keyboard), HardDisk)
Line == 0 .. 15 \ (Masked \cup {Cascade})

VARIABLES
  curr,      \* curr_task, and the task the processor runs
  iflag,     \* IF of the processor
  eflags,    \* IF in the TSS of each task that does not run
  mode,      \* whether a task is in its program or in a system call
  stack,     \* frames of each task, the innermost last
  live,      \* tasks that were started and did not exit
  raised,    \* lines with a request the controllers have not passed on
  service,   \* requests in service
  halted     \* the processor is in a hlt loop with interrupts off

intVars == <<curr, iflag, eflags, mode, stack, live, raised, service, halted>>

(* A frame: what it is, the flag to restore, and its switches and sections. *)
Frame(what, left) == [what |-> what, flag |-> iflag, left |-> left]
Top == stack[curr][Len(stack[curr])]
In(what) == stack[curr] # <<>> /\ Top.what = what
InTask == stack[curr] = <<>>
Push(f) == stack' = [stack EXCEPT ![curr] = Append(@, f)]
Pop == stack' = [stack EXCEPT ![curr] = SubSeq(@, 1, Len(@) - 1)]
Used == [stack[curr] EXCEPT ![Len(stack[curr])].left = @ - 1]

(* The first task was entered with the flag of its TSS (init_main).         *)
IntInit ==
  /\ curr = FirstTask /\ iflag = TRUE
  /\ eflags = [t \in Proc |-> TRUE]
  /\ mode = [t \in Proc |-> IF t = IdleTask THEN "kernel" ELSE "user"]
  /\ stack = [t \in Proc |-> <<>>]
  /\ live = {FirstTask, IdleTask}
  /\ raised = {} /\ service = {} /\ halted = FALSE

-----------------------------------------------------------------------------
(* The controllers.  The second one hangs on line 2 of the first, so its    *)
(* lines come before 3 and are in service at both.                          *)
Place(line) == IF line >= 8 THEN {Cascade, line} ELSE {line}
Rank(line) == IF line >= 8 THEN 10 * Cascade + line ELSE 10 * line
Pending == {l \in raised : \A s \in service : Rank(l) < Rank(s)}
Interrupted == iflag /\ Pending # {}

Raise(line) ==
  /\ raised' = raised \cup {line}
  /\ UNCHANGED <<curr, iflag, eflags, mode, stack, live, service, halted>>

(* The processor goes through the interrupt gate of the line. *)
Deliver ==
  /\ Interrupted
  /\ \E l \in Pending :
       /\ \A k \in Pending : Rank(l) <= Rank(k)
       /\ raised' = raised \ {l}
       /\ service' = service \cup Place(l)
       /\ Push([what |-> "entry", flag |-> iflag, left |-> IF l = Timer THEN 2 ELSE Calls, line |-> l])
  /\ iflag' = FALSE
  /\ UNCHANGED <<curr, eflags, mode, live, halted>>

(* pic_send_eoi ends the service of what is most urgent at each controller. *)
Acknowledged(line) ==
  LET best(ss) == IF ss = {} THEN {} ELSE {Min(ss)}
  IN  service \ (best({s \in service : s < 8})
                  \cup (IF line >= 8 THEN best({s \in service : s >= 8}) ELSE {}))

(* Faulty variant of SendEoi: forgotten. *)
SendEoiNot ==
  /\ In("entry")
  /\ stack' = [stack EXCEPT ![curr][Len(stack[curr])] =
                 [what |-> IF Top.line = Timer THEN "tick" ELSE "handler", flag |-> Top.flag, left |-> Top.left]]
  /\ UNCHANGED <<curr, iflag, eflags, mode, live, raised, service, halted>>

(* The handlers of the three lines call it before anything else. *)
SendEoi ==
  /\ In("entry")
  /\ service' = Acknowledged(Top.line)
  /\ stack' = [stack EXCEPT ![curr][Len(stack[curr])] =
                 [what |-> IF Top.line = Timer THEN "tick" ELSE "handler", flag |-> Top.flag, left |-> Top.left]]
  /\ UNCHANGED <<curr, iflag, eflags, mode, live, raised, halted>>

Iret ==
  /\ In("tick") \/ In("handler")
  /\ iflag' = Top.flag
  /\ Pop
  /\ UNCHANGED <<curr, eflags, mode, live, raised, service, halted>>

-----------------------------------------------------------------------------
(* do_handler_syscall: the call gate leaves the flag alone.  An unknown     *)
(* number changes nothing.                                                  *)
Syscall ==
  /\ InTask /\ mode[curr] = "user"
  /\ mode' = [mode EXCEPT ![curr] = "kernel"]
  /\ UNCHANGED <<curr, iflag, eflags, stack, live, raised, service, halted>>

SyscallReturn ==
  /\ InTask /\ mode[curr] = "kernel" /\ curr # IdleTask
  /\ mode' = [mode EXCEPT ![curr] = "user"]
  /\ UNCHANGED <<curr, iflag, eflags, stack, live, raised, service, halted>>

(* Places of the kernel that open a section; the frame counts it. *)
Opens == Top.what \in {"handler", "section", "fault", "crash"} /\ Top.left > 0

EnterProtection ==
  /\ Len(stack[curr]) < MaxDepth
  /\ \/ InTask /\ mode[curr] = "kernel" /\ curr # IdleTask
     \/ ~ InTask /\ Opens
  /\ stack' = [stack EXCEPT ![curr] = Append(IF InTask THEN @ ELSE Used, Frame("section", 1))]
  /\ iflag' = FALSE
  /\ UNCHANGED <<curr, eflags, mode, live, raised, service, halted>>

(* Faulty variant of LeaveProtection: interrupts go on. *)
LeaveProtectionSti ==
  /\ In("section")
  /\ iflag' = TRUE
  /\ Pop
  /\ UNCHANGED <<curr, eflags, mode, live, raised, service, halted>>

LeaveProtection ==
  /\ In("section")
  /\ iflag' = Top.flag
  /\ Pop
  /\ UNCHANGED <<curr, eflags, mode, live, raised, service, halted>>

(* task_dispatch and the far jump of task_switch_from_to *)
SwitchTo(t) ==
  /\ t \in live \ {curr}
  /\ eflags' = [eflags EXCEPT ![curr] = iflag]
  /\ iflag' = eflags[t]
  /\ curr' = t

Dispatch(t) ==
  /\ In("section") \/ In("tick")
  /\ Top.left > 0
  /\ stack' = [stack EXCEPT ![curr] = Used]
  /\ SwitchTo(t)
  /\ UNCHANGED <<mode, live, raised, service, halted>>

(* task_init gives a new task interrupts that are on. *)
Start(t) ==
  /\ In("section") /\ t \notin live
  /\ live' = live \cup {t}
  /\ eflags' = [eflags EXCEPT ![t] = TRUE]
  /\ mode' = [mode EXCEPT ![t] = "user"]
  /\ stack' = [stack EXCEPT ![t] = <<>>]
  /\ UNCHANGED <<curr, iflag, raised, service, halted>>

(* The last section of sys_exit, called by the program or for it by an      *)
(* exception, in which interrupts have been off since the processor took    *)
(* it; nobody returns to it.                                                *)
Exit(t) ==
  /\ curr \notin {FirstTask, IdleTask}
  /\ In("fault") \/ (InTask /\ mode[curr] = "kernel")
  /\ live' = live \ {curr}
  /\ SwitchTo(t)
  /\ UNCHANGED <<mode, stack, raised, service, halted>>

(* An exception: of a program, which exits, or of the kernel, which logs    *)
(* it, and may wait for the terminal meanwhile, and then halts.             *)
Fault ==
  /\ InTask /\ curr \notin {FirstTask, IdleTask}
  /\ Push(Frame(IF mode[curr] = "user" THEN "fault" ELSE "crash", Calls))
  /\ iflag' = FALSE
  /\ UNCHANGED <<curr, eflags, mode, live, raised, service, halted>>

Halt ==
  /\ In("crash")
  /\ halted' = TRUE
  /\ UNCHANGED <<curr, iflag, eflags, mode, stack, live, raised, service>>

(* What the processor does next. *)
Instruction ==
  /\ ~ Interrupted /\ ~ halted
  /\ \/ SendEoi \/ Iret \/ Syscall \/ SyscallReturn \/ EnterProtection \/ LeaveProtection
     \/ Fault \/ Halt
     \/ \E t \in Proc : Dispatch(t) \/ Start(t) \/ Exit(t)

IntNext == Deliver \/ Instruction \/ \E l \in Line : Raise(l)

IntSpec == IntInit /\ [][IntNext]_intVars
IntFairness == WF_intVars(Deliver \/ Instruction)

-----------------------------------------------------------------------------
(* Interrupts are off exactly while the running task is in a protected      *)
(* section, a handler or an exception, whoever opened it and however often  *)
(* tasks were switched inside: no section is interrupted and none leaves    *)
(* interrupts off for a program or the idle task.  And every request is     *)
(* acknowledged before its handler can be left, by switching too: no line   *)
(* stays blocked while other tasks run.                                     *)
SectionsClosed ==
  /\ iflag <=> InTask
  /\ service # {} => In("entry")

(* Every tick of the timer, the most urgent line, gets its handler, unless  *)
(* the kernel itself faulted.                                               *)
TicksHandled == Timer \in raised ~> (Timer \notin raised \/ halted)

=============================================================================
