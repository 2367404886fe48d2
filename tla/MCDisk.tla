------------------------------- MODULE MCDisk -------------------------------
(***************************************************************************)
(* Instance of Disk and of Interrupts for TLC, one of them chosen by the    *)
(* initial state: two tasks at the disk, or two tasks and the idle task     *)
(* under the interrupts of timer, keyboard and disk.                        *)
(***************************************************************************)
EXTENDS Disk, Interrupts, TLC

CONSTANTS t1, t2, idle

VARIABLE explored
mcVars == <<vars, intVars, explored>>

MCTask == {t1, t2}
MCProc == {t1, t2, idle}

MCInit == Init /\ IntInit /\ explored \in {"disk", "interrupts"}

AtDisk(A) == explored = "disk" /\ A /\ UNCHANGED <<intVars, explored>>
AtInterrupts(A) == explored = "interrupts" /\ A /\ UNCHANGED <<vars, explored>>

(* LiveSpec and IntFairness, each where it is explored *)
MCFairness ==
  /\ WF_mcVars(AtDisk(Ready \/ Failed)) /\ WF_mcVars(AtDisk(Handler)) /\ WF_mcVars(AtDisk(Boot))
  /\ \A t \in Task :
       /\ SF_mcVars(AtDisk(Command(t))) /\ WF_mcVars(AtDisk(SemWait(t)))
       /\ WF_mcVars(AtDisk(PollError(t) \/ PollReady(t))) /\ WF_mcVars(AtDisk(Move(t)))
  /\ WF_mcVars(AtInterrupts(Deliver \/ Instruction))

MCSpec == MCInit /\ [][AtDisk(Next) \/ AtInterrupts(IntNext)]_mcVars /\ MCFairness
=============================================================================
