--------------------------------- MODULE Tty ---------------------------------
(***************************************************************************)
(* One terminal of dev/tty.c with its console's output loop                 *)
(* (console_write of dev/console.c): the keyboard handler fills the input   *)
(* fifo, readers take from it and echo, writers fill the output fifo and    *)
(* each of them drains it to the screen under the console's mutex.  The     *)
(* semaphores and the mutex are used through what they promise, CreditSem   *)
(* and QueueLock, which Ipc implements.  A step ends where an interrupt may *)
(* come; a write of a longer text is a sequence of calls for one character. *)
(***************************************************************************)
EXTENDS Integers, Sequences, FiniteSets, Functions

CONSTANTS
  Writer, Reader,  \* tasks that write, tasks that read
  IBuf,            \* TTY_IBUF_SIZE
  OBuf,            \* TTY_OBUF_SIZE
  ReadSize,        \* the size a reader asks for
  Echo             \* TTY_IECHO is set

Task == Writer \cup Reader

(* TASK_NR is smaller than TTY_OBUF_SIZE.                                   *)
ASSUME TtyAssumption ==
  /\ IsFiniteSet(Task) /\ Writer \cap Reader = {}
  /\ IBuf \in Nat \ {0} /\ OBuf \in Nat /\ Cardinality(Task) < OBuf
  /\ ReadSize \in Nat \ {0} /\ Echo \in BOOLEAN

VARIABLES
  ififo,   \* the input fifo
  ofifo,   \* the output fifo
  credit,  \* isem and osem: count less waiters
  semLine, \* their wait lists
  line,    \* console_t.mutex: its owner, then its waiters
  pc,      \* where each task is
  ch,      \* the character each task is handling
  len      \* how many characters tty_read has stored

vars == <<ififo, ofifo, credit, semLine, line, pc, ch, len>>

Sems == INSTANCE CreditSem WITH
  Client <- Task, Sema <- {"isem", "osem"},
  InitCredit <- [s \in {"isem", "osem"} |-> IF s = "osem" THEN OBuf ELSE 0],
  credit <- credit, line <- semLine
Console == INSTANCE QueueLock WITH Client <- Task, Lock <- {"console"}, line <- line

Char == {"plain", "newline", "delete"}

(* sem_count, and whether a task that called sem_wait was let through.      *)
Count(s) == IF credit[s] > 0 THEN credit[s] ELSE 0
Passed(t, s) == t \notin Range(semLine[s])
HoldsConsole(t) == line["console"] # <<>> /\ Head(line["console"]) = t

Goto(t, place) == pc' = [pc EXCEPT ![t] = place]

Init ==
  /\ ififo = <<>> /\ ofifo = <<>>
  /\ Sems!CreditInit
  /\ Console!LockInit
  /\ pc = [t \in Task |-> "user"]
  /\ ch = [t \in Task |-> "plain"]
  /\ len = [t \in Reader |-> 0]

-----------------------------------------------------------------------------
(* tty_fifo_put, which does nothing when the fifo is full.                  *)
Put(fifo, c, size) == IF Len(fifo) < size THEN Append(fifo, c) ELSE fifo

(* Faulty variant of Key: no sem_notify. *)
KeyNoNotify(c) ==
  /\ Count("isem") < IBuf
  /\ ififo' = Put(ififo, c, IBuf)
  /\ UNCHANGED <<ofifo, credit, semLine, line, pc, ch, len>>

(* tty_in, in the keyboard interrupt.  Whether there is room is asked of    *)
(* the semaphore, and the answer of the fifo is ignored.                    *)
Key(c) ==
  /\ Count("isem") < IBuf
  /\ ififo' = Put(ififo, c, IBuf)
  /\ Sems!Notify("isem")
  /\ UNCHANGED <<ofifo, line, pc, ch, len>>

-----------------------------------------------------------------------------
(* tty_read: every character costs a pass of isem. *)
ReadCall(r) ==
  /\ pc[r] = "user"
  /\ len' = [len EXCEPT ![r] = 0]
  /\ Sems!Wait(r, "isem")
  /\ Goto(r, "readWait")
  /\ UNCHANGED <<ififo, ofifo, line, ch>>

(* tty_fifo_get; ch keeps an arbitrary value when the fifo is empty. *)
ReadGet(r) ==
  /\ pc[r] = "readWait"
  /\ Passed(r, "isem")
  /\ \/ /\ ififo # <<>>
        /\ ch' = [ch EXCEPT ![r] = Head(ififo)]
        /\ ififo' = Tail(ififo)
     \/ /\ ififo = <<>>
        /\ \E c \in Char : ch' = [ch EXCEPT ![r] = c]
        /\ UNCHANGED ififo
  /\ Goto(r, "readStore")
  /\ UNCHANGED <<ofifo, credit, semLine, line, len>>

(* Where tty_read goes once it has dealt with a character. *)
AfterStore(n, c) ==
  IF c = "delete" /\ n = 0 THEN "readNext" ELSE IF Echo THEN "write" ELSE "readNext"

(* The switch on ch: a newline is stored as two characters if two fit.      *)
Stored(n, c) ==
  CASE c = "delete" -> IF n = 0 THEN 0 ELSE n - 1
    [] c = "newline" -> IF n < ReadSize - 1 THEN n + 2 ELSE n + 1
    [] OTHER -> n + 1

ReadStore(r) ==
  /\ pc[r] = "readStore"
  /\ len' = [len EXCEPT ![r] = Stored(@, ch[r])]
  /\ Goto(r, AfterStore(len[r], ch[r]))
  /\ UNCHANGED <<ififo, ofifo, credit, semLine, line, ch>>

ReadMore(r) ==
  /\ pc[r] = "readNext"
  /\ ch[r] # "newline" /\ len[r] < ReadSize
  /\ Sems!Wait(r, "isem")
  /\ Goto(r, "readWait")
  /\ ch' = [ch EXCEPT ![r] = "plain"]
  /\ UNCHANGED <<ififo, ofifo, line, len>>

ReadReturn(r) ==
  /\ pc[r] = "readNext"
  /\ ch[r] = "newline" \/ len[r] >= ReadSize
  /\ Goto(r, "user")
  /\ ch' = [ch EXCEPT ![r] = "plain"]
  /\ len' = [len EXCEPT ![r] = 0]
  /\ UNCHANGED <<ififo, ofifo, credit, semLine, line>>

-----------------------------------------------------------------------------
(* tty_write of one character, by a program or by the echo of tty_read. *)
WriteCall(t, c) ==
  /\ pc[t] = "user"
  /\ ch' = [ch EXCEPT ![t] = c]
  /\ Goto(t, "write")
  /\ UNCHANGED <<ififo, ofifo, credit, semLine, line, len>>

(* TTY_OCRLF is always set: a newline is preceded by a carriage return.     *)
WriteBegin(t) ==
  /\ pc[t] = "write"
  /\ Sems!Wait(t, "osem")
  /\ Goto(t, IF ch[t] = "newline" THEN "writeCr" ELSE "writeCh")
  /\ UNCHANGED <<ififo, ofifo, line, ch, len>>

WriteDone(t) == IF t \in Reader THEN "readNext" ELSE "user"

(* A put that fails ends the call. *)
HasRoom == Len(ofifo) < OBuf

(* Faulty variant of WriteCr: one pass of osem for both characters. *)
WriteCrFree(t) ==
  /\ pc[t] = "writeCr"
  /\ Passed(t, "osem")
  /\ ofifo' = Put(ofifo, "return", OBuf)
  /\ Goto(t, IF HasRoom THEN "writeCh" ELSE WriteDone(t))
  /\ UNCHANGED <<ififo, credit, semLine, line, ch, len>>

WriteCr(t) ==
  /\ pc[t] = "writeCr"
  /\ Passed(t, "osem")
  /\ ofifo' = Put(ofifo, "return", OBuf)
  /\ Goto(t, IF HasRoom THEN "writeCrDone" ELSE WriteDone(t))
  /\ UNCHANGED <<ififo, credit, semLine, line, ch, len>>

WriteNext(t) ==
  /\ pc[t] = "writeCrDone"
  /\ Sems!Wait(t, "osem")
  /\ Goto(t, "writeCh")
  /\ UNCHANGED <<ififo, ofifo, line, ch, len>>

WriteCh(t) ==
  /\ pc[t] = "writeCh"
  /\ Passed(t, "osem")
  /\ ofifo' = Put(ofifo, ch[t], OBuf)
  /\ IF HasRoom
       THEN Console!Enter(t, "console") /\ Goto(t, "drain")
       ELSE Goto(t, WriteDone(t)) /\ UNCHANGED line
  /\ UNCHANGED <<ififo, credit, semLine, ch, len>>

(* console_write: take a character, give its room back, show it, until the  *)
(* fifo is found empty.                                                     *)
DrainGet(t) ==
  /\ pc[t] = "drain"
  /\ HoldsConsole(t)
  /\ ofifo # <<>>
  /\ ofifo' = Tail(ofifo)
  /\ Goto(t, "drained")
  /\ UNCHANGED <<ififo, credit, semLine, line, ch, len>>

(* Faulty variant of DrainNotify: the room is not given back. *)
DrainNoNotify(t) ==
  /\ pc[t] = "drained"
  /\ Goto(t, "drain")
  /\ UNCHANGED <<ififo, ofifo, credit, semLine, line, ch, len>>

DrainNotify(t) ==
  /\ pc[t] = "drained"
  /\ Sems!Notify("osem")
  /\ Goto(t, "drain")
  /\ UNCHANGED <<ififo, ofifo, line, ch, len>>

DrainEnd(t) ==
  /\ pc[t] = "drain"
  /\ HoldsConsole(t)
  /\ ofifo = <<>>
  /\ Console!Leave("console")
  /\ Goto(t, WriteDone(t))
  /\ UNCHANGED <<ififo, ofifo, credit, semLine, ch, len>>

-----------------------------------------------------------------------------
WriteStep(t) ==
  \/ WriteBegin(t) \/ WriteCr(t) \/ WriteNext(t) \/ WriteCh(t)
  \/ DrainGet(t) \/ DrainNotify(t) \/ DrainEnd(t)

ReadStep(r) == ReadGet(r) \/ ReadStore(r) \/ ReadMore(r) \/ ReadReturn(r)

Next ==
  \/ \E c \in Char : Key(c)
  \/ \E t \in Task : WriteStep(t)
  \/ \E r \in Reader : ReadStep(r) \/ ReadCall(r)
  \/ \E w \in Writer, c \in Char : WriteCall(w, c)

Spec == Init /\ [][Next]_vars

FairSpec ==
  /\ Spec
  /\ \A t \in Task : WF_vars(WriteStep(t))
  /\ \A r \in Reader : WF_vars(ReadStep(r))

-----------------------------------------------------------------------------
Writing == {"write", "writeCr", "writeCrDone", "writeCh", "drain", "drained"}

TypeOK ==
  /\ ififo \in Seq(Char) /\ Len(ififo) <= IBuf
  /\ ofifo \in Seq(Char \cup {"return"}) /\ Len(ofifo) <= OBuf
  /\ credit \in [{"isem", "osem"} -> Int]
  /\ \A s \in {"isem", "osem"} : semLine[s] \in Seq(Task)
  /\ line["console"] \in Seq(Task)
  /\ pc \in [Task -> Writing \cup {"user", "readWait", "readStore", "readNext"}]
  /\ ch \in [Task -> Char]
  /\ len \in [Reader -> Nat]

(* Tasks that passed a semaphore and have not used it, and the task that    *)
(* took a character off the screen's fifo and has not given its room back.  *)
InFlight(s, places) == Cardinality({t \in Task : pc[t] \in places /\ Passed(t, s)})
Owing == Cardinality({t \in Task : pc[t] = "drained"})

(* Every place of the output fifo is a unit of osem, a stored character, or *)
(* in the hands of one task between the two: room is neither lost nor       *)
(* invented, whatever the number of writers and echoing readers.  So a      *)
(* writer that passed osem finds room, and tty_write drops no output.       *)
RoomConserved ==
  Count("osem") + Len(ofifo) + InFlight("osem", {"writeCr", "writeCh"}) + Owing = OBuf

(* No character waits in the input fifo without a unit of isem that will    *)
(* let a reader take it; and of units without a character, which tty_in     *)
(* makes when a reader that passed has not taken its character yet from a   *)
(* full fifo, there are never more than there are readers.                  *)
InputUnits == Count("isem") + InFlight("isem", {"readWait"})
InputMatched ==
  /\ Len(ififo) <= InputUnits
  /\ InputUnits <= Len(ififo) + Cardinality(Reader)

(* Every write ends: with more room than tasks, the second unit a newline   *)
(* needs comes in the end.                                                  *)
WritesEnd == \A t \in Task : pc[t] \in Writing ~> pc[t] \notin Writing

=============================================================================
