----------------------------- MODULE FileTable -----------------------------
(***************************************************************************)
(* The table of open files: fs/file.c, the open, close and dup calls of     *)
(* fs/fs.c, and the descriptors that fork copies and exit closes            *)
(* (core/task.c).  file_alloc, file_free and file_inc_ref run under         *)
(* file_alloc_mutex and are one step each; sys_close decrements the count   *)
(* outside that mutex, so its load and its store are two.  The open and     *)
(* close of the file system below may block and always stand alone.         *)
(***************************************************************************)
EXTENDS Integers, FiniteSets

CONSTANTS
  Task,        \* tasks that may exist
  Root,        \* the first task
  NFile,       \* FILE_TABLE_SIZE
  NFd,         \* TASK_OFILE_NR
  ClosesAlone, \* whether no file call of another task overlaps a sys_close
  MaxRef       \* bound on a count: dup and fork stop there

ASSUME FileAssumption ==
  /\ IsFiniteSet(Task) /\ Root \in Task
  /\ NFile \in Nat \ {0} /\ NFd \in Nat \ {0} /\ ClosesAlone \in BOOLEAN /\ MaxRef \in Nat

File == 1 .. NFile
Fd == 0 .. NFd - 1
NoFile == 0      \* a null file_t pointer
NoFd == -1

VARIABLES
  ref,      \* file_t.ref
  opened,   \* the file system below holds the file open for this slot
  fds,      \* task_t.file_table
  alive,    \* tasks that run
  exiting,  \* tasks in sys_exit
  pc,       \* where each task is in its call
  cur,      \* its local p_file (in fork: the next descriptor to copy is fd)
  fd,       \* its local descriptor
  old,      \* ref as sys_close loaded it
  child,    \* the task a fork is filling in
  wiped     \* history: descriptors of each file that a failed open cleared

vars == <<ref, opened, fds, alive, exiting, pc, cur, fd, old, child, wiped>>

Init ==
  /\ ref = [f \in File |-> 0]
  /\ opened = [f \in File |-> FALSE]
  /\ fds = [t \in Task |-> [d \in Fd |-> NoFile]]
  /\ alive = {Root}
  /\ exiting = {}
  /\ pc = [t \in Task |-> "user"]
  /\ cur = [t \in Task |-> NoFile]
  /\ fd = [t \in Task |-> NoFd]
  /\ old = [t \in Task |-> 0]
  /\ child = [t \in Task |-> t]
  /\ wiped = [f \in File |-> 0]

(* Tasks read and write open files ("io", in Devices) beside any other call. *)
Quiet == \A t \in Task : pc[t] \in {"user", "io"}
Closing(t) == pc[t] \in {"closeLoad", "closeStore", "fsClose", "closeFree", "closeRemove"}
MayCall(t) ==
  /\ t \in alive /\ pc[t] = "user"
  /\ ClosesAlone => \A u \in Task : ~ Closing(u)
Goto(t, place) == pc' = [pc EXCEPT ![t] = place]

(* The end of a call: its locals are dead. *)
Return(t) ==
  /\ Goto(t, "user")
  /\ cur' = [cur EXCEPT ![t] = NoFile]
  /\ fd' = [fd EXCEPT ![t] = NoFd]

FirstFreeFd(t, d) == fds[t][d] = NoFile /\ \A e \in Fd : e < d => fds[t][e] # NoFile
FirstFreeFile(f) == ref[f] = 0 /\ \A g \in File : g < f => ref[g] # 0

SetFd(t, d, f) == fds' = [fds EXCEPT ![t][d] = f]

-----------------------------------------------------------------------------
(* sys_open *)
OpenCall(t) ==
  /\ MayCall(t) /\ t \notin exiting
  /\ Goto(t, "fileAlloc")
  /\ UNCHANGED <<ref, opened, fds, alive, exiting, cur, fd, old, child, wiped>>

FileAlloc(t) ==
  /\ pc[t] = "fileAlloc"
  /\ \E f \in File :
       /\ FirstFreeFile(f)
       /\ ref' = [ref EXCEPT ![f] = 1]
       /\ cur' = [cur EXCEPT ![t] = f]
  /\ Goto(t, "allocFd")
  /\ UNCHANGED <<opened, fds, alive, exiting, fd, old, child, wiped>>

(* The table is full: the failure path is entered with a null file and with *)
(* fd never written, so that task_remove_fd may clear any descriptor.       *)
FileAllocFull(t) ==
  /\ pc[t] = "fileAlloc"
  /\ \A f \in File : ref[f] # 0
  /\ \/ \E d \in Fd :
          /\ SetFd(t, d, NoFile)
          /\ wiped' = [f \in File |-> wiped[f] + IF fds[t][d] = f THEN 1 ELSE 0]
     \/ UNCHANGED <<fds, wiped>>
  /\ Return(t)
  /\ UNCHANGED <<ref, opened, alive, exiting, old, child>>

AllocFd(t) ==
  /\ pc[t] = "allocFd"
  /\ \E d \in Fd :
       /\ FirstFreeFd(t, d)
       /\ SetFd(t, d, cur[t])
       /\ fd' = [fd EXCEPT ![t] = d]
  /\ Goto(t, "fsOpen")
  /\ UNCHANGED <<ref, opened, alive, exiting, cur, old, child, wiped>>

AllocFdFull(t) ==
  /\ pc[t] = "allocFd"
  /\ \A d \in Fd : fds[t][d] # NoFile
  /\ Goto(t, "openFree")
  /\ UNCHANGED <<ref, opened, fds, alive, exiting, cur, fd, old, child, wiped>>

FsOpen(t) ==
  /\ pc[t] = "fsOpen"
  /\ opened' = [opened EXCEPT ![cur[t]] = TRUE]
  /\ Return(t)
  /\ UNCHANGED <<ref, fds, alive, exiting, old, child, wiped>>

FsOpenFails(t) ==
  /\ pc[t] = "fsOpen"
  /\ Goto(t, "openFree")
  /\ UNCHANGED <<ref, opened, fds, alive, exiting, cur, fd, old, child, wiped>>

(* file_free *)
Freed(f) == [ref EXCEPT ![f] = IF @ = 0 THEN 0 ELSE @ - 1]

OpenFree(t) ==
  /\ pc[t] = "openFree"
  /\ ref' = Freed(cur[t])
  /\ Goto(t, "openRemove")
  /\ UNCHANGED <<opened, fds, alive, exiting, cur, fd, old, child, wiped>>

OpenRemove(t) ==
  /\ pc[t] = "openRemove"
  /\ IF fd[t] \in Fd THEN SetFd(t, fd[t], NoFile) ELSE UNCHANGED fds
  /\ Return(t)
  /\ UNCHANGED <<ref, opened, alive, exiting, old, child, wiped>>

-----------------------------------------------------------------------------
(* sys_dup of descriptor d; without a free descriptor nothing happens. *)
DupCall(t, d) ==
  /\ MayCall(t) /\ t \notin exiting
  /\ fds[t][d] # NoFile
  /\ ref[fds[t][d]] < MaxRef
  /\ \E e \in Fd : FirstFreeFd(t, e) /\ SetFd(t, e, fds[t][d])
  /\ cur' = [cur EXCEPT ![t] = fds[t][d]]
  /\ Goto(t, "dupInc")
  /\ UNCHANGED <<ref, opened, alive, exiting, fd, old, child, wiped>>

(* Faulty variant of DupInc: no file_inc_ref. *)
DupNoInc(t) ==
  /\ pc[t] = "dupInc"
  /\ Return(t)
  /\ UNCHANGED <<ref, opened, fds, alive, exiting, old, child, wiped>>

DupInc(t) ==
  /\ pc[t] = "dupInc"
  /\ ref' = [ref EXCEPT ![cur[t]] = @ + 1]
  /\ Return(t)
  /\ UNCHANGED <<opened, fds, alive, exiting, old, child, wiped>>

-----------------------------------------------------------------------------
(* sys_close of descriptor d, from the program or from the loop in sys_exit *)
(* that closes the lowest descriptor that is left.                          *)
CloseCall(t, d) ==
  /\ MayCall(t)
  /\ ClosesAlone => Quiet
  /\ fds[t][d] # NoFile
  /\ t \in exiting => \A e \in Fd : e < d => fds[t][e] = NoFile
  /\ cur' = [cur EXCEPT ![t] = fds[t][d]]
  /\ fd' = [fd EXCEPT ![t] = d]
  /\ Goto(t, "closeLoad")
  /\ UNCHANGED <<ref, opened, fds, alive, exiting, old, child, wiped>>

(* The load of p_file->ref--, after the assertion on it. *)
CloseLoad(t) ==
  /\ pc[t] = "closeLoad"
  /\ ref[cur[t]] > 0
  /\ old' = [old EXCEPT ![t] = ref[cur[t]]]
  /\ Goto(t, "closeStore")
  /\ UNCHANGED <<ref, opened, fds, alive, exiting, cur, fd, child, wiped>>

CloseStore(t) ==
  /\ pc[t] = "closeStore"
  /\ ref' = [ref EXCEPT ![cur[t]] = old[t] - 1]
  /\ Goto(t, IF old[t] = 1 THEN "fsClose" ELSE "closeRemove")
  /\ old' = [old EXCEPT ![t] = 0]
  /\ UNCHANGED <<opened, fds, alive, exiting, cur, fd, child, wiped>>

FsClose(t) ==
  /\ pc[t] = "fsClose"
  /\ opened' = [opened EXCEPT ![cur[t]] = FALSE]
  /\ Goto(t, "closeFree")
  /\ UNCHANGED <<ref, fds, alive, exiting, cur, fd, old, child, wiped>>

CloseFree(t) ==
  /\ pc[t] = "closeFree"
  /\ ref' = Freed(cur[t])
  /\ Goto(t, "closeRemove")
  /\ UNCHANGED <<opened, fds, alive, exiting, cur, fd, old, child, wiped>>

CloseRemove(t) ==
  /\ pc[t] = "closeRemove"
  /\ SetFd(t, fd[t], NoFile)
  /\ Return(t)
  /\ UNCHANGED <<ref, opened, alive, exiting, old, child, wiped>>

-----------------------------------------------------------------------------
(* copy_opened_files in sys_fork, one descriptor per step, into a table     *)
(* that task_init cleared.                                                  *)
ForkCall(t, u) ==
  /\ MayCall(t) /\ t \notin exiting
  /\ \A f \in File : ref[f] < MaxRef
  /\ u \notin alive /\ \A v \in Task \ {u} : child[v] # u
  /\ fds' = [fds EXCEPT ![u] = [d \in Fd |-> NoFile]]
  /\ child' = [child EXCEPT ![t] = u]
  /\ fd' = [fd EXCEPT ![t] = 0]
  /\ Goto(t, "copy")
  /\ UNCHANGED <<ref, opened, alive, exiting, cur, old, wiped>>

CopyOne(t) ==
  /\ pc[t] = "copy" /\ fd[t] \in Fd
  /\ IF fds[t][fd[t]] # NoFile
       THEN /\ ref' = [ref EXCEPT ![fds[t][fd[t]]] = @ + 1]
            /\ SetFd(child[t], fd[t], fds[t][fd[t]])
       ELSE UNCHANGED <<ref, fds>>
  /\ fd' = [fd EXCEPT ![t] = @ + 1]
  /\ UNCHANGED <<opened, alive, exiting, pc, cur, old, child, wiped>>

CopyDone(t) ==
  /\ pc[t] = "copy" /\ fd[t] = NFd
  /\ alive' = alive \cup {child[t]}
  /\ child' = [child EXCEPT ![t] = t]
  /\ Return(t)
  /\ UNCHANGED <<ref, opened, fds, exiting, old, wiped>>

(* sys_exit; the first task never exits. *)
ExitCall(t) ==
  /\ t # Root
  /\ MayCall(t) /\ t \notin exiting
  /\ exiting' = exiting \cup {t}
  /\ UNCHANGED <<ref, opened, fds, alive, pc, cur, fd, old, child, wiped>>

ExitDone(t) ==
  /\ t \in exiting
  /\ pc[t] = "user"
  /\ \A d \in Fd : fds[t][d] = NoFile
  /\ alive' = alive \ {t}
  /\ exiting' = exiting \ {t}
  /\ UNCHANGED <<ref, opened, fds, pc, cur, fd, old, child, wiped>>

-----------------------------------------------------------------------------
(* The steps that only the table and the descriptors know of. *)
TableStep(t) ==
  \/ OpenCall(t) \/ FileAllocFull(t) \/ AllocFd(t) \/ AllocFdFull(t)
  \/ FsOpenFails(t) \/ OpenFree(t) \/ OpenRemove(t)
  \/ DupInc(t)
  \/ CloseLoad(t) \/ CloseStore(t) \/ CloseFree(t) \/ CloseRemove(t)
  \/ CopyOne(t) \/ CopyDone(t) \/ ExitCall(t) \/ ExitDone(t)
  \/ \E d \in Fd : DupCall(t, d) \/ CloseCall(t, d)
  \/ \E u \in Task : ForkCall(t, u)

Next == \E t \in Task : TableStep(t) \/ FileAlloc(t) \/ FsOpen(t) \/ FsClose(t)

Spec == Init /\ [][Next]_vars

-----------------------------------------------------------------------------
TypeOK ==
  /\ ref \in [File -> 0 .. MaxRef + Cardinality(Task) * NFd]
  /\ opened \in [File -> BOOLEAN]
  /\ fds \in [Task -> [Fd -> File \cup {NoFile}]]
  /\ exiting \subseteq alive /\ alive \subseteq Task
  /\ cur \in [Task -> File \cup {NoFile}]
  /\ fd \in [Task -> Fd \cup {NoFd, NFd}]
  /\ old \in [Task -> 0 .. MaxRef + Cardinality(Task) * NFd]
  /\ child \in [Task -> Task]
  /\ wiped \in [File -> 0 .. MaxRef + Cardinality(Task) * NFd]

Holders(f) == {h \in Task \X Fd : fds[h[1]][h[2]] = f}

(* Between calls the count of a slot is the number of descriptors, of all   *)
(* tasks, that refer to it, plus those that an open without a free file     *)
(* cleared by accident: no other call, however it ended, leaks a slot.  And *)
(* at any time a descriptor a program holds refers to a file that the file  *)
(* system has open and that file_alloc cannot give to somebody else.        *)
RefExact ==
  /\ Quiet => \A f \in File : ref[f] = Cardinality(Holders(f)) + wiped[f]
  /\ \A t \in alive, d \in Fd :
       LET f == fds[t][d] IN pc[t] = "user" /\ f # NoFile => ref[f] > 0 /\ opened[f]

(* ASSERT(p_file->ref > 0) of sys_close (fs.c:206). *)
CloseAssert == \A t \in Task : pc[t] = "closeLoad" => ref[cur[t]] > 0

=============================================================================
