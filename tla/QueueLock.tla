----------------------------- MODULE QueueLock -----------------------------
(* What the mutexes of ipc/mutex.c promise: at each lock the clients stand  *)
(* in one line, the first of the line holds the lock, and the lock passes   *)
(* from one to the next with nobody in between.                             *)
EXTENDS Sequences, Functions

CONSTANTS Client, Lock

VARIABLE line

LockInit == line = [l \in Lock |-> <<>>]

(* A client that is not in line joins its end. *)
Enter(c, l) ==
  /\ c \notin Range(line[l])
  /\ line' = [line EXCEPT ![l] = Append(@, c)]

(* The holder leaves; whoever is next holds the lock at once. *)
Leave(l) ==
  /\ line[l] # <<>>
  /\ line' = [line EXCEPT ![l] = Tail(@)]

LockNext == \E l \in Lock : Leave(l) \/ \E c \in Client : Enter(c, l)

LockSpec == LockInit /\ [][LockNext]_line
=============================================================================
