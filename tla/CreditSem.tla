----------------------------- MODULE CreditSem -----------------------------
(* What the semaphores of ipc/sem.c promise: each is a credit that a wait   *)
(* lowers and a notification raises by one, always; a client waits exactly  *)
(* while its wait brought the credit below zero, and clients are let        *)
(* through in the order they came.                                          *)
EXTENDS Integers, Sequences, Functions

CONSTANTS Client, Sema, InitCredit

VARIABLES credit, line

CreditInit == credit = InitCredit /\ line = [s \in Sema |-> <<>>]

Wait(c, s) ==
  /\ c \notin Range(line[s])
  /\ credit' = [credit EXCEPT ![s] = @ - 1]
  /\ line' = [line EXCEPT ![s] = IF credit[s] > 0 THEN @ ELSE Append(@, c)]

Notify(s) ==
  /\ credit' = [credit EXCEPT ![s] = @ + 1]
  /\ line' = [line EXCEPT ![s] = IF credit[s] < 0 THEN Tail(@) ELSE @]

CreditNext == \E s \in Sema : Notify(s) \/ \E c \in Client : Wait(c, s)

CreditSpec == CreditInit /\ [][CreditNext]_<<credit, line>>
=============================================================================
