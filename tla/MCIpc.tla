------------------------------- MODULE MCIpc -------------------------------
(* Instance of Ipc for TLC. *)
EXTENDS Ipc

CONSTANTS t1, t2, t3, m1, s1

MCTask == {t1, t2, t3}
MCMutex == {m1}
MCSem == {s1}
ZeroCount == [s \in Sem |-> 0]

=============================================================================
