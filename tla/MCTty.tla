-------------------------------- MODULE MCTty --------------------------------
(* Instance of Tty for TLC: one writer and two echoing readers. *)
EXTENDS Tty

CONSTANTS w1, r1, r2

OneWriter == {w1}
TwoReaders == {r1, r2}
=============================================================================
