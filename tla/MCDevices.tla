----------------------------- MODULE MCDevices -----------------------------
(* Instance of Devices for TLC. *)
EXTENDS Devices, TLC

CONSTANTS t1, t2

Tasks == {t1, t2}
Dev == <<"/", "d">>
Home == <<"/", "h">>
Tty == <<"t", "y">>
Below(point, rest) == point \o <<"/">> \o rest
Names == {
  Below(Dev, Tty \o <<"0">>), Below(Dev, Tty \o <<"1">>), Below(Dev, Tty), Below(Dev, <<"t">>),
  Below(Dev, <<"x">>), Dev, Below(Home, <<"f">>), <<"f">> }
ASSUME NamesFound == NamesAgree

Symm == Permutations(Task \ {Root})
=============================================================================
