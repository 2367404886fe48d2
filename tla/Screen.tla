------------------------------- MODULE Screen -------------------------------
(***************************************************************************)
(* The keyboard interrupt beside the tasks that write to terminals: what    *)
(* do_handler_kbd calls is done in the same interrupt.  Characters go to    *)
(* the input fifo (Tty) and change nothing here; Ctrl with a function key   *)
(* selects the terminal that is shown.                                      *)
(***************************************************************************)
EXTENDS Keyboard, Console

vars == <<kbdVars, conVars>>

Quiet == UNCHANGED conVars

Interrupt ==
  /\ Handler
  /\ \/ \E i \in Con \ {shown} : event' = <<"tty_select", i>> /\ ConsoleSelect(i)
     \/ (\A i \in Con \ {shown} : event' # <<"tty_select", i>>) /\ Quiet

(* What the interrupt may do to the consoles at any moment. *)
Selection == (\E i \in Con : ConsoleSelect(i)) /\ UNCHANGED kbdVars

Fingers == (\E k \in keys : Press(k) \/ Release(k)) /\ Quiet

Writers == (\E w \in Writer : WriterStep(w)) /\ UNCHANGED kbdVars
Opens == (\E i \in Con : TtyOpen(i) \/ TtyClose(i)) /\ UNCHANGED kbdVars

ScreenInit(board) == KbdInit(board) /\ ConInit

(* Nothing is known any more once the console is wild. *)
ScreenNext == ~ wild /\ (Interrupt \/ Selection \/ Fingers \/ Writers \/ Opens)

ScreenSpec(board) == ScreenInit(board) /\ [][ScreenNext]_vars

=============================================================================
