------------------------------ MODULE MCScreen ------------------------------
(***************************************************************************)
(* Three instances of Screen for TLC, chosen by the initial state: a whole  *)
(* keyboard of which up to three keys are held down, with nobody writing; a *)
(* writer of three texts, or of two wherever the firmware left the cursor,  *)
(* while terminals are opened and closed; and two writers of one text each  *)
(* on one terminal.  In the last two the keyboard selects terminals at any  *)
(* moment.                                                                  *)
(***************************************************************************)
EXTENDS Screen, FiniteSets, TLC

CONSTANTS w1, w2

Two == {w1, w2}
Both == [w \in Two |-> 0]

Whole == Modifiers \cup FKeys \cup {"caps", "a", "1", "F9", "up", "print", "pause", "numlock"}

Esc(rest) == <<"ESC">> \o rest
TextSet ==
  { <<"x">>, <<"x", "LF">>, <<";", "1">>, <<"DEL">>, <<"BS">>,
    Esc(<<"[", "2", "J">>), Esc(<<"[", "1", ";", "1", "H">>), Esc(<<"[", "3", "1", "m">>),
    Esc(<<"[", "C">>), Esc(<<"[", "D">>), Esc(<<"7">>), Esc(<<"8">>) }

(* The texts only address the screen. *)
ASSUME TextsAddress ==
  \A text \in TextSet :
    LET seen[k \in 0 .. Len(text)] == IF k = 0 THEN Started ELSE Parse(seen[k - 1], text[k])
    IN  Addressing(seen, text)

VARIABLE calls   \* how often each writer will still write

Init ==
  /\ ConInit
  /\ \/ KbdInit(Whole) /\ calls = [w \in Writer |-> 0]
     \/ KbdInit({}) /\ calls \in {(w1 :> 3) @@ (w2 :> 0), (w1 :> 2) @@ (w2 :> 0), (w1 :> 1) @@ (w2 :> 1)}
  /\ hw = 0 \/ calls[w1] = 2

Next ==
  \/ (Interrupt \/ Fingers) /\ Cardinality(held') <= 3 /\ UNCHANGED calls
  \/ keys = {} /\ Selection /\ UNCHANGED calls
  \/ keys = {} /\ Opens /\ calls[w2] = 0 /\ pc[w2] = "idle" /\ UNCHANGED calls
  \/ /\ keys = {} /\ Writers
     /\ \A w \in Writer : pc[w] = "idle" /\ pc'[w] = "char" => calls[w] > 0
     /\ calls' = [w \in Writer |-> calls[w] - IF pc[w] = "idle" /\ pc'[w] = "char" THEN 1 ELSE 0]

Spec == Init /\ [][~ wild /\ Next]_<<vars, calls>>
=============================================================================
