------------------------------ MODULE Keyboard ------------------------------
(***************************************************************************)
(* The keyboard driver dev/kbd.c: do_handler_kbd decodes scan codes, one    *)
(* byte per interrupt, into characters for tty_in and terminal numbers for  *)
(* tty_select.  The keyboard itself is external: it knows which keys are    *)
(* held down and queues the bytes of set 1 for every press, repeat and      *)
(* release.  A step is one interrupt or one movement of a finger.           *)
(***************************************************************************)
EXTENDS Integers, Sequences

CONSTANT MaxQueue   \* bytes the controller holds before the fingers wait

Shifts == {"lshift", "rshift"}
Ctrls == {"lctrl", "rctrl"}
Alts == {"lalt", "ralt"}
Modifiers == Shifts \cup Ctrls \cup Alts
FKeys == {"F1", "F2"}
Letters == {"a", "1"}

(* map_table: plain and shifted character of a key; a key without an entry  *)
(* has character 0 in both places.                                          *)
Nul == "NUL"
Normal(k) == CASE k = "a" -> "a" [] k = "1" -> "1" [] OTHER -> Nul
Func(k) == CASE k = "a" -> "A" [] k = "1" -> "!" [] OTHER -> Nul
OtherCase(c) == CASE c = "a" -> "A" [] c = "A" -> "a" [] OTHER -> c

(* What the handler calls: nothing, tty_in or tty_select. *)
None == <<"none">>
TtyIn(c) == <<"tty_in", c>>
TtySelect(k) == <<"tty_select", IF k = "F1" THEN 0 ELSE 1>>

VARIABLES
  keys,      \* the keys of the board that are used
  held,      \* those that are down
  odd,       \* whether Caps Lock was made an odd number of times
  queue,     \* bytes the handler has not read, with what each should cause
  recv,      \* recv_state
  pressed,   \* the press bits of kbd_stat
  caps,      \* kbd_stat.caps_lock
  event,     \* what the handler called last
  meant      \* history: what the byte it read should have caused

kbdVars == <<keys, held, odd, queue, recv, pressed, caps, event, meant>>

(* kbd_init, on a board with the keys in board *)
KbdInit(board) ==
  /\ keys = board /\ held = {} /\ odd = FALSE /\ queue = <<>>
  /\ recv = "NORMAL" /\ pressed = {} /\ caps = FALSE
  /\ event = None /\ meant = None

-----------------------------------------------------------------------------
(* The keyboard.  Left and right Ctrl share a byte and differ in a prefix,  *)
(* as do the Alts; Pause carries the byte of Ctrl, and Print Screen that of *)
(* the left Shift.                                                          *)
Plain(name, make) == <<[name |-> name, make |-> make]>>
Prefix(name) == Plain(name, TRUE)

Bytes(k, make) ==
  CASE k = "lctrl" -> Plain("ctrl", make)
    [] k = "rctrl" -> Prefix("E0") \o Plain("ctrl", make)
    [] k = "lalt" -> Plain("alt", make)
    [] k = "ralt" -> Prefix("E0") \o Plain("alt", make)
    [] k = "print" /\ make -> Prefix("E0") \o Plain("lshift", TRUE) \o Prefix("E0") \o Plain("print", TRUE)
    [] k = "print" /\ ~ make -> Prefix("E0") \o Plain("print", FALSE) \o Prefix("E0") \o Plain("lshift", FALSE)
    [] k = "pause" /\ make -> Prefix("E1") \o Plain("ctrl", TRUE) \o Plain("numlock", TRUE)
                              \o Prefix("E1") \o Plain("ctrl", FALSE) \o Plain("numlock", FALSE)
    [] k = "pause" /\ ~ make -> <<>>
    [] OTHER -> Plain(k, make)

(* What whoever holds the other keys down expects of this one. *)
Meaning(k, make) ==
  CASE k \in FKeys /\ held \cap Ctrls # {} -> TtySelect(k)
    [] k \in Letters /\ make ->
         LET c == IF held \cap Shifts # {} THEN Func(k) ELSE Normal(k)
         IN  TtyIn(IF odd THEN OtherCase(c) ELSE c)
    [] OTHER -> None

Send(k, make) ==
  LET b == Bytes(k, make)
  IN  /\ Len(queue) < MaxQueue
      /\ queue' = queue \o [i \in 1 .. Len(b) |-> [byte |-> b[i], means |-> Meaning(k, make)]]

(* A press, or the repeat of a key that stays down (Pause has none). *)
Press(k) ==
  /\ ~ (k = "pause" /\ k \in held)
  /\ Send(k, TRUE)
  /\ held' = held \cup {k}
  /\ odd' = IF k = "caps" THEN ~ odd ELSE odd
  /\ UNCHANGED <<keys, recv, pressed, caps, event, meant>>

Release(k) ==
  /\ k \in held
  /\ Send(k, FALSE)
  /\ held' = held \ {k}
  /\ UNCHANGED <<keys, odd, recv, pressed, caps, event, meant>>

-----------------------------------------------------------------------------
Track(bit, make) == pressed' = IF make THEN pressed \cup {bit} ELSE pressed \ {bit}

(* do_fx_key: on the make and on the break of the key *)
DoFxKey(k) ==
  /\ event' = IF pressed \cap Ctrls # {} THEN TtySelect(k) ELSE None
  /\ UNCHANGED <<pressed, caps>>

Character(k) ==
  LET c == IF pressed \cap Shifts # {} THEN Func(k) ELSE Normal(k)
  IN  IF caps THEN OtherCase(c) ELSE c

DoNormalKey(b) ==
  CASE b.name \in Shifts -> Track(b.name, b.make) /\ event' = None /\ UNCHANGED caps
    [] b.name = "caps" -> caps' = (caps # b.make) /\ event' = None /\ UNCHANGED pressed
    [] b.name = "alt" -> Track("lalt", b.make) /\ event' = None /\ UNCHANGED caps
    [] b.name = "ctrl" -> Track("lctrl", b.make) /\ event' = None /\ UNCHANGED caps
    [] b.name \in FKeys -> DoFxKey(b.name)
    [] b.name = "F9" -> event' = None /\ UNCHANGED <<pressed, caps>>
    [] OTHER -> event' = (IF b.make THEN TtyIn(Character(b.name)) ELSE None) /\ UNCHANGED <<pressed, caps>>

DoE0Key(b) ==
  /\ CASE b.name = "ctrl" -> Track("rctrl", b.make)
       [] b.name = "alt" -> Track("ralt", b.make)
       [] OTHER -> UNCHANGED pressed
  /\ event' = None
  /\ UNCHANGED caps

(* Faulty variant of Handler: the byte after E1 is taken for a key. *)
HandlerNoE1 ==
  /\ queue # <<>>
  /\ queue' = Tail(queue)
  /\ LET b == Head(queue).byte IN
       \/ /\ b.name \in {"E0", "E1"} /\ recv' = IF b.name = "E0" THEN "BEGIN_E0" ELSE recv
          /\ event' = None /\ UNCHANGED <<pressed, caps>>
       \/ /\ b.name \notin {"E0", "E1"} /\ recv' = "NORMAL"
          /\ IF recv = "BEGIN_E0" THEN DoE0Key(b) ELSE DoNormalKey(b)
  /\ meant' = Head(queue).means
  /\ UNCHANGED <<keys, held, odd>>

(* do_handler_kbd *)
Handler ==
  /\ queue # <<>>
  /\ queue' = Tail(queue)
  /\ LET b == Head(queue).byte IN
       \/ /\ b.name \in {"E0", "E1"}
          /\ recv' = IF b.name = "E0" THEN "BEGIN_E0" ELSE "BEGIN_E1"
          /\ event' = None /\ UNCHANGED <<pressed, caps>>
       \/ /\ b.name \notin {"E0", "E1"}
          /\ recv' = "NORMAL"
          /\ CASE recv = "NORMAL" -> DoNormalKey(b)
               [] recv = "BEGIN_E0" -> DoE0Key(b)
               [] recv = "BEGIN_E1" -> event' = None /\ UNCHANGED <<pressed, caps>>
  /\ meant' = Head(queue).means
  /\ UNCHANGED <<keys, held, odd>>

KbdNext == Handler \/ \E k \in keys : Press(k) \/ Release(k)

-----------------------------------------------------------------------------
(* Every character and every terminal switch is the one that the keys held  *)
(* down when the key moved stand for, although the bytes are decoded later, *)
(* one by one, and although Pause and Print Screen carry the bytes of Ctrl  *)
(* and Shift; and once all bytes are read the driver's bits are the keys    *)
(* that are down.  Keys without a character still type NUL, Pause too.      *)
KeysAsPressed ==
  /\ event # TtyIn(Nul) => event = meant
  /\ meant # None => event = meant
  /\ queue = <<>> => recv = "NORMAL" /\ pressed = held \cap Modifiers /\ caps = odd
=============================================================================
