------------------------------ MODULE Console ------------------------------
(***************************************************************************)
(* The screen part of dev/console.c: the escape parser and the cursor of    *)
(* each console, the display memory that all consoles share, and the        *)
(* hardware cursor of the console that is shown.                            *)
(*                                                                          *)
(* console_write runs under the console's mutex, and the order in which it  *)
(* takes characters out of the fifo is that in which they were put there    *)
(* (Tty models the fifo), so putting a character and acting on it is one    *)
(* step.  The hardware cursor is set after the mutex is released: the test  *)
(* for the shown console, the two reads of the cursor (the row first; C     *)
(* leaves the order to the compiler) and the output are four steps.         *)
(* console_select runs in the keyboard interrupt.                           *)
(***************************************************************************)
EXTENDS Integers, Sequences

LOCAL INSTANCE SequencesExt

CONSTANTS
  NConsole,   \* CONSOLE_NR
  Rows, Cols, \* CONSOLE_ROW_MAX, CONSOLE_COL_MAX
  ParamMax,   \* ESC_PARAM_MAX
  Big,        \* bound on a parameter: from here on all are alike
  Writer,     \* tasks that write to terminals
  At,         \* the console of each writer's terminal
  Texts       \* what the programs write, a sequence of characters at a time

ASSUME ConsoleAssumption ==
  /\ NConsole \in Nat \ {0} /\ Rows \in Nat \ {0} /\ Cols \in Nat \ {0} /\ ParamMax \in Nat \ {0, 1}
  /\ Big \in Nat /\ Big > Rows /\ Big > Cols
  /\ At \in [Writer -> 0 .. NConsole - 1] /\ "nobody" \notin Writer
  /\ \A text \in Texts : text \in Seq(STRING) /\ text # <<>>

Con == 0 .. NConsole - 1
Size == Rows * Cols
Digits == <<"0", "1", "2", "3", "4", "5", "6", "7", "8", "9">>
Min2(a, b) == IF a < b THEN a ELSE b
IsDigit(ch) == \E d \in 1 .. 10 : Digits[d] = ch
Value(ch) == (CHOOSE d \in 1 .. 10 : Digits[d] = ch) - 1
Blank == " "
NoWriter == "nobody"

VARIABLES
  con,      \* console_buf
  mem,      \* the characters in display memory, of one console after the other
  ready,    \* consoles that console_init has seen
  opened,   \* terminals that are open
  shown,    \* curr_console_index and the display start register
  hw,       \* the hardware cursor
  out,      \* what each writer has still to write
  pc,       \* where it is in tty_write
  pos,      \* the position it computes for the hardware cursor
  author,   \* history: the writer of the sequence the parser is in
  mixed,    \* history: consoles where one writer's output fell into another's sequence
  wild,     \* a digit was stored behind esc_param: nothing is known from then on
  late,     \* history: writers overtaken since they looked at the cursor
  blurred   \* history: the last to set the hardware cursor was late

conVars == <<con, mem, ready, opened, shown, hw, out, pc, pos, author, mixed, wild, late, blurred>>

Fresh == [row |-> 0, col |-> 0, oldRow |-> 0, oldCol |-> 0, mode |-> "NORMAL",
          param |-> [k \in 0 .. ParamMax - 1 |-> 0], idx |-> 0, fg |-> "White", bg |-> "Black"]

(* The log has opened terminal 0: its cursor and its display are as the     *)
(* firmware left them, the memory behind holds anything.                    *)
ConInit ==
  /\ \E row \in 0 .. Rows - 1, col \in 0 .. Cols - 1 :
       /\ con = [i \in Con |-> IF i # 0 THEN Fresh ELSE
                   [Fresh EXCEPT !.row = row, !.col = col, !.oldRow = row, !.oldCol = col]]
       /\ hw = row * Cols + col
  /\ mem = [a \in 0 .. NConsole * Size - 1 |-> "?"]
  /\ ready = {0} /\ opened = {0} /\ shown = 0
  /\ out = [w \in Writer |-> <<>>] /\ pc = [w \in Writer |-> "idle"] /\ pos = [w \in Writer |-> 0]
  /\ author = [i \in Con |-> NoWriter] /\ mixed = {} /\ wild = FALSE /\ late = {} /\ blurred = FALSE

-----------------------------------------------------------------------------
(* The functions of console.c, on a screen s: the record of a console with  *)
(* its number and the display memory in it.                                 *)
Address(s, row, col) == s.number * Size + row * Cols + col
Filled(s, from, to) == [a \in DOMAIN s.mem |-> IF a \in from .. to - 1 THEN Blank ELSE s.mem[a]]

(* Faulty variant of EraseRows: one row too many. *)
EraseRowsPast(s, first, last) ==
  [s EXCEPT !.mem = Filled(s, Address(s, first, 0), Address(s, last + 2, 0))]

EraseRows(s, first, last) ==
  [s EXCEPT !.mem = Filled(s, Address(s, first, 0), Address(s, last + 1, 0))]

ScrollUp(s) ==
  LET base == Address(s, 0, 0)
      moved == [a \in DOMAIN s.mem |->
                  IF a \in base .. base + Size - Cols - 1 THEN s.mem[a + Cols] ELSE s.mem[a]]
  IN  EraseRows([s EXCEPT !.mem = moved, !.row = @ - 1], Rows - 1, Rows - 1)

(* Faulty variant of MoveNextLine: scrolls one line too late. *)
MoveNextLineLate(s) == IF s.row + 1 > Rows THEN ScrollUp([s EXCEPT !.row = @ + 1]) ELSE [s EXCEPT !.row = @ + 1]

MoveNextLine(s) == IF s.row + 1 >= Rows THEN ScrollUp([s EXCEPT !.row = @ + 1]) ELSE [s EXCEPT !.row = @ + 1]

MoveForward(s) == IF s.col + 1 >= Cols THEN MoveNextLine([s EXCEPT !.col = 0]) ELSE [s EXCEPT !.col = @ + 1]

MoveBackword(s) ==
  IF s.col > 0 THEN [s EXCEPT !.col = @ - 1]
  ELSE IF s.row > 0 THEN [s EXCEPT !.row = @ - 1, !.col = Cols - 1] ELSE s

(* Beyond the memory of the display nothing is shown and nothing modelled. *)
ShowChar(s, ch) ==
  LET a == Address(s, s.row, s.col)
  IN  MoveForward([s EXCEPT !.mem = [b \in DOMAIN s.mem |-> IF b = a THEN ch ELSE s.mem[b]]])

EraseBackword(s) == IF MoveBackword(s) # s THEN MoveBackword(ShowChar(MoveBackword(s), Blank)) ELSE s

WriteNormal(s, ch) ==
  CASE ch = "ESC" -> [s EXCEPT !.mode = "ESC"]
    [] ch = "LF" -> MoveNextLine(s)
    [] ch = "DEL" -> EraseBackword(s)
    [] ch = "BS" -> MoveBackword(s)
    [] ch = "CR" -> [s EXCEPT !.col = 0]
    [] ch = "BEL" -> s
    [] OTHER -> ShowChar(s, ch)

WriteEsc(s, ch) ==
  CASE ch = "7" -> [s EXCEPT !.oldRow = s.row, !.oldCol = s.col, !.mode = "NORMAL"]
    [] ch = "8" -> [s EXCEPT !.row = s.oldRow, !.col = s.oldCol, !.mode = "NORMAL"]
    [] ch = "[" -> [s EXCEPT !.param = [k \in 0 .. ParamMax - 1 |-> 0], !.idx = 0, !.mode = "SQUARE"]
    [] OTHER -> [s EXCEPT !.mode = "NORMAL"]

ColorTable == <<"Black", "Red", "Green", "Yellow", "Blue", "Magenta", "Cyan", "White">>

(* The colours after parameter p; set_font_style goes through them all.     *)
(* Behind the array it reads curr_param_index, no colour.                   *)
Foreground(old, p) ==
  CASE p \in 30 .. 37 -> ColorTable[p - 29] [] p = 39 -> "White" [] OTHER -> old
Background(old, p) ==
  CASE p \in 40 .. 47 -> ColorTable[p - 39] [] p = 49 -> "Black" [] OTHER -> old
Params(s) == [k \in 1 .. Min2(s.idx + 1, ParamMax) |-> s.param[k - 1]]
NewForeground(s) == FoldLeft(Foreground, s.fg, Params(s))
NewBackground(s) == FoldLeft(Background, s.bg, Params(s))

SetFontStyle(s) == [s EXCEPT !.fg = NewForeground(s), !.bg = NewBackground(s)]

AtLeastOne(n) == IF n = 0 THEN 1 ELSE n
MoveLeft(s, n) == [s EXCEPT !.col = IF @ >= n THEN @ - n ELSE 0]
MoveRight(s, n) == [s EXCEPT !.col = IF @ + n >= Cols THEN Cols - 1 ELSE @ + n]
MoveCursor(s) == [s EXCEPT !.row = s.param[0], !.col = s.param[1]]
EraseInDisplay(s) ==
  IF s.param[0] = 2 THEN [EraseRows(s, 0, Rows - 1) EXCEPT !.row = 0, !.col = 0] ELSE s

Command(s, ch) ==
  CASE ch = "m" -> SetFontStyle(s)
    [] ch = "D" -> MoveLeft(s, AtLeastOne(s.param[0]))
    [] ch = "C" -> MoveRight(s, AtLeastOne(s.param[0]))
    [] ch \in {"f", "H"} -> MoveCursor(s)
    [] ch = "J" -> EraseInDisplay(s)
    [] OTHER -> s

Overruns(s, ch) == s.mode = "SQUARE" /\ IsDigit(ch) /\ s.idx = ParamMax

WriteEscSquare(s, ch) ==
  CASE IsDigit(ch) -> IF Overruns(s, ch) THEN s
                      ELSE [s EXCEPT !.param[s.idx] = Min2(@ * 10 + Value(ch), Big)]
    [] ch = ";" /\ s.idx < ParamMax -> [s EXCEPT !.idx = @ + 1]
    [] OTHER -> [Command(s, ch) EXCEPT !.mode = "NORMAL"]

(* The loop of console_write on one character *)
Written(s, ch) ==
  CASE s.mode = "NORMAL" -> WriteNormal(s, ch)
    [] s.mode = "ESC" -> WriteEsc(s, ch)
    [] s.mode = "SQUARE" -> WriteEscSquare(s, ch)

-----------------------------------------------------------------------------
Screen(i) ==
  [f \in DOMAIN Fresh \cup {"number", "mem"} |->
     CASE f = "number" -> i [] f = "mem" -> mem [] OTHER -> con[i][f]]
Store(i, s) ==
  /\ con' = [con EXCEPT ![i] = [f \in DOMAIN Fresh |-> s[f]]]
  /\ mem' = s.mem

Goto(w, place) == pc' = [pc EXCEPT ![w] = place]
RowAddress(i) == i * Size + con[i].row * Cols
CursorAddress(i) == RowAddress(i) + con[i].col

(* Writer w's character is taken into account. *)
Emit(w, ch) ==
  LET i == At[w]
      s == Written(Screen(i), ch)
  IN  /\ Store(i, s)
      /\ author' = [author EXCEPT ![i] = IF s.mode = "NORMAL" THEN NoWriter
                                         ELSE IF con[i].mode = "NORMAL" THEN w ELSE @]
      /\ mixed' = IF author[i] \notin {w, NoWriter} THEN mixed \cup {i} ELSE mixed
      /\ wild' = (wild \/ Overruns(Screen(i), ch))
      /\ late' = late \cup {v \in Writer \ {w} : At[v] = i /\ pc[v] \in {"column", "output"}}

WriteCall(w) ==
  /\ pc[w] = "idle" /\ At[w] \in opened
  /\ \E text \in Texts : out' = [out EXCEPT ![w] = text]
  /\ Goto(w, "char")
  /\ UNCHANGED <<con, mem, ready, opened, shown, hw, pos, author, mixed, wild, late, blurred>>

(* tty_write puts a carriage return of its own before a line feed. *)
WriteReturn(w) ==
  /\ pc[w] = "char" /\ Head(out[w]) = "LF"
  /\ Emit(w, "CR")
  /\ Goto(w, "feed")
  /\ UNCHANGED <<ready, opened, shown, hw, out, pos, blurred>>

WriteChar(w) ==
  /\ pc[w] = "feed" \/ (pc[w] = "char" /\ Head(out[w]) # "LF")
  /\ Emit(w, Head(out[w]))
  /\ out' = [out EXCEPT ![w] = Tail(@)]
  /\ Goto(w, "written")
  /\ UNCHANGED <<ready, opened, shown, hw, pos, blurred>>

Onward(w) == Goto(w, IF out[w] = <<>> THEN "idle" ELSE "char")

IsShown(w) ==
  /\ pc[w] = "written"
  /\ IF At[w] = shown THEN Goto(w, "compute") ELSE Onward(w)
  /\ UNCHANGED <<con, mem, ready, opened, shown, hw, out, pos, author, mixed, wild, late, blurred>>

(* update_cursor_pos reads the cursor of a console that may be written to.  *)
ComputeRow(w) ==
  /\ pc[w] = "compute"
  /\ pos' = [pos EXCEPT ![w] = RowAddress(At[w])]
  /\ Goto(w, "column")
  /\ UNCHANGED <<con, mem, ready, opened, shown, hw, out, author, mixed, wild, late, blurred>>

ComputeCol(w) ==
  /\ pc[w] = "column"
  /\ pos' = [pos EXCEPT ![w] = @ + con[At[w]].col]
  /\ Goto(w, "output")
  /\ UNCHANGED <<con, mem, ready, opened, shown, hw, out, author, mixed, wild, late, blurred>>

OutputPos(w) ==
  /\ pc[w] = "output"
  /\ hw' = pos[w]
  /\ pos' = [pos EXCEPT ![w] = 0]
  /\ Onward(w)
  /\ late' = late \ {w}
  /\ blurred' = (w \in late)
  /\ UNCHANGED <<con, mem, ready, opened, shown, out, author, mixed, wild>>

(* console_init of a display that is not the boot display *)
Reset(i) ==
  /\ con' = [con EXCEPT ![i] = Fresh]
  /\ mem' = Filled([mem |-> mem], i * Size, (i + 1) * Size)
  /\ ready' = ready \cup {i}
  /\ author' = [author EXCEPT ![i] = NoWriter]

(* Faulty variant of ConsoleSelect: the hardware cursor stays. *)
ConsoleSelectOnly(i) ==
  /\ i # shown
  /\ IF i \in ready THEN UNCHANGED <<con, mem, ready, author>> ELSE Reset(i)
  /\ shown' = i /\ blurred' = FALSE
  /\ late' = late \cup {w \in Writer : pc[w] \in {"compute", "column", "output"}}
  /\ UNCHANGED <<opened, hw, out, pc, pos, mixed, wild>>

(* tty_select (only of another terminal) and console_select *)
ConsoleSelect(i) ==
  /\ i # shown
  /\ IF i \in ready THEN UNCHANGED <<con, mem, ready, author>> ELSE Reset(i)
  /\ shown' = i
  /\ hw' = CursorAddress(i)'
  /\ blurred' = FALSE
  /\ late' = late \cup {w \in Writer : pc[w] \in {"compute", "column", "output"}}
  /\ UNCHANGED <<opened, out, pc, pos, mixed, wild>>

(* The first open of terminal i, and one after its last close: the console  *)
(* starts anew, its cursor is not shown.                                    *)
TtyOpen(i) ==
  /\ i \notin opened
  /\ opened' = opened \cup {i}
  /\ Reset(i)
  /\ blurred' = (blurred \/ i = shown)
  /\ UNCHANGED <<shown, hw, out, pc, pos, mixed, wild, late>>

TtyClose(i) ==
  /\ i \in opened \ {0}
  /\ \A w \in Writer : At[w] = i => pc[w] = "idle"
  /\ opened' = opened \ {i}
  /\ UNCHANGED <<con, mem, ready, shown, hw, out, pc, pos, author, mixed, wild, late, blurred>>

WriterStep(w) ==
  \/ WriteCall(w) \/ WriteReturn(w) \/ WriteChar(w)
  \/ IsShown(w) \/ ComputeRow(w) \/ ComputeCol(w) \/ OutputPos(w)

-----------------------------------------------------------------------------
OnScreen(row, col) == row \in 0 .. Rows - 1 /\ col \in 0 .. Cols - 1

(* A text that only addresses the screen, read by itself: its escape        *)
(* sequences are complete, with no more parameters than the array has room  *)
(* for and no address outside the screen.  seen[k] is the parser after k    *)
(* characters.                                                              *)
Started == [mode |-> "NORMAL", idx |-> 0, param |-> [k \in 0 .. ParamMax - 1 |-> 0]]
Parse(q, ch) ==
  CASE q.mode = "NORMAL" -> [q EXCEPT !.mode = IF ch = "ESC" THEN "ESC" ELSE @]
    [] q.mode = "ESC" -> IF ch # "[" THEN [q EXCEPT !.mode = "NORMAL"]
                         ELSE [mode |-> "SQUARE", idx |-> 0, param |-> [k \in 0 .. ParamMax - 1 |-> 0]]
    [] q.mode = "SQUARE" -> IF IsDigit(ch) THEN [q EXCEPT !.param[q.idx] = Min2(@ * 10 + Value(ch), Big)]
                            ELSE IF ch = ";" THEN [q EXCEPT !.idx = @ + 1]
                            ELSE [q EXCEPT !.mode = "NORMAL"]
Fits(q, ch) ==
  q.mode = "SQUARE" => /\ ch = ";" => q.idx + 1 < ParamMax
                       /\ ch \in {"f", "H"} => OnScreen(q.param[0], q.param[1])
Addressing(seen, text) ==
  /\ seen[0] = Started /\ seen[Len(text)].mode = "NORMAL"
  /\ \A k \in 1 .. Len(text) : Fits(seen[k - 1], text[k]) /\ seen[k] = Parse(seen[k - 1], text[k])

(* As long as no output of one task fell into an escape sequence of another *)
(* on the same terminal, programs that only address the screen keep the     *)
(* cursor and the saved cursor on it and the parameters in their array.     *)
CursorOnScreen ==
  /\ \A i \in Con \ mixed :
       /\ OnScreen(con[i].row, con[i].col) /\ OnScreen(con[i].oldRow, con[i].oldCol)
       /\ con[i].idx < ParamMax
  /\ wild => mixed # {}

(* The display memory of a console is changed only by writes to it, again   *)
(* unless sequences were mixed.                                             *)
OwnDisplay ==
  [][\A i \in Con : mixed' = {} /\ (\E w \in Writer : At[w] # i /\ pc[w] \in {"char", "feed"} /\ pc'[w] # pc[w]) =>
       \A a \in i * Size .. (i + 1) * Size - 1 : mem'[a] = mem[a]]_conVars

(* When no write is under way the hardware cursor is that of the console    *)
(* that is shown, unless the last to set it was overtaken between its look  *)
(* at the cursor and its output, or the shown terminal was opened anew.     *)
CursorFollows ==
  (\A w \in Writer : pc[w] = "idle") /\ ~ blurred => hw = CursorAddress(shown)

=============================================================================
