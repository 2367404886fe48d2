------------------------------ MODULE FatNames ------------------------------
(***************************************************************************)
(* The 8.3 names of a FAT16 directory (to_sfn, diritem_name_match and        *)
(* diritem_get_name of fs/fatfs/fatfs.c) as functions on sequences of        *)
(* characters, BaseLen of them before the dot and ExtLen after it.           *)
(***************************************************************************)
EXTENDS Integers, Sequences

CONSTANTS
  BaseLen, ExtLen,  \* 8 and 3
  Char,             \* characters of path names beside the dot
  MaxPath           \* bound: characters of a path name

VARIABLE path   \* the path name a program passes

Space == " "
Dot == "."

(* The shell takes its line apart at blanks, so that no name has one.       *)
ASSUME NamesAssumption ==
  /\ BaseLen \in Nat \ {0} /\ ExtLen \in Nat \ {0}
  /\ Char \cap {Space, Dot} = {}

SfnLen == BaseLen + ExtLen
Blank == [i \in 1 .. SfnLen |-> Space]

(* Faulty variant of Put: a dot moves on by one character only. *)
PutNoPad(st, c) ==
  IF st.curr > SfnLen THEN st
  ELSE IF c = Dot THEN [dest |-> st.dest, curr |-> st.curr + 1]
  ELSE [dest |-> [st.dest EXCEPT ![st.curr] = c], curr |-> st.curr + 1]

(* One character of a path name in to_sfn: a dot goes to the extension,     *)
(* from wherever the name is.  Upper and lower case are the same character  *)
(* here.                                                                    *)
Put(st, c) ==
  IF st.curr > SfnLen THEN st
  ELSE IF c = Dot THEN [dest |-> st.dest, curr |-> BaseLen + 1]
  ELSE [dest |-> [st.dest EXCEPT ![st.curr] = c], curr |-> st.curr + 1]

(* to_sfn, and what diritem_name_match compares with an entry. *)
ToSfn(name) ==
  LET put[n \in 0 .. Len(name)] ==
        IF n = 0 THEN [dest |-> Blank, curr |-> 1] ELSE Put(put[n - 1], name[n])
  IN put[Len(name)].dest

(* One character of an entry in diritem_get_name; the dot comes behind the  *)
(* last one of the base.                                                    *)
Show(name, sfn, i) ==
  LET shown == IF sfn[i] = Space THEN name ELSE Append(name, sfn[i])
  IN IF i = BaseLen THEN Append(shown, Dot) ELSE shown

(* diritem_get_name, which drops a dot with nothing behind it.  It clears   *)
(* one byte more than an entry has characters; a full name with its dot     *)
(* fills them all, and then the byte beyond them, whatever it is, ends the  *)
(* name or goes on with it.                                                 *)
Ends == "end"
GetName(sfn, beyond) ==
  LET shown[i \in 0 .. SfnLen] == IF i = 0 THEN <<>> ELSE Show(shown[i - 1], sfn, i)
      last == Len(shown[SfnLen])
      name == IF shown[SfnLen][last] = Dot THEN SubSeq(shown[SfnLen], 1, last - 1) ELSE shown[SfnLen]
  IN IF last <= SfnLen \/ beyond = Ends THEN name ELSE Append(name, beyond)

(* Every path name, one character at a time. *)
NamesInit == path = <<>>
NamesNext == IF Len(path) = MaxPath THEN path' = <<>> ELSE \E c \in Char \cup {Dot} : path' = Append(path, c)
NamesSpec == NamesInit /\ [][NamesNext]_path

(* The name a directory listing shows opens the file it belongs to, however *)
(* long the name was it was created by and wherever its dots were: the      *)
(* entry found is the same, even if a full name is shown with a tail.       *)
ListedNameOpens ==
  \A beyond \in Char \cup {Ends} : ToSfn(GetName(ToSfn(path), beyond)) = ToSfn(path)

=============================================================================
