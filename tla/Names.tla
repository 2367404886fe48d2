------------------------------- MODULE Names -------------------------------
(***************************************************************************)
(* Path names as the kernel takes them apart: the helpers of fs/fs.c, the   *)
(* comparison of tools/klib.c and the lookup of devfs_open.  A name is a    *)
(* sequence of characters; the empty one stands for a null pointer.         *)
(***************************************************************************)
EXTENDS Integers, SequencesExt, FiniteSetsExt

Null == <<>>
Digits == <<"0", "1", "2", "3", "4", "5", "6", "7", "8", "9">>

(* path_begin_with *)
BeginsWith(path, str) == IsPrefix(str, path)

(* path_next_child: what follows the first slash behind the first component. *)
NextChild(path) ==
  LET name  == {i \in DOMAIN path : path[i] # "/"}
      slash == {j \in DOMAIN path : path[j] = "/" /\ \E i \in name : i < j}
  IN IF slash = {} THEN Null ELSE SubSeq(path, Min(slash) + 1, Len(path))

(* path_to_num *)
PathToNum(path) == FoldLeft(LAMBDA n, c : 10 * n + IndexFirstSubSeq(<<c>>, Digits) - 1, 0, path)

(* kernel_strncmp says "equal": no difference up to the end of the shorter  *)
(* string, nor in the first size + 1 characters.                            *)
Alike(s, str, size) ==
  /\ s # Null /\ str # Null
  /\ \A i \in DOMAIN s \cap DOMAIN str : i <= size + 1 => s[i] = str[i]

(* devfs_open, of the name below the mount point, for the device type named *)
(* type: the minors it may ask dev_open for.  A name that ends within type  *)
(* or with it leaves minor as it was on the stack.                          *)
MinorsAsked(path, type, minors) ==
  IF ~ Alike(path, type, Len(type)) THEN {}
  ELSE IF Len(path) > Len(type)
         THEN {PathToNum(SubSeq(path, Len(type) + 1, Len(path)))}
         ELSE minors

=============================================================================
