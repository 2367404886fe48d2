------------------------------- MODULE FatDir -------------------------------
(***************************************************************************)
(* Listing the root directory of Fat (opendir, readdir and closedir of       *)
(* fs/fatfs/fatfs.c) while other calls create and remove files.  A listing   *)
(* keeps nothing but an index between two calls.                             *)
(***************************************************************************)
EXTENDS Fat

VARIABLES
  index,   \* DIR.index of the listing, counted from 1; 0: none is open
  ended,   \* readdir returned -1
  listed,  \* history: how often each name was returned
  steady   \* history: the names a lookup would have found all the while

dirVars == <<index, ended, listed, steady>>

DirInit ==
  /\ index = 0
  /\ ended = FALSE
  /\ listed = [n \in Name |-> 0]
  /\ steady = {}

OpenDir ==
  /\ busy = None /\ index = 0
  /\ index' = 1
  /\ ended' = FALSE
  /\ listed' = [n \in Name |-> 0]
  /\ steady' = VisibleNames
  /\ UNCHANGED vars

(* The entry the loop of fatfs_readdir stops at: the end, or a file; deleted *)
(* entries and labels (diritem_get_type) are passed over.                    *)
StopsAt(e) ==
  /\ e >= index
  /\ e \in Entry => dir[e].name \in Name \cup {None}
  /\ \A d \in Entry : index <= d /\ d < e => dir[d].name \notin Name \cup {None}

(* Faulty variant of ReadDir: the index moves on before the entry is read. *)
ReadDirAhead ==
  /\ busy = None /\ index > 0 /\ ~ ended
  /\ \E e \in 1 .. NEntry + 1 :
       /\ StopsAt(e)
       /\ IF e <= NEntry /\ dir[e].name # None
            THEN /\ listed' = [listed EXCEPT ![dir[e].name] = @ + 1]
                 /\ index' = e + 2
                 /\ UNCHANGED ended
            ELSE index' = e /\ ended' = TRUE /\ UNCHANGED listed
  /\ UNCHANGED <<vars, steady>>

ReadDir ==
  /\ busy = None /\ index > 0 /\ ~ ended
  /\ \E e \in 1 .. NEntry + 1 :
       /\ StopsAt(e)
       /\ IF e <= NEntry /\ dir[e].name # None
            THEN /\ listed' = [listed EXCEPT ![dir[e].name] = @ + 1]
                 /\ index' = e + 1
                 /\ UNCHANGED ended
            ELSE index' = e /\ ended' = TRUE /\ UNCHANGED listed
  /\ UNCHANGED <<vars, steady>>

CloseDir ==
  /\ index > 0
  /\ index' = 0 /\ ended' = FALSE
  /\ listed' = [n \in Name |-> 0] /\ steady' = {}
  /\ UNCHANGED vars

(* Whatever other calls do to the directory between two calls of readdir. *)
DirNext ==
  \/ OpenDir \/ ReadDir \/ CloseDir
  \/ Next /\ steady' = steady \cap VisibleNames' /\ UNCHANGED <<index, ended, listed>>

DirSpec == Init /\ DirInit /\ [][DirNext]_<<vars, dirVars>>

-----------------------------------------------------------------------------
(* A listing that came to its end has shown every file that could be opened *)
(* from opendir on, whatever was created and removed meanwhile, and none    *)
(* twice unless the directory itself has two entries of that name, as it    *)
(* has when a file that unlink hid is created anew.                         *)
ListingComplete ==
  ended => \A n \in steady :
    listed[n] \in 1 .. Cardinality({e \in Entry : dir[e].name = n})

=============================================================================
