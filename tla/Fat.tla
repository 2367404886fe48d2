--------------------------------- MODULE Fat ---------------------------------
(***************************************************************************)
(* The FAT16 file system of fs/fatfs/fatfs.c: the allocation table, the     *)
(* root directory and the files that are open.  Every call runs under       *)
(* fat->mutex, taken in fs/fs.c; the loops of read and write, one cluster   *)
(* per round, are steps of their own while `busy' holds the mutex.          *)
(* Positions and sizes are counted in units, ClusterSize units a cluster.   *)
(* The disk never fails: dev_read and dev_write do not return a negative    *)
(* number.  Names are what to_sfn makes of them.                            *)
(***************************************************************************)
EXTENDS Integers, Sequences, FiniteSets, Functions, SequencesExt

CONSTANTS
  Name, Handle,
  NCluster,     \* clusters of the data area
  NEntry,       \* BPB_RootEntCnt
  Image,        \* entries another system left: "deleted" ones and "label"s
  ClusterSize,  \* units in a cluster
  MaxSize,      \* bound: the largest size a program lets a file grow to
  MaxChunk,     \* bound: units in one call of read or write
  None          \* no handle, no name

ASSUME FatAssumption ==
  /\ None \notin Name /\ None \notin Handle /\ {"deleted", "label"} \cap Name = {}
  /\ {NCluster, NEntry, ClusterSize, MaxSize, MaxChunk} \subseteq Nat \ {0}
  /\ Image \in Seq({"deleted", "label"}) /\ Len(Image) <= NEntry

Cluster == 2 .. NCluster + 1
FREE == 0       \* FAT_CLUSTER_FREE
INVALID == -1   \* FAT_CLUSTER_INVALID, also the end of a chain
Entry == 1 .. NEntry

VARIABLES
  next,  \* the allocation table
  dir,   \* the root directory: name (None: DIRITEM_NAME_END), start, size
  file,  \* file_t of each open file, closed ones with mode "closed"
  data,  \* what a cluster was last written as since it was allocated: file, part
  busy,  \* the handle whose read or write holds fat->mutex
  left,  \* nbytes of that call
  noSpace \* whether "no cluster for file write" was ever logged

vars == <<next, dir, file, data, busy, left, noSpace>>

Closed == [mode |-> "closed", pos |-> 0, size |-> 0, sblk |-> INVALID, cblk |-> INVALID, p_index |-> 0]
EndItem == [name |-> None, start |-> FREE, size |-> 0]
ImageItem(e) == [name |-> Image[e], start |-> FREE, size |-> 0]

Init ==
  /\ next = [c \in Cluster |-> FREE]
  /\ dir = [e \in Entry |-> IF e <= Len(Image) THEN ImageItem(e) ELSE EndItem]
  /\ file = [h \in Handle |-> Closed]
  /\ data = [c \in Cluster |-> None]
  /\ busy = None
  /\ left = 0
  /\ noSpace = FALSE

-----------------------------------------------------------------------------
(* The allocation table *)
GetNext(nx, c) == IF c \in Cluster THEN nx[c] ELSE INVALID

(* The k-th cluster of the chain that starts at c, if the chain goes there. *)
ChainAt(nx, c, k) ==
  LET at[j \in Nat] == IF j = 0 THEN c ELSE GetNext(nx, at[j - 1])
  IN  at[k]
ChainSet(nx, c) == {ChainAt(nx, c, k) : k \in 0 .. NCluster} \cap Cluster

(* Faulty variant of FreeChain: frees the first cluster only. *)
FreeFirst(nx, c) == [d \in Cluster |-> IF d = c THEN FREE ELSE nx[d]]

FreeChain(nx, c) == [d \in Cluster |-> IF d \in ChainSet(nx, c) THEN FREE ELSE nx[d]]

FreeClusters(nx) == {c \in Cluster : nx[c] = FREE}
CanAlloc(nx, n) == n > 0 /\ Cardinality(FreeClusters(nx)) >= n

(* cluster_alloc_free: the first n free clusters, as a chain. *)
FirstFree(nx, n) ==
  {c \in FreeClusters(nx) : Cardinality({d \in FreeClusters(nx) : d < c}) < n}
Alloc(nx, n) ==
  LET got == FirstFree(nx, n)
  IN  [start |-> Min(got),
       next |-> [c \in Cluster |-> IF c \notin got THEN nx[c]
                                  ELSE IF c = Max(got) THEN INVALID
                                  ELSE Min({d \in got : c < d})]]

(* expand_file.  The number of clusters for inc more units; the result is   *)
(* the table, the file and whether it worked.  When the last cluster of the *)
(* file is not known, the new chain is left unlinked.                       *)
CeilDiv(a, b) == (a + b - 1) \div b
Spare(f) == (ClusterSize - (f.size % ClusterSize)) % ClusterSize
ClustersFor(f, inc) ==
  IF Spare(f) = 0 THEN CeilDiv(inc, ClusterSize)
  ELSE IF inc = Spare(f) THEN 1 ELSE CeilDiv(inc - Spare(f), ClusterSize)

Expand(nx, f, inc) ==
  IF Spare(f) > inc THEN [ok |-> TRUE, next |-> nx, f |-> f]
  ELSE IF ~ CanAlloc(nx, ClustersFor(f, inc)) THEN [ok |-> FALSE, next |-> nx, f |-> f]
  ELSE LET a == Alloc(nx, ClustersFor(f, inc))
       IN  CASE f.sblk \notin Cluster ->
                  [ok |-> TRUE, next |-> a.next, f |-> [f EXCEPT !.sblk = a.start, !.cblk = a.start]]
             [] f.sblk \in Cluster /\ f.cblk \in Cluster ->
                  [ok |-> TRUE, next |-> [a.next EXCEPT ![f.cblk] = a.start], f |-> f]
             [] OTHER -> [ok |-> FALSE, next |-> a.next, f |-> f]

(* move_file_pos by n units, of which none but the last leaves the cluster. *)
Crosses(f, n) == (f.pos % ClusterSize) + n >= ClusterSize
MovePos(nx, f, n, expand) ==
  IF ~ Crosses(f, n) THEN [ok |-> TRUE, next |-> nx, f |-> [f EXCEPT !.pos = @ + n]]
  ELSE LET x == IF expand /\ GetNext(nx, f.cblk) = INVALID
                  THEN Expand(nx, f, ClusterSize)
                  ELSE [ok |-> TRUE, next |-> nx, f |-> f]
       IN  IF x.ok
             THEN [x EXCEPT !.f = [@ EXCEPT !.cblk = GetNext(x.next, f.cblk), !.pos = f.pos + n]]
             ELSE x

-----------------------------------------------------------------------------
(* The root directory: a scan ends at the first END entry. *)
Before(e) == \A d \in Entry : d < e => dir[d].name # None
Visible(n, e) == dir[e].name = n /\ Before(e) /\ \A d \in Entry : d < e => dir[d].name # n
End(e) == dir[e].name = None /\ Before(e)

(* The entry a new file gets: the END entry, or the last deleted one.       *)
Absent(n) == \A e \in Entry : ~ Visible(n, e)
SlotFor(e) ==
  \/ End(e)
  \/ /\ \A d \in Entry : dir[d].name # None
     /\ dir[e].name = "deleted"
     /\ \A d \in Entry : dir[d].name = "deleted" => d <= e

(* What freed clusters held does not matter any more. *)
Forget(nx) == [c \in Cluster |-> IF nx[c] = FREE THEN None ELSE data[c]]

Users(e) == {h \in Handle : file[h].mode # "closed" /\ file[h].p_index = e}
Writers(e) == {h \in Users(e) : file[h].mode = "write"}

FromItem(item, e, mode) ==
  [mode |-> mode, pos |-> 0, size |-> item.size, sblk |-> item.start, cblk |-> item.start, p_index |-> e]

(* fatfs_open, by fopen "r".  Programs do not open a file somebody writes.  *)
OpenRead(h, n) ==
  /\ busy = None /\ file[h].mode = "closed"
  /\ \E e \in Entry :
       /\ Visible(n, e)
       /\ Writers(e) = {}
       /\ file' = [file EXCEPT ![h] = FromItem(dir[e], e, "read")]
  /\ UNCHANGED <<next, dir, data, busy, left, noSpace>>

(* Faulty variant of OpenTrunc: the file still starts at the old cluster. *)
OpenTruncStale(h, n) ==
  /\ busy = None /\ file[h].mode = "closed"
  /\ \E e \in Entry :
       /\ Visible(n, e)
       /\ Users(e) = {}
       /\ next' = FreeChain(next, dir[e].start)
       /\ data' = Forget(next')
       /\ file' = [file EXCEPT ![h] = [FromItem(dir[e], e, "write") EXCEPT !.size = 0]]
  /\ UNCHANGED <<dir, busy, left, noSpace>>

(* fopen "w" (O_CREAT and O_TRUNC) of a file that exists.  The entry keeps  *)
(* the old start and size until the file is closed.                         *)
OpenTrunc(h, n) ==
  /\ busy = None /\ file[h].mode = "closed"
  /\ \E e \in Entry :
       /\ Visible(n, e)
       /\ Users(e) = {}
       /\ next' = FreeChain(next, dir[e].start)
       /\ data' = Forget(next')
       /\ file' = [file EXCEPT ![h] =
                     [FromItem(dir[e], e, "write") EXCEPT !.size = 0, !.sblk = INVALID, !.cblk = INVALID]]
  /\ UNCHANGED <<dir, busy, left, noSpace>>

OpenNew(h, n) ==
  /\ busy = None /\ file[h].mode = "closed"
  /\ Absent(n)
  /\ \E e \in Entry :
       /\ SlotFor(e)
       /\ LET item == [name |-> n, start |-> INVALID, size |-> 0]
          IN  /\ dir' = [dir EXCEPT ![e] = item]
              /\ file' = [file EXCEPT ![h] = FromItem(item, e, "write")]
  /\ UNCHANGED <<next, data, busy, left, noSpace>>

-----------------------------------------------------------------------------
(* fatfs_write *)
Label(f) == <<dir[f.p_index].name, f.pos \div ClusterSize>>
Small(a, b) == IF a < b THEN a ELSE b
InCluster(f) == Small(left, ClusterSize - (f.pos % ClusterSize))

WriteCall(h, n) ==
  /\ busy = None /\ file[h].mode = "write"
  /\ file[h].size + n <= MaxSize
  /\ LET f == file[h]
         x == IF f.pos + n > f.size
                THEN Expand(next, f, f.pos + n - f.size)
                ELSE [ok |-> TRUE, next |-> next, f |-> f]
     IN  /\ next' = x.next
         /\ file' = [file EXCEPT ![h] = x.f]
         /\ IF x.ok THEN busy' = h /\ left' = n ELSE UNCHANGED <<busy, left>>
         /\ noSpace' = (noSpace \/ ~ x.ok)
  /\ UNCHANGED <<dir, data>>

(* Faulty variant of WriteRound: moves on before the cluster is written. *)
WriteRoundMovesFirst(h) ==
  /\ busy = h /\ file[h].mode = "write" /\ left > 0
  /\ LET f == file[h]
         n == InCluster(f)
         x == MovePos(next, [f EXCEPT !.size = @ + n], n, TRUE)
     IN  /\ data' = [data EXCEPT ![x.f.cblk] = Label(f)]
         /\ next' = x.next
         /\ file' = [file EXCEPT ![h] = x.f]
         /\ noSpace' = (noSpace \/ ~ x.ok)
         /\ left' = IF x.ok THEN left - n ELSE 0
         /\ busy' = IF left' > 0 THEN h ELSE None
  /\ UNCHANGED dir

(* One round of its loop: the part of the buffer that fits the cluster.  A  *)
(* file whose next cluster cannot be allocated ends the call with its size  *)
(* already raised.                                                          *)
WriteRound(h) ==
  /\ busy = h /\ file[h].mode = "write" /\ left > 0
  /\ LET f == file[h]
         n == InCluster(f)
         x == MovePos(next, [f EXCEPT !.size = @ + n], n, TRUE)
     IN  /\ data' = [c \in Cluster |-> IF c = f.cblk THEN Label(f) ELSE data[c]]
         /\ next' = x.next
         /\ file' = [file EXCEPT ![h] = x.f]
         /\ noSpace' = (noSpace \/ ~ x.ok)
         /\ left' = IF x.ok THEN left - n ELSE 0
         /\ busy' = IF left' > 0 THEN h ELSE None
  /\ UNCHANGED dir

(* fatfs_read *)
ReadCall(h, n) ==
  /\ busy = None /\ file[h].mode = "read"
  /\ file[h].pos < file[h].size
  /\ busy' = h
  /\ left' = Small(n, file[h].size - file[h].pos)
  /\ UNCHANGED <<next, dir, file, data, noSpace>>

(* Faulty variant of ReadRound: the next cluster is not looked up. *)
ReadRoundStays(h) ==
  /\ busy = h /\ file[h].mode = "read" /\ left > 0
  /\ LET n == InCluster(file[h])
     IN  /\ file' = [file EXCEPT ![h].pos = @ + n]
         /\ left' = left - n
         /\ busy' = IF left > n THEN h ELSE None
  /\ UNCHANGED <<next, dir, data, noSpace>>

ReadRound(h) ==
  /\ busy = h /\ file[h].mode = "read" /\ left > 0
  /\ LET n == InCluster(file[h])
     IN  /\ file' = [file EXCEPT ![h] = MovePos(next, file[h], n, FALSE).f]
         /\ left' = left - n
         /\ busy' = IF left > n THEN h ELSE None
  /\ UNCHANGED <<next, dir, data, noSpace>>

(* fatfs_seek, inside the file.  Without a cluster there it does nothing.   *)
Seek(h, off) ==
  /\ busy = None /\ file[h].mode = "read"
  /\ off <= file[h].size
  /\ LET c == ChainAt(next, file[h].sblk, off \div ClusterSize)
     IN  /\ off < ClusterSize \/ c \in Cluster
         /\ file' = [file EXCEPT ![h].pos = off, ![h].cblk = c]
  /\ UNCHANGED <<next, dir, data, busy, left, noSpace>>

(* fatfs_close writes start and size back to the entry the file was opened  *)
(* at, whatever is there now.                                               *)
Close(h) ==
  /\ busy = None /\ file[h].mode # "closed"
  /\ LET f == file[h]
     IN  dir' = IF f.mode = "read" THEN dir
                ELSE [dir EXCEPT ![f.p_index] = [name |-> @.name, start |-> f.sblk, size |-> f.size]]
  /\ file' = [file EXCEPT ![h] = Closed]
  /\ UNCHANGED <<next, data, busy, left, noSpace>>

(* fatfs_unlink of a file nobody has open: the entry is cleared to zeros,   *)
(* which is DIRITEM_NAME_END.                                               *)
Unlink(n) ==
  /\ busy = None
  /\ \E e \in Entry :
       /\ Visible(n, e)
       /\ Users(e) = {}
       /\ next' = FreeChain(next, dir[e].start)
       /\ data' = Forget(next')
       /\ dir' = [dir EXCEPT ![e] = EndItem]
  /\ UNCHANGED <<file, busy, left, noSpace>>

-----------------------------------------------------------------------------
Next ==
  \/ \E h \in Handle :
       \/ WriteRound(h) \/ ReadRound(h) \/ Close(h)
       \/ \E n \in Name : OpenRead(h, n) \/ OpenTrunc(h, n) \/ OpenNew(h, n)
       \/ \E k \in 1 .. MaxChunk : WriteCall(h, k) \/ ReadCall(h, k)
       \/ \E off \in 0 .. MaxSize : Seek(h, off)
  \/ \E n \in Name : Unlink(n)

Spec == Init /\ [][Next]_vars

-----------------------------------------------------------------------------
FileType ==
  [mode : {"closed", "read", "write"}, pos : 0 .. MaxSize, size : 0 .. MaxSize,
   sblk : Cluster \cup {INVALID}, cblk : Cluster \cup {INVALID}, p_index : 0 .. NEntry]

TypeOK ==
  /\ next \in [Cluster -> Cluster \cup {FREE, INVALID}]
  /\ dir \in [Entry -> [name : Name \cup {None, "deleted", "label"},
                        start : Cluster \cup {FREE, INVALID}, size : 0 .. MaxSize]]
  /\ file \in [Handle -> FileType]
  /\ busy \in Handle \cup {None} /\ left \in 0 .. MaxChunk /\ noSpace \in BOOLEAN

(* Who owns a chain: a file that is written, by its handle; any other named *)
(* entry, even one no scan reaches, by its entry.                           *)
Written == {h \in Handle : file[h].mode = "write"}
Resting == {e \in Entry : dir[e].name \in Name /\ Writers(e) = {}}
Owners == {<<"handle", h>> : h \in Written} \cup {<<"entry", e>> : e \in Resting}
StartOf(o) == IF o[1] = "handle" THEN file[o[2]].sblk ELSE dir[o[2]].start
SizeOf(o) == IF o[1] = "handle" THEN file[o[2]].size ELSE dir[o[2]].size
NameOf(o) == IF o[1] = "handle" THEN dir[file[o[2]].p_index].name ELSE dir[o[2]].name
ChainOf(o) == ChainSet(next, StartOf(o))

(* No cluster belongs to two files, and no chain runs into itself or into   *)
(* the free space.                                                          *)
ChainsDisjoint ==
  /\ \A o, p \in Owners : o # p => ChainOf(o) \cap ChainOf(p) = {}
  /\ \A o \in Owners : ChainOf(o) # {} =>
       ChainAt(next, StartOf(o), Cardinality(ChainOf(o))) = INVALID

(* A cluster that is neither free nor part of a file is lost.  Truncating,   *)
(* removing, closing and running out of space lose none; only a write does, *)
(* when it links new clusters after one that already had a successor.       *)
Lost == {c \in Cluster : next[c] # FREE /\ \A o \in Owners : c \notin ChainOf(o)}
LostOnlyByRelink ==
  [][Lost' \subseteq Lost
     \/ \E h \in Handle : /\ busy' = h /\ file[h].mode = "write"
                         /\ GetNext(next, file[h].cblk) \in Cluster
                         /\ next'[file[h].cblk] # next[file[h].cblk]]_vars

(* As long as no allocation failed: the part of a file below its size has   *)
(* clusters, each of them last written as that part of that file, even in   *)
(* the middle of a write.                                                   *)
ContentIntact ==
  ~ noSpace =>
    \A o \in Owners, k \in 0 .. NCluster - 1 :
      k * ClusterSize < SizeOf(o) =>
        LET c == ChainAt(next, StartOf(o), k)
        IN  c \in Cluster /\ data[c] = <<NameOf(o), k>>

(* The current cluster of an open file is the one its position is in, of    *)
(* the chain it has now, whatever allocation failed before (move_file_pos). *)
PosMatches ==
  \A h \in Handle :
    file[h].mode # "closed" =>
      file[h].cblk = ChainAt(next, file[h].sblk, file[h].pos \div ClusterSize)

(* unlink removes a file (README.md:67), no other: what a scan of the       *)
(* directory found before, it still finds.                                  *)
VisibleNames == {n \in Name : ~ Absent(n)}
UnlinkKeepsOthers ==
  [][\A n \in Name : Unlink(n) => VisibleNames \ {n} \subseteq VisibleNames']_vars

=============================================================================
