----------------------------- MODULE FileProofs -----------------------------
(* Proofs about the files above the disk.  SectorBuffer: the page of FAT16   *)
(* holds the sector it is said to hold, on a disk of any size that may fail *)
(* at any transfer.  FileTable and Devices: the counts of open files are    *)
(* those of their descriptors, for any numbers of tasks, files and          *)
(* descriptors.                                                             *)
EXTENDS Devices, SectorBuffer, FiniteSetTheorems, WellFoundedInduction, TLAPS

-----------------------------------------------------------------------------
(* The inductive invariant of SectorBuffer: curr_sector never names a       *)
(* cluster of the data area or the second copy of the table.                *)

Contents == [of : Nat, version : {0, 1}]
BufTypeOK ==
  /\ disk \in [Sector -> Contents] /\ buffer \in Contents
  /\ curr \in Table \cup Directory \cup {NoSector}
  /\ stale \subseteq Sector /\ passed \in BOOLEAN

BufInv == BufTypeOK /\ BufferCoherent

(* The layout of the disk: table, its copy, directory and data are apart.   *)
LEMMA Layout ==
  /\ \A s \in Table : /\ s \in Sector /\ Kind(s) = s /\ Copy(s) \in Sector /\ Kind(Copy(s)) = s
                      /\ Copy(s) \notin Table \cup Directory \cup Data \cup {NoSector}
                      /\ s \notin Directory \cup Data \cup {NoSector}
                      /\ \A r \in Table : Copy(r) = Copy(s) => r = s
  /\ \A s \in Directory : s \in Sector /\ Kind(s) = s /\ s \notin Data \cup {NoSector}
  /\ \A s \in Data : s \in Sector /\ Kind(s) = s /\ s # NoSector
  /\ \A s \in Sector : Kind(s) \in Nat
<1>1. TblSectors \in Nat /\ DirSectors \in Nat /\ DataSectors \in Nat
      /\ TblSectors > 0 /\ DirSectors > 0 /\ DataSectors > 0
  BY BufAssumption
<1>2. /\ Table = {s \in Int : 1 <= s /\ s <= TblSectors}
      /\ Directory = {s \in Int : 2 * TblSectors + 1 <= s /\ s <= 2 * TblSectors + DirSectors}
      /\ Data = {s \in Int : 2 * TblSectors + DirSectors + 1 <= s
                             /\ s <= 2 * TblSectors + DirSectors + DataSectors}
      /\ Sector = {s \in Int : 1 <= s /\ s <= 2 * TblSectors + DirSectors + DataSectors}
  BY <1>1 DEF Table, Directory, Data, Sector, FirstData
<1> DEFINE n == 2 * TblSectors
<1>3. \A s \in Table : /\ s \in Sector /\ Copy(s) \in Sector
                       /\ Copy(s) \notin Table \cup Directory \cup Data \cup {NoSector}
                       /\ s \notin Directory \cup Data \cup {NoSector}
                       /\ \A r \in Table : Copy(r) = Copy(s) => r = s
  BY <1>1, <1>2 DEF Copy, NoSector
<1>4. \A s \in Table : Kind(s) = s /\ Kind(Copy(s)) = s
  <2> SUFFICES ASSUME NEW s \in Table
               PROVE  Kind(s) = s /\ Kind(Copy(s)) = s
    OBVIOUS
  <2>1. Copy(s) - TblSectors = s /\ Copy(s) \notin Table
    BY <1>1, <1>2, <1>3 DEF Copy
  <2> QED  BY <2>1 DEF Kind
<1>5. \A s \in Directory \cup Data :
        s \in Sector /\ s \notin Table /\ s - TblSectors \notin Table /\ s # NoSector
  BY <1>1, <1>2 DEF NoSector
<1>6. \A s \in Directory : s \notin Data
  BY <1>1, <1>2
<1>7. \A s \in Sector : Kind(s) \in Nat
  BY <1>1, <1>2 DEF Kind
<1> QED  BY <1>3, <1>4, <1>5, <1>6, <1>7 DEF Kind

(* bread_sector leaves in the page what the disk or the page held of the    *)
(* sector, or changes nothing.                                              *)
LEMMA BreadResult ==
  ASSUME BufInv, NEW s \in Table \cup Directory, NEW r \in Bread(s)
  PROVE  /\ r.buffer \in Contents
         /\ r.ok => r.curr = s /\ r.buffer.of = s /\ (s \in stale \/ r.buffer = disk[s])
         /\ ~ r.ok => r.curr = curr /\ r.buffer = buffer
<1>1. s \in Sector /\ s \notin Data /\ s # NoSector /\ Kind(s) = s
  BY Layout
<1>2. disk[s] \in Contents /\ disk[s].of = s /\ buffer \in Contents
  BY <1>1 DEF BufInv, BufTypeOK, BufferCoherent
<1>3. CASE s = curr
  <2>1. r = [ok |-> TRUE, buffer |-> buffer, curr |-> curr]
    BY <1>3 DEF Bread
  <2> QED  BY <1>1, <1>2, <1>3, <2>1 DEF BufInv, BufferCoherent
<1>4. CASE s # curr
  <2>1. \/ r = [ok |-> TRUE, buffer |-> disk[s], curr |-> s]
        \/ r = [ok |-> FALSE, buffer |-> buffer, curr |-> curr]
    BY <1>4 DEF Bread
  <2> QED  BY <1>2, <2>1
<1> QED  BY <1>3, <1>4

(* A change of the page stays what it is a change of.                       *)
LEMMA ChangedOf ==
  ASSUME NEW c \in Contents
  PROVE  Changed(c) \in Contents /\ Changed(c).of = c.of
BY DEF Changed, Contents

(* cluster_get_next and read_dir_entry: only bread_sector touches the page. *)
LEMMA ReadSectorInv ==
  ASSUME BufInv, NEW s \in Table \cup Directory, ReadSector(s)
  PROVE  BufInv'
<1>1. PICK r \in Bread(s) : buffer' = r.buffer /\ curr' = r.curr
  BY DEF ReadSector
<1>2. UNCHANGED <<disk, stale, passed>>
  BY DEF ReadSector
<1>3. Kind(s) = s /\ s # NoSector
  BY Layout
<1>4. CASE r.ok
  BY <1>1, <1>2, <1>3, <1>4, BreadResult DEF BufInv, BufTypeOK, BufferCoherent
<1>5. CASE ~ r.ok
  BY <1>1, <1>2, <1>5, BreadResult DEF BufInv, BufTypeOK, BufferCoherent
<1> QED  BY <1>4, <1>5

(* One sector is written, or not: it is stale, or holds what was written,   *)
(* and no other sector is touched.                                          *)
OneWritten(d, e, z, y, s, c) ==
  /\ e \in [Sector -> Contents] /\ y \in SUBSET Sector
  /\ \A u \in Sector \ {s} : e[u] = d[u] /\ (u \in y <=> u \in z)
  /\ s \in y \/ e[s] = c
  /\ e[s] \in {d[s], c}

(* bwrite_secotr of the page has that effect, whether it works or not.      *)
LEMMA StoredMarked ==
  ASSUME NEW d \in [Sector -> Contents], NEW z \in SUBSET Sector,
         NEW s \in Sector, NEW c \in Contents, NEW ok \in BOOLEAN
  PROVE  OneWritten(d, Stored(d, s, c, ok), z, Marked(z, s, ok), s, c)
<1>1. CASE ok
  BY <1>1 DEF Stored, Marked, OneWritten
<1>2. CASE ~ ok
  BY <1>2 DEF Stored, Marked, OneWritten
<1> QED  BY <1>1, <1>2

(* cluster_set_next changes both copies of a table sector, or marks those   *)
(* it could not write.                                                      *)
LEMMA SetNextInv ==
  ASSUME BufInv, NEW s \in Table, SetNext(s)
  PROVE  BufInv'
<1>1. PICK r \in Bread(s) :
        IF r.ok
          THEN \E first, second \in BOOLEAN :
                 /\ buffer' = Changed(r.buffer)
                 /\ curr' = r.curr
                 /\ disk' = Stored(Stored(disk, s, buffer', first), Copy(s), buffer', first /\ second)
                 /\ stale' = Marked(Marked(stale, s, first), Copy(s), first /\ second)
          ELSE UNCHANGED <<buffer, curr, disk, stale>>
  BY DEF SetNext
<1>2. passed' = passed
  BY DEF SetNext
<1>3. CASE ~ r.ok
  BY <1>1, <1>2, <1>3 DEF BufInv, BufTypeOK, BufferCoherent
<1>4. CASE r.ok
  <2>1. PICK first \in BOOLEAN, second \in BOOLEAN :
          /\ buffer' = Changed(r.buffer)
          /\ curr' = r.curr
          /\ disk' = Stored(Stored(disk, s, buffer', first), Copy(s), buffer', first /\ second)
          /\ stale' = Marked(Marked(stale, s, first), Copy(s), first /\ second)
    BY <1>1, <1>4
  <2> DEFINE c == buffer'
             d == Stored(disk, s, c, first)
             z == Marked(stale, s, first)
             k == Copy(s)
             both == first /\ second
  <2>2. c \in Contents /\ c.of = s /\ curr' = s
    BY <1>4, <2>1, BreadResult, ChangedOf
  <2>3. s \in Sector /\ k \in Sector /\ k # s /\ Kind(s) = s /\ Kind(k) = s /\ s # NoSector
        /\ both \in BOOLEAN
    BY Layout
  <2>4. disk \in [Sector -> Contents] /\ stale \in SUBSET Sector
    BY DEF BufInv, BufTypeOK
  <2> HIDE DEF k, c, both, d, z
  <2>4a. d = Stored(disk, s, c, first) /\ z = Marked(stale, s, first) /\ first \in BOOLEAN
    BY DEF d, z
  <2>5. OneWritten(disk, d, stale, z, s, c)
    BY <2>2, <2>3, <2>4, <2>4a, StoredMarked
  <2>5a. s \in z <=> ~ first
    BY <2>3, <2>4a DEF Marked
  <2>6. disk' = Stored(d, k, c, both) /\ stale' = Marked(z, k, both)
    BY <2>1 DEF d, z, k, c, both
  <2>7. OneWritten(d, disk', z, stale', k, c)
    <3>1. d \in [Sector -> Contents] /\ z \in SUBSET Sector
      BY <2>5 DEF OneWritten
    <3> QED  BY <2>2, <2>3, <2>6, <3>1, StoredMarked
  <2>7a. k \in stale' <=> ~ both
    BY <2>3, <2>6 DEF Marked
  <2>8. /\ \A u \in Sector \ {s, k} : disk'[u] = disk[u] /\ (u \in stale' <=> u \in stale)
        /\ s \in stale' \/ disk'[s] = c
        /\ k \in stale' \/ s \in stale' \/ disk'[k] = disk'[s]
        /\ disk'[s] \in {disk[s], c} /\ disk'[k] \in {disk[k], c}
    BY <2>3, <2>5, <2>5a, <2>7, <2>7a DEF both, OneWritten
  <2>9. BufTypeOK'
    BY <1>2, <2>2, <2>7 DEF BufInv, BufTypeOK, OneWritten, c
  <2>10. curr' # NoSector => buffer'.of = Kind(curr') /\ (curr' \in stale' \/ buffer' = disk'[curr'])
    BY <2>2, <2>3, <2>8 DEF c
  <2>11. \A u \in Table : {u, Copy(u)} \cap stale' = {} => disk'[u] = disk'[Copy(u)]
    <3> SUFFICES ASSUME NEW u \in Table, u \notin stale', Copy(u) \notin stale'
                 PROVE  disk'[u] = disk'[Copy(u)]
      OBVIOUS
    <3>1. CASE u = s
      BY <2>8, <3>1 DEF k
    <3>2. CASE u # s
      <4>1. u \in Sector \ {s, k} /\ Copy(u) \in Sector \ {s, k}
        BY <3>2, Layout DEF k
      <4> QED  BY <2>8, <4>1 DEF BufInv, BufferCoherent
    <3> QED  BY <3>1, <3>2
  <2>12. \A u \in Sector : disk'[u].of = Kind(u) \/ (u \in Data /\ passed')
    <3> SUFFICES ASSUME NEW u \in Sector
                 PROVE  disk'[u].of = Kind(u) \/ (u \in Data /\ passed')
      OBVIOUS
    <3>1. disk[u].of = Kind(u) \/ (u \in Data /\ passed)
      BY DEF BufInv, BufferCoherent
    <3>2. CASE u = s \/ u = k
      BY <1>2, <2>2, <2>3, <2>8, <3>1, <3>2
    <3>3. CASE u # s /\ u # k
      BY <1>2, <2>8, <3>1, <3>3
    <3> QED  BY <3>2, <3>3
  <2> QED  BY <2>9, <2>10, <2>11, <2>12 DEF BufInv, BufferCoherent
<1> QED  BY <1>3, <1>4

(* write_dir_entry changes one sector of the directory, or marks it.        *)
LEMMA WriteEntryInv ==
  ASSUME BufInv, NEW s \in Directory, WriteEntry(s)
  PROVE  BufInv'
<1>1. PICK r \in Bread(s) :
        IF r.ok
          THEN \E ok \in BOOLEAN :
                 /\ buffer' = Changed(r.buffer)
                 /\ curr' = r.curr
                 /\ disk' = Stored(disk, s, buffer', ok)
                 /\ stale' = Marked(stale, s, ok)
          ELSE UNCHANGED <<buffer, curr, disk, stale>>
  BY DEF WriteEntry
<1>2. passed' = passed
  BY DEF WriteEntry
<1>3. CASE ~ r.ok
  BY <1>1, <1>2, <1>3 DEF BufInv, BufTypeOK, BufferCoherent
<1>4. CASE r.ok
  <2>1. PICK ok \in BOOLEAN :
          /\ buffer' = Changed(r.buffer)
          /\ curr' = r.curr
          /\ disk' = Stored(disk, s, buffer', ok)
          /\ stale' = Marked(stale, s, ok)
    BY <1>1, <1>4
  <2> DEFINE c == buffer'
  <2>2. c \in Contents /\ c.of = s /\ curr' = s
    BY <1>4, <2>1, BreadResult, ChangedOf
  <2>3. s \in Sector /\ Kind(s) = s /\ s # NoSector /\ s \notin Data
    BY Layout
  <2>4. disk \in [Sector -> Contents] /\ stale \in SUBSET Sector
    BY DEF BufInv, BufTypeOK
  <2> HIDE DEF c
  <2>5. disk' = Stored(disk, s, c, ok) /\ stale' = Marked(stale, s, ok)
    BY <2>1 DEF c
  <2>6. OneWritten(disk, disk', stale, stale', s, c)
    BY <2>2, <2>3, <2>4, <2>5, StoredMarked
  <2>7. BufTypeOK'
    BY <1>2, <2>2, <2>6 DEF BufInv, BufTypeOK, OneWritten, c
  <2>8. curr' # NoSector => buffer'.of = Kind(curr') /\ (curr' \in stale' \/ buffer' = disk'[curr'])
    BY <2>2, <2>3, <2>6 DEF OneWritten, c
  <2>9. \A u \in Table : {u, Copy(u)} \cap stale' = {} => disk'[u] = disk'[Copy(u)]
    <3> SUFFICES ASSUME NEW u \in Table, u \notin stale', Copy(u) \notin stale'
                 PROVE  disk'[u] = disk'[Copy(u)]
      OBVIOUS
    <3>1. u \in Sector \ {s} /\ Copy(u) \in Sector \ {s}
      BY Layout
    <3> QED  BY <2>6, <3>1 DEF BufInv, BufferCoherent, OneWritten
  <2>10. \A u \in Sector : disk'[u].of = Kind(u) \/ (u \in Data /\ passed')
    BY <1>2, <2>2, <2>3, <2>6 DEF BufInv, BufferCoherent, OneWritten
  <2> QED  BY <2>7, <2>8, <2>9, <2>10 DEF BufInv, BufferCoherent
<1> QED  BY <1>3, <1>4

(* The clusters of files: the page is passed by, or no longer said to hold  *)
(* a sector.                                                                *)
LEMMA ClusterInv ==
  ASSUME BufInv, NEW s \in Data, WriteWhole(s) \/ ReadPart(s) \/ WritePart(s)
  PROVE  BufInv'
<1>1. /\ s \in Sector /\ Kind(s) = s /\ s # NoSector /\ s \notin Table \cup Directory
      /\ \A u \in Table : s # u /\ s # Copy(u) /\ u \in Sector /\ Copy(u) \in Sector
  BY Layout
<1>2. /\ disk \in [Sector -> Contents] /\ buffer \in Contents
      /\ curr \in Table \cup Directory \cup {NoSector} /\ curr # s
  BY <1>1 DEF BufInv, BufTypeOK
<1>3. PICK c \in Contents : \/ disk' = disk
                            \/ disk' = [disk EXCEPT ![s] = c] /\ (c.of = s \/ passed')
  <2>1. CASE WriteWhole(s)
    <3>1. [of |-> s, version |-> 1 - disk[s].version] \in Contents
      BY <1>1, <1>2, Layout DEF Contents
    <3> QED  BY <2>1, <3>1 DEF WriteWhole
  <2>2. CASE ReadPart(s)
    <3>1. disk' = disk
      BY <2>2 DEF ReadPart
    <3> QED  BY <1>2, <3>1
  <2>3. CASE WritePart(s)
    <3>1. PICK read \in BOOLEAN, write \in BOOLEAN :
            /\ buffer' = Changed(IF read THEN disk[s] ELSE buffer)
            /\ disk' = Stored(disk, s, buffer', write)
            /\ passed' = (passed \/ (~ read /\ write))
      BY <2>3 DEF WritePart
    <3>2. disk[s] \in Contents /\ (disk[s].of = s \/ passed)
      BY <1>1, <1>2 DEF BufInv, BufferCoherent
    <3>3. buffer' \in Contents /\ (read => buffer'.of = disk[s].of)
      BY <1>2, <3>1, <3>2, ChangedOf
    <3>4. CASE write
      BY <3>1, <3>2, <3>3, <3>4 DEF Stored
    <3>5. CASE ~ write
      <4>1. disk' = disk
        BY <3>1, <3>5 DEF Stored
      <4> QED  BY <1>2, <4>1
    <3> QED  BY <3>4, <3>5
  <2> QED  BY <2>1, <2>2, <2>3
<1>4. /\ stale' = stale /\ (passed => passed') /\ passed' \in BOOLEAN /\ buffer' \in Contents
      /\ curr' = NoSector \/ (curr' = curr /\ buffer' = buffer)
  <2>1. CASE WriteWhole(s)
    BY <1>2, <2>1 DEF WriteWhole, BufInv, BufTypeOK
  <2>2. CASE ReadPart(s)
    BY <1>1, <1>2, <2>2 DEF ReadPart, BufInv, BufTypeOK
  <2>3. CASE WritePart(s)
    BY <1>1, <1>2, <2>3, ChangedOf DEF WritePart, BufInv, BufTypeOK
  <2> QED  BY <2>1, <2>2, <2>3
<1>5. /\ disk' \in [Sector -> Contents]
      /\ \A u \in Sector \ {s} : disk'[u] = disk[u]
      /\ disk'[s].of = s \/ passed'
  BY <1>1, <1>2, <1>3, <1>4 DEF BufInv, BufferCoherent
<1>6. BufTypeOK'
  BY <1>4, <1>5 DEF BufInv, BufTypeOK
<1>7. curr' # NoSector => buffer'.of = Kind(curr') /\ (curr' \in stale' \/ buffer' = disk'[curr'])
  <2>1. curr # NoSector => curr \in Sector \ {s}
    BY <1>2, Layout
  <2> QED  BY <1>4, <1>5, <2>1 DEF BufInv, BufferCoherent
<1>8. \A u \in Table : {u, Copy(u)} \cap stale' = {} => disk'[u] = disk'[Copy(u)]
  BY <1>1, <1>4, <1>5 DEF BufInv, BufferCoherent
<1>9. \A u \in Sector : disk'[u].of = Kind(u) \/ (u \in Data /\ passed')
  BY <1>1, <1>4, <1>5 DEF BufInv, BufferCoherent
<1> QED  BY <1>6, <1>7, <1>8, <1>9 DEF BufInv, BufferCoherent

(* At mount the page holds the boot record and curr_sector is -1.           *)
LEMMA BufInitInv == BufInit => BufInv
<1> SUFFICES ASSUME BufInit
             PROVE  BufInv
  OBVIOUS
<1>1. \A s \in Sector : Fresh(s) \in Contents /\ Fresh(s).of = Kind(s)
  BY Layout DEF Fresh, Contents
<1>2. BufTypeOK
  BY <1>1 DEF BufInit, BufTypeOK, Contents
<1>3. \A s \in Table : Fresh(s) = Fresh(Copy(s)) /\ s \in Sector /\ Copy(s) \in Sector
  BY Layout DEF Fresh
<1> QED  BY <1>1, <1>2, <1>3 DEF BufInit, BufInv, BufferCoherent

(* Every step keeps the invariant.                                          *)
LEMMA BufNextInv == BufInv /\ [BufNext]_bufVars => BufInv'
<1> SUFFICES ASSUME BufInv, [BufNext]_bufVars
             PROVE  BufInv'
  OBVIOUS
<1>1. CASE UNCHANGED bufVars
  BY <1>1 DEF bufVars, BufInv, BufTypeOK, BufferCoherent
<1>2. CASE BufNext
  BY <1>2, ReadSectorInv, SetNextInv, WriteEntryInv, ClusterInv DEF BufNext
<1> QED  BY <1>1, <1>2

(* The page holds the sector that curr_sector names, the two copies of the  *)
(* table agree and no sector of the table or the directory ever gets the    *)
(* contents of a file, whichever transfers fail (bread_sector, the writes   *)
(* of both tables and of entries, and the rounds of fatfs_read and          *)
(* fatfs_write that use the same page).                                     *)
THEOREM SpecBufferCoherent == BufSpec => []BufferCoherent
<1>1. BufInv => BufferCoherent
  BY DEF BufInv
<1> QED  BY <1>1, BufInitInv, BufNextInv, PTL DEF BufSpec

-----------------------------------------------------------------------------
(* The inductive invariant of FileTable, also under the steps of Devices.   *)

FilePlaces ==
  {"user", "io", "fileAlloc", "allocFd", "fsOpen", "openFree", "openRemove", "dupInc",
   "closeLoad", "closeStore", "fsClose", "closeFree", "closeRemove", "copy"}

FileTypeOK ==
  /\ ref \in [File -> Nat] /\ wiped \in [File -> Nat]
  /\ opened \in [File -> BOOLEAN]
  /\ fds \in [Task -> [Fd -> File \cup {NoFile}]]
  /\ alive \subseteq Task
  /\ pc \in [Task -> FilePlaces]
  /\ cur \in [Task -> File \cup {NoFile}]
  /\ fd \in [Task -> Fd \cup {NoFd, NFd}]
  /\ old \in [Task -> Nat]
  /\ child \in [Task -> Task]

(* The locals of a call: a file in hand, and, where the code relies on it,  *)
(* the descriptor that refers to it.                                        *)
Owning == {"fsOpen", "closeLoad", "closeStore", "fsClose", "closeFree", "closeRemove"}
Failing == {"openFree", "openRemove"}
Own(t) == fd[t] \in Fd /\ fds[t][fd[t]] = cur[t]
LocalsOf(t) ==
  /\ pc[t] # "user" => t \in alive
  /\ pc[t] \in {"user", "io", "fileAlloc", "allocFd", "dupInc"} => fd[t] = NoFd
  /\ pc[t] \in Owning \cup Failing \cup {"allocFd", "dupInc"} => cur[t] \in File
  /\ pc[t] \in Owning => Own(t)
  /\ pc[t] \in Failing => fd[t] = NoFd \/ Own(t)
  /\ pc[t] = "dupInc" => \E d \in Fd : fds[t][d] = cur[t]
  /\ pc[t] = "closeStore" => old[t] = ref[cur[t]]
Locals == \A t \in Task : LocalsOf(t)

(* The table a fork fills in is nobody's yet and empty from fd on; that of  *)
(* a task that does not exist is empty.                                     *)
Forks ==
  /\ \A t \in Task : pc[t] = "copy" <=> child[t] # t
  /\ \A t \in Task : pc[t] = "copy" =>
       /\ child[t] \notin alive /\ fd[t] \in Fd \cup {NFd}
       /\ \A d \in Fd : fd[t] <= d => fds[child[t]][d] = NoFile
       /\ \A u \in Task : child[u] = child[t] => u = t \/ u = child[t]
  /\ \A u \in Task \ alive : (\A t \in Task : child[t] = u => t = u) =>
       \A d \in Fd : fds[u][d] = NoFile

CloseAlone == \A t, u \in Task : Closing(t) /\ u # t => pc[u] \in {"user", "io"}

(* What a call still owes to the count: a descriptor to be stored or to be  *)
(* cleared.                                                                 *)
Owes(t, f) == cur[t] = f /\ (pc[t] = "allocFd" \/ (pc[t] = "openFree" /\ fd[t] = NoFd))
Lacks(t, f) ==
  /\ cur[t] = f
  /\ \/ pc[t] \in {"dupInc", "fsClose", "closeFree", "closeRemove"}
     \/ pc[t] = "openRemove" /\ fd[t] # NoFd
Owing(f) == {t \in Task : Owes(t, f)}
Lacking(f) == {t \in Task : Lacks(t, f)}

(* RefExact at every moment of every call.                                  *)
Balanced ==
  \A f \in File :
    ref[f] + Cardinality(Lacking(f)) = Cardinality(Holders(f)) + wiped[f] + Cardinality(Owing(f))

(* A file that is not open is in no table, but for the one descriptor a     *)
(* call is about to complete or to clear.                                   *)
Pending == Failing \cup {"fsOpen", "closeFree", "closeRemove"}
OpenHeldOf(t) ==
  \A d \in Fd :
    fds[t][d] # NoFile =>
      opened[fds[t][d]] \/ (pc[t] \in Pending /\ cur[t] = fds[t][d] /\ fd[t] = d)
OpenHeld == \A t \in Task : OpenHeldOf(t)

(* When the file system is told to close a file, no other descriptor is     *)
(* left and nobody counts on it.                                            *)
LastOf(t) ==
  pc[t] \in {"fsClose", "closeFree"} => ref[cur[t]] = 0 /\ Holders(cur[t]) = {<<t, fd[t]>>}
LastCloser == \A t \in Task : LastOf(t)

FileInv == FileTypeOK /\ Locals /\ Forks /\ CloseAlone /\ Balanced /\ OpenHeld /\ LastCloser

-----------------------------------------------------------------------------
(* Counting.                                                                *)

One(p) == IF p THEN 1 ELSE 0

(* Tasks, descriptors and files; what a null file and a null descriptor are *)
(* not.                                                                     *)
LEMMA FileIds ==
  /\ IsFiniteSet(Task) /\ IsFiniteSet(Fd) /\ IsFiniteSet(Task \X Fd)
  /\ NoFile \notin File /\ NoFd \notin Fd /\ NFd \notin Fd /\ NoFd # NFd
  /\ Fd \subseteq Int /\ NFd \in Nat /\ Root \in Task
  /\ \A d \in Fd : d < NFd /\ 0 <= d /\ d + 1 \in Fd \cup {NFd}
  /\ 0 \in Fd
<1>1. NFd \in Nat \ {0} /\ NFile \in Nat \ {0} /\ IsFiniteSet(Task) /\ Root \in Task
  BY FileAssumption
<1>2. IsFiniteSet(Fd)
  BY <1>1, FS_Interval DEF Fd
<1>3. IsFiniteSet(Task \X Fd)
  BY <1>1, <1>2, FS_Product
<1> QED  BY <1>1, <1>2, <1>3 DEF File, Fd, NoFile, NoFd

(* One member more or less.                                                 *)
LEMMA CountAdd ==
  ASSUME NEW S, IsFiniteSet(S), NEW x, x \notin S
  PROVE  IsFiniteSet(S \cup {x}) /\ Cardinality(S \cup {x}) = Cardinality(S) + 1
BY FS_AddElement

(* The same for an element less.                                            *)
LEMMA CountDrop ==
  ASSUME NEW S, IsFiniteSet(S), NEW x \in S
  PROVE  IsFiniteSet(S \ {x}) /\ Cardinality(S \ {x}) = Cardinality(S) - 1
BY FS_RemoveElement

(* A set changes at one member only.                                        *)
LEMMA CountOne ==
  ASSUME NEW S, NEW T, NEW x, IsFiniteSet(S), T \subseteq S \cup {x}, S \subseteq T \cup {x}
  PROVE  Cardinality(T) + One(x \in S) = Cardinality(S) + One(x \in T)
<1>0. Cardinality(S) \in Nat
  BY FS_CardinalityType
<1>1. CASE x \in S /\ x \in T
  <2>1. T = S
    BY <1>1
  <2> QED  BY <1>1, <2>1 DEF One
<1>2. CASE x \notin S /\ x \notin T
  <2>1. T = S
    BY <1>2
  <2> QED  BY <1>2, <2>1 DEF One
<1>3. CASE x \in S /\ x \notin T
  <2>1. T = S \ {x}
    BY <1>3
  <2>2. Cardinality(T) = Cardinality(S) - 1
    BY <1>3, <2>1, CountDrop
  <2> QED  BY <1>0, <1>3, <2>2 DEF One
<1>4. CASE x \notin S /\ x \in T
  <2>1. T = S \cup {x}
    BY <1>4
  <2>2. Cardinality(T) = Cardinality(S) + 1
    BY <1>4, <2>1, CountAdd
  <2> QED  BY <1>0, <1>4, <2>2 DEF One
<1> QED  BY <1>1, <1>2, <1>3, <1>4

(* The sets that are counted are finite.                                    *)
LEMMA Counts ==
  ASSUME NEW f
  PROVE  /\ IsFiniteSet(Holders(f)) /\ IsFiniteSet(Lacking(f)) /\ IsFiniteSet(Owing(f))
         /\ Cardinality(Holders(f)) \in Nat /\ Cardinality(Lacking(f)) \in Nat
         /\ Cardinality(Owing(f)) \in Nat
<1>1. Holders(f) \subseteq Task \X Fd /\ Lacking(f) \subseteq Task /\ Owing(f) \subseteq Task
  BY DEF Holders, Lacking, Owing
<1>2. IsFiniteSet(Holders(f)) /\ IsFiniteSet(Lacking(f)) /\ IsFiniteSet(Owing(f))
  BY <1>1, FileIds, FS_Subset
<1> QED  BY <1>2, FS_CardinalityType

(* The holders of a file as pairs.                                          *)
LEMMA HolderPairs ==
  ASSUME NEW f, NEW t \in Task, NEW d \in Fd
  PROVE  /\ <<t, d>> \in Holders(f) <=> fds[t][d] = f
         /\ \A h \in Holders(f) : h[1] \in Task /\ h[2] \in Fd /\ h = <<h[1], h[2]>>
                                  /\ fds[h[1]][h[2]] = f
BY DEF Holders

(* Storing g in one descriptor takes one holder from the file that was      *)
(* there and gives one to g.                                                *)
LEMMA HoldersAfter ==
  ASSUME FileTypeOK, NEW a \in Task, NEW d \in Fd, NEW g \in File \cup {NoFile}, SetFd(a, d, g),
         NEW f \in File
  PROVE  Cardinality(Holders(f)') + One(fds[a][d] = f) = Cardinality(Holders(f)) + One(g = f)
<1>1. \A t \in Task, e \in Fd :
        fds'[t][e] = IF t = a /\ e = d THEN g ELSE fds[t][e]
  BY DEF FileTypeOK, SetFd
<1> DEFINE S == Holders(f)
           T == {h \in Task \X Fd : fds'[h[1]][h[2]] = f}
           x == <<a, d>>
<1>2. Holders(f)' = T
  BY DEF Holders
<1>3. \A h \in Task \X Fd : h # x => (fds'[h[1]][h[2]] = fds[h[1]][h[2]])
  BY <1>1
<1>4. T \subseteq S \cup {x} /\ S \subseteq T \cup {x}
  BY <1>3 DEF Holders
<1>5. (x \in S <=> fds[a][d] = f) /\ (x \in T <=> g = f)
  BY <1>1 DEF Holders
<1>6. IsFiniteSet(S)
  BY Counts
<1> HIDE DEF S, T, x
<1>7. Cardinality(T) + One(x \in S) = Cardinality(S) + One(x \in T)
  BY <1>4, <1>6, CountOne
<1> QED  BY <1>2, <1>5, <1>7 DEF One, S

(* Only the task that takes a step changes what it owes.                    *)
LEMMA OwingAfter ==
  ASSUME NEW t \in Task, NEW f \in File,
         \A u \in Task \ {t} : pc'[u] = pc[u] /\ cur'[u] = cur[u] /\ fd'[u] = fd[u]
  PROVE  /\ Cardinality(Owing(f)') + One(Owes(t, f)) = Cardinality(Owing(f)) + One(Owes(t, f)')
         /\ Cardinality(Lacking(f)') + One(Lacks(t, f)) = Cardinality(Lacking(f)) + One(Lacks(t, f)')
<1> DEFINE S == Owing(f)
           T == Owing(f)'
           U == Lacking(f)
           V == Lacking(f)'
<1>1. T \subseteq S \cup {t} /\ S \subseteq T \cup {t}
  BY DEF Owing, Owes
<1>2. U \subseteq V \cup {t} /\ V \subseteq U \cup {t}
  BY DEF Lacking, Lacks
<1>3. (t \in S <=> Owes(t, f)) /\ (t \in T <=> Owes(t, f)')
  BY DEF Owing
<1>4. (t \in U <=> Lacks(t, f)) /\ (t \in V <=> Lacks(t, f)')
  BY DEF Lacking
<1>5. IsFiniteSet(S) /\ IsFiniteSet(U)
  BY Counts
<1> HIDE DEF S, T, U, V
<1>6. Cardinality(T) + One(t \in S) = Cardinality(S) + One(t \in T)
  BY <1>1, <1>5, CountOne
<1>7. Cardinality(V) + One(t \in U) = Cardinality(U) + One(t \in V)
  BY <1>2, <1>5, CountOne
<1>8. Cardinality(T) + One(Owes(t, f)) = Cardinality(S) + One(Owes(t, f)')
  BY <1>3, <1>6 DEF One
<1>9. Cardinality(V) + One(Lacks(t, f)) = Cardinality(U) + One(Lacks(t, f)')
  BY <1>4, <1>7 DEF One
<1> QED  BY <1>8, <1>9 DEF S, T, U, V

(* A set of tasks that have a file in their tables is no larger than the    *)
(* set of its holders.                                                      *)
LEMMA TasksHold ==
  ASSUME NEW f, NEW S \in SUBSET Task, \A u \in S : \E d \in Fd : fds[u][d] = f
  PROVE  Cardinality(S) <= Cardinality(Holders(f))
<1> DEFINE hold == [u \in S |-> <<u, CHOOSE d \in Fd : fds[u][d] = f>>]
<1>1. \A u \in S : hold[u] \in Holders(f) /\ hold[u][1] = u
  <2> SUFFICES ASSUME NEW u \in S
               PROVE  hold[u] \in Holders(f) /\ hold[u][1] = u
    OBVIOUS
  <2> DEFINE c == CHOOSE d \in Fd : fds[u][d] = f
  <2>1. c \in Fd /\ fds[u][c] = f
    OBVIOUS
  <2>2. hold[u] = <<u, c>>
    OBVIOUS
  <2> HIDE DEF c, hold
  <2> QED  BY <2>1, <2>2, HolderPairs
<1> HIDE DEF hold
<1>2. hold \in Injection(S, Holders(f))
  <2>1. hold \in [S -> Holders(f)]
    BY <1>1 DEF hold
  <2>2. \A u, v \in S : hold[u] = hold[v] => u = v
    BY <1>1
  <2> QED  BY <2>1, <2>2 DEF Injection, IsInjective
<1> QED  BY <1>2, Counts, FS_Injection

(* A task whose call lacks a descriptor has one that will be cleared or, in *)
(* sys_dup, two.                                                            *)
LEMMA LackingHold ==
  ASSUME FileInv, NEW f \in File, NEW u \in Lacking(f)
  PROVE  \E d \in Fd : fds[u][d] = f
BY DEF Lacking, Lacks, FileInv, Locals, LocalsOf, Owning, Failing, Own

(* file_free and file_alloc never see a count that is too small: it is      *)
(* positive while a task has a descriptor it is not about to clear, or owes *)
(* one.                                                                     *)
LEMMA RefPositive ==
  ASSUME FileInv, NEW t \in Task, NEW f \in File, ~ Lacks(t, f),
         Owes(t, f) \/ \E d \in Fd : fds[t][d] = f
  PROVE  ref[f] > 0
<1> DEFINE h == Cardinality(Holders(f))
           l == Cardinality(Lacking(f))
           o == Cardinality(Owing(f))
<1>1. ref[f] + l = h + wiped[f] + o /\ ref[f] \in Nat /\ wiped[f] \in Nat
  BY DEF FileInv, Balanced, FileTypeOK
<1>2. h \in Nat /\ l \in Nat /\ o \in Nat
  BY Counts
<1>3. Lacking(f) \subseteq Task /\ t \notin Lacking(f) /\ IsFiniteSet(Lacking(f))
  BY Counts DEF Lacking
<1>4. CASE Owes(t, f)
  <2>1. t \in Owing(f)
    BY <1>4 DEF Owing
  <2>2. o # 0
    BY <2>1, Counts, FS_EmptySet
  <2>3. l <= h
    BY <1>3, LackingHold, TasksHold
  <2> HIDE DEF h, l, o
  <2> QED  BY <1>1, <1>2, <2>2, <2>3
<1>5. CASE \E d \in Fd : fds[t][d] = f
  <2>1. Cardinality(Lacking(f) \cup {t}) = l + 1
    BY <1>3, CountAdd
  <2>2. Cardinality(Lacking(f) \cup {t}) <= h
    <3>1. Lacking(f) \cup {t} \subseteq Task
      BY <1>3
    <3>2. \A u \in Lacking(f) \cup {t} : \E d \in Fd : fds[u][d] = f
      BY <1>5, LackingHold
    <3> QED  BY <3>1, <3>2, TasksHold
  <2> HIDE DEF h, l, o
  <2> QED  BY <1>1, <1>2, <2>1, <2>2
<1> QED  BY <1>4, <1>5

(* A step that changes one descriptor keeps the balance if its own entries  *)
(* in the account match.                                                    *)
LEMMA Ledger ==
  ASSUME FileTypeOK, Balanced, ref' \in [File -> Nat], wiped' \in [File -> Nat], NEW t \in Task,
         \A u \in Task \ {t} : pc'[u] = pc[u] /\ cur'[u] = cur[u] /\ fd'[u] = fd[u],
         NEW a \in Task, NEW d \in Fd, NEW g \in File \cup {NoFile}, SetFd(a, d, g),
         \A f \in File :
           ref'[f] + One(Lacks(t, f)') + One(fds[a][d] = f) + wiped[f] + One(Owes(t, f))
             = ref[f] + One(Lacks(t, f)) + One(g = f) + wiped'[f] + One(Owes(t, f)')
  PROVE  Balanced'
<1> SUFFICES ASSUME NEW f \in File
             PROVE  ref'[f] + Cardinality(Lacking(f)')
                      = Cardinality(Holders(f)') + wiped'[f] + Cardinality(Owing(f)')
  BY DEF Balanced
<1> DEFINE h == Cardinality(Holders(f))
           l == Cardinality(Lacking(f))
           o == Cardinality(Owing(f))
           h1 == Cardinality(Holders(f)')
           l1 == Cardinality(Lacking(f)')
           o1 == Cardinality(Owing(f)')
           x == One(Lacks(t, f))
           y == One(Owes(t, f))
           z == One(fds[a][d] = f)
           x1 == One(Lacks(t, f)')
           y1 == One(Owes(t, f)')
           z1 == One(g = f)
<1>1. ref[f] + l = h + wiped[f] + o
  BY DEF Balanced
<1>2. h \in Nat /\ l \in Nat /\ o \in Nat
  BY Counts
<1>3. h1 + z = h + z1
  BY HoldersAfter
<1>4. o1 + y = o + y1 /\ l1 + x = l + x1
  BY OwingAfter
<1>5. ref'[f] + x1 + z + wiped[f] + y = ref[f] + x + z1 + wiped'[f] + y1
  OBVIOUS
<1>6. x \in Nat /\ y \in Nat /\ z \in Nat /\ x1 \in Nat /\ y1 \in Nat /\ z1 \in Nat
  BY DEF One
<1>7. h1 \in Nat /\ l1 \in Nat /\ o1 \in Nat
  <2>1. Holders(f)' \subseteq Task \X Fd /\ Lacking(f)' \subseteq Task /\ Owing(f)' \subseteq Task
    BY DEF Holders, Lacking, Owing
  <2>2. IsFiniteSet(Holders(f)') /\ IsFiniteSet(Lacking(f)') /\ IsFiniteSet(Owing(f)')
    BY <2>1, FileIds, FS_Subset
  <2> QED  BY <2>2, FS_CardinalityType
<1>8. ref[f] \in Nat /\ wiped[f] \in Nat /\ ref'[f] \in Nat /\ wiped'[f] \in Nat
  BY DEF FileTypeOK
<1> HIDE DEF h, l, o, h1, l1, o1, x, y, z, x1, y1, z1
<1>9. ref'[f] + l1 = h1 + wiped'[f] + o1
  BY <1>1, <1>2, <1>3, <1>4, <1>5, <1>6, <1>7, <1>8
<1> QED  BY <1>9 DEF h1, l1, o1

(* The same for a step that changes no descriptor.                          *)
LEMMA LedgerSame ==
  ASSUME FileTypeOK, Balanced, ref' \in [File -> Nat], wiped' = wiped, NEW t \in Task,
         \A u \in Task \ {t} : pc'[u] = pc[u] /\ cur'[u] = cur[u] /\ fd'[u] = fd[u],
         fds' = fds,
         \A f \in File :
           ref'[f] + One(Lacks(t, f)') + One(Owes(t, f))
             = ref[f] + One(Lacks(t, f)) + One(Owes(t, f)')
  PROVE  Balanced'
<1> DEFINE g == fds[t][0]
<1>1. 0 \in Fd
  BY FileIds
<1>2. g \in File \cup {NoFile}
  BY <1>1 DEF FileTypeOK
<1>3. SetFd(t, 0, g)
  BY <1>1 DEF FileTypeOK, SetFd
<1>4. wiped' \in [File -> Nat]
  BY DEF FileTypeOK
<1>5. ASSUME NEW f \in File
      PROVE  ref'[f] + One(Lacks(t, f)') + One(fds[t][0] = f) + wiped[f] + One(Owes(t, f))
               = ref[f] + One(Lacks(t, f)) + One(g = f) + wiped'[f] + One(Owes(t, f)')
  <2> DEFINE x == One(Lacks(t, f))
             y == One(Owes(t, f))
             z == One(fds[t][0] = f)
             x1 == One(Lacks(t, f)')
             y1 == One(Owes(t, f)')
  <2>1. ref'[f] + x1 + y = ref[f] + x + y1
    BY <1>5
  <2>2. x \in Nat /\ y \in Nat /\ z \in Nat /\ x1 \in Nat /\ y1 \in Nat
    BY DEF One
  <2>3. ref[f] \in Nat /\ ref'[f] \in Nat /\ wiped[f] \in Nat /\ wiped'[f] = wiped[f]
    BY <1>5 DEF FileTypeOK
  <2> HIDE DEF x, y, z, x1, y1
  <2>4. ref'[f] + x1 + z + wiped[f] + y = ref[f] + x + z + wiped'[f] + y1
    BY <2>1, <2>2, <2>3
  <2> QED  BY <2>4 DEF x, y, z, x1, y1
<1> HIDE DEF g
<1> QED  BY <1>1, <1>2, <1>3, <1>4, <1>5, Ledger

-----------------------------------------------------------------------------
(* The steps.                                                               *)

(* While a task closes a file nobody else is in a call, so no step of       *)
(* another call meets it.                                                   *)
LEMMA NobodyCloses ==
  ASSUME FileInv, NEW t \in Task,
         pc[t] \notin {"user", "io"} \/ (ClosesAlone /\ MayCall(t))
  PROVE  \A u \in Task \ {t} : ~ Closing(u)
BY DEF FileInv, CloseAlone, MayCall

(* A step of one call keeps the invariant if it does so for the task that   *)
(* takes it, and does not touch the tables of others or, while another task *)
(* closes a file, the counts.                                               *)
LEMMA OneCall ==
  ASSUME FileInv, NEW t \in Task, t \in alive, pc[t] # "copy", FileTypeOK', pc'[t] # "copy",
         UNCHANGED <<alive, child>>,
         \A u \in Task \ {t} :
           /\ pc'[u] = pc[u] /\ cur'[u] = cur[u] /\ fd'[u] = fd[u] /\ old'[u] = old[u]
           /\ fds'[u] = fds[u],
         (\E u \in Task \ {t} : Closing(u)) =>
           ref' = ref /\ fds' = fds /\ pc'[t] \in {"user", "io"},
         Closing(t)' => Closing(t) \/ (\A u \in Task \ {t} : pc[u] \in {"user", "io"}),
         \A f \in File : opened[f] => opened'[f] \/ Holders(f) \subseteq {t} \X Fd,
         LocalsOf(t)', LastOf(t)', OpenHeldOf(t)', Balanced'
  PROVE  FileInv'
<1>1. Locals'
  <2> SUFFICES ASSUME NEW u \in Task, u # t
               PROVE  LocalsOf(u)'
    BY DEF Locals
  <2>1. LocalsOf(u)
    BY DEF FileInv, Locals
  <2>2. pc[u] = "closeStore" => ref' = ref
    BY DEF Closing
  <2> QED  BY <2>1, <2>2 DEF LocalsOf, Own
<1>2. Forks'
  <2>1. /\ alive' = alive /\ child' = child
        /\ \A u \in Task : pc'[u] = "copy" <=> pc[u] = "copy"
        /\ \A u \in Task : pc[u] = "copy" => fd'[u] = fd[u]
        /\ \A u \in Task \ alive : fds'[u] = fds[u]
    OBVIOUS
  <2>2. child \in [Task -> Task]
    BY DEF FileInv, FileTypeOK
  <2> QED  BY <2>1, <2>2 DEF FileInv, Forks
<1>3. CloseAlone'
  <2> SUFFICES ASSUME NEW u \in Task, NEW v \in Task, Closing(u)', v # u
               PROVE  pc'[v] \in {"user", "io"}
    BY DEF CloseAlone
  <2>1. CASE u = t
    BY <2>1 DEF FileInv, CloseAlone
  <2>2. CASE u # t
    <3>1. Closing(u)
      BY <2>2 DEF Closing
    <3> QED  BY <2>2, <3>1 DEF FileInv, CloseAlone
  <2> QED  BY <2>1, <2>2
<1>4. OpenHeld'
  <2> SUFFICES ASSUME NEW u \in Task, u # t
               PROVE  OpenHeldOf(u)'
    BY DEF OpenHeld
  <2>1. OpenHeldOf(u)
    BY DEF FileInv, OpenHeld
  <2>2. ASSUME NEW d \in Fd, fds[u][d] # NoFile, opened[fds[u][d]]
        PROVE  opened'[fds[u][d]]
    <3>1. fds[u][d] \in File /\ <<u, d>> \in Holders(fds[u][d])
      BY <2>2, HolderPairs DEF FileInv, FileTypeOK
    <3>2. <<u, d>> \notin {t} \X Fd
      OBVIOUS
    <3> QED  BY <2>2, <3>1, <3>2
  <2> QED  BY <2>1, <2>2 DEF OpenHeldOf
<1>5. LastCloser'
  <2> SUFFICES ASSUME NEW u \in Task, u # t, pc[u] \in {"fsClose", "closeFree"}
               PROVE  LastOf(u)'
    BY DEF LastCloser, LastOf
  <2>1. ref' = ref /\ fds' = fds
    BY DEF Closing
  <2> QED  BY <2>1 DEF FileInv, LastCloser, LastOf, Holders
<1> QED  BY <1>1, <1>2, <1>3, <1>4, <1>5 DEF FileInv

(* task_alloc_fd, task_remove_fd: one entry of one table.                   *)
LEMMA SetFdAt ==
  ASSUME FileTypeOK, NEW a \in Task, NEW d \in Fd, NEW g \in File \cup {NoFile}, SetFd(a, d, g)
  PROVE  /\ fds' \in [Task -> [Fd -> File \cup {NoFile}]]
         /\ \A u \in Task, e \in Fd : fds'[u][e] = IF u = a /\ e = d THEN g ELSE fds[u][e]
         /\ \A u \in Task \ {a} : fds'[u] = fds[u]
BY DEF FileTypeOK, SetFd

(* A task that makes a call is alive and owes nothing.                      *)
LEMMA Caller ==
  ASSUME FileInv, NEW t \in Task, MayCall(t)
  PROVE  /\ t \in alive /\ pc[t] = "user" /\ fd[t] = NoFd
         /\ \A f \in File : ~ Lacks(t, f) /\ ~ Owes(t, f)
         /\ \A d \in Fd : fds[t][d] # NoFile => opened[fds[t][d]]
BY DEF MayCall, FileInv, Locals, LocalsOf, OpenHeld, OpenHeldOf, Pending, Failing, Lacks, Owes

(* sys_open begins.                                                         *)
LEMMA OpenCallFile == ASSUME FileInv, ClosesAlone, NEW t \in Task, OpenCall(t) PROVE FileInv'
<1>1. MayCall(t) /\ pc' = [pc EXCEPT ![t] = "fileAlloc"]
      /\ UNCHANGED <<ref, opened, fds, alive, cur, fd, old, child, wiped>>
  BY DEF OpenCall, Goto
<1>2. FileTypeOK' /\ pc'[t] = "fileAlloc" /\ \A u \in Task \ {t} : pc'[u] = pc[u]
  BY <1>1 DEF FileInv, FileTypeOK, FilePlaces
<1>3. LocalsOf(t)' /\ LastOf(t)' /\ OpenHeldOf(t)'
  BY <1>1, <1>2, Caller DEF LocalsOf, LastOf, OpenHeldOf, Owning, Failing
<1>4. \A f \in File : ~ Lacks(t, f)' /\ ~ Owes(t, f)'
  BY <1>2 DEF Lacks, Owes
<1>5. Balanced'
  BY <1>1, <1>2, <1>4, Caller, LedgerSame DEF FileInv, FileTypeOK, One
<1>6. \A u \in Task \ {t} : ~ Closing(u)
  BY <1>1, NobodyCloses
<1>7. ~ Closing(t)'
  BY <1>2 DEF Closing
<1> QED  BY <1>1, <1>2, <1>3, <1>5, <1>6, <1>7, Caller, OneCall

(* file_alloc finds a slot: the call owes its descriptor.                   *)
LEMMA FileAllocFile == ASSUME FileInv, NEW t \in Task, FileAlloc(t) PROVE FileInv'
<1>1. PICK f \in File : /\ ref[f] = 0 /\ ref' = [ref EXCEPT ![f] = 1]
                        /\ cur' = [cur EXCEPT ![t] = f]
  BY DEF FileAlloc, FirstFreeFile
<1>2. pc[t] = "fileAlloc" /\ pc' = [pc EXCEPT ![t] = "allocFd"]
      /\ UNCHANGED <<opened, fds, alive, fd, old, child, wiped>>
  BY DEF FileAlloc, Goto
<1>3. FileTypeOK' /\ pc'[t] = "allocFd" /\ cur'[t] = f
      /\ \A u \in Task \ {t} : pc'[u] = pc[u] /\ cur'[u] = cur[u]
  BY <1>1, <1>2 DEF FileInv, FileTypeOK, FilePlaces
<1>4. t \in alive /\ fd[t] = NoFd /\ OpenHeldOf(t)
  BY <1>2 DEF FileInv, Locals, LocalsOf, OpenHeld
<1>5. LocalsOf(t)' /\ LastOf(t)' /\ OpenHeldOf(t)'
  BY <1>2, <1>3, <1>4 DEF LocalsOf, LastOf, OpenHeldOf, Owning, Failing, Pending
<1>6. \A g \in File : ~ Lacks(t, g) /\ ~ Owes(t, g) /\ ~ Lacks(t, g)' /\ (Owes(t, g)' <=> g = f)
  BY <1>2, <1>3 DEF Lacks, Owes
<1>7. Balanced'
  BY <1>1, <1>2, <1>3, <1>6, LedgerSame DEF FileInv, FileTypeOK, One
<1>8. \A u \in Task \ {t} : ~ Closing(u)
  BY <1>2, NobodyCloses
<1>9. ~ Closing(t)'
  BY <1>3 DEF Closing
<1> QED  BY <1>2, <1>3, <1>4, <1>5, <1>7, <1>8, <1>9, OneCall

(* file_alloc finds none: a descriptor may be cleared by accident.          *)
LEMMA FileAllocFullFile == ASSUME FileInv, NEW t \in Task, FileAllocFull(t) PROVE FileInv'
<1>1. /\ pc[t] = "fileAlloc" /\ pc' = [pc EXCEPT ![t] = "user"]
      /\ cur' = [cur EXCEPT ![t] = NoFile] /\ fd' = [fd EXCEPT ![t] = NoFd]
      /\ UNCHANGED <<ref, opened, alive, old, child>>
  BY DEF FileAllocFull, Return, Goto
<1>2. \/ \E d \in Fd : /\ SetFd(t, d, NoFile)
                       /\ wiped' = [f \in File |-> wiped[f] + IF fds[t][d] = f THEN 1 ELSE 0]
      \/ UNCHANGED <<fds, wiped>>
  BY DEF FileAllocFull
<1>3. /\ fds' \in [Task -> [Fd -> File \cup {NoFile}]] /\ wiped' \in [File -> Nat]
      /\ \A u \in Task \ {t} : fds'[u] = fds[u]
      /\ \A d \in Fd : fds'[t][d] \in {fds[t][d], NoFile}
  <2>1. CASE UNCHANGED <<fds, wiped>>
    BY <2>1 DEF FileInv, FileTypeOK
  <2>2. ASSUME NEW d \in Fd, SetFd(t, d, NoFile),
               wiped' = [f \in File |-> wiped[f] + IF fds[t][d] = f THEN 1 ELSE 0]
        PROVE  /\ fds' \in [Task -> [Fd -> File \cup {NoFile}]] /\ wiped' \in [File -> Nat]
               /\ \A u \in Task \ {t} : fds'[u] = fds[u]
               /\ \A e \in Fd : fds'[t][e] \in {fds[t][e], NoFile}
    <3>1. wiped' \in [File -> Nat]
      BY <2>2 DEF FileInv, FileTypeOK
    <3> QED  BY <2>2, <3>1, SetFdAt DEF FileInv
  <2> QED  BY <1>2, <2>1, <2>2
<1>4. FileTypeOK' /\ pc'[t] = "user" /\ cur'[t] = NoFile /\ fd'[t] = NoFd
      /\ \A u \in Task \ {t} : pc'[u] = pc[u] /\ cur'[u] = cur[u] /\ fd'[u] = fd[u]
  BY <1>1, <1>3 DEF FileInv, FileTypeOK, FilePlaces
<1>5. t \in alive /\ OpenHeldOf(t)
  BY <1>1 DEF FileInv, Locals, LocalsOf, OpenHeld
<1>6. LocalsOf(t)' /\ LastOf(t)' /\ OpenHeldOf(t)'
  BY <1>1, <1>3, <1>4, <1>5 DEF LocalsOf, LastOf, OpenHeldOf, Owning, Failing, Pending
<1>7. \A g \in File : ~ Lacks(t, g) /\ ~ Owes(t, g) /\ ~ Lacks(t, g)' /\ ~ Owes(t, g)'
  BY <1>1, <1>4 DEF Lacks, Owes
<1>8. Balanced'
  <2>1. CASE UNCHANGED <<fds, wiped>>
    BY <1>1, <1>4, <1>7, <2>1, LedgerSame DEF FileInv, FileTypeOK, One
  <2>2. ASSUME NEW d \in Fd, SetFd(t, d, NoFile),
               wiped' = [f \in File |-> wiped[f] + IF fds[t][d] = f THEN 1 ELSE 0]
        PROVE  Balanced'
    <3>1. ASSUME NEW f \in File
          PROVE  ref'[f] + One(Lacks(t, f)') + One(fds[t][d] = f) + wiped[f] + One(Owes(t, f))
                   = ref[f] + One(Lacks(t, f)) + One(NoFile = f) + wiped'[f] + One(Owes(t, f)')
      <4>1. wiped'[f] = wiped[f] + One(fds[t][d] = f) /\ One(NoFile = f) = 0
        BY <2>2, FileIds DEF One
      <4>2. One(Lacks(t, f)') = 0 /\ One(Lacks(t, f)) = 0 /\ One(Owes(t, f)) = 0
            /\ One(Owes(t, f)') = 0
        BY <1>7 DEF One
      <4>3. ref'[f] = ref[f] /\ ref[f] \in Nat /\ wiped[f] \in Nat /\ One(fds[t][d] = f) \in Nat
        BY <1>1 DEF FileInv, FileTypeOK, One
      <4> QED  BY <4>1, <4>2, <4>3
    <3>2. NoFile \in File \cup {NoFile} /\ ref' \in [File -> Nat]
      BY <1>1 DEF FileInv, FileTypeOK
    <3> QED  BY <1>3, <1>4, <2>2, <3>1, <3>2, Ledger DEF FileInv
  <2> QED  BY <1>2, <2>1, <2>2
<1>9. \A u \in Task \ {t} : ~ Closing(u)
  BY <1>1, NobodyCloses
<1>10. ~ Closing(t)'
  BY <1>4 DEF Closing
<1> QED  BY <1>1, <1>3, <1>4, <1>5, <1>6, <1>8, <1>9, <1>10, OneCall

(* task_alloc_fd stores the descriptor.                                     *)
LEMMA AllocFdFile == ASSUME FileInv, NEW t \in Task, AllocFd(t) PROVE FileInv'
<1>1. PICK d \in Fd : /\ fds[t][d] = NoFile /\ SetFd(t, d, cur[t])
                      /\ fd' = [fd EXCEPT ![t] = d]
  BY DEF AllocFd, FirstFreeFd
<1>2. pc[t] = "allocFd" /\ pc' = [pc EXCEPT ![t] = "fsOpen"]
      /\ UNCHANGED <<ref, opened, alive, cur, old, child, wiped>>
  BY DEF AllocFd, Goto
<1>3. t \in alive /\ fd[t] = NoFd /\ OpenHeldOf(t) /\ cur[t] \in File /\ NoFd # d /\ cur[t] # NoFile
  BY <1>2, FileIds DEF FileInv, Locals, LocalsOf, OpenHeld
<1>4. /\ fds' \in [Task -> [Fd -> File \cup {NoFile}]]
      /\ \A u \in Task, e \in Fd : fds'[u][e] = IF u = t /\ e = d THEN cur[t] ELSE fds[u][e]
      /\ \A u \in Task \ {t} : fds'[u] = fds[u]
  BY <1>1, <1>3, SetFdAt DEF FileInv
<1>5. FileTypeOK' /\ pc'[t] = "fsOpen" /\ fd'[t] = d
      /\ \A u \in Task \ {t} : pc'[u] = pc[u] /\ fd'[u] = fd[u]
  BY <1>1, <1>2, <1>4 DEF FileInv, FileTypeOK, FilePlaces
<1>6. LocalsOf(t)' /\ LastOf(t)' /\ OpenHeldOf(t)'
  BY <1>2, <1>3, <1>4, <1>5 DEF LocalsOf, LastOf, OpenHeldOf, Owning, Failing, Pending, Own
<1>7. \A g \in File : ~ Lacks(t, g) /\ (Owes(t, g) <=> g = cur[t])
                      /\ ~ Lacks(t, g)' /\ ~ Owes(t, g)'
  BY <1>2, <1>3, <1>5 DEF Lacks, Owes
<1>8. Balanced'
  <2>1. ASSUME NEW f \in File
        PROVE  ref'[f] + One(Lacks(t, f)') + One(fds[t][d] = f) + wiped[f] + One(Owes(t, f))
                 = ref[f] + One(Lacks(t, f)) + One(cur[t] = f) + wiped'[f] + One(Owes(t, f)')
    <3>1. One(Lacks(t, f)') = 0 /\ One(Lacks(t, f)) = 0 /\ One(Owes(t, f)') = 0
          /\ One(Owes(t, f)) = One(cur[t] = f) /\ One(fds[t][d] = f) = 0
      BY <1>1, <1>7, FileIds DEF One
    <3>2. ref'[f] = ref[f] /\ wiped'[f] = wiped[f] /\ ref[f] \in Nat /\ wiped[f] \in Nat
          /\ One(cur[t] = f) \in Nat
      BY <1>2 DEF FileInv, FileTypeOK, One
    <3> QED  BY <3>1, <3>2
  <2>2. ref' \in [File -> Nat] /\ wiped' \in [File -> Nat] /\ cur[t] \in File \cup {NoFile}
    BY <1>2, <1>3 DEF FileInv, FileTypeOK
  <2> QED  BY <1>1, <1>2, <1>5, <2>1, <2>2, Ledger DEF FileInv
<1>9. \A u \in Task \ {t} : ~ Closing(u)
  BY <1>2, NobodyCloses
<1>10. ~ Closing(t)'
  BY <1>5 DEF Closing
<1> QED  BY <1>2, <1>3, <1>4, <1>5, <1>6, <1>8, <1>9, <1>10, OneCall

(* task_alloc_fd finds no descriptor.                                       *)
LEMMA AllocFdFullFile == ASSUME FileInv, NEW t \in Task, AllocFdFull(t) PROVE FileInv'
<1>1. pc[t] = "allocFd" /\ pc' = [pc EXCEPT ![t] = "openFree"]
      /\ UNCHANGED <<ref, opened, fds, alive, cur, fd, old, child, wiped>>
  BY DEF AllocFdFull, Goto
<1>2. FileTypeOK' /\ pc'[t] = "openFree" /\ \A u \in Task \ {t} : pc'[u] = pc[u]
  BY <1>1 DEF FileInv, FileTypeOK, FilePlaces
<1>3. t \in alive /\ fd[t] = NoFd /\ OpenHeldOf(t) /\ cur[t] \in File
  BY <1>1 DEF FileInv, Locals, LocalsOf, OpenHeld
<1>4. LocalsOf(t)' /\ LastOf(t)' /\ OpenHeldOf(t)'
  BY <1>1, <1>2, <1>3 DEF LocalsOf, LastOf, OpenHeldOf, Owning, Failing, Pending
<1>5. \A f \in File : ~ Lacks(t, f) /\ ~ Lacks(t, f)' /\ (Owes(t, f) <=> Owes(t, f)')
  BY <1>1, <1>2, <1>3 DEF Lacks, Owes
<1>6. Balanced'
  BY <1>1, <1>2, <1>5, LedgerSame DEF FileInv, FileTypeOK, One
<1>7. \A u \in Task \ {t} : ~ Closing(u)
  BY <1>1, NobodyCloses
<1>8. ~ Closing(t)'
  BY <1>2 DEF Closing
<1> QED  BY <1>1, <1>2, <1>3, <1>4, <1>6, <1>7, <1>8, OneCall

(* The open of the file system succeeds.                                    *)
LEMMA FsOpenFile == ASSUME FileInv, NEW t \in Task, FsOpen(t) PROVE FileInv'
<1>1. /\ pc[t] = "fsOpen" /\ pc' = [pc EXCEPT ![t] = "user"]
      /\ cur' = [cur EXCEPT ![t] = NoFile] /\ fd' = [fd EXCEPT ![t] = NoFd]
      /\ opened' = [opened EXCEPT ![cur[t]] = TRUE]
      /\ UNCHANGED <<ref, fds, alive, old, child, wiped>>
  BY DEF FsOpen, Return, Goto
<1>2. FileTypeOK' /\ pc'[t] = "user" /\ cur'[t] = NoFile /\ fd'[t] = NoFd
      /\ \A u \in Task \ {t} : pc'[u] = pc[u] /\ cur'[u] = cur[u] /\ fd'[u] = fd[u]
  BY <1>1 DEF FileInv, FileTypeOK, FilePlaces
<1>3. t \in alive /\ OpenHeldOf(t) /\ cur[t] \in File
  BY <1>1 DEF FileInv, Locals, LocalsOf, OpenHeld, Owning
<1>4. \A f \in File : opened'[f] = (opened[f] \/ f = cur[t])
  BY <1>1 DEF FileInv, FileTypeOK
<1>5. LocalsOf(t)' /\ LastOf(t)'
  BY <1>2 DEF LocalsOf, LastOf, Owning, Failing
<1>6. OpenHeldOf(t)'
  BY <1>1, <1>3, <1>4 DEF OpenHeldOf, FileInv, FileTypeOK
<1>7. \A f \in File : ~ Lacks(t, f) /\ ~ Owes(t, f) /\ ~ Lacks(t, f)' /\ ~ Owes(t, f)'
  BY <1>1, <1>2 DEF Lacks, Owes
<1>8. Balanced'
  BY <1>1, <1>2, <1>7, LedgerSame DEF FileInv, FileTypeOK, One
<1>9. \A u \in Task \ {t} : ~ Closing(u)
  BY <1>1, NobodyCloses
<1>10. ~ Closing(t)'
  BY <1>2 DEF Closing
<1> QED  BY <1>1, <1>2, <1>3, <1>4, <1>5, <1>6, <1>8, <1>9, <1>10, OneCall

(* The open of the file system fails.                                       *)
LEMMA FsOpenFailsFile == ASSUME FileInv, NEW t \in Task, FsOpenFails(t) PROVE FileInv'
<1>1. pc[t] = "fsOpen" /\ pc' = [pc EXCEPT ![t] = "openFree"]
      /\ UNCHANGED <<ref, opened, fds, alive, cur, fd, old, child, wiped>>
  BY DEF FsOpenFails, Goto
<1>2. FileTypeOK' /\ pc'[t] = "openFree" /\ \A u \in Task \ {t} : pc'[u] = pc[u]
  BY <1>1 DEF FileInv, FileTypeOK, FilePlaces
<1>3. t \in alive /\ fd[t] # NoFd /\ OpenHeldOf(t) /\ cur[t] \in File /\ Own(t)
  BY <1>1, FileIds DEF FileInv, Locals, LocalsOf, OpenHeld, Owning, Own
<1>4. LocalsOf(t)' /\ LastOf(t)' /\ OpenHeldOf(t)'
  BY <1>1, <1>2, <1>3 DEF LocalsOf, LastOf, OpenHeldOf, Owning, Failing, Pending, Own
<1>5. \A f \in File : ~ Lacks(t, f) /\ ~ Owes(t, f) /\ ~ Lacks(t, f)' /\ ~ Owes(t, f)'
  BY <1>1, <1>2, <1>3 DEF Lacks, Owes
<1>6. Balanced'
  BY <1>1, <1>2, <1>5, LedgerSame DEF FileInv, FileTypeOK, One
<1>7. \A u \in Task \ {t} : ~ Closing(u)
  BY <1>1, NobodyCloses
<1>8. ~ Closing(t)'
  BY <1>2 DEF Closing
<1> QED  BY <1>1, <1>2, <1>3, <1>4, <1>6, <1>7, <1>8, OneCall

(* file_free on the failure path of sys_open.                               *)
LEMMA OpenFreeFile == ASSUME FileInv, NEW t \in Task, OpenFree(t) PROVE FileInv'
<1> DEFINE c == cur[t]
<1>1. pc[t] = "openFree" /\ pc' = [pc EXCEPT ![t] = "openRemove"] /\ ref' = Freed(c)
      /\ UNCHANGED <<opened, fds, alive, cur, fd, old, child, wiped>>
  BY DEF OpenFree, Goto
<1>2. t \in alive /\ OpenHeldOf(t) /\ c \in File /\ (fd[t] = NoFd \/ Own(t))
  BY <1>1 DEF FileInv, Locals, LocalsOf, OpenHeld, Failing
<1>3. ref[c] > 0
  BY <1>1, <1>2, RefPositive DEF Lacks, Owes, Own
<1>4. ref' = [ref EXCEPT ![c] = ref[c] - 1] /\ ref[c] \in Nat
  <2>1. ref' = [ref EXCEPT ![c] = IF ref[c] = 0 THEN 0 ELSE ref[c] - 1]
    BY <1>1 DEF Freed
  <2>2. ref[c] \in Nat /\ ref[c] # 0
    BY <1>2, <1>3 DEF FileInv, FileTypeOK
  <2> HIDE DEF c
  <2> QED  BY <2>1, <2>2
<1>5. ref' \in [File -> Nat] /\ \A f \in File : ref[f] = ref'[f] + One(f = c)
  BY <1>2, <1>3, <1>4 DEF FileInv, FileTypeOK, One
<1>6. FileTypeOK' /\ pc'[t] = "openRemove" /\ \A u \in Task \ {t} : pc'[u] = pc[u]
  BY <1>1, <1>5 DEF FileInv, FileTypeOK, FilePlaces
<1>7. LocalsOf(t)' /\ LastOf(t)' /\ OpenHeldOf(t)'
  BY <1>1, <1>2, <1>6 DEF LocalsOf, LastOf, OpenHeldOf, Owning, Failing, Pending, Own
<1>8. \A f \in File : /\ ~ Lacks(t, f) /\ ~ Owes(t, f)'
                      /\ Owes(t, f) <=> f = c /\ fd[t] = NoFd
                      /\ Lacks(t, f)' <=> f = c /\ fd[t] # NoFd
  BY <1>1, <1>6 DEF Lacks, Owes
<1>9. Balanced'
  <2>1. ASSUME NEW f \in File
        PROVE  ref'[f] + One(Lacks(t, f)') + One(Owes(t, f))
                 = ref[f] + One(Lacks(t, f)) + One(Owes(t, f)')
    <3>1. ref[f] = ref'[f] + One(f = c) /\ ref'[f] \in Nat
      BY <1>5
    <3>2. One(Lacks(t, f)') + One(Owes(t, f)) = One(f = c)
      BY <1>8 DEF One
    <3>3. One(Lacks(t, f)) = 0 /\ One(Owes(t, f)') = 0
      BY <1>8 DEF One
    <3>4. One(Lacks(t, f)') \in Nat /\ One(Owes(t, f)) \in Nat /\ One(f = c) \in Nat
      BY DEF One
    <3> QED  BY <3>1, <3>2, <3>3, <3>4
  <2> QED  BY <1>1, <1>5, <1>6, <2>1, LedgerSame DEF FileInv
<1>10. \A u \in Task \ {t} : ~ Closing(u)
  BY <1>1, NobodyCloses
<1>11. ~ Closing(t)'
  BY <1>6 DEF Closing
<1> QED  BY <1>1, <1>2, <1>6, <1>7, <1>9, <1>10, <1>11, OneCall

(* The end of a failing open or of a close: the descriptor that was lacking *)
(* goes away.                                                               *)
LEMMA RemoveBalance ==
  ASSUME FileInv, NEW t \in Task, pc[t] \in {"openRemove", "closeRemove"}, fd[t] \in Fd, Own(t),
         cur[t] \in File, SetFd(t, fd[t], NoFile), pc'[t] = "user", cur'[t] = NoFile, ref' = ref,
         wiped' = wiped,
         \A u \in Task \ {t} : pc'[u] = pc[u] /\ cur'[u] = cur[u] /\ fd'[u] = fd[u]
  PROVE  Balanced'
<1> DEFINE c == cur[t]
           d == fd[t]
<1>1. fds[t][d] = c /\ d # NoFd
  BY FileIds DEF Own
<1>2. ASSUME NEW f \in File
      PROVE  ref'[f] + One(Lacks(t, f)') + One(fds[t][d] = f) + wiped[f] + One(Owes(t, f))
               = ref[f] + One(Lacks(t, f)) + One(NoFile = f) + wiped'[f] + One(Owes(t, f)')
  <2>1. (Lacks(t, f) <=> f = c) /\ ~ Owes(t, f) /\ ~ Lacks(t, f)' /\ ~ Owes(t, f)'
    BY <1>1 DEF Lacks, Owes
  <2>2. One(Lacks(t, f)') = 0 /\ One(Owes(t, f)) = 0 /\ One(Owes(t, f)') = 0
        /\ One(NoFile = f) = 0 /\ One(fds[t][d] = f) = One(Lacks(t, f))
    BY <1>1, <2>1, FileIds DEF One
  <2>3. ref'[f] = ref[f] /\ wiped'[f] = wiped[f] /\ ref[f] \in Nat /\ wiped[f] \in Nat
        /\ One(Lacks(t, f)) \in Nat
    BY DEF FileInv, FileTypeOK, One
  <2> QED  BY <2>2, <2>3
<1>3. ref' \in [File -> Nat] /\ wiped' \in [File -> Nat] /\ NoFile \in File \cup {NoFile}
  BY DEF FileInv, FileTypeOK
<1> QED  BY <1>2, <1>3, Ledger DEF FileInv

(* task_remove_fd on the failure path of sys_open.                          *)
LEMMA OpenRemoveFile == ASSUME FileInv, NEW t \in Task, OpenRemove(t) PROVE FileInv'
<1>1. /\ pc[t] = "openRemove" /\ pc' = [pc EXCEPT ![t] = "user"]
      /\ cur' = [cur EXCEPT ![t] = NoFile] /\ fd' = [fd EXCEPT ![t] = NoFd]
      /\ IF fd[t] \in Fd THEN SetFd(t, fd[t], NoFile) ELSE UNCHANGED fds
      /\ UNCHANGED <<ref, opened, alive, old, child, wiped>>
  BY DEF OpenRemove, Return, Goto
<1>2. t \in alive /\ OpenHeldOf(t) /\ cur[t] \in File /\ (fd[t] = NoFd \/ Own(t))
  BY <1>1 DEF FileInv, Locals, LocalsOf, OpenHeld, Failing
<1>3. /\ fds' \in [Task -> [Fd -> File \cup {NoFile}]]
      /\ \A e \in Fd : fds'[t][e] = IF e = fd[t] THEN NoFile ELSE fds[t][e]
      /\ \A u \in Task \ {t} : fds'[u] = fds[u]
  <2>1. CASE fd[t] \in Fd
    BY <1>1, <2>1, SetFdAt DEF FileInv
  <2>2. CASE fd[t] \notin Fd
    BY <1>1, <2>2 DEF FileInv, FileTypeOK
  <2> QED  BY <2>1, <2>2
<1>4. FileTypeOK' /\ pc'[t] = "user" /\ cur'[t] = NoFile /\ fd'[t] = NoFd
      /\ \A u \in Task \ {t} : pc'[u] = pc[u] /\ cur'[u] = cur[u] /\ fd'[u] = fd[u]
  BY <1>1, <1>3 DEF FileInv, FileTypeOK, FilePlaces
<1>5. LocalsOf(t)' /\ LastOf(t)'
  BY <1>4 DEF LocalsOf, LastOf, Owning, Failing
<1>6. OpenHeldOf(t)'
  BY <1>1, <1>2, <1>3 DEF OpenHeldOf
<1>7. Balanced'
  <2>1. CASE fd[t] \in Fd
    <3>1. Own(t)
      BY <1>2, <2>1, FileIds
    <3> QED  BY <1>1, <1>2, <1>4, <2>1, <3>1, RemoveBalance
  <2>2. CASE fd[t] \notin Fd
    <3>1. fd[t] = NoFd
      BY <1>2, <2>2 DEF Own
    <3>2. \A f \in File : ~ Lacks(t, f) /\ ~ Owes(t, f) /\ ~ Lacks(t, f)' /\ ~ Owes(t, f)'
      BY <1>1, <1>4, <3>1 DEF Lacks, Owes
    <3> QED  BY <1>1, <1>4, <2>2, <3>2, LedgerSame DEF FileInv, FileTypeOK, One
  <2> QED  BY <2>1, <2>2
<1>8. \A u \in Task \ {t} : ~ Closing(u)
  BY <1>1, NobodyCloses
<1>9. ~ Closing(t)'
  BY <1>4 DEF Closing
<1> QED  BY <1>1, <1>2, <1>3, <1>4, <1>5, <1>6, <1>7, <1>8, <1>9, OneCall

(* sys_dup up to task_alloc_fd: the count lacks the new descriptor.         *)
LEMMA DupCallFile ==
  ASSUME FileInv, ClosesAlone, NEW t \in Task, NEW d \in Fd, DupCall(t, d)
  PROVE  FileInv'
<1> DEFINE c == fds[t][d]
<1>1. MayCall(t) /\ c # NoFile /\ pc' = [pc EXCEPT ![t] = "dupInc"] /\ cur' = [cur EXCEPT ![t] = c]
      /\ UNCHANGED <<ref, opened, alive, fd, old, child, wiped>>
  BY DEF DupCall, Goto
<1>2. PICK e \in Fd : fds[t][e] = NoFile /\ SetFd(t, e, c)
  BY DEF DupCall, FirstFreeFd
<1>3. c \in File /\ e # d /\ opened[c] /\ t \in alive /\ pc[t] = "user" /\ fd[t] = NoFd
  BY <1>1, <1>2, Caller DEF FileInv, FileTypeOK
<1> HIDE DEF c
<1>4. /\ fds' \in [Task -> [Fd -> File \cup {NoFile}]]
      /\ \A u \in Task, i \in Fd : fds'[u][i] = IF u = t /\ i = e THEN c ELSE fds[u][i]
      /\ \A u \in Task \ {t} : fds'[u] = fds[u]
  BY <1>2, <1>3, SetFdAt DEF FileInv
<1>5. FileTypeOK' /\ pc'[t] = "dupInc" /\ cur'[t] = c
      /\ \A u \in Task \ {t} : pc'[u] = pc[u] /\ cur'[u] = cur[u]
  BY <1>1, <1>3, <1>4 DEF FileInv, FileTypeOK, FilePlaces
<1>6. LocalsOf(t)' /\ LastOf(t)'
  BY <1>1, <1>3, <1>4, <1>5 DEF LocalsOf, LastOf, Owning, Failing
<1>7. OpenHeldOf(t)'
  <2>1. \A i \in Fd : fds[t][i] # NoFile => opened[fds[t][i]]
    BY <1>1, Caller
  <2> QED  BY <1>1, <1>3, <1>4, <2>1 DEF OpenHeldOf
<1>8. \A f \in File : /\ ~ Lacks(t, f) /\ ~ Owes(t, f) /\ ~ Owes(t, f)'
                      /\ Lacks(t, f)' <=> f = c
  BY <1>3, <1>5 DEF Lacks, Owes
<1>9. Balanced'
  <2>1. ASSUME NEW f \in File
        PROVE  ref'[f] + One(Lacks(t, f)') + One(fds[t][e] = f) + wiped[f] + One(Owes(t, f))
                 = ref[f] + One(Lacks(t, f)) + One(c = f) + wiped'[f] + One(Owes(t, f)')
    <3>1. One(Lacks(t, f)') = One(c = f) /\ One(Owes(t, f)) = 0 /\ One(Owes(t, f)') = 0
          /\ One(Lacks(t, f)) = 0 /\ One(fds[t][e] = f) = 0
      BY <1>2, <1>8, FileIds DEF One
    <3>2. ref'[f] = ref[f] /\ wiped'[f] = wiped[f] /\ ref[f] \in Nat /\ wiped[f] \in Nat
          /\ One(c = f) \in Nat
      BY <1>1 DEF FileInv, FileTypeOK, One
    <3> QED  BY <3>1, <3>2
  <2>2. ref' \in [File -> Nat] /\ wiped' \in [File -> Nat] /\ c \in File \cup {NoFile}
    BY <1>1, <1>3 DEF FileInv, FileTypeOK
  <2> QED  BY <1>1, <1>2, <1>5, <2>1, <2>2, Ledger DEF FileInv
<1>10. \A u \in Task \ {t} : ~ Closing(u)
  BY <1>1, NobodyCloses
<1>11. ~ Closing(t)'
  BY <1>5 DEF Closing
<1> QED  BY <1>1, <1>3, <1>4, <1>5, <1>6, <1>7, <1>9, <1>10, <1>11, OneCall

(* file_inc_ref of sys_dup.                                                 *)
LEMMA DupIncFile == ASSUME FileInv, NEW t \in Task, DupInc(t) PROVE FileInv'
<1> DEFINE c == cur[t]
<1>1. /\ pc[t] = "dupInc" /\ pc' = [pc EXCEPT ![t] = "user"]
      /\ cur' = [cur EXCEPT ![t] = NoFile] /\ fd' = [fd EXCEPT ![t] = NoFd]
      /\ ref' = [ref EXCEPT ![c] = ref[c] + 1]
      /\ UNCHANGED <<opened, fds, alive, old, child, wiped>>
  BY DEF DupInc, Return, Goto
<1>2. t \in alive /\ OpenHeldOf(t) /\ c \in File
  BY <1>1 DEF FileInv, Locals, LocalsOf, OpenHeld
<1>3. ref' \in [File -> Nat] /\ \A f \in File : ref'[f] = ref[f] + One(f = c)
  BY <1>1, <1>2 DEF FileInv, FileTypeOK, One
<1>4. FileTypeOK' /\ pc'[t] = "user" /\ cur'[t] = NoFile /\ fd'[t] = NoFd
      /\ \A u \in Task \ {t} : pc'[u] = pc[u] /\ cur'[u] = cur[u] /\ fd'[u] = fd[u]
  BY <1>1, <1>3 DEF FileInv, FileTypeOK, FilePlaces
<1>5. LocalsOf(t)' /\ LastOf(t)'
  BY <1>4 DEF LocalsOf, LastOf, Owning, Failing
<1>6. OpenHeldOf(t)'
  BY <1>1, <1>2, <1>4 DEF OpenHeldOf, Pending, Failing
<1>7. \A f \in File : /\ Lacks(t, f) <=> f = c
                      /\ ~ Owes(t, f) /\ ~ Lacks(t, f)' /\ ~ Owes(t, f)'
  BY <1>1, <1>4 DEF Lacks, Owes
<1>8. Balanced'
  <2>1. ASSUME NEW f \in File
        PROVE  ref'[f] + One(Lacks(t, f)') + One(Owes(t, f))
                 = ref[f] + One(Lacks(t, f)) + One(Owes(t, f)')
    <3>1. ref'[f] = ref[f] + One(f = c) /\ ref[f] \in Nat
      BY <1>3 DEF FileInv, FileTypeOK
    <3>2. One(Lacks(t, f)) = One(f = c) /\ One(Owes(t, f)) = 0 /\ One(Lacks(t, f)') = 0
          /\ One(Owes(t, f)') = 0 /\ One(f = c) \in Nat
      BY <1>7 DEF One
    <3> QED  BY <3>1, <3>2
  <2> QED  BY <1>1, <1>3, <1>4, <2>1, LedgerSame DEF FileInv
<1>9. \A u \in Task \ {t} : ~ Closing(u)
  BY <1>1, NobodyCloses
<1>10. ~ Closing(t)'
  BY <1>4 DEF Closing
<1> QED  BY <1>1, <1>2, <1>4, <1>5, <1>6, <1>8, <1>9, <1>10, OneCall

(* sys_close begins: no other file call is under way.                       *)
LEMMA CloseCallFile ==
  ASSUME FileInv, ClosesAlone, NEW t \in Task, NEW d \in Fd, CloseCall(t, d)
  PROVE  FileInv'
<1> DEFINE c == fds[t][d]
<1>1. /\ MayCall(t) /\ Quiet /\ c # NoFile /\ pc' = [pc EXCEPT ![t] = "closeLoad"]
      /\ cur' = [cur EXCEPT ![t] = c] /\ fd' = [fd EXCEPT ![t] = d]
      /\ UNCHANGED <<ref, opened, fds, alive, old, child, wiped>>
  BY DEF CloseCall, Goto
<1>2. c \in File /\ t \in alive /\ pc[t] = "user"
  BY <1>1, Caller DEF FileInv, FileTypeOK
<1>3. FileTypeOK' /\ pc'[t] = "closeLoad" /\ cur'[t] = c /\ fd'[t] = d
      /\ \A u \in Task \ {t} : pc'[u] = pc[u] /\ cur'[u] = cur[u] /\ fd'[u] = fd[u]
  BY <1>1, <1>2 DEF FileInv, FileTypeOK, FilePlaces
<1>4. LocalsOf(t)' /\ LastOf(t)'
  BY <1>1, <1>2, <1>3 DEF LocalsOf, LastOf, Owning, Failing, Own
<1>5. OpenHeldOf(t)'
  BY <1>1, Caller DEF OpenHeldOf
<1>6. \A f \in File : ~ Lacks(t, f) /\ ~ Owes(t, f) /\ ~ Lacks(t, f)' /\ ~ Owes(t, f)'
  BY <1>2, <1>3 DEF Lacks, Owes
<1>7. Balanced'
  BY <1>1, <1>3, <1>6, LedgerSame DEF FileInv, FileTypeOK, One
<1>8. \A u \in Task \ {t} : ~ Closing(u) /\ pc[u] \in {"user", "io"}
  BY <1>1, NobodyCloses DEF Quiet
<1> QED  BY <1>1, <1>2, <1>3, <1>4, <1>5, <1>7, <1>8, OneCall

(* sys_close loads the count.                                               *)
LEMMA CloseLoadFile == ASSUME FileInv, NEW t \in Task, CloseLoad(t) PROVE FileInv'
<1>1. /\ pc[t] = "closeLoad" /\ pc' = [pc EXCEPT ![t] = "closeStore"]
      /\ old' = [old EXCEPT ![t] = ref[cur[t]]]
      /\ UNCHANGED <<ref, opened, fds, alive, cur, fd, child, wiped>>
  BY DEF CloseLoad, Goto
<1>2. t \in alive /\ OpenHeldOf(t) /\ cur[t] \in File /\ Own(t)
  BY <1>1 DEF FileInv, Locals, LocalsOf, OpenHeld, Owning
<1>3. FileTypeOK' /\ pc'[t] = "closeStore" /\ old'[t] = ref[cur[t]]
      /\ \A u \in Task \ {t} : pc'[u] = pc[u] /\ old'[u] = old[u]
  BY <1>1, <1>2 DEF FileInv, FileTypeOK, FilePlaces
<1>4. LocalsOf(t)' /\ LastOf(t)' /\ OpenHeldOf(t)'
  BY <1>1, <1>2, <1>3 DEF LocalsOf, LastOf, OpenHeldOf, Owning, Failing, Pending, Own
<1>5. \A f \in File : ~ Lacks(t, f) /\ ~ Owes(t, f) /\ ~ Lacks(t, f)' /\ ~ Owes(t, f)'
  BY <1>1, <1>3 DEF Lacks, Owes
<1>6. Balanced'
  BY <1>1, <1>3, <1>5, LedgerSame DEF FileInv, FileTypeOK, One
<1>7. \A u \in Task \ {t} : ~ Closing(u)
  BY <1>1, NobodyCloses
<1>8. Closing(t)
  BY <1>1 DEF Closing
<1> QED  BY <1>1, <1>2, <1>3, <1>4, <1>6, <1>7, <1>8, OneCall

(* With a count of 1 the descriptor that is being closed is the only one,   *)
(* as nobody else is in a call.                                             *)
LEMMA OnlyHolder ==
  ASSUME FileInv, NEW t \in Task, pc[t] = "closeStore", ref[cur[t]] = 1
  PROVE  Holders(cur[t]) = {<<t, fd[t]>>}
<1> DEFINE c == cur[t]
           x == <<t, fd[t]>>
           H == Holders(c)
<1>1. c \in File /\ Own(t)
  BY DEF FileInv, Locals, LocalsOf, Owning
<1>2. Lacking(c) = {} /\ Owing(c) = {}
  BY DEF FileInv, CloseAlone, Closing, Lacking, Owing, Lacks, Owes
<1>3. Cardinality(Lacking(c)) = 0 /\ Cardinality(Owing(c)) = 0
  BY <1>2, FS_EmptySet
<1>4. ref[c] + Cardinality(Lacking(c)) = Cardinality(H) + wiped[c] + Cardinality(Owing(c))
  BY <1>1 DEF FileInv, Balanced
<1>5. wiped[c] \in Nat /\ Cardinality(H) \in Nat /\ IsFiniteSet(H)
  BY <1>1, Counts DEF FileInv, FileTypeOK
<1>6. x \in H
  BY <1>1, HolderPairs DEF Own
<1>7. Cardinality({x}) = 1 /\ IsFiniteSet({x})
  BY FS_Singleton
<1> HIDE DEF H, x, c
<1>8. Cardinality(H) <= 1
  BY <1>3, <1>4, <1>5 DEF c
<1>9. Cardinality({x}) <= Cardinality(H) /\ (Cardinality(H) = Cardinality({x}) => H = {x})
  BY <1>5, <1>6, FS_Subset
<1> QED  BY <1>5, <1>7, <1>8, <1>9 DEF H, x, c

(* sys_close stores it: if it was 1, no other descriptor is left.           *)
LEMMA CloseStoreFile == ASSUME FileInv, NEW t \in Task, CloseStore(t) PROVE FileInv'
<1> DEFINE c == cur[t]
<1>1. /\ pc[t] = "closeStore" /\ pc' = [pc EXCEPT ![t] = IF old[t] = 1 THEN "fsClose" ELSE "closeRemove"]
      /\ ref' = [ref EXCEPT ![c] = old[t] - 1] /\ old' = [old EXCEPT ![t] = 0]
      /\ UNCHANGED <<opened, fds, alive, cur, fd, child, wiped>>
  BY DEF CloseStore, Goto
<1>2. t \in alive /\ OpenHeldOf(t) /\ c \in File /\ Own(t) /\ old[t] = ref[c]
  BY <1>1 DEF FileInv, Locals, LocalsOf, OpenHeld, Owning
<1>3. ref[c] > 0
  BY <1>1, <1>2, RefPositive DEF Lacks, Own
<1>4. ref' \in [File -> Nat] /\ \A f \in File : ref[f] = ref'[f] + One(f = c)
  <2>1. old[t] - 1 \in Nat /\ ref[c] = old[t] - 1 + 1
    BY <1>2, <1>3 DEF FileInv, FileTypeOK
  <2> QED  BY <1>1, <1>2, <2>1 DEF FileInv, FileTypeOK, One
<1>5. pc'[t] = (IF old[t] = 1 THEN "fsClose" ELSE "closeRemove")
      /\ \A u \in Task \ {t} : pc'[u] = pc[u] /\ old'[u] = old[u]
  BY <1>1 DEF FileInv, FileTypeOK
<1>6. FileTypeOK'
  BY <1>1, <1>4 DEF FileInv, FileTypeOK, FilePlaces
<1>7. LocalsOf(t)'
  BY <1>1, <1>2, <1>5 DEF LocalsOf, Owning, Failing, Own
<1>8. LastOf(t)'
  <2> SUFFICES ASSUME old[t] = 1
               PROVE  ref'[c] = 0 /\ Holders(c)' = {<<t, fd[t]>>}
    BY <1>1, <1>5 DEF LastOf
  <2>1. Holders(c) = {<<t, fd[t]>>}
    BY <1>1, <1>2, OnlyHolder
  <2>2. Holders(c)' = Holders(c)
    BY <1>1 DEF Holders
  <2>3. ref'[c] = 0
    BY <1>1, <1>2 DEF FileInv, FileTypeOK
  <2> QED  BY <2>1, <2>2, <2>3
<1>9. OpenHeldOf(t)'
  BY <1>1, <1>2 DEF OpenHeldOf, Pending, Failing
<1>10. \A f \in File : /\ Lacks(t, f)' <=> f = c
                       /\ ~ Owes(t, f) /\ ~ Lacks(t, f) /\ ~ Owes(t, f)'
  BY <1>1, <1>5 DEF Lacks, Owes
<1>11. Balanced'
  <2>1. ASSUME NEW f \in File
        PROVE  ref'[f] + One(Lacks(t, f)') + One(Owes(t, f))
                 = ref[f] + One(Lacks(t, f)) + One(Owes(t, f)')
    <3>1. ref[f] = ref'[f] + One(f = c) /\ ref'[f] \in Nat
      BY <1>4
    <3>2. One(Lacks(t, f)') = One(f = c) /\ One(Owes(t, f)) = 0 /\ One(Lacks(t, f)) = 0
          /\ One(Owes(t, f)') = 0 /\ One(f = c) \in Nat
      BY <1>10 DEF One
    <3> QED  BY <3>1, <3>2
  <2> QED  BY <1>1, <1>4, <1>5, <2>1, LedgerSame DEF FileInv
<1>12. \A u \in Task \ {t} : ~ Closing(u)
  BY <1>1, NobodyCloses
<1>13. Closing(t)
  BY <1>1 DEF Closing
<1>14. pc'[t] # "copy"
  BY <1>5
<1> QED  BY <1>1, <1>2, <1>5, <1>6, <1>7, <1>8, <1>9, <1>11, <1>12, <1>13, <1>14, OneCall

(* The close of the file system.                                            *)
LEMMA FsCloseFile == ASSUME FileInv, NEW t \in Task, FsClose(t) PROVE FileInv'
<1> DEFINE c == cur[t]
<1>1. /\ pc[t] = "fsClose" /\ pc' = [pc EXCEPT ![t] = "closeFree"]
      /\ opened' = [opened EXCEPT ![c] = FALSE]
      /\ UNCHANGED <<ref, fds, alive, cur, fd, old, child, wiped>>
  BY DEF FsClose, Goto
<1>2. t \in alive /\ OpenHeldOf(t) /\ c \in File /\ Own(t) /\ LastOf(t)
  BY <1>1 DEF FileInv, Locals, LocalsOf, OpenHeld, Owning, LastCloser
<1>3. FileTypeOK' /\ pc'[t] = "closeFree" /\ \A u \in Task \ {t} : pc'[u] = pc[u]
  BY <1>1 DEF FileInv, FileTypeOK, FilePlaces
<1>4. LocalsOf(t)' /\ LastOf(t)'
  <2>1. Holders(c)' = Holders(c)
    BY <1>1 DEF Holders
  <2> QED  BY <1>1, <1>2, <1>3, <2>1 DEF LocalsOf, LastOf, Owning, Failing, Own
<1>5. \A f \in File : opened'[f] = (opened[f] /\ f # c)
  BY <1>1 DEF FileInv, FileTypeOK
<1>6. Holders(c) = {<<t, fd[t]>>} /\ fd[t] \in Fd
  BY <1>1, <1>2 DEF LastOf, Own
<1>7. OpenHeldOf(t)'
  <2> SUFFICES ASSUME NEW d \in Fd, fds[t][d] # NoFile
               PROVE  opened'[fds[t][d]] \/ (pc'[t] \in Pending /\ c = fds[t][d] /\ fd[t] = d)
    BY <1>1 DEF OpenHeldOf
  <2>1. CASE fds[t][d] = c
    <3>1. <<t, d>> \in Holders(c)
      BY <2>1, HolderPairs
    <3>2. fd[t] = d
      BY <1>6, <3>1
    <3> QED  BY <1>3, <2>1, <3>2 DEF Pending
  <2>2. CASE fds[t][d] # c
    <3>1. opened[fds[t][d]] /\ fds[t][d] \in File
      BY <1>1, <1>2 DEF OpenHeldOf, Pending, Failing, FileInv, FileTypeOK
    <3> QED  BY <1>5, <2>2, <3>1
  <2> QED  BY <2>1, <2>2
<1>8. \A f \in File : opened[f] => opened'[f] \/ Holders(f) \subseteq {t} \X Fd
  <2>1. Holders(c) \subseteq {t} \X Fd
    BY <1>6
  <2> HIDE DEF c
  <2> QED  BY <1>5, <2>1
<1>9. \A f \in File : (Lacks(t, f) <=> Lacks(t, f)') /\ ~ Owes(t, f) /\ ~ Owes(t, f)'
  BY <1>1, <1>3 DEF Lacks, Owes
<1>10. Balanced'
  BY <1>1, <1>3, <1>9, LedgerSame DEF FileInv, FileTypeOK, One
<1>11. \A u \in Task \ {t} : ~ Closing(u)
  BY <1>1, NobodyCloses
<1>12. Closing(t)
  BY <1>1 DEF Closing
<1> QED  BY <1>1, <1>2, <1>3, <1>4, <1>7, <1>8, <1>10, <1>11, <1>12, OneCall

(* file_free of sys_close, on a count that is 0 already.                    *)
LEMMA CloseFreeFile == ASSUME FileInv, NEW t \in Task, CloseFree(t) PROVE FileInv'
<1> DEFINE c == cur[t]
<1>1. /\ pc[t] = "closeFree" /\ pc' = [pc EXCEPT ![t] = "closeRemove"] /\ ref' = Freed(c)
      /\ UNCHANGED <<opened, fds, alive, cur, fd, old, child, wiped>>
  BY DEF CloseFree, Goto
<1>2. t \in alive /\ OpenHeldOf(t) /\ c \in File /\ Own(t) /\ ref[c] = 0
  BY <1>1 DEF FileInv, Locals, LocalsOf, OpenHeld, Owning, LastCloser, LastOf
<1>3. ref' = ref
  BY <1>1, <1>2 DEF Freed, FileInv, FileTypeOK
<1>4. FileTypeOK' /\ pc'[t] = "closeRemove" /\ \A u \in Task \ {t} : pc'[u] = pc[u]
  BY <1>1, <1>3 DEF FileInv, FileTypeOK, FilePlaces
<1>5. LocalsOf(t)' /\ LastOf(t)' /\ OpenHeldOf(t)'
  BY <1>1, <1>2, <1>4 DEF LocalsOf, LastOf, OpenHeldOf, Owning, Failing, Pending, Own
<1>6. \A f \in File : (Lacks(t, f) <=> Lacks(t, f)') /\ ~ Owes(t, f) /\ ~ Owes(t, f)'
  BY <1>1, <1>4 DEF Lacks, Owes
<1>7. Balanced'
  BY <1>1, <1>3, <1>4, <1>6, LedgerSame DEF FileInv, FileTypeOK, One
<1>8. \A u \in Task \ {t} : ~ Closing(u)
  BY <1>1, NobodyCloses
<1>9. Closing(t)
  BY <1>1 DEF Closing
<1> QED  BY <1>1, <1>2, <1>4, <1>5, <1>7, <1>8, <1>9, OneCall

(* task_remove_fd of sys_close.                                             *)
LEMMA CloseRemoveFile == ASSUME FileInv, NEW t \in Task, CloseRemove(t) PROVE FileInv'
<1>1. /\ pc[t] = "closeRemove" /\ pc' = [pc EXCEPT ![t] = "user"]
      /\ cur' = [cur EXCEPT ![t] = NoFile] /\ fd' = [fd EXCEPT ![t] = NoFd]
      /\ SetFd(t, fd[t], NoFile)
      /\ UNCHANGED <<ref, opened, alive, old, child, wiped>>
  BY DEF CloseRemove, Return, Goto
<1>2. t \in alive /\ OpenHeldOf(t) /\ cur[t] \in File /\ Own(t) /\ fd[t] \in Fd
  BY <1>1 DEF FileInv, Locals, LocalsOf, OpenHeld, Owning, Own
<1>3. /\ fds' \in [Task -> [Fd -> File \cup {NoFile}]]
      /\ \A u \in Task, e \in Fd : fds'[u][e] = IF u = t /\ e = fd[t] THEN NoFile ELSE fds[u][e]
      /\ \A u \in Task \ {t} : fds'[u] = fds[u]
  BY <1>1, <1>2, SetFdAt DEF FileInv
<1>4. FileTypeOK' /\ pc'[t] = "user" /\ cur'[t] = NoFile /\ fd'[t] = NoFd
      /\ \A u \in Task \ {t} : pc'[u] = pc[u] /\ cur'[u] = cur[u] /\ fd'[u] = fd[u]
  BY <1>1, <1>3 DEF FileInv, FileTypeOK, FilePlaces
<1>5. LocalsOf(t)' /\ LastOf(t)'
  BY <1>4 DEF LocalsOf, LastOf, Owning, Failing
<1>6. OpenHeldOf(t)'
  BY <1>1, <1>2, <1>3 DEF OpenHeldOf
<1>7. Balanced'
  BY <1>1, <1>2, <1>4, RemoveBalance
<1>8. \A u \in Task \ {t} : ~ Closing(u)
  BY <1>1, NobodyCloses
<1>9. ~ Closing(t)'
  BY <1>4 DEF Closing
<1> QED  BY <1>1, <1>2, <1>3, <1>4, <1>5, <1>6, <1>7, <1>8, <1>9, OneCall

(* sys_fork takes an empty table.                                           *)
LEMMA ForkCallFile ==
  ASSUME FileInv, ClosesAlone, NEW t \in Task, NEW u \in Task, ForkCall(t, u)
  PROVE  FileInv'
<1>1. /\ MayCall(t) /\ u \notin alive /\ \A v \in Task \ {u} : child[v] # u
      /\ fds' = [fds EXCEPT ![u] = [d \in Fd |-> NoFile]]
      /\ child' = [child EXCEPT ![t] = u] /\ fd' = [fd EXCEPT ![t] = 0]
      /\ pc' = [pc EXCEPT ![t] = "copy"]
      /\ UNCHANGED <<ref, opened, alive, cur, old, wiped>>
  BY DEF ForkCall, Goto
<1>2. t \in alive /\ pc[t] = "user" /\ t # u /\ child[t] = t
  BY <1>1, Caller DEF FileInv, Forks
<1>3. fds' = fds
  <2>1. \A d \in Fd : fds[u][d] = NoFile
    BY <1>1 DEF FileInv, Forks
  <2>2. fds[u] = [d \in Fd |-> NoFile]
    BY <2>1 DEF FileInv, FileTypeOK
  <2> QED  BY <1>1, <2>2 DEF FileInv, FileTypeOK
<1>4. FileTypeOK'
  BY <1>1, <1>3, FileIds DEF FileInv, FileTypeOK, FilePlaces
<1>5. /\ pc'[t] = "copy" /\ fd'[t] = 0 /\ child'[t] = u
      /\ \A v \in Task \ {t} : pc'[v] = pc[v] /\ fd'[v] = fd[v] /\ child'[v] = child[v]
  BY <1>1 DEF FileInv, FileTypeOK
<1>6. \A v \in Task \ {t} : ~ Closing(v)
  BY <1>1, NobodyCloses
<1>7. Locals'
  <2> SUFFICES ASSUME NEW v \in Task
               PROVE  LocalsOf(v)'
    BY DEF Locals
  <2>1. CASE v = t
    BY <1>1, <1>2, <1>5, <2>1 DEF LocalsOf, Owning, Failing
  <2>2. CASE v # t
    BY <1>1, <1>3, <1>5, <2>2 DEF FileInv, Locals, LocalsOf, Own
  <2> QED  BY <2>1, <2>2
<1>8. Forks'
  <2>1. \A v \in Task : pc'[v] = "copy" <=> child'[v] # v
    BY <1>2, <1>5 DEF FileInv, Forks
  <2>2. ASSUME NEW v \in Task, pc'[v] = "copy"
        PROVE  /\ child'[v] \notin alive /\ fd'[v] \in Fd \cup {NFd}
               /\ \A d \in Fd : fd'[v] <= d => fds[child'[v]][d] = NoFile
               /\ \A w \in Task : child'[w] = child'[v] => w = v \/ w = child'[v]
    <3>1. CASE v = t
      <4>1. \A d \in Fd : fds[u][d] = NoFile
        BY <1>1 DEF FileInv, Forks
      <4> QED  BY <1>1, <1>5, <3>1, <4>1, FileIds
    <3>2. CASE v # t
      <4>1. pc[v] = "copy" /\ child'[v] = child[v] /\ fd'[v] = fd[v] /\ v \in alive
        BY <1>5, <2>2, <3>2 DEF FileInv, Locals, LocalsOf
      <4>2. child[v] # u
        BY <1>1, <4>1
      <4> QED  BY <1>5, <4>1, <4>2 DEF FileInv, Forks
    <3> QED  BY <3>1, <3>2
  <2>3. ASSUME NEW v \in Task \ alive, \A w \in Task : child'[w] = v => w = v
        PROVE  \A d \in Fd : fds[v][d] = NoFile
    <3>1. \A w \in Task : child[w] = v => w = v
      BY <1>2, <1>5, <2>3
    <3> QED  BY <3>1 DEF FileInv, Forks
  <2> QED  BY <1>1, <1>3, <2>1, <2>2, <2>3 DEF Forks
<1>9. CloseAlone'
  BY <1>5, <1>6 DEF CloseAlone, Closing
<1>10. Balanced'
  <2>1. \A f \in File : ~ Lacks(t, f) /\ ~ Owes(t, f) /\ ~ Lacks(t, f)' /\ ~ Owes(t, f)'
    BY <1>2, <1>5 DEF Lacks, Owes
  <2> QED  BY <1>1, <1>3, <1>5, <2>1, LedgerSame DEF FileInv, FileTypeOK, One
<1>11. OpenHeld'
  <2> SUFFICES ASSUME NEW v \in Task
               PROVE  OpenHeldOf(v)'
    BY DEF OpenHeld
  <2>1. CASE v = t
    BY <1>1, <1>3, <2>1, Caller DEF OpenHeldOf
  <2>2. CASE v # t
    BY <1>1, <1>3, <1>5, <2>2 DEF FileInv, OpenHeld, OpenHeldOf
  <2> QED  BY <2>1, <2>2
<1>12. LastCloser'
  BY <1>5, <1>6 DEF LastCloser, LastOf, Closing
<1> QED  BY <1>4, <1>7, <1>8, <1>9, <1>10, <1>11, <1>12 DEF FileInv

(* One round of copy_opened_files.                                          *)
LEMMA CopyOneFile == ASSUME FileInv, NEW t \in Task, CopyOne(t) PROVE FileInv'
<1> DEFINE a == child[t]
           d == fd[t]
           g == fds[t][d]
<1>1. /\ pc[t] = "copy" /\ d \in Fd /\ fd' = [fd EXCEPT ![t] = d + 1]
      /\ UNCHANGED <<opened, alive, pc, cur, old, child, wiped>>
  BY DEF CopyOne
<1>2. IF g # NoFile THEN ref' = [ref EXCEPT ![g] = ref[g] + 1] /\ SetFd(a, d, g)
                    ELSE UNCHANGED <<ref, fds>>
  BY DEF CopyOne
<1>3. /\ a \in Task /\ a # t /\ a \notin alive /\ t \in alive /\ g \in File \cup {NoFile}
      /\ fds[a][d] = NoFile /\ d \in Int
      /\ \A u \in Task : child[u] = a => u = t \/ u = a
  <2>1. a \in Task /\ g \in File \cup {NoFile} /\ d \in Int
    BY <1>1, FileIds DEF FileInv, FileTypeOK
  <2>2. /\ a # t /\ a \notin alive /\ \A e \in Fd : d <= e => fds[a][e] = NoFile
        /\ \A u \in Task : child[u] = a => u = t \/ u = a
    BY <1>1 DEF FileInv, Forks
  <2>3. t \in alive
    BY <1>1 DEF FileInv, Locals, LocalsOf
  <2> QED  BY <1>1, <2>1, <2>2, <2>3
<1>4. pc[a] = "user"
  BY <1>3 DEF FileInv, Locals, LocalsOf
<1>5. d + 1 \in Fd \cup {NFd} /\ \A u \in Task \ {t} : fd'[u] = fd[u]
  BY <1>1, FileIds DEF FileInv, FileTypeOK
<1>6. fd'[t] = d + 1
  BY <1>1 DEF FileInv, FileTypeOK
<1>7. /\ ref' \in [File -> Nat] /\ fds' \in [Task -> [Fd -> File \cup {NoFile}]]
      /\ \A u \in Task, e \in Fd : fds'[u][e] = IF u = a /\ e = d THEN g ELSE fds[u][e]
      /\ \A u \in Task \ {a} : fds'[u] = fds[u]
      /\ \A f \in File : ref'[f] = ref[f] + One(f = g)
      /\ SetFd(a, d, g)
  <2>1. CASE g # NoFile
    <3>1. ref' \in [File -> Nat] /\ \A f \in File : ref'[f] = ref[f] + One(f = g)
      <4>1. g \in File /\ ref \in [File -> Nat] /\ ref' = [ref EXCEPT ![g] = ref[g] + 1]
        BY <1>2, <1>3, <2>1 DEF FileInv, FileTypeOK
      <4> HIDE DEF g
      <4>2. ref[g] + 1 \in Nat
        BY <4>1
      <4>3. ref' \in [File -> Nat]
        BY <4>1, <4>2
      <4>4. \A f \in File : ref'[f] = ref[f] + One(f = g)
        BY <4>1, <4>2 DEF One
      <4> QED  BY <4>3, <4>4
    <3> QED  BY <1>1, <1>2, <1>3, <2>1, <3>1, SetFdAt DEF FileInv
  <2>2. CASE g = NoFile
    <3>1. ref' \in [File -> Nat] /\ \A f \in File : ref'[f] = ref[f] + One(f = g)
      BY <1>2, <2>2, FileIds DEF FileInv, FileTypeOK, One
    <3>2. SetFd(a, d, g)
      BY <1>1, <1>2, <1>3, <2>2 DEF SetFd, FileInv, FileTypeOK
    <3> QED  BY <1>1, <1>3, <3>1, <3>2, SetFdAt DEF FileInv
  <2> QED  BY <2>1, <2>2
<1> HIDE DEF a, d, g
<1>8. FileTypeOK'
  BY <1>1, <1>5, <1>7 DEF FileInv, FileTypeOK
<1>9. \A u \in Task \ {t} : ~ Closing(u)
  BY <1>1, NobodyCloses
<1>10. Locals'
  <2> SUFFICES ASSUME NEW v \in Task
               PROVE  LocalsOf(v)'
    BY DEF Locals
  <2>1. CASE v = t
    BY <1>1, <1>3, <2>1 DEF LocalsOf, Owning, Failing
  <2>2. CASE v = a
    BY <1>1, <1>3, <1>4, <1>5, <2>2 DEF FileInv, Locals, LocalsOf, Owning, Failing
  <2>3. CASE v # t /\ v # a
    BY <1>1, <1>5, <1>7, <1>9, <2>3 DEF FileInv, Locals, LocalsOf, Own, Closing
  <2> QED  BY <2>1, <2>2, <2>3
<1>11. Forks'
  <2>1. ASSUME NEW v \in Task, pc[v] = "copy"
        PROVE  /\ fd'[v] \in Fd \cup {NFd}
               /\ \A e \in Fd : fd'[v] <= e => fds'[child[v]][e] = NoFile
    <3>1. /\ child[v] \in Task /\ fd[v] \in Fd \cup {NFd}
          /\ \A e \in Fd : fd[v] <= e => fds[child[v]][e] = NoFile
      BY <2>1 DEF FileInv, Forks, FileTypeOK
    <3>2. CASE v = t
      <4>1. \A e \in Fd : d + 1 <= e => d <= e /\ e # d
        BY <1>3, FileIds
      <4> QED  BY <1>3, <1>5, <1>6, <1>7, <3>1, <3>2, <4>1 DEF a, d
    <3>3. CASE v # t
      <4>1. child[v] # a
        BY <1>3, <1>4, <2>1, <3>3
      <4> QED  BY <1>5, <1>7, <3>1, <3>3, <4>1
    <3> QED  BY <3>2, <3>3
  <2>2. ASSUME NEW v \in Task \ alive, \A w \in Task : child[w] = v => w = v
        PROVE  \A e \in Fd : fds'[v][e] = NoFile
    <3>1. v # a
      BY <1>3, <2>2 DEF a
    <3> QED  BY <1>7, <2>2, <3>1 DEF FileInv, Forks
  <2> QED  BY <1>1, <2>1, <2>2 DEF FileInv, Forks
<1>12. CloseAlone'
  BY <1>1 DEF FileInv, CloseAlone, Closing
<1>13. Balanced'
  <2>1. ASSUME NEW f \in File
        PROVE  ref'[f] + One(Lacks(t, f)') + One(fds[a][d] = f) + wiped[f] + One(Owes(t, f))
                 = ref[f] + One(Lacks(t, f)) + One(g = f) + wiped'[f] + One(Owes(t, f)')
    <3>1. ~ Lacks(t, f) /\ ~ Owes(t, f) /\ ~ Lacks(t, f)' /\ ~ Owes(t, f)'
      BY <1>1 DEF Lacks, Owes
    <3>2. One(Lacks(t, f)') = 0 /\ One(Owes(t, f)) = 0 /\ One(Owes(t, f)') = 0
          /\ One(Lacks(t, f)) = 0 /\ One(fds[a][d] = f) = 0 /\ One(g = f) = One(f = g)
      BY <1>3, <3>1, FileIds DEF One
    <3>3. ref'[f] = ref[f] + One(f = g) /\ ref[f] \in Nat /\ wiped'[f] = wiped[f]
          /\ wiped[f] \in Nat /\ One(f = g) \in Nat
      BY <1>1, <1>7 DEF FileInv, FileTypeOK, One
    <3> QED  BY <3>2, <3>3
  <2>2. wiped' \in [File -> Nat]
    BY <1>1 DEF FileInv, FileTypeOK
  <2>3. d \in Fd
    BY <1>1
  <2> QED  BY <1>1, <1>3, <1>5, <1>7, <2>1, <2>2, <2>3, Ledger DEF FileInv
<1>14. OpenHeld'
  <2>1. g # NoFile => opened[g]
    BY <1>1 DEF FileInv, OpenHeld, OpenHeldOf, Pending, Failing, g
  <2> SUFFICES ASSUME NEW v \in Task
               PROVE  OpenHeldOf(v)'
    BY DEF OpenHeld
  <2>2. CASE v = t
    BY <1>1, <1>3, <1>7, <2>2 DEF FileInv, OpenHeld, OpenHeldOf, Pending, Failing
  <2>3. CASE v # t
    BY <1>1, <1>5, <1>7, <2>1, <2>3 DEF FileInv, OpenHeld, OpenHeldOf
  <2> QED  BY <2>2, <2>3
<1>15. LastCloser'
  BY <1>1, <1>9 DEF LastCloser, LastOf, Closing
<1> QED  BY <1>8, <1>10, <1>11, <1>12, <1>13, <1>14, <1>15 DEF FileInv

(* copy_opened_files ends, the child starts.                                *)
LEMMA CopyDoneFile == ASSUME FileInv, NEW t \in Task, CopyDone(t) PROVE FileInv'
<1> DEFINE a == child[t]
<1>1. /\ pc[t] = "copy" /\ pc' = [pc EXCEPT ![t] = "user"]
      /\ cur' = [cur EXCEPT ![t] = NoFile] /\ fd' = [fd EXCEPT ![t] = NoFd]
      /\ alive' = alive \cup {a} /\ child' = [child EXCEPT ![t] = t]
      /\ UNCHANGED <<ref, opened, fds, old, wiped>>
  BY DEF CopyDone, Return, Goto
<1>2. a \in Task /\ t \in alive /\ a # t /\ \A u \in Task : child[u] = a => u = t \/ u = a
  BY <1>1 DEF FileInv, FileTypeOK, Locals, LocalsOf, Forks
<1>3. /\ FileTypeOK' /\ pc'[t] = "user" /\ fd'[t] = NoFd /\ child'[t] = t
      /\ \A u \in Task \ {t} : pc'[u] = pc[u] /\ cur'[u] = cur[u] /\ fd'[u] = fd[u]
                               /\ child'[u] = child[u]
  BY <1>1, <1>2 DEF FileInv, FileTypeOK, FilePlaces
<1>4. \A u \in Task \ {t} : ~ Closing(u)
  BY <1>1, NobodyCloses
<1>5. Locals'
  <2> SUFFICES ASSUME NEW v \in Task
               PROVE  LocalsOf(v)'
    BY DEF Locals
  <2>1. CASE v = t
    BY <1>3, <2>1 DEF LocalsOf, Owning, Failing
  <2>2. CASE v # t
    BY <1>1, <1>3, <2>2 DEF FileInv, Locals, LocalsOf, Own
  <2> QED  BY <2>1, <2>2
<1>6. Forks'
  <2>1. \A v \in Task : pc'[v] = "copy" <=> child'[v] # v
    BY <1>3 DEF FileInv, Forks
  <2>2. ASSUME NEW v \in Task, pc'[v] = "copy"
        PROVE  /\ child'[v] \notin alive' /\ fd'[v] \in Fd \cup {NFd}
               /\ \A d \in Fd : fd'[v] <= d => fds[child'[v]][d] = NoFile
               /\ \A w \in Task : child'[w] = child'[v] => w = v \/ w = child'[v]
    <3>1. v # t /\ pc[v] = "copy"
      BY <1>3, <2>2
    <3>2. child[v] # a
      <4>1. v # a
        BY <1>1, <3>1 DEF FileInv, Forks, Locals, LocalsOf
      <4> QED  BY <1>2, <3>1, <4>1
    <3>3. child[v] # t
      BY <1>2, <3>1 DEF FileInv, Forks
    <3> QED  BY <1>1, <1>3, <3>1, <3>2, <3>3 DEF FileInv, Forks
  <2>3. ASSUME NEW v \in Task \ alive', \A w \in Task : child'[w] = v => w = v
        PROVE  \A d \in Fd : fds[v][d] = NoFile
    <3>1. v \notin alive /\ \A w \in Task : child[w] = v => w = v
      BY <1>1, <1>3, <2>3
    <3> QED  BY <3>1 DEF FileInv, Forks
  <2> QED  BY <1>1, <2>1, <2>2, <2>3 DEF Forks
<1>7. CloseAlone'
  BY <1>3, <1>4 DEF CloseAlone, Closing
<1>8. Balanced'
  <2>1. \A f \in File : ~ Lacks(t, f) /\ ~ Owes(t, f) /\ ~ Lacks(t, f)' /\ ~ Owes(t, f)'
    BY <1>1, <1>3 DEF Lacks, Owes
  <2> QED  BY <1>1, <1>3, <2>1, LedgerSame DEF FileInv, FileTypeOK, One
<1>9. OpenHeld'
  <2> SUFFICES ASSUME NEW v \in Task
               PROVE  OpenHeldOf(v)'
    BY DEF OpenHeld
  <2>1. CASE v = t
    BY <1>1, <2>1 DEF FileInv, OpenHeld, OpenHeldOf, Pending, Failing
  <2>2. CASE v # t
    BY <1>1, <1>3, <2>2 DEF FileInv, OpenHeld, OpenHeldOf
  <2> QED  BY <2>1, <2>2
<1>10. LastCloser'
  BY <1>3, <1>4 DEF LastCloser, LastOf, Closing
<1> QED  BY <1>3, <1>5, <1>6, <1>7, <1>8, <1>9, <1>10 DEF FileInv

(* The table of a task that exits is empty by then.                         *)
LEMMA ExitDoneFile == ASSUME FileInv, NEW t \in Task, ExitDone(t) PROVE FileInv'
<1>1. /\ pc[t] = "user" /\ alive' = alive \ {t} /\ \A d \in Fd : fds[t][d] = NoFile
      /\ UNCHANGED <<ref, opened, fds, pc, cur, fd, old, child, wiped>>
  BY DEF ExitDone
<1>2. FileTypeOK'
  BY <1>1 DEF FileInv, FileTypeOK
<1>3. Locals'
  BY <1>1 DEF FileInv, Locals, LocalsOf, Own
<1>4. Forks'
  BY <1>1 DEF FileInv, Forks
<1>5. CloseAlone' /\ OpenHeld' /\ LastCloser' /\ Balanced'
  BY <1>1 DEF FileInv, CloseAlone, Closing, OpenHeld, OpenHeldOf, LastCloser, LastOf, Balanced,
              Holders, Lacking, Owing, Lacks, Owes
<1> QED  BY <1>2, <1>3, <1>4, <1>5 DEF FileInv


(* Nothing but `exiting` and the device table changes.                      *)
LEMMA FileSame ==
  ASSUME FileInv, UNCHANGED <<ref, opened, fds, alive, pc, cur, fd, old, child, wiped>>
  PROVE  FileInv'
<1>1. \A f \in File : Holders(f)' = Holders(f) /\ Lacking(f)' = Lacking(f) /\ Owing(f)' = Owing(f)
  BY DEF Holders, Lacking, Owing, Lacks, Owes
<1>2. FileTypeOK' /\ Forks' /\ CloseAlone'
  BY DEF FileInv, FileTypeOK, Forks, CloseAlone, Closing
<1>3. Locals'
  BY DEF FileInv, Locals, LocalsOf, Own
<1>4. Balanced'
  BY <1>1 DEF FileInv, Balanced
<1>5. OpenHeld'
  BY DEF FileInv, OpenHeld, OpenHeldOf
<1>6. LastCloser'
  BY DEF FileInv, LastCloser, LastOf, Holders
<1> QED  BY <1>2, <1>3, <1>4, <1>5, <1>6 DEF FileInv

(* sys_exit, up to its first close *)
LEMMA ExitCallFile == ASSUME FileInv, NEW t \in Task, ExitCall(t) PROVE FileInv'
<1>1. UNCHANGED <<ref, opened, fds, alive, pc, cur, fd, old, child, wiped>>
  BY DEF ExitCall
<1> QED  BY <1>1, FileSame

(* sys_read, sys_write and sys_ioctl, up to the driver *)
LEMMA IoCallFile == ASSUME FileInv, NEW t \in Task, NEW d \in Fd, IoCall(t, d) PROVE FileInv'
<1>1. /\ t \in alive /\ pc[t] = "user" /\ pc' = [pc EXCEPT ![t] = "io"]
      /\ cur' = [cur EXCEPT ![t] = fds[t][d]]
      /\ UNCHANGED <<ref, opened, fds, alive, fd, old, child, wiped>>
  BY DEF IoCall, Goto
<1>2. FileTypeOK' /\ pc'[t] = "io"
      /\ \A u \in Task \ {t} : pc'[u] = pc[u] /\ cur'[u] = cur[u]
  BY <1>1 DEF FileInv, FileTypeOK, FilePlaces
<1>3. /\ fd[t] = NoFd
      /\ \A f \in File : ~ Lacks(t, f) /\ ~ Owes(t, f)
      /\ \A e \in Fd : fds[t][e] # NoFile => opened[fds[t][e]]
  BY <1>1 DEF FileInv, Locals, LocalsOf, OpenHeld, OpenHeldOf, Pending, Failing, Lacks, Owes
<1>4. LocalsOf(t)' /\ LastOf(t)' /\ OpenHeldOf(t)'
  BY <1>1, <1>2, <1>3 DEF LocalsOf, LastOf, OpenHeldOf, Owning, Failing
<1>5. \A f \in File : ~ Lacks(t, f)' /\ ~ Owes(t, f)'
  BY <1>2 DEF Lacks, Owes
<1>6. Balanced'
  BY <1>1, <1>2, <1>3, <1>5, LedgerSame DEF FileInv, FileTypeOK, One
<1>7. ~ Closing(t)'
  BY <1>2 DEF Closing
<1> QED  BY <1>1, <1>2, <1>4, <1>6, <1>7, OneCall

(* Their return *)
LEMMA IoReturnFile == ASSUME FileInv, NEW t \in Task, IoReturn(t) PROVE FileInv'
<1>1. /\ pc[t] = "io" /\ pc' = [pc EXCEPT ![t] = "user"]
      /\ cur' = [cur EXCEPT ![t] = NoFile] /\ fd' = [fd EXCEPT ![t] = NoFd]
      /\ UNCHANGED <<ref, opened, fds, alive, old, child, wiped>>
  BY DEF IoReturn, Return, Goto
<1>2. FileTypeOK' /\ pc'[t] = "user" /\ fd'[t] = NoFd
      /\ \A u \in Task \ {t} : pc'[u] = pc[u] /\ cur'[u] = cur[u] /\ fd'[u] = fd[u]
  BY <1>1, FileIds DEF FileInv, FileTypeOK, FilePlaces
<1>3. /\ t \in alive
      /\ \A f \in File : ~ Lacks(t, f) /\ ~ Owes(t, f)
      /\ \A e \in Fd : fds[t][e] # NoFile => opened[fds[t][e]]
  BY <1>1 DEF FileInv, Locals, LocalsOf, OpenHeld, OpenHeldOf, Pending, Failing, Lacks, Owes
<1>4. LocalsOf(t)' /\ LastOf(t)' /\ OpenHeldOf(t)'
  BY <1>1, <1>2, <1>3 DEF LocalsOf, LastOf, OpenHeldOf, Owning, Failing
<1>5. \A f \in File : ~ Lacks(t, f)' /\ ~ Owes(t, f)'
  BY <1>2 DEF Lacks, Owes
<1>6. Balanced'
  BY <1>1, <1>2, <1>3, <1>5, LedgerSame DEF FileInv, FileTypeOK, One
<1>7. ~ Closing(t)'
  BY <1>2 DEF Closing
<1>8. /\ pc[t] # "copy" /\ pc'[t] # "copy" /\ pc'[t] \in {"user", "io"}
      /\ UNCHANGED <<alive, child>> /\ ref' = ref /\ fds' = fds /\ opened' = opened
      /\ \A u \in Task \ {t} :
           /\ pc'[u] = pc[u] /\ cur'[u] = cur[u] /\ fd'[u] = fd[u] /\ old'[u] = old[u]
           /\ fds'[u] = fds[u]
  BY <1>1, <1>2
<1> QED  BY <1>2, <1>3, <1>4, <1>6, <1>7, <1>8, OneCall

(* fs_init: every table is empty. *)
LEMMA InitFile == Init => FileInv
<1> SUFFICES ASSUME Init
             PROVE  FileInv
  OBVIOUS
<1>1. FileTypeOK
  BY FileIds, FileAssumption DEF Init, FileTypeOK, FilePlaces
<1>2. Locals /\ CloseAlone /\ OpenHeld /\ LastCloser
  BY FileIds DEF Init, Locals, LocalsOf, CloseAlone, Closing, OpenHeld, OpenHeldOf, LastCloser,
                 LastOf, Owning, Failing
<1>3. Forks
  BY DEF Init, Forks
<1>4. Balanced
  <2> SUFFICES ASSUME NEW f \in File
               PROVE  ref[f] + Cardinality(Lacking(f))
                        = Cardinality(Holders(f)) + wiped[f] + Cardinality(Owing(f))
    BY DEF Balanced
  <2>1. Holders(f) = {} /\ Lacking(f) = {} /\ Owing(f) = {}
    BY FileIds DEF Init, Holders, Lacking, Owing, Lacks, Owes
  <2>2. ref[f] = 0 /\ wiped[f] = 0
    BY DEF Init
  <2> QED  BY <2>1, <2>2, FS_EmptySet
<1> QED  BY <1>1, <1>2, <1>3, <1>4 DEF FileInv

(* Every step of the file table with the device table below it. *)
LEMMA NextFile == ASSUME ClosesAlone, FileInv, [DevNext]_allVars PROVE FileInv'
<1>1. CASE UNCHANGED allVars
  BY <1>1, FileSame DEF allVars, vars
<1>2. CASE DevNext
  <2>1. PICK t \in Task :
          \/ TableStep(t) \/ FileAlloc(t) \/ FsClose(t) \/ IoReturn(t) \/ FsOpen(t)
          \/ \E d \in Fd : IoCall(t, d)
    BY <1>2 DEF DevNext, AllocClears, CloseBelow, OpenOnFat, OpenOnDevfs
  <2>2. CASE TableStep(t)
    BY <2>2, OpenCallFile, FileAllocFullFile, AllocFdFile, AllocFdFullFile, FsOpenFailsFile,
       OpenFreeFile, OpenRemoveFile, DupIncFile, CloseLoadFile, CloseStoreFile, CloseFreeFile,
       CloseRemoveFile, CopyOneFile, CopyDoneFile, ExitCallFile, ExitDoneFile, DupCallFile,
       CloseCallFile, ForkCallFile DEF TableStep
  <2> QED  BY <2>1, <2>2, FileAllocFile, FsCloseFile, IoReturnFile, FsOpenFile, IoCallFile
<1> QED  BY <1>1, <1>2

(* Between calls the count of a file is the number of descriptors, of all   *)
(* tasks, that refer to it, and a descriptor a program holds refers to a    *)
(* file the file system has open, for any number of tasks, files and        *)
(* descriptors, if no file call overlaps a sys_close (file_alloc, file_free *)
(* and file_inc_ref with sys_open, sys_dup, sys_close, copy_opened_files    *)
(* and sys_exit; p_file->ref-- of sys_close is outside the mutex).          *)
THEOREM SpecRefExact == ClosesAlone => (DevSpec => []RefExact)
<1> SUFFICES ASSUME ClosesAlone
             PROVE  DevSpec => []RefExact
  OBVIOUS
<1>1. DevInit => FileInv
  BY InitFile DEF DevInit
<1>2. FileInv /\ [DevNext]_allVars => FileInv'
  BY NextFile
<1>3. FileInv => RefExact
  <2> SUFFICES ASSUME FileInv
               PROVE  RefExact
    OBVIOUS
  <2>1. ASSUME Quiet, NEW f \in File
        PROVE  ref[f] = Cardinality(Holders(f)) + wiped[f]
    <3>1. Lacking(f) = {} /\ Owing(f) = {}
      BY <2>1 DEF Quiet, Lacking, Owing, Lacks, Owes
    <3>2. Cardinality(Lacking(f)) = 0 /\ Cardinality(Owing(f)) = 0
      BY <3>1, FS_EmptySet
    <3>3. /\ ref[f] + Cardinality(Lacking(f))
               = Cardinality(Holders(f)) + wiped[f] + Cardinality(Owing(f))
          /\ ref[f] \in Nat /\ wiped[f] \in Nat /\ Cardinality(Holders(f)) \in Nat
      BY Counts DEF FileInv, Balanced, FileTypeOK
    <3> QED  BY <3>2, <3>3
  <2>2. ASSUME NEW t \in alive, NEW d \in Fd, pc[t] = "user", fds[t][d] # NoFile
        PROVE  ref[fds[t][d]] > 0 /\ opened[fds[t][d]]
    <3>1. t \in Task /\ fds[t][d] \in File
      BY <2>2 DEF FileInv, FileTypeOK
    <3>2. ~ Lacks(t, fds[t][d])
      BY <2>2 DEF Lacks
    <3> QED  BY <2>2, <3>1, <3>2, RefPositive DEF FileInv, OpenHeld, OpenHeldOf, Pending, Failing
  <2> QED  BY <2>1, <2>2 DEF RefExact
<1> QED  BY <1>1, <1>2, <1>3, PTL DEF DevSpec

-----------------------------------------------------------------------------
(* The smallest and the largest number of a set, which dev_open's loop finds. *)

(* Min chooses the smallest.                                                *)
LEMMA MinExists ==
  ASSUME NEW S, S \subseteq Nat, S # {}
  PROVE  Min(S) \in S /\ \A y \in S : Min(S) <= y
<1> DEFINE less == OpToRel(<, Nat)
<1>1. PICK x \in S : \A y \in S : ~ (<<y, x>> \in less)
  BY WFMin, NatLessThanWellFounded
<1>2. \A y \in Nat, z \in Nat : y < z => <<y, z>> \in less
  BY DEF OpToRel
<1> HIDE DEF less
<1>3. ASSUME NEW y \in S
      PROVE  x <= y
  <2>1. y \in Nat /\ x \in Nat /\ ~ (y < x)
    BY <1>1, <1>2
  <2> QED  BY <2>1
<1> QED  BY <1>3 DEF Min

(* Max chooses the largest, n less the smallest distance to n.              *)
LEMMA MaxExists ==
  ASSUME NEW n \in Nat, NEW S, S \subseteq 0 .. n, S # {}
  PROVE  Max(S) \in S /\ \A y \in S : Max(S) >= y
<1> DEFINE T == {i \in 0 .. n : n - i \in S}
<1>1. T \subseteq Nat /\ T # {}
  <2>1. PICK y \in S : TRUE
    OBVIOUS
  <2>2. n - y \in T
    BY <2>1
  <2>3. T \subseteq Nat
    OBVIOUS
  <2> HIDE DEF T
  <2> QED  BY <2>2, <2>3
<1> HIDE DEF T
<1>2. Min(T) \in T /\ \A i \in T : Min(T) <= i
  BY <1>1, MinExists
<1>3. PICK x \in S : \A y \in S : x >= y
  <2>1. n - Min(T) \in S /\ Min(T) \in 0 .. n
    BY <1>2 DEF T
  <2>2. ASSUME NEW y \in S
        PROVE  n - Min(T) >= y
    <3>1. n - y \in T
      BY DEF T
    <3>2. Min(T) <= n - y
      BY <1>2, <3>1
    <3> QED  BY <2>1, <3>2
  <2> QED  BY <2>1, <2>2
<1> QED  BY <1>3 DEF Max

-----------------------------------------------------------------------------
(* The device table alone.                                                  *)

(* Entry 0 stays free, for files of no device to point to, and no device    *)
(* has two entries.                                                         *)
Sane(table) ==
  /\ table \in [Entry -> [count : Nat, desc : Device \cup {NoDev}]]
  /\ table[0].desc = NoDev
  /\ \A i \in Entry : table[i].count = 0 <=> table[i].desc = NoDev
  /\ \A i, j \in Entry : table[i].desc = table[j].desc /\ i # j => table[i].desc = NoDev

(* Devices and entries.                                                     *)
LEMMA DeviceIds ==
  /\ IsFiniteSet(Device) /\ Cardinality(Device) < NDev - 1 + 1 /\ NoDev \notin Device
  /\ NDev \in Nat /\ Cardinality(Device) = Cardinality(Terminal) + 1 /\ Cardinality(Terminal) \in Nat
  /\ 0 \in Device /\ Disk \in Device /\ Disk # 0 /\ Terminal \subseteq Device
  /\ 0 \in Entry /\ Entry = 0 .. NDev - 1 /\ Entry \subseteq Nat /\ NDev - 1 \in Nat
<1>1. IsFiniteSet(Terminal) /\ Terminal \subseteq Nat /\ 0 \in Terminal /\ Disk \in Nat \ Terminal
      /\ NDev \in Nat /\ NDev > Cardinality(Terminal) + 1
  BY DevAssumption
<1>2. IsFiniteSet(Device) /\ Cardinality(Device) = Cardinality(Terminal) + 1
  BY <1>1, CountAdd DEF Device
<1>3. Cardinality(Terminal) \in Nat
  BY <1>1, FS_CardinalityType
<1> QED  BY <1>1, <1>2, <1>3 DEF Device, NoDev, Entry

(* There are more entries than devices, so that dev_open of a device that   *)
(* has none finds a free one behind entry 0.                                *)
LEMMA FreeBehind ==
  ASSUME NEW table, Sane(table), NEW d \in Device, InUse(table, d) = {}
  PROVE  \E i \in Entry \ {0} : table[i].count = 0
<1> SUFFICES ASSUME \A i \in Entry \ {0} : table[i].count # 0
             PROVE  FALSE
  OBVIOUS
<1> DEFINE S == 1 .. NDev - 1
           T == Device \ {d}
           f == [i \in S |-> table[i].desc]
<1>1. S = Entry \ {0} /\ S \subseteq Entry
  BY DeviceIds
<1>2. IsFiniteSet(S) /\ Cardinality(S) = NDev - 1
  <2>1. NDev \in Nat /\ NDev > 1
    BY DeviceIds
  <2> QED  BY <2>1, FS_Interval
<1>3. IsFiniteSet(T) /\ Cardinality(T) = Cardinality(Terminal)
  BY DeviceIds, CountDrop
<1>4. Cardinality(T) < Cardinality(S)
  BY <1>2, <1>3, DeviceIds, DevAssumption
<1>5. f \in [S -> T]
  <2> SUFFICES ASSUME NEW i \in S
               PROVE  table[i].desc \in T
    OBVIOUS
  <2>1. i \in Entry /\ table[i].count # 0 /\ table[i].count \in Nat /\ table[i].desc # NoDev
        /\ table[i].desc \in Device \cup {NoDev}
    BY <1>1 DEF Sane
  <2>2. table[i].desc # d
    BY <2>1 DEF InUse
  <2> QED  BY <2>1, <2>2
<1>6. \A x \in S : f[x] = table[x].desc
  OBVIOUS
<1> HIDE DEF S, T, f
<1>7. PICK x \in S, y \in S : x # y /\ table[x].desc = table[y].desc
  <2>1. \E x, y \in S : x # y /\ f[x] = f[y]
    BY <1>2, <1>3, <1>4, <1>5, FS_PigeonHole
  <2> QED  BY <1>6, <2>1
<1>8. table[x].desc = NoDev
  BY <1>1, <1>7 DEF Sane
<1> QED  BY <1>1, <1>7, <1>8 DEF Sane

(* The entry of device d, or a free one if it has none.                     *)
Suits(table, i, d) ==
  \/ table[i].desc = d
  \/ table[i] = Unused /\ \A j \in Entry : table[j].desc # d

(* dev_open: one more for the entry of the device, which is the one it has, *)
(* or a free one if it has none.                                            *)
LEMMA OpenEntry ==
  ASSUME NEW table, Sane(table), NEW d \in Device, NEW i, i = DevOpen(table, d).id
  PROVE  /\ i \in Entry \ {0}
         /\ DevOpen(table, d).table = [table EXCEPT ![i] = [count |-> table[i].count + 1, desc |-> d]]
         /\ Suits(table, i, d)
         /\ Sane(DevOpen(table, d).table)
<1> DEFINE new == [table EXCEPT ![i] = [count |-> table[i].count + 1, desc |-> d]]
<1>1. i = IF InUse(table, d) # {} THEN Min(InUse(table, d)) ELSE Max(FreeIn(table))
  BY DEF DevOpen
<1>2. DevOpen(table, d).table = new
  BY DEF DevOpen
<1>3. ASSUME InUse(table, d) # {}
      PROVE  i \in Entry \ {0} /\ table[i].desc = d
  <2>1. InUse(table, d) \subseteq Nat
    BY DeviceIds DEF InUse
  <2>2. i \in InUse(table, d)
    BY <1>1, <1>3, <2>1, MinExists
  <2> QED  BY <2>2, DeviceIds DEF InUse, Sane
<1>4. ASSUME InUse(table, d) = {}
      PROVE  i \in Entry \ {0} /\ table[i] = Unused /\ \A j \in Entry : table[j].desc # d
  <2>1. PICK k \in Entry \ {0} : table[k].count = 0
    BY <1>4, FreeBehind
  <2>2. FreeIn(table) \subseteq 0 .. NDev - 1 /\ k \in FreeIn(table)
    BY <2>1, DeviceIds DEF FreeIn
  <2>3. i \in FreeIn(table) /\ i >= k
    <3>1. FreeIn(table) # {}
      BY <2>2
    <3> QED  BY <1>1, <1>4, <2>2, <3>1, MaxExists, DeviceIds
  <2>4. i \in Entry \ {0} /\ table[i].count = 0
    BY <2>1, <2>3, DeviceIds DEF FreeIn
  <2>5. table[i] = Unused
    <3>1. table[i] \in [count : Nat, desc : Device \cup {NoDev}] /\ table[i].desc = NoDev
      BY <2>4 DEF Sane
    <3> QED  BY <2>4, <3>1 DEF Unused
  <2>6. ASSUME NEW j \in Entry, table[j].desc = d
        PROVE  FALSE
    <3>1. table[j].count \in Nat /\ table[j].count # 0
      BY <2>6, DeviceIds DEF Sane
    <3>2. j \in InUse(table, d)
      BY <2>6, <3>1 DEF InUse
    <3> QED  BY <1>4, <3>2
  <2> QED  BY <2>4, <2>5, <2>6
<1>5. i \in Entry \ {0} /\ Suits(table, i, d)
  BY <1>3, <1>4 DEF Suits
<1>6. Sane(new)
  <2>1. /\ \A j \in Entry : j # i => new[j] = table[j]
        /\ new[i].count = table[i].count + 1 /\ new[i].desc = d /\ table[i].count \in Nat
        /\ new \in [Entry -> [count : Nat, desc : Device \cup {NoDev}]]
    BY <1>5 DEF Sane
  <2>2. \A j \in Entry : j # i => table[j].desc # d
    BY <1>5, DeviceIds DEF Sane, Suits
  <2> HIDE DEF new
  <2>3. new[0].desc = NoDev
    BY <1>5, <2>1, DeviceIds DEF Sane
  <2>4. \A j \in Entry : new[j].count = 0 <=> new[j].desc = NoDev
    <3>1. new[i].count # 0 /\ new[i].desc # NoDev
      BY <2>1, DeviceIds
    <3>2. \A j \in Entry : j # i => (new[j].count = 0 <=> new[j].desc = NoDev)
      BY <2>1 DEF Sane
    <3> QED  BY <3>1, <3>2
  <2>5. \A j, k \in Entry : new[j].desc = new[k].desc /\ j # k => new[j].desc = NoDev
    BY <2>1, <2>2 DEF Sane
  <2> QED  BY <2>1, <2>3, <2>4, <2>5 DEF Sane
<1> QED  BY <1>2, <1>5, <1>6

(* dev_close: one less for the entry, which is free again after the last.   *)
LEMMA CloseEntry ==
  ASSUME NEW table, Sane(table), NEW i \in Entry
  PROVE  /\ Sane(DevClose(table, i))
         /\ \A j \in Entry \ {i} : DevClose(table, i)[j] = table[j]
         /\ table[i].desc = NoDev => DevClose(table, i) = table
         /\ table[i].desc # NoDev =>
              /\ DevClose(table, i)[i].count = table[i].count - 1
              /\ DevClose(table, i)[i].desc = IF table[i].count = 1 THEN NoDev ELSE table[i].desc
<1> DEFINE new == DevClose(table, i)
<1>1. CASE table[i].desc = NoDev
  <2>1. new = table
    BY <1>1 DEF DevClose, Bad
  <2> QED  BY <1>1, <2>1
<1>2. CASE table[i].desc # NoDev
  <2>1. table[i].count \in Nat /\ table[i].count # 0 /\ table[i].desc \in Device \cup {NoDev}
        /\ table[i] = [count |-> table[i].count, desc |-> table[i].desc]
    BY <1>2 DEF Sane
  <2>2. new = IF table[i].count = 1 THEN [table EXCEPT ![i] = Unused]
              ELSE [table EXCEPT ![i].count = table[i].count - 1]
    BY <1>2 DEF DevClose, Bad
  <2>3. /\ \A j \in Entry \ {i} : new[j] = table[j]
        /\ new[i] = IF table[i].count = 1 THEN Unused
                    ELSE [table[i] EXCEPT !.count = table[i].count - 1]
        /\ DOMAIN new = Entry /\ new = [j \in Entry |-> new[j]]
    BY <2>2 DEF Sane
  <2> HIDE DEF new
  <2>4. /\ new[i].count = table[i].count - 1
        /\ new[i].desc = IF table[i].count = 1 THEN NoDev ELSE table[i].desc
        /\ new[i] \in [count : Nat, desc : Device \cup {NoDev}]
    BY <2>1, <2>3 DEF Unused
  <2>5. Sane(new)
    <3>1. new \in [Entry -> [count : Nat, desc : Device \cup {NoDev}]]
      BY <2>3, <2>4 DEF Sane
    <3>2. new[0].desc = NoDev
      BY <1>2, <2>3, DeviceIds DEF Sane
    <3>3. \A j \in Entry : new[j].count = 0 <=> new[j].desc = NoDev
      BY <1>2, <2>1, <2>3, <2>4 DEF Sane
    <3>4. \A j, k \in Entry : new[j].desc = new[k].desc /\ j # k => new[j].desc = NoDev
      BY <2>3, <2>4 DEF Sane
    <3> QED  BY <3>1, <3>2, <3>3, <3>4 DEF Sane
  <2> QED  BY <1>2, <2>3, <2>4, <2>5 DEF new
<1> QED  BY <1>1, <1>2

(* At boot the terminal of the log and the disk are open once each.         *)
LEMMA BootSane ==
  /\ Sane(BootTable)
  /\ \A i \in Entry : BootTable[i].count = IF BootTable[i].desc = NoDev THEN 0 ELSE 1
<1> DEFINE t0 == [i \in Entry |-> Unused]
           t1 == DevOpen(t0, 0).table
           t2 == DevOpen(t1, Disk).table
           a == DevOpen(t0, 0).id
           b == DevOpen(t1, Disk).id
<1>1. Sane(t0) /\ \A i \in Entry : t0[i].count = 0 /\ t0[i].desc = NoDev
  BY DeviceIds DEF Sane, Unused
<1> HIDE DEF t0
<1>2. Sane(t1) /\ a \in Entry /\ t1 = [t0 EXCEPT ![a] = [count |-> t0[a].count + 1, desc |-> 0]]
  BY <1>1, DeviceIds, OpenEntry
<1>3. /\ \A i \in Entry : t1[i].count = IF t1[i].desc = NoDev THEN 0 ELSE 1
      /\ \A i \in Entry : t1[i].desc # Disk
  <2> HIDE DEF t1, a
  <2>1. t0 \in [Entry -> [count : Nat, desc : Device \cup {NoDev}]]
    BY <1>1 DEF Sane
  <2>2. \A i \in Entry : t1[i] = IF i = a THEN [count |-> 1, desc |-> 0] ELSE t0[i]
    BY <1>1, <1>2, <2>1
  <2> QED  BY <1>1, <2>2, DeviceIds
<1> HIDE DEF t1
<1>4. Sane(t2) /\ b \in Entry /\ t2 = [t1 EXCEPT ![b] = [count |-> t1[b].count + 1, desc |-> Disk]]
      /\ (t1[b].desc = Disk \/ t1[b] = Unused)
  <2>1. Sane(t1) /\ Disk \in Device
    BY <1>2, DeviceIds
  <2> HIDE DEF b
  <2>2. b = DevOpen(t1, Disk).id
    BY DEF b
  <2>3. /\ Sane(t2) /\ b \in Entry \ {0}
        /\ t2 = [t1 EXCEPT ![b] = [count |-> t1[b].count + 1, desc |-> Disk]]
    BY <2>1, <2>2, OpenEntry
  <2>4. Suits(t1, b, Disk)
    BY <2>1, <2>2, OpenEntry
  <2> QED  BY <2>3, <2>4 DEF Suits
<1>5. t1[b].count = 0
  BY <1>3, <1>4 DEF Unused
<1>6. \A i \in Entry : t2[i].count = IF t2[i].desc = NoDev THEN 0 ELSE 1
  <2> HIDE DEF t2, b
  <2>1. t1 \in [Entry -> [count : Nat, desc : Device \cup {NoDev}]]
    BY <1>2 DEF Sane
  <2>2. \A i \in Entry : t2[i] = IF i = b THEN [count |-> 1, desc |-> Disk] ELSE t1[i]
    BY <1>4, <1>5, <2>1
  <2> QED  BY <1>3, <2>2, DeviceIds
<1>7. BootTable = t2
  BY DEF BootTable, t0, t1
<1> QED  BY <1>4, <1>6, <1>7

-----------------------------------------------------------------------------
(* The device table under the file table: the inductive invariant.          *)

(* A file the file system has open is one somebody holds, so that           *)
(* file_alloc hands out only files that are closed.                         *)
OpenedCounted ==
  \A f \in File :
    opened[f] => ref[f] > 0 \/ \E t \in Task : pc[t] = "fsClose" /\ cur[t] = f

(* The file of an open that has not succeeded is closed, is as file_alloc   *)
(* cleared it, and is in no other open.                                     *)
Opening == {"allocFd", "fsOpen", "openFree"}
ClearedOf(t) ==
  pc[t] \in Opening =>
    /\ ~ opened[cur[t]]
    /\ pc[t] # "openFree" => devId[cur[t]] = 0
    /\ \A u \in Task \ {t} : pc[u] \in Opening => cur[u] # cur[t]
Cleared == \A t \in Task : ClearedOf(t)

(* A task inside a driver has a descriptor of the file it came by.          *)
DriverOf(t) ==
  pc[t] = "io" =>
    /\ cur[t] \in File /\ \E d \in Fd : fds[t][d] = cur[t]
    /\ fs[cur[t]] = "devfs" /\ devId[cur[t]] # 0
InDriver == \A t \in Task : DriverOf(t)

DevTypeOK ==
  /\ Sane(dev)
  /\ fs \in [File -> {"none", "fat16", "devfs"}] /\ devId \in [File -> Entry]
  /\ DOMAIN want = File

(* The count of an entry: the open files that refer to it, and the kernel.  *)
Users(i) == {f \in File : OnDevice(f, i)}
AtBoot(i) == IF BootTable[i].desc = NoDev THEN 0 ELSE 1
Counted ==
  /\ \A i \in Entry : BootTable[i].desc # NoDev => dev[i].desc = BootTable[i].desc
  /\ \A i \in Entry \ {0} : dev[i].count = Cardinality(Users(i)) + AtBoot(i)

Arrived == \A f \in File : opened[f] /\ fs[f] = "devfs" => dev[devId[f]].desc \in want[f]

Files == OpenedCounted /\ Cleared /\ InDriver
DevTable == DevTypeOK /\ Counted /\ Arrived
DevInv == FileInv /\ Files /\ DevTable

(* What a step of the file table leaves to the device table: the other      *)
(* tasks are where they were, no file is opened or closed, and a file that  *)
(* is open stays counted.                                                   *)
Aside(t) ==
  /\ opened' = opened
  /\ pc'[t] # "io" /\ pc[t] # "fsClose"
  /\ \A u \in Task \ {t} : pc'[u] = pc[u] /\ cur'[u] = cur[u] /\ (u \in alive => fds'[u] = fds[u])
  /\ pc'[t] \in Opening =>
       cur'[t] = cur[t] /\ pc[t] \in Opening /\ (pc'[t] # "openFree" => pc[t] # "openFree")
  /\ \A f \in File :
       opened[f] /\ ref[f] > 0 => ref'[f] > 0 \/ (pc'[t] = "fsClose" /\ cur'[t] = f)

(* The calls' beginnings and the steps that only move on.                   *)
LEMMA AsideCalls ==
  ASSUME FileInv, NEW t \in Task,
         \/ OpenCall(t) \/ FileAllocFull(t) \/ AllocFd(t) \/ AllocFdFull(t) \/ FsOpenFails(t)
         \/ OpenRemove(t) \/ CloseLoad(t) \/ CloseRemove(t) \/ CopyDone(t) \/ ExitCall(t)
         \/ ExitDone(t) \/ \E d \in Fd : DupCall(t, d) \/ CloseCall(t, d)
  PROVE  Aside(t)
<1>0. FileTypeOK
  BY DEF FileInv
<1>1. CASE OpenCall(t)
  BY <1>0, <1>1 DEF OpenCall, MayCall, Goto, Aside, Opening, FileTypeOK
<1>2. CASE FileAllocFull(t)
  BY <1>0, <1>2 DEF FileAllocFull, SetFd, Return, Goto, Aside, Opening, FileTypeOK
<1>3. CASE AllocFd(t)
  BY <1>0, <1>3 DEF AllocFd, SetFd, Goto, Aside, Opening, FileTypeOK
<1>4. CASE AllocFdFull(t)
  BY <1>0, <1>4 DEF AllocFdFull, Goto, Aside, Opening, FileTypeOK
<1>5. CASE FsOpenFails(t)
  BY <1>0, <1>5 DEF FsOpenFails, Goto, Aside, Opening, FileTypeOK
<1>6. CASE OpenRemove(t)
  BY <1>0, <1>6 DEF OpenRemove, SetFd, Return, Goto, Aside, Opening, FileTypeOK
<1>7. CASE CloseLoad(t)
  BY <1>0, <1>7 DEF CloseLoad, Goto, Aside, Opening, FileTypeOK
<1>8. CASE CloseRemove(t)
  BY <1>0, <1>8 DEF CloseRemove, SetFd, Return, Goto, Aside, Opening, FileTypeOK
<1>9. CASE CopyDone(t)
  BY <1>0, <1>9 DEF CopyDone, Return, Goto, Aside, Opening, FileTypeOK
<1>10. CASE ExitCall(t)
  BY <1>0, <1>10 DEF ExitCall, MayCall, Aside, Opening, FileTypeOK
<1>11. CASE ExitDone(t)
  BY <1>0, <1>11 DEF ExitDone, Aside, Opening, FileTypeOK
<1>12. ASSUME NEW d \in Fd, DupCall(t, d)
       PROVE  Aside(t)
  BY <1>0, <1>12 DEF DupCall, MayCall, SetFd, Goto, Aside, Opening, FileTypeOK
<1>13. ASSUME NEW d \in Fd, CloseCall(t, d)
       PROVE  Aside(t)
  BY <1>0, <1>13 DEF CloseCall, MayCall, Goto, Aside, Opening, FileTypeOK
<1> QED  BY <1>1, <1>2, <1>3, <1>4, <1>5, <1>6, <1>7, <1>8, <1>9, <1>10, <1>11, <1>12, <1>13

(* The steps that change a count or the table of a child.                   *)
LEMMA AsideCounts ==
  ASSUME FileInv, Cleared, NEW t \in Task,
         \/ OpenFree(t) \/ DupInc(t) \/ CloseStore(t) \/ CloseFree(t) \/ CopyOne(t)
         \/ \E u \in Task : ForkCall(t, u)
  PROVE  Aside(t)
<1>0. FileTypeOK /\ LocalsOf(t)
  BY DEF FileInv, Locals
<1>1. CASE OpenFree(t)
  <2>1. ~ opened[cur[t]]
    BY <1>1 DEF OpenFree, Cleared, ClearedOf, Opening
  <2>2. \A f \in File : f # cur[t] => ref'[f] = ref[f]
    BY <1>0, <1>1 DEF OpenFree, Freed, FileTypeOK
  <2> QED  BY <1>0, <1>1, <2>1, <2>2 DEF OpenFree, Goto, Aside, Opening, FileTypeOK
<1>2. CASE DupInc(t)
  <2>1. \A f \in File : ref[f] > 0 => ref'[f] > 0
    <3>1. ref \in [File -> Nat] /\ ref' = [ref EXCEPT ![cur[t]] = @ + 1]
      BY <1>0, <1>2 DEF DupInc, FileTypeOK
    <3> QED  BY <3>1
  <2> QED  BY <1>0, <1>2, <2>1 DEF DupInc, Return, Goto, Aside, Opening, FileTypeOK
<1>3. CASE CloseStore(t)
  <2>1. pc[t] = "closeStore" /\ old[t] = ref[cur[t]]
    BY <1>0, <1>3 DEF CloseStore, LocalsOf
  <2>2. pc' = [pc EXCEPT ![t] = IF old[t] = 1 THEN "fsClose" ELSE "closeRemove"]
        /\ ref' = [ref EXCEPT ![cur[t]] = old[t] - 1] /\ UNCHANGED <<opened, fds, cur>>
    BY <1>3 DEF CloseStore, Goto
  <2>3. ASSUME NEW f \in File, ref[f] > 0
        PROVE  ref'[f] > 0 \/ (pc'[t] = "fsClose" /\ cur'[t] = f)
    BY <1>0, <2>1, <2>2, <2>3 DEF FileTypeOK
  <2>4. pc'[t] \in {"fsClose", "closeRemove"} /\ \A u \in Task \ {t} : pc'[u] = pc[u]
    BY <1>0, <2>2 DEF FileTypeOK
  <2> QED  BY <2>1, <2>2, <2>3, <2>4 DEF Aside, Opening
<1>4. CASE CloseFree(t)
  <2>1. ref[cur[t]] = 0
    BY <1>4 DEF CloseFree, FileInv, LastCloser, LastOf
  <2>2. \A f \in File : ref'[f] = ref[f]
    BY <1>0, <1>4, <2>1 DEF CloseFree, Freed, FileTypeOK
  <2> QED  BY <1>0, <1>4, <2>2 DEF CloseFree, Goto, Aside, Opening, FileTypeOK
<1>5. CASE CopyOne(t)
  <2>1. child[t] \notin alive /\ pc[t] = "copy"
    BY <1>5 DEF CopyOne, FileInv, Forks
  <2>2. UNCHANGED <<opened, pc, cur>>
    BY <1>5 DEF CopyOne
  <2>3. \A f \in File : ref[f] > 0 => ref'[f] > 0
    <3>1. ref \in [File -> Nat]
      BY <1>0 DEF FileTypeOK
    <3>2. CASE ref' = ref
      BY <3>2
    <3>3. CASE ref' = [ref EXCEPT ![fds[t][fd[t]]] = @ + 1]
      BY <3>1, <3>3
    <3> QED  BY <1>5, <3>2, <3>3 DEF CopyOne
  <2>4. \A u \in Task : u # child[t] => fds'[u] = fds[u]
    BY <1>0, <1>5 DEF CopyOne, SetFd, FileTypeOK
  <2> QED  BY <2>1, <2>2, <2>3, <2>4 DEF Aside, Opening
<1>6. ASSUME NEW v \in Task, ForkCall(t, v)
      PROVE  Aside(t)
  <2>1. \A u \in Task : u # v => fds'[u] = fds[u]
    BY <1>0, <1>6 DEF ForkCall, FileTypeOK
  <2>2. v \notin alive
    BY <1>6 DEF ForkCall
  <2> QED  BY <1>0, <1>6, <2>1, <2>2 DEF ForkCall, MayCall, Goto, Aside, Opening, FileTypeOK
<1> QED  BY <1>1, <1>2, <1>3, <1>4, <1>5, <1>6

(* Every step of the file table stays aside.                                *)
LEMMA TableAside ==
  ASSUME FileInv, Cleared, NEW t \in Task, TableStep(t)
  PROVE  Aside(t)
<1>1. \/ \/ OpenCall(t) \/ FileAllocFull(t) \/ AllocFd(t) \/ AllocFdFull(t) \/ FsOpenFails(t)
         \/ OpenRemove(t) \/ CloseLoad(t) \/ CloseRemove(t) \/ CopyDone(t) \/ ExitCall(t)
         \/ ExitDone(t) \/ \E d \in Fd : DupCall(t, d) \/ CloseCall(t, d)
      \/ \/ OpenFree(t) \/ DupInc(t) \/ CloseStore(t) \/ CloseFree(t) \/ CopyOne(t)
         \/ \E u \in Task : ForkCall(t, u)
  BY DEF TableStep
<1> QED  BY <1>1, AsideCalls, AsideCounts

(* A task inside a driver is alive.                                         *)
LEMMA DriverAlive ==
  ASSUME FileInv, NEW t \in Task, pc[t] = "io"
  PROVE  t \in alive /\ \A d \in Fd : fds[t][d] # NoFile => opened[fds[t][d]]
BY DEF FileInv, Locals, LocalsOf, OpenHeld, OpenHeldOf, Pending, Failing

(* Steps aside keep what the device table relies on, and the device table.  *)
LEMMA AsideInv ==
  ASSUME DevInv, NEW t \in Task, Aside(t), UNCHANGED devVars, FileInv'
  PROVE  DevInv'
<1>1. OpenedCounted'
  <2> SUFFICES ASSUME NEW f \in File, opened[f]
               PROVE  ref'[f] > 0 \/ \E u \in Task : pc'[u] = "fsClose" /\ cur'[u] = f
    BY DEF OpenedCounted, Aside
  <2>1. CASE ref[f] > 0
    BY <2>1 DEF Aside
  <2>2. ASSUME NEW u \in Task, pc[u] = "fsClose", cur[u] = f
        PROVE  pc'[u] = "fsClose" /\ cur'[u] = f
    BY <2>2 DEF Aside
  <2> QED  BY <2>1, <2>2 DEF DevInv, Files, OpenedCounted
<1>2. Cleared'
  <2> SUFFICES ASSUME NEW u \in Task
               PROVE  ClearedOf(u)'
    BY DEF Cleared
  <2>1. ClearedOf(u)
    BY DEF DevInv, Files, Cleared
  <2>2. \A v \in Task : pc'[v] \in Opening => pc[v] \in Opening /\ cur'[v] = cur[v]
                                              /\ (pc'[v] # "openFree" => pc[v] # "openFree")
    BY DEF Aside
  <2>3. opened' = opened /\ devId' = devId
    BY DEF Aside, devVars
  <2> QED  BY <2>1, <2>2, <2>3 DEF ClearedOf
<1>3. InDriver'
  <2> SUFFICES ASSUME NEW u \in Task, pc'[u] = "io"
               PROVE  DriverOf(u)'
    BY DEF InDriver, DriverOf
  <2>1. u # t /\ pc[u] = "io" /\ cur'[u] = cur[u]
    BY DEF Aside
  <2>2. fds'[u] = fds[u]
    BY <2>1, DriverAlive DEF Aside, DevInv
  <2> QED  BY <2>1, <2>2 DEF DevInv, Files, InDriver, DriverOf, devVars
<1>4. DevTable'
  <2>1. \A i : Users(i)' = Users(i)
    BY DEF Users, OnDevice, Aside, devVars
  <2>2. DevTypeOK' /\ Arrived'
    BY DEF DevInv, DevTable, DevTypeOK, Sane, Arrived, Aside, devVars
  <2>3. Counted'
    BY <2>1 DEF DevInv, DevTable, Counted, devVars
  <2> QED  BY <2>2, <2>3 DEF DevTable
<1> QED  BY <1>1, <1>2, <1>3, <1>4 DEF DevInv, Files

(* The users of an entry change by the one file that a step is about.       *)
LEMMA UsersOne ==
  ASSUME NEW f \in File, NEW i,
         \A g \in File \ {f} : opened'[g] = opened[g] /\ fs'[g] = fs[g] /\ devId'[g] = devId[g]
  PROVE  /\ Cardinality(Users(i)') + One(OnDevice(f, i)) = Cardinality(Users(i)) + One(OnDevice(f, i)')
         /\ Cardinality(Users(i)) \in Nat /\ Cardinality(Users(i)') \in Nat
<1> DEFINE S == Users(i)
           T == Users(i)'
<1>1. IsFiniteSet(File)
  <2>1. NFile \in Int /\ 1 \in Int
    BY FileAssumption
  <2> QED  BY <2>1, FS_Interval DEF File
<1>2. IsFiniteSet(S) /\ IsFiniteSet(T)
  <2>1. S \subseteq File /\ T \subseteq File
    BY DEF Users
  <2> HIDE DEF S, T
  <2> QED  BY <1>1, <2>1, FS_Subset
<1>3. (f \in S <=> OnDevice(f, i)) /\ (f \in T <=> OnDevice(f, i)')
  BY DEF Users
<1>4. S \subseteq T \cup {f} /\ T \subseteq S \cup {f}
  BY DEF Users, OnDevice
<1>5. One(f \in S) = One(OnDevice(f, i)) /\ One(f \in T) = One(OnDevice(f, i)')
  BY <1>3 DEF One
<1> HIDE DEF S, T
<1>6. Cardinality(T) + One(f \in S) = Cardinality(S) + One(f \in T)
  BY <1>2, <1>4, CountOne
<1>7. Cardinality(S) \in Nat /\ Cardinality(T) \in Nat
  BY <1>2, FS_CardinalityType
<1> QED  BY <1>5, <1>6, <1>7 DEF S, T

(* An entry a file refers to is in use, twice if two files do; and by the   *)
(* kernel only if its count is more than 1.                                 *)
LEMMA Used ==
  ASSUME DevTable, NEW f \in File, NEW i \in Entry \ {0}, OnDevice(f, i)
  PROVE  /\ dev[i].count \in Nat /\ dev[i].count # 0 /\ dev[i].desc # NoDev
         /\ dev[i].count = 1 => BootTable[i].desc = NoDev /\ \A g \in File \ {f} : ~ OnDevice(g, i)
<1> DEFINE S == Users(i)
<1>1. dev[i].count = Cardinality(S) + AtBoot(i) /\ dev[i].count \in Nat
      /\ (dev[i].count = 0 <=> dev[i].desc = NoDev)
  BY DEF DevTable, Counted, DevTypeOK, Sane
<1>2. IsFiniteSet(S) /\ f \in S /\ \A g \in File : OnDevice(g, i) => g \in S
  <2>1. IsFiniteSet(File) /\ S \subseteq File
    BY FileAssumption, FS_Interval DEF File, Users
  <2>2. IsFiniteSet(S)
    <3> HIDE DEF S
    <3> QED  BY <2>1, FS_Subset
  <2> QED  BY <2>2 DEF Users
<1>3. AtBoot(i) \in {0, 1} /\ (AtBoot(i) = 0 <=> BootTable[i].desc = NoDev)
  BY DEF AtBoot
<1> HIDE DEF S
<1>4. Cardinality(S) \in Nat /\ Cardinality(S) # 0
  BY <1>2, FS_CardinalityType, FS_EmptySet
<1>5. ASSUME NEW g \in S, g # f
      PROVE  Cardinality(S) # 1
  <2>1. Cardinality({f}) = 1 /\ {f} \subseteq S
    BY <1>2, FS_Singleton
  <2>2. Cardinality(S) = Cardinality({f}) => S = {f}
    BY <1>2, <2>1, FS_Subset
  <2> QED  BY <1>5, <2>1, <2>2
<1> QED  BY <1>1, <1>2, <1>3, <1>4, <1>5

(* The slot file_alloc finds is not open, and in nobody's hands.            *)
LEMMA SlotIsFree ==
  ASSUME DevInv, NEW t \in Task, pc[t] = "fileAlloc", NEW f \in File, ref[f] = 0
  PROVE  /\ ~ opened[f]
         /\ \A u \in Task : pc[u] \in Opening \cup {"io"} => cur[u] # f
<1>1. ~ opened[f]
  <2> SUFFICES ASSUME opened[f]
               PROVE  FALSE
    OBVIOUS
  <2>1. PICK u \in Task : pc[u] = "fsClose"
    BY DEF DevInv, Files, OpenedCounted
  <2> QED  BY <2>1 DEF DevInv, FileInv, CloseAlone, Closing
<1>2. ASSUME NEW u \in Task, pc[u] \in Opening \cup {"io"}, cur[u] = f
      PROVE  FALSE
  <2>1. LocalsOf(u)
    BY DEF DevInv, FileInv, Locals
  <2>2. ~ Lacks(u, f)
    BY <1>2 DEF Lacks, Opening
  <2>3. Owes(u, f) \/ \E d \in Fd : fds[u][d] = f
    <3>1. CASE pc[u] = "io"
      BY <1>2, <3>1 DEF DevInv, Files, InDriver, DriverOf
    <3>2. CASE pc[u] \in Opening
      BY <1>2, <2>1, <3>2 DEF LocalsOf, Opening, Owning, Failing, Own, Owes
    <3> QED  BY <1>2, <3>1, <3>2
  <2> QED  BY <2>2, <2>3, RefPositive DEF DevInv
<1> QED  BY <1>1, <1>2

(* file_alloc clears the file.                                              *)
LEMMA AllocClearsDev == ASSUME DevInv, NEW t \in Task, AllocClears(t) PROVE DevInv'
<1>0. FileTypeOK /\ DevTypeOK
  BY DEF DevInv, FileInv, DevTable
<1>1. PICK f \in File : /\ ref[f] = 0 /\ ref' = [ref EXCEPT ![f] = 1]
                        /\ cur' = [cur EXCEPT ![t] = f]
  BY DEF AllocClears, FileAlloc, FirstFreeFile
<1>2. pc[t] = "fileAlloc" /\ pc' = [pc EXCEPT ![t] = "allocFd"] /\ UNCHANGED <<opened, fds, dev>>
  BY DEF AllocClears, FileAlloc, Goto
<1>3. pc'[t] = "allocFd" /\ cur'[t] = f /\ \A u \in Task \ {t} : pc'[u] = pc[u] /\ cur'[u] = cur[u]
  BY <1>0, <1>1, <1>2 DEF FileTypeOK
<1>4. /\ fs' = [fs EXCEPT ![f] = "none"] /\ devId' = [devId EXCEPT ![f] = 0]
      /\ want' = [want EXCEPT ![f] = {}]
  BY <1>3 DEF AllocClears
<1>5. /\ devId'[f] = 0 /\ DevTypeOK'
      /\ \A g \in File \ {f} : fs'[g] = fs[g] /\ devId'[g] = devId[g] /\ want'[g] = want[g]
  BY <1>0, <1>2, <1>4, DeviceIds DEF DevTypeOK, Sane
<1>6. ~ opened[f] /\ \A u \in Task : pc[u] \in Opening \cup {"io"} => cur[u] # f
  BY <1>1, <1>2, SlotIsFree
<1>7. OpenedCounted'
  <2> SUFFICES ASSUME NEW g \in File, opened[g]
               PROVE  ref'[g] > 0 \/ \E u \in Task : pc'[u] = "fsClose" /\ cur'[u] = g
    BY <1>2 DEF OpenedCounted
  <2>1. CASE ref[g] > 0
    BY <1>0, <1>1, <2>1 DEF FileTypeOK
  <2>2. ASSUME NEW u \in Task, pc[u] = "fsClose", cur[u] = g
        PROVE  pc'[u] = "fsClose" /\ cur'[u] = g
    BY <1>2, <1>3, <2>2
  <2> QED  BY <2>1, <2>2 DEF DevInv, Files, OpenedCounted
<1>8. Cleared'
  <2> SUFFICES ASSUME NEW u \in Task
               PROVE  ClearedOf(u)'
    BY DEF Cleared
  <2>1. ClearedOf(u)
    BY DEF DevInv, Files, Cleared
  <2>2. CASE u = t
    BY <1>2, <1>3, <1>5, <1>6, <2>2 DEF ClearedOf
  <2>3. CASE u # t
    <3>1. pc[u] \in Opening => cur[u] # f /\ cur[u] \in File
      BY <1>6 DEF DevInv, FileInv, Locals, LocalsOf, Opening, Owning, Failing
    <3> QED  BY <1>2, <1>3, <1>5, <2>1, <2>3, <3>1 DEF ClearedOf
  <2> QED  BY <2>2, <2>3
<1>9. InDriver'
  <2> SUFFICES ASSUME NEW u \in Task, pc'[u] = "io"
               PROVE  DriverOf(u)'
    BY DEF InDriver, DriverOf
  <2>1. u # t /\ pc[u] = "io" /\ cur'[u] = cur[u]
    BY <1>3
  <2>2. cur[u] # f
    BY <1>6, <2>1
  <2> QED  BY <1>2, <1>5, <2>1, <2>2 DEF DevInv, Files, InDriver, DriverOf
<1>10. \A i : Users(i)' = Users(i)
  BY <1>2, <1>5, <1>6 DEF Users, OnDevice
<1>11. Counted' /\ Arrived'
  BY <1>2, <1>5, <1>6, <1>10 DEF DevInv, DevTable, Counted, Arrived
<1>12. FileInv'
  BY FileAllocFile DEF DevInv, AllocClears
<1> QED  BY <1>5, <1>7, <1>8, <1>9, <1>11, <1>12 DEF DevInv, Files, DevTable

(* The file of an open that succeeds, and that it is no other's.            *)
LEMMA OpensFresh ==
  ASSUME DevInv, NEW t \in Task, FsOpen(t), NEW f, f = cur[t]
  PROVE  /\ f \in File /\ ~ opened[f] /\ devId[f] = 0 /\ ref[f] > 0
         /\ \A g \in File : opened'[g] = (opened[g] \/ g = f)
         /\ \A u \in Task \ {t} : pc[u] \in Opening \cup {"io"} => cur[u] # f /\ cur[u] \in File
<1>1. pc[t] = "fsOpen" /\ opened' = [opened EXCEPT ![f] = TRUE]
  BY DEF FsOpen
<1>2. f \in File /\ Own(t) /\ ~ opened[f] /\ devId[f] = 0
      /\ \A u \in Task \ {t} : pc[u] \in Opening => cur[u] # f
  BY <1>1 DEF DevInv, Files, Cleared, ClearedOf, Opening, FileInv, Locals, LocalsOf, Owning
<1>3. ref[f] > 0
  <2>1. ~ Lacks(t, f) /\ \E d \in Fd : fds[t][d] = f
    BY <1>1, <1>2 DEF Lacks, Own
  <2> QED  BY <1>2, <2>1, RefPositive DEF DevInv
<1>4. ASSUME NEW u \in Task \ {t}, pc[u] = "io"
      PROVE  cur[u] # f /\ cur[u] \in File
  <2>1. PICK d \in Fd : fds[u][d] = cur[u] /\ cur[u] \in File
    BY <1>4 DEF DevInv, Files, InDriver, DriverOf
  <2>2. opened[cur[u]]
    BY <1>4, <2>1, DriverAlive, FileIds DEF DevInv
  <2> QED  BY <1>2, <2>1, <2>2
<1>5. \A u \in Task : pc[u] \in Opening => cur[u] \in File
  BY DEF DevInv, FileInv, Locals, LocalsOf, Opening, Owning, Failing
<1>6. \A g \in File : opened'[g] = (opened[g] \/ g = f)
  BY <1>1, <1>2 DEF DevInv, FileInv, FileTypeOK
<1> QED  BY <1>1, <1>2, <1>3, <1>4, <1>5, <1>6

(* The open of either file system, as far as the files go.                  *)
LEMMA OpensFiles ==
  ASSUME DevInv, NEW t \in Task, FsOpen(t),
         \A g \in File \ {cur[t]} : fs'[g] = fs[g] /\ devId'[g] = devId[g]
  PROVE  FileInv' /\ Files'
<1> DEFINE f == cur[t]
<1>0. FileTypeOK
  BY DEF DevInv, FileInv
<1>1. /\ f \in File /\ ~ opened[f] /\ devId[f] = 0 /\ ref[f] > 0
      /\ \A g \in File : opened'[g] = (opened[g] \/ g = f)
      /\ \A u \in Task \ {t} : pc[u] \in Opening \cup {"io"} => cur[u] # f /\ cur[u] \in File
  BY OpensFresh
<1>2. /\ pc[t] = "fsOpen" /\ pc' = [pc EXCEPT ![t] = "user"] /\ cur' = [cur EXCEPT ![t] = NoFile]
      /\ UNCHANGED <<ref, fds>>
  BY DEF FsOpen, Return, Goto
<1>3. pc'[t] = "user" /\ \A u \in Task \ {t} : pc'[u] = pc[u] /\ cur'[u] = cur[u]
  BY <1>0, <1>2 DEF FileTypeOK
<1> HIDE DEF f
<1>4. OpenedCounted'
  <2> SUFFICES ASSUME NEW g \in File, opened'[g]
               PROVE  ref'[g] > 0 \/ \E u \in Task : pc'[u] = "fsClose" /\ cur'[u] = g
    BY DEF OpenedCounted
  <2>1. CASE ref[g] > 0
    BY <1>2, <2>1
  <2>2. ASSUME NEW u \in Task, pc[u] = "fsClose", cur[u] = g
        PROVE  pc'[u] = "fsClose" /\ cur'[u] = g
    BY <1>2, <1>3, <2>2
  <2> QED  BY <1>1, <2>1, <2>2 DEF DevInv, Files, OpenedCounted
<1>5. Cleared'
  <2> SUFFICES ASSUME NEW u \in Task, pc'[u] \in Opening
               PROVE  ClearedOf(u)'
    BY DEF Cleared, ClearedOf
  <2>1. u # t
    BY <1>3 DEF Opening
  <2>2. ClearedOf(u) /\ cur[u] # f /\ cur[u] \in File /\ pc[u] \in Opening
    BY <1>1, <1>3, <2>1 DEF DevInv, Files, Cleared
  <2>3. \A v \in Task \ {u} : pc'[v] \in Opening => pc[v] \in Opening /\ cur'[v] = cur[v]
    BY <1>3 DEF Opening
  <2>4. devId'[cur[u]] = devId[cur[u]] /\ opened'[cur[u]] = opened[cur[u]]
    <3>1. devId'[cur[u]] = devId[cur[u]]
      BY <2>2 DEF f
    <3>2. opened'[cur[u]] = opened[cur[u]]
      BY <1>0, <1>1, <2>2 DEF FileTypeOK
    <3> QED  BY <3>1, <3>2
  <2> QED  BY <1>3, <2>1, <2>2, <2>3, <2>4 DEF ClearedOf
<1>6. InDriver'
  <2> SUFFICES ASSUME NEW u \in Task, pc'[u] = "io"
               PROVE  DriverOf(u)'
    BY DEF InDriver, DriverOf
  <2>1. u # t /\ pc[u] = "io" /\ cur'[u] = cur[u]
    BY <1>3
  <2>2. cur[u] # f /\ cur[u] \in File
    BY <1>1, <2>1
  <2>3. fs'[cur[u]] = fs[cur[u]] /\ devId'[cur[u]] = devId[cur[u]]
    BY <2>2 DEF f
  <2> QED  BY <1>2, <2>1, <2>3 DEF DevInv, Files, InDriver, DriverOf
<1>7. FileInv'
  BY FsOpenFile DEF DevInv
<1> QED  BY <1>4, <1>5, <1>6, <1>7 DEF Files

(* FAT16 opens the file: no entry of the device table is concerned.         *)
LEMMA OpenOnFatDev ==
  ASSUME DevInv, NEW t \in Task, NEW name \in Name, OpenOnFat(t, name)
  PROVE  DevInv'
<1> DEFINE f == cur[t]
<1>1. FsOpen(t) /\ fs' = [fs EXCEPT ![f] = "fat16"] /\ want' = [want EXCEPT ![f] = Denotes(name)]
      /\ UNCHANGED <<dev, devId>>
  BY DEF OpenOnFat
<1>2. f \in File /\ ~ opened[f] /\ \A g \in File : opened'[g] = (opened[g] \/ g = f)
  BY <1>1, OpensFresh
<1> HIDE DEF f
<1>3. /\ DevTypeOK' /\ fs'[f] = "fat16"
      /\ \A g \in File \ {f} : fs'[g] = fs[g] /\ devId'[g] = devId[g] /\ want'[g] = want[g]
  BY <1>1, <1>2 DEF DevInv, DevTable, DevTypeOK, Sane
<1>4. \A i : Users(i)' = Users(i)
  BY <1>1, <1>2, <1>3 DEF Users, OnDevice
<1>5. Counted'
  BY <1>1, <1>4 DEF DevInv, DevTable, Counted
<1>6. Arrived'
  BY <1>1, <1>2, <1>3 DEF DevInv, DevTable, Arrived
<1>7. FileInv' /\ Files'
  BY <1>1, <1>3, OpensFiles DEF f
<1> QED  BY <1>3, <1>5, <1>6, <1>7 DEF DevInv, DevTable

(* devfs opens the file of no device: it stays at entry 0, which is free.   *)
LEMMA OpenNoDevice ==
  ASSUME DevInv, NEW t \in Task, FsOpen(t), NEW wanted, NoDev \in wanted,
         fs' = [fs EXCEPT ![cur[t]] = "devfs"], want' = [want EXCEPT ![cur[t]] = wanted],
         UNCHANGED <<dev, devId>>
  PROVE  DevInv'
<1> DEFINE f == cur[t]
<1>1. f \in File /\ ~ opened[f] /\ devId[f] = 0 /\ \A g \in File : opened'[g] = (opened[g] \/ g = f)
  BY OpensFresh
<1> HIDE DEF f
<1>2. /\ DevTypeOK' /\ fs'[f] = "devfs" /\ want'[f] = wanted
      /\ \A g \in File \ {f} : fs'[g] = fs[g] /\ devId'[g] = devId[g] /\ want'[g] = want[g]
  BY <1>1 DEF DevInv, DevTable, DevTypeOK, Sane, f
<1>3. \A i \in Entry \ {0} : Users(i)' = Users(i)
  BY <1>1, <1>2 DEF Users, OnDevice
<1>4. Counted'
  BY <1>3 DEF DevInv, DevTable, Counted
<1>5. Arrived'
  <2>1. dev[0].desc = NoDev
    BY DEF DevInv, DevTable, DevTypeOK, Sane
  <2> QED  BY <1>1, <1>2, <2>1 DEF DevInv, DevTable, Arrived
<1>6. FileInv' /\ Files'
  BY <1>2, OpensFiles DEF f
<1> QED  BY <1>2, <1>4, <1>5, <1>6 DEF DevInv, DevTable

(* devfs opens the file of a device: dev_open counts it.                    *)
LEMMA OpenDevice ==
  ASSUME DevInv, NEW t \in Task, FsOpen(t), NEW wanted, NEW m \in Device, m \in wanted,
         fs' = [fs EXCEPT ![cur[t]] = "devfs"], want' = [want EXCEPT ![cur[t]] = wanted],
         dev' = DevOpen(dev, m).table, devId' = [devId EXCEPT ![cur[t]] = DevOpen(dev, m).id]
  PROVE  DevInv'
<1>0. PICK f, i : f = cur[t] /\ i = DevOpen(dev, m).id
  OBVIOUS
<1>1. f \in File /\ ~ opened[f] /\ \A g \in File : opened'[g] = (opened[g] \/ g = f)
  BY <1>0, OpensFresh
<1>2. Sane(dev)
  BY DEF DevInv, DevTable, DevTypeOK
<1>3. /\ i \in Entry \ {0} /\ Suits(dev, i, m) /\ Sane(dev)'
      /\ dev' = [dev EXCEPT ![i] = [count |-> dev[i].count + 1, desc |-> m]]
  BY <1>0, <1>2, OpenEntry
<1>4. /\ dev'[i].count = dev[i].count + 1 /\ dev'[i].desc = m /\ dev[i].count \in Nat
      /\ \A j \in Entry \ {i} : dev'[j] = dev[j]
  BY <1>2, <1>3 DEF Sane
<1>5. /\ DevTypeOK' /\ fs'[f] = "devfs" /\ want'[f] = wanted /\ devId'[f] = i
      /\ \A g \in File \ {f} : fs'[g] = fs[g] /\ devId'[g] = devId[g] /\ want'[g] = want[g]
  <2>1. /\ fs' = [fs EXCEPT ![f] = "devfs"] /\ want' = [want EXCEPT ![f] = wanted]
        /\ devId' = [devId EXCEPT ![f] = i]
    BY <1>0
  <2>2. DOMAIN want = File /\ fs \in [File -> {"none", "fat16", "devfs"}] /\ devId \in [File -> Entry]
    BY DEF DevInv, DevTable, DevTypeOK
  <2>3. fs' \in [File -> {"none", "fat16", "devfs"}] /\ fs'[f] = "devfs"
        /\ \A g \in File \ {f} : fs'[g] = fs[g]
    BY <1>1, <2>1, <2>2
  <2>4. devId' \in [File -> Entry] /\ devId'[f] = i /\ \A g \in File \ {f} : devId'[g] = devId[g]
    <3>1. i \in Entry /\ f \in File
      BY <1>1, <1>3
    <3>2. devId' = [devId EXCEPT ![f] = i] /\ devId \in [File -> Entry]
      BY <2>1, <2>2
    <3> QED  BY <3>1, <3>2
  <2>5. DOMAIN want' = File /\ want'[f] = wanted /\ \A g \in File \ {f} : want'[g] = want[g]
    BY <1>1, <2>1, <2>2
  <2> QED  BY <1>3, <2>3, <2>4, <2>5 DEF DevTypeOK
<1>6. ASSUME NEW j
      PROVE  /\ ~ OnDevice(f, j) /\ (OnDevice(f, j)' <=> j = i)
             /\ Cardinality(Users(j)') = Cardinality(Users(j)) + One(j = i)
             /\ Cardinality(Users(j)) \in Nat
  <2>1. ~ OnDevice(f, j) /\ (OnDevice(f, j)' <=> j = i)
    <3>1. opened'[f]
      BY <1>1
    <3> QED  BY <1>1, <1>5, <3>1 DEF OnDevice
  <2>2. \A g \in File \ {f} : opened'[g] = opened[g] /\ fs'[g] = fs[g] /\ devId'[g] = devId[g]
    BY <1>1, <1>5 DEF DevInv, FileInv, FileTypeOK
  <2>3. /\ Cardinality(Users(j)') + One(OnDevice(f, j)) = Cardinality(Users(j)) + One(OnDevice(f, j)')
        /\ Cardinality(Users(j)) \in Nat /\ Cardinality(Users(j)') \in Nat
    BY <1>1, <2>2, UsersOne
  <2>4. One(OnDevice(f, j)) = 0 /\ One(OnDevice(f, j)') = One(j = i) /\ One(j = i) \in Nat
    BY <2>1 DEF One
  <2> QED  BY <2>1, <2>3, <2>4
<1>7. Counted'
  <2>1. ASSUME NEW j \in Entry, BootTable[j].desc # NoDev
        PROVE  dev'[j].desc = BootTable[j].desc
    <3>1. dev[j].desc = BootTable[j].desc
      BY <2>1 DEF DevInv, DevTable, Counted
    <3>2. CASE j = i
      BY <1>3, <1>4, <2>1, <3>1, <3>2 DEF Suits, Unused
    <3> QED  BY <1>4, <3>1, <3>2
  <2>2. ASSUME NEW j \in Entry \ {0}
        PROVE  dev'[j].count = Cardinality(Users(j)') + AtBoot(j)
    <3>1. dev[j].count = Cardinality(Users(j)) + AtBoot(j) /\ AtBoot(j) \in Nat
      BY DEF DevInv, DevTable, Counted, AtBoot
    <3>2. dev'[j].count = dev[j].count + One(j = i)
      BY <1>2, <1>4 DEF One, Sane
    <3>3. /\ Cardinality(Users(j)') = Cardinality(Users(j)) + One(j = i)
          /\ Cardinality(Users(j)) \in Nat /\ One(j = i) \in Nat
      BY <1>6 DEF One
    <3> QED  BY <3>1, <3>2, <3>3
  <2> QED  BY <2>1, <2>2 DEF Counted, AtBoot
<1>8. Arrived'
  <2>0. dev'[devId'[f]].desc \in want'[f]
    BY <1>4, <1>5
  <2> SUFFICES ASSUME NEW g \in File, opened'[g], fs'[g] = "devfs", g # f
               PROVE  dev'[devId'[g]].desc \in want'[g]
    BY <2>0 DEF Arrived
  <2>1. /\ opened[g] /\ fs[g] = "devfs" /\ devId'[g] = devId[g] /\ want'[g] = want[g]
        /\ dev[devId[g]].desc \in want[g]
    BY <1>1, <1>5 DEF Arrived, DevInv, DevTable
  <2>2. devId[g] \in Entry
    BY DEF DevInv, DevTable, DevTypeOK
  <2>3. CASE devId[g] = i
    <3>1. OnDevice(g, i)
      BY <2>1, <2>3 DEF OnDevice
    <3>2. dev[i].desc # NoDev
      BY <1>3, <3>1, Used DEF DevInv
    <3> QED  BY <1>3, <1>4, <2>1, <2>3, <3>2 DEF Suits, Unused
  <2> QED  BY <1>4, <2>1, <2>2, <2>3
<1>9. FileInv' /\ Files'
  BY <1>0, <1>5, OpensFiles
<1> QED  BY <1>5, <1>7, <1>8, <1>9 DEF DevInv, DevTable

(* devfs opens the file, if the names agree.                                *)
LEMMA OpenOnDevfsDev ==
  ASSUME DevInv, NamesAgree, NEW t \in Task, NEW name \in Name, OpenOnDevfs(t, name)
  PROVE  DevInv'
<1> DEFINE minors == MinorsAsked(NameBelow(name), TypeName, Terminal)
           wanted == Denotes(name)
<1>1. /\ FsOpen(t) /\ FsOf(name) = "devfs" /\ fs' = [fs EXCEPT ![cur[t]] = "devfs"]
      /\ want' = [want EXCEPT ![cur[t]] = wanted]
      /\ \/ minors = {} /\ UNCHANGED <<dev, devId>>
         \/ \E m \in minors : /\ dev' = DevOpen(dev, m).table
                              /\ devId' = [devId EXCEPT ![cur[t]] = DevOpen(dev, m).id]
  BY DEF OpenOnDevfs
<1>2. minors \subseteq wanted \cap Terminal /\ (minors = {} => NoDev \in wanted)
  BY <1>1 DEF NamesAgree
<1> HIDE DEF minors, wanted
<1>3. CASE minors = {} /\ UNCHANGED <<dev, devId>>
  BY <1>1, <1>2, <1>3, OpenNoDevice
<1>4. ASSUME NEW m \in minors, dev' = DevOpen(dev, m).table,
             devId' = [devId EXCEPT ![cur[t]] = DevOpen(dev, m).id]
      PROVE  DevInv'
  <2>1. m \in Device /\ m \in wanted
    BY <1>2, DeviceIds
  <2> QED  BY <1>1, <1>4, <2>1, OpenDevice
<1> QED  BY <1>1, <1>3, <1>4

(* The close of the file system: dev_close, for a file of devfs.            *)
LEMMA CloseBelowDev == ASSUME DevInv, NEW t \in Task, CloseBelow(t) PROVE DevInv'
<1>0. PICK f, i : f = cur[t] /\ i = devId[f]
  OBVIOUS
<1>1. /\ FsClose(t) /\ UNCHANGED <<fs, devId, want>>
      /\ dev' = IF fs[f] = "devfs" THEN DevClose(dev, i) ELSE dev
  BY <1>0 DEF CloseBelow
<1>2. /\ pc[t] = "fsClose" /\ pc' = [pc EXCEPT ![t] = "closeFree"]
      /\ opened' = [opened EXCEPT ![f] = FALSE] /\ UNCHANGED <<ref, fds, cur>>
  BY <1>0, <1>1 DEF FsClose, Goto
<1>3. f \in File /\ opened[f] /\ i \in Entry
  <2>1. f \in File /\ Own(t) /\ f # NoFile
    BY <1>0, <1>2, FileIds DEF DevInv, FileInv, Locals, LocalsOf, Owning
  <2>2. opened[f]
    BY <1>0, <1>2, <2>1 DEF DevInv, FileInv, OpenHeld, OpenHeldOf, Pending, Failing, Own
  <2> QED  BY <1>0, <2>1, <2>2 DEF DevInv, DevTable, DevTypeOK
<1>4. /\ ~ opened'[f] /\ \A g \in File \ {f} : opened'[g] = opened[g]
      /\ pc'[t] = "closeFree" /\ \A u \in Task \ {t} : pc'[u] = pc[u]
  BY <1>2, <1>3 DEF DevInv, FileInv, FileTypeOK
<1>5. Sane(dev)
  BY DEF DevInv, DevTable, DevTypeOK
<1>6. OpenedCounted'
  <2> SUFFICES ASSUME NEW g \in File, opened'[g]
               PROVE  ref'[g] > 0 \/ \E u \in Task : pc'[u] = "fsClose" /\ cur'[u] = g
    BY DEF OpenedCounted
  <2>1. g # f /\ opened[g]
    BY <1>4
  <2>2. ASSUME NEW u \in Task, pc[u] = "fsClose", cur[u] = g
        PROVE  pc'[u] = "fsClose" /\ cur'[u] = g
    BY <1>0, <1>2, <1>4, <2>1, <2>2
  <2> QED  BY <1>2, <2>1, <2>2 DEF DevInv, Files, OpenedCounted
<1>7. Cleared'
  <2> SUFFICES ASSUME NEW u \in Task, pc'[u] \in Opening
               PROVE  ClearedOf(u)'
    BY DEF Cleared, ClearedOf
  <2>1. u # t /\ pc[u] \in Opening
    BY <1>4 DEF Opening
  <2>2. FALSE
    BY <1>2, <2>1 DEF DevInv, FileInv, CloseAlone, Closing, Opening
  <2> QED  BY <2>2
<1>8. InDriver'
  <2> SUFFICES ASSUME NEW u \in Task, pc'[u] = "io"
               PROVE  DriverOf(u)'
    BY DEF InDriver, DriverOf
  <2>1. pc[u] = "io"
    BY <1>4
  <2> QED  BY <1>1, <1>2, <2>1 DEF DevInv, Files, InDriver, DriverOf
<1>9. ASSUME NEW j
      PROVE  /\ Cardinality(Users(j)') + One(OnDevice(f, j)) = Cardinality(Users(j))
             /\ Cardinality(Users(j)) \in Nat /\ Cardinality(Users(j)') \in Nat
  <2>1. \A g \in File \ {f} : opened'[g] = opened[g] /\ fs'[g] = fs[g] /\ devId'[g] = devId[g]
    BY <1>1, <1>4
  <2>2. /\ Cardinality(Users(j)') + One(OnDevice(f, j)) = Cardinality(Users(j)) + One(OnDevice(f, j)')
        /\ Cardinality(Users(j)) \in Nat /\ Cardinality(Users(j)') \in Nat
    BY <1>3, <2>1, UsersOne
  <2>3. ~ OnDevice(f, j)'
    BY <1>4 DEF OnDevice
  <2>4. One(OnDevice(f, j)') = 0
    BY <2>3 DEF One
  <2> QED  BY <2>2, <2>4
<1>10. ASSUME NEW g \in File \ {f}, opened[g], fs[g] = "devfs", fs[f] = "devfs", devId[g] = i
       PROVE  dev[i].count = 1 => dev[i].desc = NoDev
  <2>1. CASE i = 0
    BY <1>5, <2>1 DEF Sane
  <2>2. CASE i # 0
    <3>1. OnDevice(f, i) /\ OnDevice(g, i)
      BY <1>0, <1>3, <1>10 DEF OnDevice
    <3> QED  BY <1>3, <2>2, <3>1, Used DEF DevInv
  <2> QED  BY <2>1, <2>2
<1>11. DevTable'
  <2>1. CASE fs[f] # "devfs"
    <3>1. dev' = dev /\ \A j : Users(j)' = Users(j)
      BY <1>1, <1>4, <2>1 DEF Users, OnDevice
    <3>2. DevTypeOK' /\ Arrived'
      BY <1>1, <1>4, <3>1 DEF DevInv, DevTable, DevTypeOK, Sane, Arrived
    <3> QED  BY <3>1, <3>2 DEF DevInv, DevTable, Counted
  <2>2. CASE fs[f] = "devfs"
    <3>1. /\ Sane(dev') /\ \A j \in Entry \ {i} : dev'[j] = dev[j]
          /\ dev[i].desc = NoDev => dev' = dev
          /\ dev[i].desc # NoDev =>
               /\ dev'[i].count = dev[i].count - 1
               /\ dev'[i].desc = IF dev[i].count = 1 THEN NoDev ELSE dev[i].desc
      BY <1>1, <1>3, <1>5, <2>2, CloseEntry
    <3>2. \A j : OnDevice(f, j) <=> j = i
      BY <1>0, <1>3, <2>2 DEF OnDevice
    <3>3. DevTypeOK'
      BY <1>1, <3>1 DEF DevInv, DevTable, DevTypeOK
    <3>4. Arrived'
      <4> SUFFICES ASSUME NEW g \in File, opened'[g], fs'[g] = "devfs"
                   PROVE  dev'[devId'[g]].desc \in want'[g]
        BY DEF Arrived
      <4>1. g # f /\ opened[g] /\ fs[g] = "devfs" /\ devId[g] \in Entry
            /\ dev[devId[g]].desc \in want[g]
        BY <1>1, <1>4 DEF DevInv, DevTable, DevTypeOK, Arrived
      <4>2. dev'[devId[g]].desc = dev[devId[g]].desc
        <5>1. CASE devId[g] # i
          BY <3>1, <4>1, <5>1
        <5>2. CASE devId[g] = i
          BY <1>10, <2>2, <3>1, <4>1, <5>2
        <5> QED  BY <5>1, <5>2
      <4> QED  BY <1>1, <4>1, <4>2
    <3>5. ASSUME NEW j \in Entry, BootTable[j].desc # NoDev
          PROVE  dev'[j].desc = BootTable[j].desc
      <4>1. dev[j].desc = BootTable[j].desc /\ j # 0
        BY <1>5, <3>5 DEF DevInv, DevTable, Counted, Sane
      <4>2. CASE j # i
        BY <3>1, <4>1, <4>2
      <4>3. CASE j = i
        <5>1. dev[i].count # 1
          BY <1>3, <3>2, <3>5, <4>1, <4>3, Used DEF DevInv
        <5> QED  BY <3>1, <3>5, <4>1, <4>3, <5>1
      <4> QED  BY <4>2, <4>3
    <3>6. ASSUME NEW j \in Entry \ {0}
          PROVE  dev'[j].count = Cardinality(Users(j)') + AtBoot(j)
      <4>1. dev[j].count = Cardinality(Users(j)) + AtBoot(j) /\ AtBoot(j) \in Nat
        BY DEF DevInv, DevTable, Counted, AtBoot
      <4>2. /\ Cardinality(Users(j)') + One(OnDevice(f, j)) = Cardinality(Users(j))
            /\ Cardinality(Users(j)) \in Nat /\ Cardinality(Users(j)') \in Nat
        BY <1>9
      <4>3. CASE j # i
        <5>1. One(OnDevice(f, j)) = 0 /\ dev'[j] = dev[j]
          BY <3>1, <3>2, <4>3 DEF One
        <5> QED  BY <4>1, <4>2, <5>1
      <4>4. CASE j = i
        <5>1. One(OnDevice(f, j)) = 1
          BY <3>2, <4>4 DEF One
        <5>2. dev[j].desc # NoDev
          <6>1. OnDevice(f, j)
            BY <3>2, <4>4
          <6> QED  BY <1>3, <6>1, Used DEF DevInv
        <5>3. dev'[j].count = dev[j].count - 1
          BY <3>1, <4>4, <5>2
        <5>4. Cardinality(Users(j)') = Cardinality(Users(j)) - 1
          BY <4>2, <5>1
        <5> QED  BY <4>1, <4>2, <5>3, <5>4
      <4> QED  BY <4>3, <4>4
    <3>7. Counted'
      BY <3>5, <3>6 DEF Counted, AtBoot
    <3> QED  BY <3>3, <3>4, <3>7 DEF DevTable
  <2> QED  BY <2>1, <2>2
<1>12. FileInv'
  BY <1>1, FsCloseFile DEF DevInv
<1> QED  BY <1>6, <1>7, <1>8, <1>11, <1>12 DEF DevInv, Files

(* A call that goes to a driver, and its return.                            *)
LEMMA DriverDev ==
  ASSUME DevInv, NEW t \in Task, IoReturn(t) \/ \E d \in Fd : IoCall(t, d)
  PROVE  DevInv'
<1>0. FileTypeOK
  BY DEF DevInv, FileInv
<1>1. CASE IoReturn(t)
  <2>1. Aside(t)
    BY <1>0, <1>1 DEF IoReturn, Return, Goto, Aside, Opening, FileTypeOK
  <2>2. UNCHANGED devVars
    BY <1>1 DEF IoReturn, devVars
  <2> QED  BY <1>1, <2>1, <2>2, AsideInv, IoReturnFile DEF DevInv
<1>2. ASSUME NEW d \in Fd, IoCall(t, d)
      PROVE  DevInv'
  <2>1. /\ pc[t] = "user" /\ fds[t][d] # NoFile /\ fs[fds[t][d]] = "devfs"
        /\ dev[devId[fds[t][d]]].desc # NoDev
        /\ cur' = [cur EXCEPT ![t] = fds[t][d]] /\ pc' = [pc EXCEPT ![t] = "io"]
        /\ UNCHANGED <<ref, opened, fds, dev, fs, devId, want>>
    BY <1>2 DEF IoCall, Goto, Bad, devVars
  <2>2. /\ pc'[t] = "io" /\ cur'[t] = fds[t][d] /\ fds[t][d] \in File
        /\ \A u \in Task \ {t} : pc'[u] = pc[u] /\ cur'[u] = cur[u]
    BY <1>0, <2>1 DEF FileTypeOK
  <2>3. OpenedCounted'
    BY <2>1, <2>2 DEF DevInv, Files, OpenedCounted
  <2>4. Cleared'
    <3> SUFFICES ASSUME NEW u \in Task, pc'[u] \in Opening
                 PROVE  ClearedOf(u)'
      BY DEF Cleared, ClearedOf
    <3>1. u # t /\ ClearedOf(u) /\ pc[u] \in Opening
      BY <2>2 DEF Opening, DevInv, Files, Cleared
    <3>2. \A v \in Task : pc'[v] \in Opening => pc[v] \in Opening /\ cur'[v] = cur[v]
      BY <2>2 DEF Opening
    <3> QED  BY <2>1, <2>2, <3>1, <3>2 DEF ClearedOf
  <2>5. InDriver'
    <3> SUFFICES ASSUME NEW u \in Task, pc'[u] = "io"
                 PROVE  DriverOf(u)'
      BY DEF InDriver, DriverOf
    <3>1. CASE u = t
      <4>1. dev[0].desc = NoDev
        BY DEF DevInv, DevTable, DevTypeOK, Sane
      <4> QED  BY <2>1, <2>2, <3>1, <4>1 DEF DriverOf
    <3>2. CASE u # t
      BY <2>1, <2>2, <3>2 DEF DevInv, Files, InDriver, DriverOf
    <3> QED  BY <3>1, <3>2
  <2>6. DevTable'
    <3>1. \A i : Users(i)' = Users(i)
      BY <2>1 DEF Users, OnDevice
    <3>2. DevTypeOK' /\ Arrived'
      BY <2>1 DEF DevInv, DevTable, DevTypeOK, Sane, Arrived
    <3> QED  BY <2>1, <3>1, <3>2 DEF DevInv, DevTable, Counted
  <2> QED  BY <1>2, <2>3, <2>4, <2>5, <2>6, IoCallFile DEF DevInv, Files
<1> QED  BY <1>1, <1>2

(* fs_init: no file is open, and the boot's devices are.                    *)
LEMMA DevInitInv == DevInit => DevInv
<1> SUFFICES ASSUME DevInit
             PROVE  DevInv
  OBVIOUS
<1>1. Init /\ dev = BootTable /\ fs = [f \in File |-> "none"] /\ devId = [f \in File |-> 0]
      /\ want = [f \in File |-> {}]
  BY DEF DevInit
<1>2. FileInv
  BY <1>1, InitFile
<1>3. (\A f \in File : ~ opened[f]) /\ \A t \in Task : pc[t] = "user"
  BY <1>1 DEF Init
<1>4. Files
  BY <1>3 DEF Files, OpenedCounted, Cleared, ClearedOf, InDriver, DriverOf, Opening
<1>5. DevTypeOK /\ Arrived
  BY <1>1, <1>3, BootSane, DeviceIds DEF DevTypeOK, Arrived
<1>6. Counted
  <2>1. ASSUME NEW i \in Entry
        PROVE  Cardinality(Users(i)) = 0
    <3>1. Users(i) = {}
      BY <1>3 DEF Users, OnDevice
    <3> QED  BY <3>1, FS_EmptySet
  <2>2. \A i \in Entry : dev[i].count = AtBoot(i) /\ AtBoot(i) \in Nat
    BY <1>1, BootSane DEF AtBoot
  <2> QED  BY <1>1, <2>1, <2>2 DEF Counted
<1> QED  BY <1>2, <1>4, <1>5, <1>6 DEF DevInv, DevTable

(* Every step of the device table and of the file table above it.           *)
LEMMA DevNextInv == ASSUME ClosesAlone, NamesAgree, DevInv, [DevNext]_allVars PROVE DevInv'
<1>1. FileInv'
  BY NextFile DEF DevInv
<1>2. CASE UNCHANGED allVars
  <2>1. UNCHANGED <<ref, opened, fds, alive, pc, cur, dev, fs, devId, want>>
    BY <1>2 DEF allVars, vars, devVars
  <2>2. \A i : Users(i)' = Users(i)
    BY <2>1 DEF Users, OnDevice
  <2>3. Files'
    BY <2>1 DEF DevInv, Files, OpenedCounted, Cleared, ClearedOf, InDriver, DriverOf
  <2>4. DevTypeOK' /\ Arrived'
    BY <2>1 DEF DevInv, DevTable, DevTypeOK, Sane, Arrived
  <2> QED  BY <1>1, <2>1, <2>2, <2>3, <2>4 DEF DevInv, DevTable, Counted
<1>3. CASE DevNext
  <2>1. PICK t \in Task :
          \/ TableStep(t) /\ UNCHANGED devVars
          \/ AllocClears(t) \/ CloseBelow(t) \/ IoReturn(t)
          \/ \E name \in Name : OpenOnFat(t, name) \/ OpenOnDevfs(t, name)
          \/ \E d \in Fd : IoCall(t, d)
    BY <1>3 DEF DevNext
  <2>2. CASE TableStep(t) /\ UNCHANGED devVars
    <3>1. Aside(t)
      BY <2>2, TableAside DEF DevInv, Files
    <3> QED  BY <1>1, <2>2, <3>1, AsideInv
  <2> QED  BY <2>1, <2>2, AllocClearsDev, CloseBelowDev, DriverDev, OpenOnFatDev, OpenOnDevfsDev
<1> QED  BY <1>2, <1>3

(* DevInv in every behaviour.                                               *)
LEMMA DevSpecInv == ASSUME ClosesAlone, NamesAgree PROVE DevSpec => []DevInv
<1>1. DevInv /\ [DevNext]_allVars => DevInv'
  BY DevNextInv
<1> QED  BY <1>1, DevInitInv, PTL DEF DevSpec

(* An entry of dev_tbl is counted by the open files that refer to it and by *)
(* the kernel's own opens, for any number of entries, terminals, files and  *)
(* tasks, if no file call overlaps a close and the names that programs open *)
(* are read as they are meant (dev_open, dev_close, devfs_open).            *)
THEOREM SpecCountsExact == ClosesAlone /\ NamesAgree => (DevSpec => []CountsExact)
<1> SUFFICES ASSUME ClosesAlone, NamesAgree
             PROVE  DevSpec => []CountsExact
  OBVIOUS
<1>1. DevInv => CountsExact
  <2> SUFFICES ASSUME DevInv, NEW i \in Entry, dev[i].desc # NoDev
               PROVE  dev[i].count = Cardinality({f \in File : OnDevice(f, i)})
                        + (IF BootTable[i].desc = dev[i].desc THEN 1 ELSE 0)
    BY DEF CountsExact
  <2>1. i # 0
    BY DEF DevInv, DevTable, DevTypeOK, Sane
  <2>2. dev[i].count = Cardinality(Users(i)) + AtBoot(i)
    BY <2>1 DEF DevInv, DevTable, Counted
  <2>3. AtBoot(i) = IF BootTable[i].desc = dev[i].desc THEN 1 ELSE 0
    BY DEF DevInv, DevTable, Counted, AtBoot
  <2> QED  BY <2>2, <2>3 DEF Users
<1> QED  BY <1>1, DevSpecInv, PTL

(* Every open file, and every task inside a driver, is at the device the    *)
(* name stands for, under the same hypotheses (sys_open, devfs_open, and    *)
(* sys_read, sys_write and sys_ioctl through file_t.dev_id).                *)
THEOREM SpecReachesOwnDevice == ClosesAlone /\ NamesAgree => (DevSpec => []ReachesOwnDevice)
<1> SUFFICES ASSUME ClosesAlone, NamesAgree
             PROVE  DevSpec => []ReachesOwnDevice
  OBVIOUS
<1>1. DevInv => ReachesOwnDevice
  <2> SUFFICES ASSUME DevInv, NEW t \in Task, pc[t] = "io"
               PROVE  opened[cur[t]] /\ ~ Bad(dev, devId[cur[t]])
    BY DEF ReachesOwnDevice, DevInv, DevTable, Arrived
  <2>1. PICK f \in File : f = cur[t] /\ fs[f] = "devfs" /\ devId[f] # 0 /\ \E d \in Fd : fds[t][d] = f
    BY DEF DevInv, Files, InDriver, DriverOf
  <2>2. opened[f]
    BY <2>1, DriverAlive, FileIds DEF DevInv
  <2>3. devId[f] \in Entry \ {0} /\ OnDevice(f, devId[f])
    BY <2>1, <2>2 DEF OnDevice, DevInv, DevTable, DevTypeOK
  <2>4. dev[devId[f]].desc # NoDev
    BY <2>3, Used DEF DevInv
  <2> QED  BY <2>1, <2>2, <2>4 DEF Bad
<1> QED  BY <1>1, DevSpecInv, PTL
=============================================================================
