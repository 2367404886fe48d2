---------------------------- MODULE SectorBuffer ----------------------------
(***************************************************************************)
(* The one page FAT16 reads sectors into (fs/fatfs/fatfs.c): curr_sector     *)
(* says which sector of the table or the directory it holds, so that a       *)
(* second access need not read it again, and the contents of files pass      *)
(* through the same page.  Every call is one step, made under fat->mutex.    *)
(* A sector's contents are its kind and a version.  The disk may fail: then  *)
(* dev_read and dev_write return a count of 0, which bread_sector and        *)
(* bwrite_secotr notice and fatfs_read and fatfs_write do not.               *)
(***************************************************************************)
EXTENDS Integers

CONSTANTS
  TblSectors,   \* sectors of one copy of the allocation table
  DirSectors,   \* sectors of the root directory
  DataSectors   \* clusters of the data area, each as large as the page here

ASSUME BufAssumption ==
  TblSectors \in Nat \ {0} /\ DirSectors \in Nat \ {0} /\ DataSectors \in Nat \ {0}

Table == 1 .. TblSectors
Copy(s) == s + TblSectors                 \* the same sector of the second table
Directory == 2 * TblSectors + 1 .. 2 * TblSectors + DirSectors
FirstData == 2 * TblSectors + DirSectors + 1
Data == FirstData .. FirstData + DataSectors - 1
Sector == 1 .. FirstData + DataSectors - 1
NoSector == 0                             \* curr_sector is -1

VARIABLES
  disk,    \* what each sector holds
  buffer,  \* what fat_buffer holds
  curr,    \* fat->curr_sector
  stale,   \* history: sectors whose last write failed
  passed   \* history: a cluster was written from a page that could not be read

bufVars == <<disk, buffer, curr, stale, passed>>

Kind(s) == IF s \in Table THEN s ELSE IF s - TblSectors \in Table THEN s - TblSectors ELSE s
Fresh(s) == [of |-> Kind(s), version |-> 0]
Changed(c) == [c EXCEPT !.version = 1 - @]

BufInit ==
  /\ disk = [s \in Sector |-> Fresh(s)]
  /\ buffer = [of |-> 0, version |-> 0]   \* the boot record of fatfs_mount
  /\ curr = NoSector
  /\ stale = {} /\ passed = FALSE

-----------------------------------------------------------------------------
(* bread_sector: what it leaves in the page, and whether it worked. *)
Bread(s) ==
  IF s = curr THEN {[ok |-> TRUE, buffer |-> buffer, curr |-> curr]}
  ELSE {[ok |-> TRUE, buffer |-> disk[s], curr |-> s], [ok |-> FALSE, buffer |-> buffer, curr |-> curr]}

(* cluster_get_next and read_dir_entry *)
ReadSector(s) ==
  /\ \E r \in Bread(s) : buffer' = r.buffer /\ curr' = r.curr
  /\ UNCHANGED <<disk, stale, passed>>

(* bwrite_secotr of the page to s, as it is after a change. *)
Stored(d, s, c, ok) == IF ok THEN [d EXCEPT ![s] = c] ELSE d
Marked(z, s, ok) == IF ok THEN z \ {s} ELSE z \cup {s}

(* cluster_set_next: both copies, up to the first that cannot be written. *)
SetNext(s) ==
  /\ \E r \in Bread(s) :
       IF r.ok
         THEN \E first, second \in BOOLEAN :
                /\ buffer' = Changed(r.buffer)
                /\ curr' = r.curr
                /\ disk' = Stored(Stored(disk, s, buffer', first), Copy(s), buffer', first /\ second)
                /\ stale' = Marked(Marked(stale, s, first), Copy(s), first /\ second)
         ELSE UNCHANGED <<buffer, curr, disk, stale>>
  /\ UNCHANGED passed

(* write_dir_entry; fatfs_close changes the entry in the page before it.    *)
WriteEntry(s) ==
  /\ \E r \in Bread(s) :
       IF r.ok
         THEN \E ok \in BOOLEAN :
                /\ buffer' = Changed(r.buffer)
                /\ curr' = r.curr
                /\ disk' = Stored(disk, s, buffer', ok)
                /\ stale' = Marked(stale, s, ok)
         ELSE UNCHANGED <<buffer, curr, disk, stale>>
  /\ UNCHANGED passed

-----------------------------------------------------------------------------
(* A round of fatfs_write that fills a cluster passes the page by. *)
WriteWhole(s) ==
  /\ disk' = [disk EXCEPT ![s] = [of |-> s, version |-> 1 - disk[s].version]]
  /\ UNCHANGED <<buffer, curr, stale, passed>>

(* Faulty variant of ReadPart: curr_sector keeps its value. *)
ReadPartKeeps(s) ==
  /\ \E ok \in BOOLEAN : buffer' = IF ok THEN disk[s] ELSE buffer
  /\ UNCHANGED <<disk, curr, stale, passed>>

(* A round of fatfs_read that takes a part of a cluster. *)
ReadPart(s) ==
  /\ curr' = NoSector
  /\ \E ok \in BOOLEAN : buffer' = IF ok THEN disk[s] ELSE buffer
  /\ UNCHANGED <<disk, stale, passed>>

(* A round of fatfs_write that changes a part of a cluster: whatever is in  *)
(* the page is written, also when it could not be read.                     *)
WritePart(s) ==
  /\ curr' = NoSector
  /\ \E read, write \in BOOLEAN :
       /\ buffer' = Changed(IF read THEN disk[s] ELSE buffer)
       /\ disk' = Stored(disk, s, buffer', write)
       /\ passed' = (passed \/ (~ read /\ write))
  /\ UNCHANGED stale

BufNext ==
  \/ \E s \in Table : ReadSector(s) \/ SetNext(s)
  \/ \E s \in Directory : ReadSector(s) \/ WriteEntry(s)
  \/ \E s \in Data : WriteWhole(s) \/ ReadPart(s) \/ WritePart(s)

BufSpec == BufInit /\ [][BufNext]_bufVars

-----------------------------------------------------------------------------
(* The sector the page is said to hold is the one it holds, as it is on     *)
(* disk unless its last write failed; the copies of the table agree unless  *)
(* one could not be written; and a sector of the table or the directory     *)
(* never gets the contents of a file.  Only a cluster written from a page   *)
(* that could not be read gets something else.                              *)
BufferCoherent ==
  /\ curr # NoSector => buffer.of = Kind(curr) /\ (curr \in stale \/ buffer = disk[curr])
  /\ \A s \in Table : {s, Copy(s)} \cap stale = {} => disk[s] = disk[Copy(s)]
  /\ \A s \in Sector : disk[s].of = Kind(s) \/ (s \in Data /\ passed)

=============================================================================
