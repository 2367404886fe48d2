------------------------------ MODULE Devices ------------------------------
(***************************************************************************)
(* The device table (dev/dev.c) and the mount list under the file table:    *)
(* which file system an open goes to, which entry devfs gives the file, and  *)
(* what dev_close and the opens and reads of others do to it.  dev_open and  *)
(* dev_close run with interrupts off and are one step with the file system   *)
(* call around them.  The kernel log holds terminal 0 and FAT16 the disk     *)
(* since boot.  A terminal number devfs reads is in range: tty_open only     *)
(* logs another one.                                                         *)
(***************************************************************************)
EXTENDS FileTable, Names

CONSTANTS
  NDev,        \* DEV_TABLE_SIZE
  Terminal,    \* minors of the terminals
  Disk,        \* the root device
  DevPoint,    \* mount point of devfs
  HomePoint,   \* mount point of FAT16
  TypeName,    \* the name of dev_type_list
  Name         \* names programs open

ASSUME DevAssumption ==
  /\ IsFiniteSet(Terminal) /\ Terminal \subseteq Nat /\ 0 \in Terminal
  /\ Disk \in Nat \ Terminal
  /\ NDev \in Nat /\ NDev > Cardinality(Terminal) + 1

Device == Terminal \cup {Disk}
NoDev == -1
Entry == 0 .. NDev - 1
Unused == [count |-> 0, desc |-> NoDev]

VARIABLES
  dev,    \* dev_tbl: open_count and the driver's descriptor with its minor
  fs,     \* file_t.fs of each file
  devId,  \* file_t.dev_id
  want    \* history: the devices the name a file was opened by stands for

devVars == <<dev, fs, devId, want>>
allVars == <<vars, devVars>>

-----------------------------------------------------------------------------
InUse(table, d) == {i \in Entry : table[i].count > 0 /\ table[i].desc = d}
FreeIn(table) == {i \in Entry : table[i].count = 0}

(* Faulty variant of DevOpen: an entry in use is shared without counting.  *)
DevOpenUncounted(table, d) ==
  IF InUse(table, d) # {} THEN [id |-> Min(InUse(table, d)), table |-> table]
  ELSE LET i == Max(FreeIn(table))
       IN [id |-> i, table |-> [table EXCEPT ![i] = [count |-> 1, desc |-> d]]]

(* Faulty variant of DevOpen: takes the first free entry. *)
DevOpenFirstFree(table, d) ==
  LET i == Min(IF InUse(table, d) # {} THEN InUse(table, d) ELSE FreeIn(table))
  IN [id |-> i, table |-> [table EXCEPT ![i] = [count |-> @.count + 1, desc |-> d]]]

(* dev_open: the first entry open on d, else the last free one. *)
DevOpen(table, d) ==
  LET i == IF InUse(table, d) # {} THEN Min(InUse(table, d)) ELSE Max(FreeIn(table))
  IN [id |-> i, table |-> [table EXCEPT ![i] = [count |-> @.count + 1, desc |-> d]]]

(* is_devid_bad, of an index of the table *)
Bad(table, i) == table[i].desc = NoDev

(* dev_close *)
DevClose(table, i) ==
  IF Bad(table, i) THEN table
  ELSE IF table[i].count = 1 THEN [table EXCEPT ![i] = Unused]
  ELSE [table EXCEPT ![i].count = @ - 1]

(* mount: refuses a point it takes for one that is mounted. *)
Mount(list, point, type) ==
  IF \E k \in DOMAIN list : Alike(list[k].point, point, Len(point)) THEN list
  ELSE Append(list, [point |-> point, type |-> type])

(* fs_init, after log_init opened the terminal of the log *)
Mounted == Mount(Mount(<<>>, DevPoint, "devfs"), HomePoint, "fat16")
BootTable == DevOpen(DevOpen([i \in Entry |-> Unused], 0).table, Disk).table

(* The loop of sys_open over mounted_list, and root_fs without a match. *)
Matches(name) == {k \in DOMAIN Mounted : BeginsWith(name, Mounted[k].point)}
FsOf(name) == IF Matches(name) = {} THEN "fat16" ELSE Mounted[Min(Matches(name))].type
NameBelow(name) == IF Matches(name) = {} THEN name ELSE NextChild(name)

(* What a name stands for: a terminal whose number it spells out, or no     *)
(* device; any terminal if the number is missing.                           *)
TerminalName(m) == DevPoint \o <<"/">> \o TypeName \o <<Digits[m + 1]>>
Denotes(name) ==
  LET spelt == {m \in Terminal : name = TerminalName(m)}
      bare  == \E k \in 1 .. Len(TypeName) : name = DevPoint \o <<"/">> \o SubSeq(TypeName, 1, k)
  IN IF spelt # {} THEN spelt ELSE IF bare THEN Terminal ELSE {NoDev}

(* The helpers on path names find what a name stands for. *)
NamesAgree ==
  \A name \in Name : FsOf(name) = "devfs" =>
    LET minors == MinorsAsked(NameBelow(name), TypeName, Terminal)
    IN  /\ minors \subseteq Denotes(name) \cap Terminal
        /\ minors = {} => NoDev \in Denotes(name)

-----------------------------------------------------------------------------
DevInit ==
  /\ Init
  /\ dev = BootTable
  /\ fs = [f \in File |-> "none"]
  /\ devId = [f \in File |-> 0]
  /\ want = [f \in File |-> {}]

(* file_alloc clears the file_t. *)
AllocClears(t) ==
  /\ FileAlloc(t)
  /\ fs' = [fs EXCEPT ![cur'[t]] = "none"]
  /\ devId' = [devId EXCEPT ![cur'[t]] = 0]
  /\ want' = [want EXCEPT ![cur'[t]] = {}]
  /\ UNCHANGED dev

OpenOnFat(t, name) ==
  /\ FsOpen(t)
  /\ FsOf(name) = "fat16"
  /\ fs' = [fs EXCEPT ![cur[t]] = "fat16"]
  /\ want' = [want EXCEPT ![cur[t]] = Denotes(name)]
  /\ UNCHANGED <<dev, devId>>

(* devfs_open succeeds also when the name is no device: dev_id stays 0. *)
OpenOnDevfs(t, name) ==
  LET minors == MinorsAsked(NameBelow(name), TypeName, Terminal)
  IN /\ FsOpen(t)
     /\ FsOf(name) = "devfs"
     /\ fs' = [fs EXCEPT ![cur[t]] = "devfs"]
     /\ want' = [want EXCEPT ![cur[t]] = Denotes(name)]
     /\ \/ minors = {} /\ UNCHANGED <<dev, devId>>
        \/ \E m \in minors :
             /\ dev' = DevOpen(dev, m).table
             /\ devId' = [devId EXCEPT ![cur[t]] = DevOpen(dev, m).id]

(* The close of the file's file system. *)
CloseBelow(t) ==
  /\ FsClose(t)
  /\ dev' = IF fs[cur[t]] = "devfs" THEN DevClose(dev, devId[cur[t]]) ELSE dev
  /\ UNCHANGED <<fs, devId, want>>

(* sys_read, sys_write and sys_ioctl of a device: the driver may block in   *)
(* it.  Without a device the call fails at once and changes nothing.        *)
IoCall(t, d) ==
  /\ t \in alive \ exiting /\ pc[t] = "user"
  /\ fds[t][d] # NoFile /\ fs[fds[t][d]] = "devfs"
  /\ ~ Bad(dev, devId[fds[t][d]])
  /\ cur' = [cur EXCEPT ![t] = fds[t][d]]
  /\ Goto(t, "io")
  /\ UNCHANGED <<ref, opened, fds, alive, exiting, fd, old, child, wiped, devVars>>

IoReturn(t) ==
  /\ pc[t] = "io"
  /\ Return(t)
  /\ UNCHANGED <<ref, opened, fds, alive, exiting, old, child, wiped, devVars>>

DevNext ==
  \E t \in Task :
    \/ TableStep(t) /\ UNCHANGED devVars
    \/ AllocClears(t) \/ CloseBelow(t) \/ IoReturn(t)
    \/ \E name \in Name : OpenOnFat(t, name) \/ OpenOnDevfs(t, name)
    \/ \E d \in Fd : IoCall(t, d)

DevSpec == DevInit /\ [][DevNext]_allVars

-----------------------------------------------------------------------------
OnDevice(f, i) == opened[f] /\ fs[f] = "devfs" /\ devId[f] = i

(* An entry is in use exactly by the open files that refer to it and by     *)
(* what the kernel opened at boot: none is closed under a file, none leaks, *)
(* however opens, failures, dup, fork and closes follow each other.         *)
CountsExact ==
  \A i \in Entry :
    dev[i].desc # NoDev =>
      dev[i].count = Cardinality({f \in File : OnDevice(f, i)})
                       + (IF BootTable[i].desc = dev[i].desc THEN 1 ELSE 0)

(* Every file that is open, and so every task inside a driver, is at the    *)
(* device its name stands for and no other; a name of no device reaches     *)
(* none, although the open reports success and leaves device number 0.  So  *)
(* a terminal is set up anew (tty_open) only while nobody uses it.          *)
ReachesOwnDevice ==
  /\ \A f \in File : opened[f] /\ fs[f] = "devfs" => dev[devId[f]].desc \in want[f]
  /\ \A t \in Task : pc[t] = "io" => opened[cur[t]] /\ ~ Bad(dev, devId[cur[t]])

=============================================================================
