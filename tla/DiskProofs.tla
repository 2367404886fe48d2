----------------------------- MODULE DiskProofs -----------------------------
(* Proofs about what the run disk checks.  Disk: the task that holds the     *)
(* mutex and the device stay in step, for any number of tasks and of        *)
(* sectors in a call.  Interrupts: code in a protected section, a handler   *)
(* or an exception is never interrupted, and no request stays in service,   *)
(* for any set of tasks and any nesting of sections and switches.           *)
EXTENDS Disk, Interrupts, SequenceTheorems, TLAPS

-----------------------------------------------------------------------------
(* The inductive invariant of Disk.                                         *)

(* A task waits for the mutex with a request in hand.                       *)
Asked == \A t \in Task : req[t].phase = "lock" => req[t].op # "none" /\ req[t].left > 0

OneHolder == \A t, u \in Task : Holding(t) /\ Holding(u) => t = u

(* Where the command of the holder t is: the status register tells what is  *)
(* left of it, and the data port is used only when the device asks for it.  *)
Exchange(t) ==
  /\ req[t].op # "none" /\ dev.op = req[t].op /\ dev.left = req[t].left
  /\ req[t].op = "read" => req[t].left > 0
  /\ dev.status = "drq" => req[t].left > 0
  /\ dev.status = "idle" => req[t].op = "write" /\ req[t].left = 0
  /\ req[t].phase = "move" => dev.status = "drq"
Agreed == \A t \in Task : Holding(t) => Exchange(t)

(* With no holder there is nothing the device could still announce.         *)
AtRest == (\A t \in Task : ~ Holding(t)) => dev.status \in {"idle", "err"}

(* Interrupts are remembered once for the sector that is awaited, and once  *)
(* more; not while a task that did pass polls a device that is busy.        *)
Credits ==
  /\ ~ booted => sem = 0
  /\ Remembered <= Owed + 1
  /\ \A t \in Task : req[t].phase = "poll" /\ dev.status = "busy" => Remembered = 0

DiskInv == TypeOK /\ Asked /\ OneHolder /\ Agreed /\ AtRest /\ Credits

-----------------------------------------------------------------------------
(* The types, and a request of each task as a record with three fields.     *)
LEMMA DiskTypes ==
  ASSUME TypeOK
  PROVE  /\ \A t \in Task :
              /\ req[t] = [phase |-> req[t].phase, op |-> req[t].op, left |-> req[t].left]
              /\ req[t].phase \in {"idle", "lock", "wait", "poll", "move"}
              /\ req[t].op \in {"none", "read", "write"} /\ req[t].left \in 0 .. MaxSectors
         /\ dev.status \in {"idle", "busy", "drq", "err"}
         /\ dev.op \in {"none", "read", "write"} /\ dev.left \in 0 .. MaxSectors
         /\ DOMAIN req = Task /\ MaxSectors \in Nat \ {0}
         /\ sem \in Nat /\ irq \in BOOLEAN /\ booted \in BOOLEAN
BY DiskAssumption DEF TypeOK

(* What is remembered is a number, whatever is pending.                     *)
LEMMA RememberedNat ==
  ASSUME TypeOK
  PROVE  /\ Remembered \in Nat
         /\ irq /\ booted => Remembered = sem + 1
         /\ ~ (irq /\ booted) => Remembered = sem
BY DEF TypeOK, Remembered

(* At most one interrupt is owed, and it is owed to the holder.             *)
LEMMA OwedToHolder ==
  /\ Owed \in 0 .. 1
  /\ OneHolder => \A t \in Task : Holding(t) =>
       Owed = IF req[t].phase = "wait" /\ dev.status # "busy" THEN 1 ELSE 0
  /\ (\A t \in Task : ~ Holding(t)) => Owed = 0
<1>1. Owed \in 0 .. 1
  BY DEF Owed
<1>2. ASSUME OneHolder, NEW t \in Task, Holding(t)
      PROVE  Owed = IF req[t].phase = "wait" /\ dev.status # "busy" THEN 1 ELSE 0
  BY <1>2 DEF OneHolder, Holding, Owed
<1>3. (\A t \in Task : ~ Holding(t)) => Owed = 0
  BY DEF Holding, Owed
<1> QED  BY <1>1, <1>2, <1>3

(* Nobody asks for anything at first.                                       *)
LEMMA DiskInitInv == Init => DiskInv
<1> SUFFICES ASSUME Init
             PROVE  DiskInv
  OBVIOUS
<1>1. TypeOK
  <2>1. 0 \in 0 .. MaxSectors
    BY DiskAssumption
  <2>2. /\ req \in [Task -> [phase : {"idle", "lock", "wait", "poll", "move"},
                             op : {"none", "read", "write"}, left : 0 .. MaxSectors]]
        /\ dev \in [status : {"idle", "busy", "drq", "err"},
                    op : {"none", "read", "write"}, left : 0 .. MaxSectors]
    BY <2>1 DEF Init, Idle
  <2>3. irq \in BOOLEAN /\ booted \in BOOLEAN
    BY Zenon DEF Init
  <2> QED  BY <2>2, <2>3 DEF Init, TypeOK
<1>2. \A t \in Task : req[t].phase = "idle"
  BY DEF Init, Idle
<1>3. Asked /\ OneHolder /\ Agreed
  BY <1>2 DEF Asked, OneHolder, Agreed, Holding
<1>4. AtRest
  BY DEF Init, AtRest
<1>5. Credits
  BY <1>2 DEF Init, Credits, Remembered, Owed
<1> QED  BY <1>1, <1>3, <1>4, <1>5 DEF DiskInv

-----------------------------------------------------------------------------
(* A request that is only made changes nothing for the holder.              *)
LEMMA CallInv ==
  ASSUME DiskInv, NEW t \in Task, NEW op \in {"read", "write"}, NEW n \in 1 .. MaxSectors,
         Call(t, op, n)
  PROVE  DiskInv'
<1> USE DEF DiskInv
<1>1. /\ req' = [req EXCEPT ![t] = [phase |-> "lock", op |-> op, left |-> n]]
      /\ req[t].phase = "idle"
      /\ UNCHANGED <<dev, irq, sem, task_on_op, booted>>
  BY DEF Call, Idle
<1>2. TypeOK'
  BY <1>1, DiskTypes DEF TypeOK
<1>3. \A u \in Task : IF u = t THEN /\ req'[u].phase = "lock" /\ req'[u].op = op
                                    /\ req'[u].left = n /\ ~ Holding(u)
                               ELSE req'[u] = req[u]
  BY <1>1, DiskTypes DEF Holding
<1>4. \A u \in Task : Holding(u)' = Holding(u)
  BY <1>1, <1>3 DEF Holding
<1>5. Asked'
  BY <1>3 DEF Asked
<1>6. OneHolder'
  BY <1>4 DEF OneHolder
<1>7. Agreed'
  BY <1>1, <1>3, <1>4 DEF Agreed, Exchange
<1>8. AtRest'
  BY <1>1, <1>4 DEF AtRest
<1>9. Credits'
  <2>1. Owed' = Owed
    BY <1>1, <1>3 DEF Owed, Holding
  <2>2. Remembered' = Remembered
    BY <1>1 DEF Remembered
  <2> QED  BY <1>1, <1>3, <2>1, <2>2 DEF Credits
<1> QED  BY <1>2, <1>5, <1>6, <1>7, <1>8, <1>9

(* The command is given by a task that finds nobody at the disk, so that    *)
(* all there is to remember is one interrupt of an earlier command.         *)
LEMMA CommandInv ==
  ASSUME DiskInv, NEW t \in Task, Command(t)
  PROVE  DiskInv'
<1> USE DEF DiskInv
<1> DEFINE place == IF req[t].op = "read" THEN "wait" ELSE "move"
<1>1. /\ req' = [req EXCEPT ![t] = [@ EXCEPT !.phase = place]]
      /\ req[t].phase = "lock" /\ \A u \in Task : ~ Holding(u)
      /\ dev' = [status |-> IF req[t].op = "read" THEN "busy" ELSE "drq",
                 op |-> req[t].op, left |-> req[t].left]
      /\ task_on_op' = 1 /\ UNCHANGED <<irq, sem, booted>>
  BY DEF Command
<1>2. req[t].op \in {"read", "write"} /\ req[t].left > 0
  BY <1>1, DiskTypes DEF Asked
<1>3. /\ \A u \in Task \ {t} : req'[u] = req[u]
      /\ req'[t].phase = place /\ req'[t].op = req[t].op /\ req'[t].left = req[t].left
  BY <1>1, DiskTypes
<1>4. TypeOK'
  BY <1>1, <1>2, DiskTypes DEF TypeOK
<1>5. \A u \in Task : Holding(u)' <=> u = t
  BY <1>1, <1>3 DEF Holding
<1>6. Asked'
  BY <1>3, <1>5 DEF Asked, Holding
<1>7. OneHolder' /\ AtRest'
  BY <1>5 DEF OneHolder, AtRest
<1>8. Agreed'
  BY <1>1, <1>2, <1>3, <1>5 DEF Agreed, Exchange
<1>9. Credits'
  <2>1. Remembered' = Remembered /\ Remembered <= 1
    BY <1>1, OwedToHolder DEF Remembered, Credits
  <2>2. Owed' \in 0 .. 1 /\ Remembered \in Nat
    BY RememberedNat DEF Owed
  <2>3. \A u \in Task : req'[u].phase # "poll"
    BY <1>3, <1>5 DEF Holding
  <2> QED  BY <1>1, <2>1, <2>2, <2>3 DEF Credits
<1> QED  BY <1>4, <1>6, <1>7, <1>8, <1>9

(* Going on to poll takes one remembered interrupt, be it a stale one.      *)
LEMMA SemWaitInv ==
  ASSUME DiskInv, NEW t \in Task, SemWait(t)
  PROVE  DiskInv'
<1> USE DEF DiskInv
<1>1. /\ req' = [req EXCEPT ![t] = [@ EXCEPT !.phase = "poll"]]
      /\ req[t].phase = "wait" /\ (booted => sem > 0)
      /\ sem' = IF booted THEN sem - 1 ELSE sem
      /\ UNCHANGED <<dev, irq, task_on_op, booted>>
  BY DEF SemWait
<1>2. /\ \A u \in Task \ {t} : req'[u] = req[u]
      /\ req'[t].phase = "poll" /\ req'[t].op = req[t].op /\ req'[t].left = req[t].left
  BY <1>1, DiskTypes
<1>3. TypeOK'
  BY <1>1, DiskTypes DEF TypeOK
<1>4. Holding(t) /\ \A u \in Task : Holding(u)' = Holding(u)
  BY <1>1, <1>2 DEF Holding
<1>5. Asked'
  BY <1>2 DEF Asked
<1>6. OneHolder' /\ AtRest'
  BY <1>1, <1>4 DEF OneHolder, AtRest
<1>7. Agreed'
  BY <1>1, <1>2, <1>4 DEF Agreed, Exchange
<1>8. Credits'
  <2>1. Owed = IF dev.status # "busy" THEN 1 ELSE 0
    BY <1>1, <1>4, OwedToHolder
  <2>2. Owed' = 0
    BY <1>2, <1>4 DEF Owed, OneHolder, Holding
  <2>3. Remembered' = IF booted THEN Remembered - 1 ELSE 0
    BY <1>1, DiskTypes DEF Remembered, Credits
  <2>4. Remembered \in Nat /\ (booted => Remembered >= 1)
    BY <1>1, DiskTypes, RememberedNat
  <2> QED  BY <1>1, <2>1, <2>2, <2>3, <2>4, RememberedNat DEF Credits
<1> QED  BY <1>3, <1>5, <1>6, <1>7, <1>8

(* The call ends with the device at rest, or the holder moves a sector.     *)
LEMMA PollInv ==
  ASSUME DiskInv, NEW t \in Task, PollError(t) \/ PollReady(t)
  PROVE  DiskInv'
<1> USE DEF DiskInv
<1> DEFINE onward == [req[t] EXCEPT !.phase = "move"]
<1>1. /\ req[t].phase = "poll" /\ Holding(t) /\ Exchange(t)
      /\ UNCHANGED <<dev, irq, sem, task_on_op, booted>>
  BY DEF PollError, PollReady, Holding, Agreed
<1>2. \/ req' = [req EXCEPT ![t] = Idle] /\ dev.status \in {"idle", "err"}
      \/ req' = [req EXCEPT ![t] = onward] /\ dev.status = "drq"
  <2>1. CASE PollError(t)
    BY <2>1 DEF PollError
  <2>2. CASE PollReady(t)
    <3>1. dev.status \in {"idle", "drq"}
      BY <2>2, DiskTypes DEF PollReady
    <3>2. CASE req[t].op = "write" /\ req[t].left = 0
      BY <1>1, <2>2, <3>1, <3>2, DiskTypes DEF PollReady, Exchange
    <3>3. CASE ~ (req[t].op = "write" /\ req[t].left = 0)
      <4>1. req' = [req EXCEPT ![t] = onward]
        BY <2>2, <3>3, DiskTypes DEF PollReady
      <4> QED  BY <1>1, <3>1, <3>3, <4>1, DiskTypes DEF Exchange
    <3> QED  BY <3>2, <3>3
  <2> QED  BY <2>1, <2>2
<1>3. /\ \A u \in Task \ {t} : req'[u] = req[u]
      /\ \/ req'[t].phase = "idle" /\ dev.status \in {"idle", "err"}
         \/ /\ req'[t].phase = "move" /\ req'[t].op = req[t].op /\ req'[t].left = req[t].left
            /\ dev.status = "drq"
  BY <1>2, DiskTypes DEF Idle
<1>4. TypeOK'
  BY <1>1, <1>2, DiskTypes DEF TypeOK, Idle
<1>5. \A u \in Task : Holding(u)' => u = t
  BY <1>1, <1>3 DEF Holding, OneHolder
<1>6. Asked'
  BY <1>3 DEF Asked
<1>7. OneHolder'
  BY <1>5 DEF OneHolder
<1>8. Agreed'
  BY <1>1, <1>3, <1>5 DEF Agreed, Exchange, Holding
<1>9. AtRest'
  BY <1>1, <1>3 DEF AtRest, Holding
<1>10. Credits'
  <2>1. Owed = 0 /\ Remembered' = Remembered
    BY <1>1, OwedToHolder DEF Remembered
  <2>2. Owed' = 0 /\ \A u \in Task : req'[u].phase # "poll"
    BY <1>3, <1>5 DEF Owed, Holding
  <2> QED  BY <1>1, <2>1, <2>2 DEF Credits
<1> QED  BY <1>4, <1>6, <1>7, <1>8, <1>9, <1>10

(* The device asked for this sector, so both sides count it.                *)
LEMMA MoveInv ==
  ASSUME DiskInv, NEW t \in Task, Move(t)
  PROVE  DiskInv'
<1> USE DEF DiskInv
<1> DEFINE over == req[t].op = "read" /\ req[t].left = 1
           onward == [req[t] EXCEPT !.left = req[t].left - 1, !.phase = "wait"]
<1>1. /\ req[t].phase = "move" /\ Holding(t) /\ Exchange(t)
      /\ req' = [req EXCEPT ![t] = IF over THEN Idle ELSE onward]
      /\ UNCHANGED <<irq, sem, task_on_op, booted>>
  <2>1. req[t].phase = "move" /\ Holding(t) /\ Exchange(t)
    BY DEF Move, Holding, Agreed
  <2>2. req' = [req EXCEPT ![t] = IF over THEN Idle ELSE onward]
    BY DiskTypes DEF Move
  <2> QED  BY <2>1, <2>2 DEF Move
<1>2. /\ dev.status = "drq" /\ dev.op = req[t].op /\ dev.left = req[t].left
      /\ req[t].left > 0 /\ req[t].op \in {"read", "write"}
  BY <1>1, DiskTypes DEF Exchange
<1>3. /\ dev' = [dev EXCEPT !.left = req[t].left - 1, !.status = IF over THEN "idle" ELSE "busy"]
      /\ dev'.op = req[t].op /\ dev'.left = req[t].left - 1
      /\ dev'.status = IF over THEN "idle" ELSE "busy"
  BY <1>2 DEF Move, Moved, TypeOK
<1>4. /\ \A u \in Task \ {t} : req'[u] = req[u]
      /\ over => req'[t].phase = "idle"
      /\ ~ over => /\ req'[t].phase = "wait" /\ req'[t].op = req[t].op
                   /\ req'[t].left = req[t].left - 1
  BY <1>1, DiskTypes DEF Idle
<1>5. req[t].left - 1 \in 0 .. MaxSectors
  BY <1>2, DiskTypes
<1>6. TypeOK'
  <2>1. onward \in [phase : {"idle", "lock", "wait", "poll", "move"},
                    op : {"none", "read", "write"}, left : 0 .. MaxSectors]
    BY <1>5 DEF TypeOK
  <2>2. Idle \in [phase : {"idle", "lock", "wait", "poll", "move"},
                  op : {"none", "read", "write"}, left : 0 .. MaxSectors]
    BY DiskTypes DEF Idle
  <2>3. dev' \in [status : {"idle", "busy", "drq", "err"}, op : {"none", "read", "write"},
                  left : 0 .. MaxSectors]
    BY <1>3, <1>5 DEF TypeOK
  <2> HIDE DEF onward, over
  <2> QED  BY <1>1, <2>1, <2>2, <2>3 DEF TypeOK
<1>7. \A u \in Task : Holding(u)' <=> (u = t /\ ~ over)
  BY <1>1, <1>4 DEF Holding, OneHolder
<1>8. Asked'
  BY <1>4 DEF Asked
<1>9. OneHolder' /\ AtRest'
  BY <1>3, <1>7 DEF OneHolder, AtRest
<1>10. Agreed'
  BY <1>2, <1>3, <1>4, <1>7, DiskTypes DEF Agreed, Exchange
<1>11. Credits'
  <2>1. Owed = 0 /\ Remembered' = Remembered
    BY <1>1, OwedToHolder DEF Remembered
  <2>2. Owed' \in 0 .. 1 /\ \A u \in Task : req'[u].phase # "poll"
    BY <1>4, <1>7 DEF Owed, Holding
  <2> QED  BY <1>1, <2>1, <2>2, RememberedNat DEF Credits
<1> QED  BY <1>6, <1>8, <1>9, <1>10, <1>11

-----------------------------------------------------------------------------
(* An interrupt is raised for the sector that the holder awaits; a holder   *)
(* that polls already has used up all that was remembered.                  *)
LEMMA DeviceInv ==
  ASSUME DiskInv, Ready \/ Failed
  PROVE  DiskInv'
<1> USE DEF DiskInv
<1>1. /\ dev.status = "busy" /\ irq' = TRUE /\ UNCHANGED <<req, sem, task_on_op, booted>>
      /\ dev'.op = dev.op /\ dev'.left = dev.left
      /\ dev'.status = "err" \/ dev'.status = IF dev.left = 0 THEN "idle" ELSE "drq"
  BY DEF Ready, Failed, TypeOK
<1>2. TypeOK'
  <2>1. dev' \in [status : {"idle", "busy", "drq", "err"}, op : {"none", "read", "write"},
                  left : 0 .. MaxSectors]
    BY DEF Ready, Failed, TypeOK
  <2> QED  BY <1>1, <2>1 DEF TypeOK
<1>3. PICK t \in Task : Holding(t)
  BY <1>1 DEF AtRest
<1>4. \A u \in Task : Holding(u)' = Holding(u)
  BY <1>1 DEF Holding
<1>5. Asked' /\ OneHolder' /\ AtRest'
  BY <1>1, <1>3, <1>4 DEF Asked, OneHolder, AtRest
<1>6. Agreed'
  <2> SUFFICES ASSUME NEW u \in Task, Holding(u)
               PROVE  Exchange(u)'
    BY <1>4 DEF Agreed
  <2> QED  BY <1>1, DiskTypes DEF Agreed, Exchange
<1>7. Credits'
  <2>1. req[t].phase \in {"wait", "poll"}
    BY <1>1, <1>3, DiskTypes DEF Agreed, Exchange, Holding
  <2>2. Remembered' <= Remembered + 1 /\ Remembered' \in Nat
    BY <1>1, DiskTypes DEF Remembered
  <2>3. CASE req[t].phase = "wait"
    <3>1. Owed = 0
      BY <1>1, <1>3, OwedToHolder
    <3>2. Owed' = 1
      BY <1>1, <2>3 DEF Owed
    <3> QED  BY <1>1, <2>2, <3>1, <3>2, RememberedNat DEF Credits
  <2>4. CASE req[t].phase = "poll"
    <3>1. Remembered = 0
      BY <1>1, <2>4 DEF Credits
    <3>2. Owed' \in 0 .. 1
      BY DEF Owed
    <3> DEFINE units == Remembered'
               due == Owed'
    <3>3. units \in Nat /\ units <= 1 /\ due \in 0 .. 1
      BY <2>2, <3>1, <3>2
    <3> HIDE DEF units, due
    <3>4. units <= due + 1
      BY <3>3
    <3>5. Remembered' <= Owed' + 1
      BY <3>4 DEF units, due
    <3> QED  BY <1>1, <3>5 DEF Credits
  <2> QED  BY <2>1, <2>3, <2>4
<1> QED  BY <1>2, <1>5, <1>6, <1>7

(* The handler turns the pending edge into a unit, or forgets it.           *)
LEMMA HandlerInv ==
  ASSUME DiskInv, Handler
  PROVE  DiskInv'
<1> USE DEF DiskInv
<1>1. /\ irq /\ booted /\ irq' = FALSE /\ sem' = IF task_on_op = 1 THEN sem + 1 ELSE sem
      /\ UNCHANGED <<req, dev, task_on_op, booted>>
  BY DEF Handler
<1>2. TypeOK'
  <2>1. sem' \in Nat
    BY <1>1, DiskTypes
  <2>2. irq' \in BOOLEAN
    BY <1>1, Zenon
  <2> QED  BY <1>1, <2>1, <2>2 DEF TypeOK
<1>3. Asked' /\ OneHolder' /\ Agreed' /\ AtRest'
  BY <1>1 DEF Asked, OneHolder, Agreed, AtRest, Holding, Exchange
<1>4. Owed' = Owed
  BY <1>1 DEF Owed
<1>5. Remembered' <= Remembered /\ Remembered' \in Nat /\ Remembered \in Nat
  BY <1>1, DiskTypes DEF Remembered
<1>6. Credits'
  BY <1>1, <1>4, <1>5, OwedToHolder DEF Credits
<1> QED  BY <1>2, <1>3, <1>6

(* The edge the polling of the boot code left pending is the one more.      *)
LEMMA BootInv ==
  ASSUME DiskInv, Boot
  PROVE  DiskInv'
<1> USE DEF DiskInv
<1>1. /\ ~ booted /\ booted' = TRUE /\ UNCHANGED <<req, dev, irq, sem, task_on_op>>
      /\ \A t \in Task : req[t].phase = "idle"
  BY DEF Boot, Idle
<1>2. TypeOK'
  BY <1>1 DEF TypeOK
<1>3. Asked' /\ OneHolder' /\ Agreed' /\ AtRest'
  BY <1>1 DEF Asked, OneHolder, Agreed, AtRest, Holding, Exchange
<1>4. Credits'
  <2>1. sem = 0 /\ Owed' \in 0 .. 1
    BY <1>1 DEF Credits, Owed
  <2>2. Remembered' \in 0 .. 1
    BY <1>1, <2>1 DEF Remembered
  <2>3. \A t \in Task : req'[t].phase # "poll"
    BY <1>1
  <2>4. Remembered' <= Owed' + 1
    <3> DEFINE units == Remembered'
               due == Owed'
    <3>1. units \in 0 .. 1 /\ due \in 0 .. 1
      BY <2>1, <2>2
    <3> HIDE DEF units, due
    <3>2. units <= due + 1
      BY <3>1
    <3> QED  BY <3>2 DEF units, due
  <2> QED  BY <1>1, <2>3, <2>4 DEF Credits
<1> QED  BY <1>2, <1>3, <1>4

(* Every step keeps the invariant.                                          *)
LEMMA DiskNextInv == DiskInv /\ [Next]_vars => DiskInv'
<1> SUFFICES ASSUME DiskInv, [Next]_vars
             PROVE  DiskInv'
  OBVIOUS
<1>1. CASE UNCHANGED vars
  BY <1>1 DEF vars, DiskInv, TypeOK, Asked, OneHolder, Agreed, AtRest, Credits, Holding,
              Exchange, Remembered, Owed
<1>2. CASE Next
  BY <1>2, CallInv, CommandInv, SemWaitInv, PollInv, MoveInv, DeviceInv, HandlerInv, BootInv
     DEF Next
<1> QED  BY <1>1, <1>2

(* The inductive invariant in every behaviour.                              *)
LEMMA DiskSpecInv == Spec => []DiskInv
<1> QED  BY DiskInitInv, DiskNextInv, PTL DEF Spec

-----------------------------------------------------------------------------
(* The holder and the device agree on how far the command is, and op_sem    *)
(* remembers at most one interrupt too many, however requests, errors and   *)
(* late interrupts follow each other (disk_read, disk_write and the handler *)
(* of dev/disk.c).                                                          *)
THEOREM SpecInStep == Spec => []InStep
<1>1. DiskInv => InStep
  BY DEF DiskInv, Agreed, Exchange, Credits, InStep
<1> QED  BY <1>1, DiskSpecInv, PTL

(* A sector goes through the data port only when the device asks for one:   *)
(* disk_read_data and disk_write_data never run ahead of the status         *)
(* register, although a stale interrupt may have ended the wait.            *)
PortWhenAsked == [][\A t \in Task : Move(t) => dev.status = "drq" /\ dev.left > 0]_vars

(* PortWhenAsked in every behaviour.                                        *)
THEOREM SpecPortWhenAsked == Spec => PortWhenAsked
<1>1. DiskInv => \A t \in Task : Move(t) => dev.status = "drq" /\ dev.left > 0
  BY DEF DiskInv, Agreed, Exchange, Holding, Move
<1> QED  BY <1>1, DiskSpecInv, PTL DEF PortWhenAsked

-----------------------------------------------------------------------------
(* The invariant of Interrupts.                                             *)

(* The frames of a task.  Only the outermost restores interrupts.           *)
EntryFrame == [what : {"entry"}, flag : BOOLEAN, left : Int, line : Line]
PlainFrame == [what : {"tick", "handler", "section", "fault", "crash"},
               flag : BOOLEAN, left : Int]
AnyFrame == EntryFrame \cup PlainFrame

OutermostRestores(s) == \A i \in 1 .. Len(s) : s[i].flag <=> i = 1

IntTypeOK ==
  /\ curr \in Proc /\ curr \in live /\ live \subseteq Proc
  /\ iflag \in BOOLEAN
  /\ eflags \in [Proc -> BOOLEAN]
  /\ stack \in [Proc -> Seq(AnyFrame)]
  /\ raised \subseteq Line

(* A switched-out task has interrupts off exactly when it was in a frame.   *)
FlagsSaved == \A t \in live \ {curr} : eflags[t] <=> stack[t] = <<>>

(* A request in service is that of the handler's entry the processor is at. *)
EntryOnTop ==
  \A t \in Proc : \A i \in 1 .. Len(stack[t]) :
    stack[t][i].what = "entry" => t = curr /\ i = Len(stack[t])

ServiceOfEntry == service = IF In("entry") THEN Place(Top.line) ELSE {}

IntInv ==
  /\ IntTypeOK
  /\ \A t \in Proc : OutermostRestores(stack[t])
  /\ iflag <=> InTask
  /\ FlagsSaved
  /\ EntryOnTop
  /\ ServiceOfEntry

-----------------------------------------------------------------------------
(* The end-of-interrupt of the only request in service ends it, also of one *)
(* that came through the second controller.                                 *)
LEMMA AcknowledgedAll ==
  ASSUME NEW l \in Line, service = Place(l)
  PROVE  Acknowledged(l) = {}
<1> DEFINE best(ss) == IF ss = {} THEN {} ELSE {Min(ss)}
<1>1. l \in 0 .. 15
  BY DEF Line
<1>2. \A x \in Int : Min({x}) = x
  BY DEF Min
<1>3. CASE l >= 8
  <2>1. service = {2, l}
    BY <1>3 DEF Place, Cascade
  <2>2. {s \in service : s < 8} = {2} /\ {s \in service : s >= 8} = {l}
    BY <1>1, <1>3, <2>1
  <2>3. best({s \in service : s < 8}) = {2} /\ best({s \in service : s >= 8}) = {l}
    BY <1>1, <1>2, <2>2
  <2> QED  BY <1>3, <2>1, <2>3 DEF Acknowledged
<1>4. CASE ~ (l >= 8)
  <2>1. service = {l}
    BY <1>4 DEF Place
  <2>2. {s \in service : s < 8} = {l}
    BY <1>1, <1>4, <2>1
  <2>3. best({s \in service : s < 8}) = {l}
    BY <1>1, <1>2, <2>2
  <2> QED  BY <1>4, <2>1, <2>3 DEF Acknowledged
<1> QED  BY <1>3, <1>4

-----------------------------------------------------------------------------
(* Stacks: a frame on top, one taken away, the top one replaced.            *)
LEMMA PushShape ==
  ASSUME NEW s \in Seq(AnyFrame), OutermostRestores(s), NEW f \in AnyFrame,
         f.flag <=> s = <<>>
  PROVE  /\ Append(s, f) \in Seq(AnyFrame)
         /\ OutermostRestores(Append(s, f))
         /\ Append(s, f) # <<>> /\ Len(Append(s, f)) = Len(s) + 1
         /\ Append(s, f)[Len(s) + 1] = f
         /\ \A i \in 1 .. Len(s) : Append(s, f)[i] = s[i]
<1>1. /\ Append(s, f) \in Seq(AnyFrame) /\ Len(Append(s, f)) = Len(s) + 1
      /\ Append(s, f)[Len(s) + 1] = f /\ Len(s) \in Nat
      /\ \A i \in 1 .. Len(s) : Append(s, f)[i] = s[i]
      /\ Append(s, f) # <<>>
  OBVIOUS
<1>2. s = <<>> <=> Len(s) = 0
  OBVIOUS
<1>3. \A i \in 1 .. Len(s) + 1 : Append(s, f)[i].flag <=> i = 1
  <2>1. TAKE i \in 1 .. Len(s) + 1
  <2>2. CASE i \in 1 .. Len(s)
    BY <1>1, <2>2 DEF OutermostRestores
  <2>3. CASE i = Len(s) + 1
    <3>1. i = 1 <=> s = <<>>
      BY <1>1, <1>2, <2>3
    <3>2. Append(s, f)[i] = f
      BY <1>1, <2>3
    <3> QED  BY <3>1, <3>2
  <2> QED  BY <1>1, <2>2, <2>3
<1> QED  BY <1>1, <1>3 DEF OutermostRestores

(* iret: the frame on top goes.                                             *)
LEMMA PopShape ==
  ASSUME NEW s \in Seq(AnyFrame), OutermostRestores(s), s # <<>>
  PROVE  /\ SubSeq(s, 1, Len(s) - 1) \in Seq(AnyFrame)
         /\ OutermostRestores(SubSeq(s, 1, Len(s) - 1))
         /\ Len(SubSeq(s, 1, Len(s) - 1)) = Len(s) - 1
         /\ \A i \in 1 .. Len(s) - 1 : SubSeq(s, 1, Len(s) - 1)[i] = s[i]
         /\ SubSeq(s, 1, Len(s) - 1) = <<>> <=> Len(s) = 1
         /\ s[Len(s)].flag <=> SubSeq(s, 1, Len(s) - 1) = <<>>
<1> DEFINE u == SubSeq(s, 1, Len(s) - 1)
<1>1. Len(s) \in Nat /\ Len(s) # 0
  OBVIOUS
<1>2. /\ u \in Seq(AnyFrame) /\ Len(u) = Len(s) - 1
      /\ \A i \in 1 .. Len(s) - 1 : u[i] = s[i]
  <2> DEFINE n == Len(s) - 1
  <2>1. n \in Nat /\ 1 \in Int /\ n \in Int /\ \A i \in 1 .. n : s[i] \in AnyFrame
    BY <1>1
  <2> HIDE DEF n
  <2>2. /\ SubSeq(s, 1, n) \in Seq(AnyFrame)
        /\ Len(SubSeq(s, 1, n)) = IF 1 <= n THEN n - 1 + 1 ELSE 0
        /\ \A i \in 1 .. n - 1 + 1 : SubSeq(s, 1, n)[i] = s[1 + i - 1]
    BY <2>1, SubSeqProperties
  <2>3. Len(SubSeq(s, 1, n)) = n /\ \A i \in 1 .. n : SubSeq(s, 1, n)[i] = s[i]
    BY <2>1, <2>2
  <2> QED  BY <2>2, <2>3 DEF n
<1> HIDE DEF u
<1>3. u = <<>> <=> Len(s) = 1
  <2>1. u = <<>> <=> Len(u) = 0
    BY <1>2
  <2> QED  BY <1>1, <1>2, <2>1
<1>4. OutermostRestores(u)
  BY <1>1, <1>2 DEF OutermostRestores
<1>5. s[Len(s)].flag <=> Len(s) = 1
  <2>1. Len(s) \in 1 .. Len(s)
    BY <1>1
  <2> QED  BY <2>1 DEF OutermostRestores
<1> QED  BY <1>2, <1>3, <1>4, <1>5 DEF u

(* A frame changes in place: its line of code or its progress.              *)
LEMMA ReplaceShape ==
  ASSUME NEW s \in Seq(AnyFrame), OutermostRestores(s), s # <<>>,
         NEW f \in AnyFrame, f.flag = s[Len(s)].flag
  PROVE  /\ [s EXCEPT ![Len(s)] = f] \in Seq(AnyFrame)
         /\ OutermostRestores([s EXCEPT ![Len(s)] = f])
         /\ Len([s EXCEPT ![Len(s)] = f]) = Len(s)
         /\ [s EXCEPT ![Len(s)] = f] # <<>>
         /\ [s EXCEPT ![Len(s)] = f][Len(s)] = f
         /\ \A i \in 1 .. Len(s) : i # Len(s) => [s EXCEPT ![Len(s)] = f][i] = s[i]
<1> DEFINE u == [s EXCEPT ![Len(s)] = f]
<1>1. Len(s) \in Nat /\ Len(s) # 0 /\ DOMAIN s = 1 .. Len(s)
  OBVIOUS
<1>2. u \in Seq(AnyFrame) /\ Len(u) = Len(s) /\ u # <<>>
  BY <1>1
<1>3. u[Len(s)] = f /\ \A i \in 1 .. Len(s) : i # Len(s) => u[i] = s[i]
  BY <1>1
<1> HIDE DEF u
<1>4. OutermostRestores(u)
  <2>1. \A i \in 1 .. Len(s) : u[i].flag <=> i = 1
    <3>1. TAKE i \in 1 .. Len(s)
    <3>2. CASE i = Len(s)
      BY <1>1, <1>3, <3>2 DEF OutermostRestores
    <3>3. CASE i # Len(s)
      BY <1>1, <1>3, <3>3 DEF OutermostRestores
    <3> QED  BY <3>2, <3>3
  <2> QED  BY <1>2, <2>1 DEF OutermostRestores
<1> QED  BY <1>2, <1>3, <1>4 DEF u

(* A frame that switches or opens a section stays what it is.               *)
LEMMA UseFrame ==
  ASSUME NEW f \in AnyFrame
  PROVE  /\ [f EXCEPT !.left = @ - 1] \in AnyFrame
         /\ [f EXCEPT !.left = @ - 1].what = f.what
         /\ [f EXCEPT !.left = @ - 1].flag = f.flag
<1>1. CASE f \in EntryFrame
  BY <1>1 DEF EntryFrame, AnyFrame
<1>2. CASE f \in PlainFrame
  BY <1>2 DEF PlainFrame, AnyFrame
<1> QED  BY <1>1, <1>2 DEF AnyFrame

(* What the invariant says of the running task's stack.                     *)
LEMMA TopFacts ==
  ASSUME IntInv
  PROVE  /\ curr \in Proc /\ curr \in live /\ live \subseteq Proc /\ iflag \in BOOLEAN
         /\ eflags \in [Proc -> BOOLEAN] /\ raised \subseteq Line
         /\ stack \in [Proc -> Seq(AnyFrame)]
         /\ stack[curr] \in Seq(AnyFrame) /\ OutermostRestores(stack[curr])
         /\ Len(stack[curr]) \in Nat
         /\ iflag <=> stack[curr] = <<>>
         /\ \A i \in 1 .. Len(stack[curr]) : stack[curr][i].what = "entry" => i = Len(stack[curr])
         /\ stack[curr] # <<>> =>
              /\ Len(stack[curr]) \in 1 .. Len(stack[curr]) /\ Top \in AnyFrame
              /\ Top = stack[curr][Len(stack[curr])]
         /\ ~ In("entry") => service = {}
<1>1. /\ curr \in Proc /\ curr \in live /\ live \subseteq Proc /\ iflag \in BOOLEAN
      /\ eflags \in [Proc -> BOOLEAN] /\ raised \subseteq Line
      /\ stack \in [Proc -> Seq(AnyFrame)]
  BY DEF IntInv, IntTypeOK
<1>2. stack[curr] \in Seq(AnyFrame) /\ OutermostRestores(stack[curr])
  BY <1>1 DEF IntInv
<1>3. Len(stack[curr]) \in Nat
  BY <1>2
<1>4. iflag <=> stack[curr] = <<>>
  BY DEF IntInv, InTask
<1>5. \A i \in 1 .. Len(stack[curr]) : stack[curr][i].what = "entry" => i = Len(stack[curr])
  BY <1>1 DEF IntInv, EntryOnTop
<1>6. ASSUME stack[curr] # <<>>
      PROVE  Len(stack[curr]) \in 1 .. Len(stack[curr]) /\ Top \in AnyFrame
             /\ Top = stack[curr][Len(stack[curr])]
  <2> DEFINE s == stack[curr]
  <2>1. s \in Seq(AnyFrame) /\ s # <<>>
    BY <1>2, <1>6
  <2> HIDE DEF s
  <2>2. Len(s) \in 1 .. Len(s) /\ s[Len(s)] \in AnyFrame
    BY <2>1
  <2> QED  BY <2>2 DEF s, Top
<1>7. ~ In("entry") => service = {}
  BY DEF IntInv, ServiceOfEntry
<1> QED  BY <1>1, <1>2, <1>3, <1>4, <1>5, <1>6, <1>7

(* A step that gives only the running task another stack.                   *)
LEMMA StackStep ==
  ASSUME IntInv, NEW u \in Seq(AnyFrame), OutermostRestores(u),
         stack' = [stack EXCEPT ![curr] = u],
         curr' = curr, live' = live, eflags' = eflags, raised' \subseteq Line,
         iflag' \in BOOLEAN, iflag' <=> u = <<>>,
         \A i \in 1 .. Len(u) : u[i].what = "entry" => i = Len(u),
         service' = IF u # <<>> /\ u[Len(u)].what = "entry" THEN Place(u[Len(u)].line) ELSE {}
  PROVE  IntInv'
<1>1. curr \in Proc /\ stack \in [Proc -> Seq(AnyFrame)]
  BY TopFacts
<1>2. stack' \in [Proc -> Seq(AnyFrame)]
  BY <1>1
<1>3. stack'[curr] = u /\ \A t \in Proc \ {curr} : stack'[t] = stack[t]
  BY <1>1
<1>4. IntTypeOK'
  BY <1>2, TopFacts DEF IntTypeOK
<1>5. \A t \in Proc : OutermostRestores(stack'[t])
  BY <1>3 DEF IntInv
<1>6. (iflag <=> InTask)'
  BY <1>3 DEF InTask
<1>7. FlagsSaved'
  BY <1>3, TopFacts DEF IntInv, FlagsSaved
<1>8. EntryOnTop'
  BY <1>3 DEF IntInv, EntryOnTop
<1>9. ServiceOfEntry'
  BY <1>3 DEF ServiceOfEntry, In, Top
<1> QED  BY <1>4, <1>5, <1>6, <1>7, <1>8, <1>9 DEF IntInv

(* A step that switches to another task, from one that may be switched to   *)
(* again or has exited: the flag goes with the tasks.                       *)
LEMMA SwitchStep ==
  ASSUME IntInv, NEW u \in Seq(AnyFrame), OutermostRestores(u),
         stack' = [stack EXCEPT ![curr] = u],
         NEW t \in live \ {curr}, curr' = t,
         eflags' = [eflags EXCEPT ![curr] = iflag], iflag' = eflags[t],
         \/ live' = live /\ (iflag <=> u = <<>>)
         \/ live' = live \ {curr},
         \A i \in 1 .. Len(u) : u[i].what # "entry",
         service = {}, service' = service, raised' = raised
  PROVE  IntInv'
<1>1. /\ curr \in Proc /\ stack \in [Proc -> Seq(AnyFrame)] /\ live \subseteq Proc
      /\ iflag \in BOOLEAN /\ eflags \in [Proc -> BOOLEAN] /\ raised \subseteq Line
  BY TopFacts
<1>2. stack'[curr] = u /\ \A p \in Proc \ {curr} : stack'[p] = stack[p]
  BY <1>1
<1>3. eflags'[curr] = iflag /\ \A p \in Proc \ {curr} : eflags'[p] = eflags[p]
  BY <1>1
<1>4. IntTypeOK'
  <2>1. stack' \in [Proc -> Seq(AnyFrame)] /\ eflags' \in [Proc -> BOOLEAN]
    BY <1>1
  <2> QED  BY <1>1, <2>1 DEF IntTypeOK
<1>5. \A p \in Proc : OutermostRestores(stack'[p])
  BY <1>2 DEF IntInv
<1>6. (iflag <=> InTask)'
  <2>1. eflags[t] <=> stack[t] = <<>>
    BY DEF IntInv, FlagsSaved
  <2> QED  BY <1>1, <1>2, <2>1 DEF InTask
<1>7. FlagsSaved'
  <2>1. \A p \in live \ {curr} : eflags[p] <=> stack[p] = <<>>
    BY DEF IntInv, FlagsSaved
  <2>2. \A p \in live' \ {t} : eflags'[p] <=> stack'[p] = <<>>
    BY <1>1, <1>2, <1>3, <2>1
  <2> QED  BY <2>2 DEF FlagsSaved
<1>8. \A p \in Proc : \A i \in 1 .. Len(stack'[p]) : stack'[p][i].what # "entry"
  BY <1>1, <1>2 DEF IntInv, EntryOnTop
<1>9. EntryOnTop'
  BY <1>8 DEF EntryOnTop
<1>10. ServiceOfEntry'
  <2>1. ASSUME In("entry")' PROVE FALSE
    <3>1. t \in Proc /\ stack'[t] \in Seq(AnyFrame) /\ stack'[t] # <<>>
      BY <1>1, <1>4, <2>1 DEF In, IntTypeOK
    <3> DEFINE s == stack'[t]
    <3>2. s \in Seq(AnyFrame) /\ s # <<>>
      BY <3>1
    <3> HIDE DEF s
    <3>3. Len(s) \in 1 .. Len(s)
      BY <3>2
    <3> QED  BY <1>8, <2>1, <3>1, <3>3 DEF s, In, Top
  <2> QED  BY <2>1 DEF ServiceOfEntry
<1> QED  BY <1>4, <1>5, <1>6, <1>7, <1>9, <1>10 DEF IntInv

-----------------------------------------------------------------------------
(* The first task runs with interrupts on, nobody is inside a handler.      *)
LEMMA IntInitInv == IntInit => IntInv
<1> SUFFICES ASSUME IntInit
             PROVE  IntInv
  OBVIOUS
<1>1. stack = [t \in Proc |-> <<>>] /\ curr = FirstTask /\ FirstTask \in Proc
  BY InterruptAssumption DEF IntInit
<1>2. \A t \in Proc : stack[t] = <<>>
  BY <1>1
<1>3. IntTypeOK
  BY <1>1, <1>2, InterruptAssumption DEF IntInit, IntTypeOK
<1>4. \A t \in Proc : OutermostRestores(stack[t])
  BY <1>2 DEF OutermostRestores
<1>5. (iflag <=> InTask) /\ FlagsSaved /\ EntryOnTop /\ ServiceOfEntry
  BY <1>1, <1>2, InterruptAssumption
  DEF IntInit, InTask, FlagsSaved, EntryOnTop, ServiceOfEntry, In
<1> QED  BY <1>3, <1>4, <1>5 DEF IntInv

(* An interrupt is taken outside all frames and its entry is the only one.  *)
LEMMA DeliverInv == ASSUME IntInv, Deliver PROVE IntInv'
<1>1. iflag = TRUE /\ stack[curr] = <<>> /\ curr \in Proc /\ raised \subseteq Line
  BY TopFacts DEF Deliver, Interrupted
<1>2. service = {}
  BY <1>1, TopFacts DEF In
<1>3. PICK l \in Pending :
        /\ raised' = raised \ {l}
        /\ service' = service \cup Place(l)
        /\ Push([what |-> "entry", flag |-> iflag,
                 left |-> IF l = Timer THEN 2 ELSE Calls, line |-> l])
  BY DEF Deliver
<1> DEFINE f == [what |-> "entry", flag |-> iflag, left |-> IF l = Timer THEN 2 ELSE Calls, line |-> l]
           u == Append(<<>>, f)
<1>4. l \in Line /\ f \in AnyFrame /\ f.what = "entry" /\ f.line = l /\ f.flag = TRUE
  BY <1>1, InterruptAssumption DEF Pending, AnyFrame, EntryFrame
<1> HIDE DEF f
<1>5. u \in Seq(AnyFrame) /\ OutermostRestores(u) /\ u # <<>> /\ Len(u) = 1 /\ u[1] = f
  BY <1>4 DEF OutermostRestores
<1>6. stack' = [stack EXCEPT ![curr] = u]
  BY <1>1, <1>3 DEF Push, f
<1> HIDE DEF u
<1>7. /\ curr' = curr /\ live' = live /\ eflags' = eflags
      /\ iflag' = FALSE /\ raised' \subseteq Line
  BY <1>1, <1>3 DEF Deliver
<1>8. service' = Place(l)
  BY <1>2, <1>3
<1>9. \A i \in 1 .. Len(u) : u[i].what = "entry" => i = Len(u)
  BY <1>5
<1>10. service' = IF u # <<>> /\ u[Len(u)].what = "entry" THEN Place(u[Len(u)].line) ELSE {}
  BY <1>4, <1>5, <1>8
<1> QED  BY <1>5, <1>6, <1>7, <1>9, <1>10, StackStep

(* The end-of-interrupt leaves nothing in service.                          *)
LEMMA SendEoiInv == ASSUME IntInv, SendEoi PROVE IntInv'
<1> DEFINE s == stack[curr]
           f == [what |-> IF Top.line = Timer THEN "tick" ELSE "handler",
                 flag |-> Top.flag, left |-> Top.left]
           u == [s EXCEPT ![Len(s)] = f]
<1>1. stack[curr] # <<>> /\ Top.what = "entry"
  BY DEF SendEoi, In
<1>2. /\ s \in Seq(AnyFrame) /\ OutermostRestores(s) /\ s # <<>>
      /\ Len(s) \in 1 .. Len(s) /\ Top = s[Len(s)] /\ Top \in AnyFrame
      /\ \A i \in 1 .. Len(s) : s[i].what = "entry" => i = Len(s)
      /\ curr \in Proc /\ stack \in [Proc -> Seq(AnyFrame)]
      /\ iflag = FALSE /\ raised \subseteq Line
  BY <1>1, TopFacts
<1>3. Top \in EntryFrame
  BY <1>1, <1>2 DEF AnyFrame, PlainFrame
<1>4. /\ f \in AnyFrame /\ f.flag = s[Len(s)].flag /\ f.what # "entry"
  BY <1>2, <1>3 DEF EntryFrame, PlainFrame, AnyFrame
<1>5. stack' = [stack EXCEPT ![curr] = u]
  BY <1>2 DEF SendEoi
<1>6. /\ curr' = curr /\ live' = live /\ eflags' = eflags
      /\ iflag' = FALSE /\ raised' \subseteq Line
  BY <1>2 DEF SendEoi
<1>7. service' = {}
  <2>1. service = Place(Top.line) /\ Top.line \in Line
    BY <1>1, <1>3 DEF IntInv, ServiceOfEntry, In, EntryFrame
  <2> QED  BY <2>1, AcknowledgedAll DEF SendEoi
<1> HIDE DEF s, f
<1>8. /\ u \in Seq(AnyFrame) /\ OutermostRestores(u) /\ Len(u) = Len(s) /\ u # <<>>
      /\ u[Len(s)] = f /\ \A i \in 1 .. Len(s) : i # Len(s) => u[i] = s[i]
  BY <1>2, <1>4, ReplaceShape
<1> HIDE DEF u
<1>9. \A i \in 1 .. Len(u) : u[i].what # "entry"
  BY <1>2, <1>4, <1>8
<1>10. u[Len(u)].what # "entry"
  BY <1>4, <1>8
<1>11. service' = IF u # <<>> /\ u[Len(u)].what = "entry" THEN Place(u[Len(u)].line) ELSE {}
  BY <1>7, <1>10
<1> QED  BY <1>5, <1>6, <1>8, <1>9, <1>11, StackStep

(* The end of a handler or a section gives back the flag that was saved.    *)
LEMMA PopInv ==
  ASSUME IntInv, stack[curr] # <<>>, Top.what # "entry", iflag' = Top.flag, Pop,
         UNCHANGED <<curr, eflags, mode, live, raised, service, halted>>
  PROVE  IntInv'
<1> DEFINE s == stack[curr]
           u == SubSeq(s, 1, Len(s) - 1)
<1>1. /\ s \in Seq(AnyFrame) /\ OutermostRestores(s) /\ s # <<>>
      /\ Len(s) \in 1 .. Len(s) /\ Top = s[Len(s)] /\ Top \in AnyFrame
      /\ \A i \in 1 .. Len(s) : s[i].what = "entry" => i = Len(s)
      /\ curr \in Proc /\ stack \in [Proc -> Seq(AnyFrame)] /\ raised \subseteq Line
      /\ service = {}
  BY TopFacts DEF In
<1>2. stack' = [stack EXCEPT ![curr] = u]
  BY <1>1 DEF Pop
<1>3. Top.flag \in BOOLEAN
  BY <1>1 DEF AnyFrame, EntryFrame, PlainFrame
<1> HIDE DEF s
<1>4. /\ u \in Seq(AnyFrame) /\ OutermostRestores(u) /\ Len(u) = Len(s) - 1
      /\ \A i \in 1 .. Len(s) - 1 : u[i] = s[i]
      /\ s[Len(s)].flag <=> u = <<>>
  BY <1>1, PopShape
<1>5. iflag' \in BOOLEAN /\ (iflag' <=> u = <<>>)
  BY <1>1, <1>3, <1>4
<1> HIDE DEF u
<1>6. \A i \in 1 .. Len(u) : u[i].what # "entry"
  BY <1>1, <1>4
<1>7. \A i \in 1 .. Len(u) : u[i].what = "entry" => i = Len(u)
  BY <1>6
<1>8. u # <<>> => u[Len(u)].what # "entry"
  <2>1. u # <<>> => Len(u) \in 1 .. Len(u)
    BY <1>4
  <2> QED  BY <1>6, <2>1
<1>9. service' = IF u # <<>> /\ u[Len(u)].what = "entry" THEN Place(u[Len(u)].line) ELSE {}
  BY <1>1, <1>8
<1>10. curr' = curr /\ live' = live /\ eflags' = eflags /\ raised' \subseteq Line
  BY <1>1
<1> QED  BY <1>2, <1>4, <1>5, <1>7, <1>9, <1>10, StackStep

(* A frame that opens a section or switches is used, and stays the frame it *)
(* was.                                                                     *)
LEMMA UsedFacts ==
  ASSUME IntInv, stack[curr] # <<>>, Top.what # "entry"
  PROVE  /\ Used \in Seq(AnyFrame) /\ OutermostRestores(Used) /\ Used # <<>>
         /\ Len(Used) = Len(stack[curr])
         /\ \A i \in 1 .. Len(Used) : Used[i].what # "entry"
<1> DEFINE s == stack[curr]
           f == [s[Len(s)] EXCEPT !.left = @ - 1]
           u == [s EXCEPT ![Len(s)] = f]
<1>1. /\ s \in Seq(AnyFrame) /\ OutermostRestores(s) /\ s # <<>>
      /\ Len(s) \in 1 .. Len(s) /\ Top = s[Len(s)] /\ Top \in AnyFrame
      /\ \A i \in 1 .. Len(s) : s[i].what = "entry" => i = Len(s)
  BY TopFacts
<1>2. Used = u
  BY <1>1 DEF Used
<1>3. f \in AnyFrame /\ f.what = Top.what /\ f.flag = s[Len(s)].flag
  BY <1>1, UseFrame
<1>4. f.what # "entry"
  BY <1>3
<1> HIDE DEF s, f
<1>5. /\ u \in Seq(AnyFrame) /\ OutermostRestores(u) /\ Len(u) = Len(s) /\ u # <<>>
      /\ u[Len(s)] = f /\ \A i \in 1 .. Len(s) : i # Len(s) => u[i] = s[i]
  BY <1>1, <1>3, ReplaceShape
<1> HIDE DEF u
<1>6. \A i \in 1 .. Len(u) : u[i].what # "entry"
  BY <1>1, <1>4, <1>5
<1> QED  BY <1>2, <1>5, <1>6 DEF s

(* A section, or an exception, on top of frames none of which is an entry.  *)
LEMMA PushInv ==
  ASSUME IntInv, NEW base \in Seq(AnyFrame), OutermostRestores(base),
         base = <<>> <=> stack[curr] = <<>>,
         \A i \in 1 .. Len(base) : base[i].what # "entry",
         NEW f \in PlainFrame, f.flag = iflag,
         stack' = [stack EXCEPT ![curr] = Append(base, f)], iflag' = FALSE,
         service = {}, service' = {}, raised' = raised,
         curr' = curr, live' = live, eflags' = eflags
  PROVE  IntInv'
<1> DEFINE u == Append(base, f)
<1>1. f \in AnyFrame /\ f.what # "entry" /\ (f.flag <=> base = <<>>)
  <2>1. iflag <=> base = <<>>
    BY TopFacts
  <2> QED  BY <2>1 DEF AnyFrame, PlainFrame
<1>2. /\ u \in Seq(AnyFrame) /\ OutermostRestores(u) /\ u # <<>> /\ Len(u) = Len(base) + 1
      /\ u[Len(base) + 1] = f /\ \A i \in 1 .. Len(base) : u[i] = base[i]
  BY <1>1, PushShape
<1>3. Len(base) \in Nat
  OBVIOUS
<1> HIDE DEF u
<1>4. \A i \in 1 .. Len(u) : u[i].what # "entry"
  <2>1. TAKE i \in 1 .. Len(u)
  <2>2. i \in 1 .. Len(base) \/ i = Len(base) + 1
    BY <1>2, <1>3
  <2> QED  BY <1>1, <1>2, <2>2
<1>5. u[Len(u)].what # "entry"
  BY <1>1, <1>2
<1>6. service' = IF u # <<>> /\ u[Len(u)].what = "entry" THEN Place(u[Len(u)].line) ELSE {}
  BY <1>5
<1>7. stack' = [stack EXCEPT ![curr] = u] /\ raised' \subseteq Line
  BY TopFacts DEF u
<1>8. iflag' \in BOOLEAN /\ (iflag' <=> u = <<>>)
  BY <1>2
<1>9. \A i \in 1 .. Len(u) : u[i].what = "entry" => i = Len(u)
  BY <1>4
<1> QED  BY <1>2, <1>6, <1>7, <1>8, <1>9, StackStep

(* irq_enter_protection saves the flag the section began with.              *)
LEMMA EnterProtectionInv == ASSUME IntInv, EnterProtection PROVE IntInv'
<1> DEFINE f == Frame("section", 1)
<1>1. /\ f \in PlainFrame /\ f.flag = iflag
      /\ curr \in Proc /\ stack \in [Proc -> Seq(AnyFrame)]
  BY TopFacts DEF PlainFrame, Frame
<1>2. /\ stack' = [stack EXCEPT ![curr] = Append(IF InTask THEN @ ELSE Used, f)]
      /\ iflag' = FALSE /\ raised' = raised /\ service' = service
      /\ curr' = curr /\ live' = live /\ eflags' = eflags
  BY DEF EnterProtection
<1> HIDE DEF f
<1>3. CASE InTask
  <2>1. stack[curr] = <<>> /\ service = {}
    BY <1>3, TopFacts DEF InTask, In
  <2>2. /\ <<>> \in Seq(AnyFrame) /\ OutermostRestores(<<>>)
        /\ \A i \in 1 .. Len(<<>>) : <<>>[i].what # "entry"
    BY DEF OutermostRestores
  <2>3. stack' = [stack EXCEPT ![curr] = Append(<<>>, f)]
    BY <1>1, <1>2, <1>3, <2>1
  <2> DEFINE base == <<>>
  <2>4. /\ base \in Seq(AnyFrame) /\ OutermostRestores(base)
        /\ (base = <<>> <=> stack[curr] = <<>>)
        /\ \A i \in 1 .. Len(base) : base[i].what # "entry"
        /\ stack' = [stack EXCEPT ![curr] = Append(base, f)]
    BY <2>1, <2>2, <2>3
  <2> HIDE DEF base
  <2> QED  BY <1>1, <1>2, <2>1, <2>4, PushInv
<1>4. CASE ~ InTask
  <2>1. stack[curr] # <<>> /\ Top.what # "entry" /\ service = {}
    <3>1. Opens
      BY <1>4 DEF EnterProtection
    <3> QED  BY <1>4, <3>1, TopFacts DEF Opens, InTask, In
  <2>2. /\ Used \in Seq(AnyFrame) /\ OutermostRestores(Used) /\ Used # <<>>
        /\ \A i \in 1 .. Len(Used) : Used[i].what # "entry"
    BY <2>1, UsedFacts
  <2>3. stack' = [stack EXCEPT ![curr] = Append(Used, f)]
    BY <1>1, <1>2, <1>4
  <2> QED  BY <1>1, <1>2, <2>1, <2>2, <2>3, PushInv
<1> QED  BY <1>3, <1>4

(* An exception is taken with whatever flag the task had.                   *)
LEMMA FaultInv == ASSUME IntInv, Fault PROVE IntInv'
<1> DEFINE f == Frame(IF mode[curr] = "user" THEN "fault" ELSE "crash", Calls)
<1>1. /\ f \in PlainFrame /\ f.flag = iflag
      /\ curr \in Proc /\ stack \in [Proc -> Seq(AnyFrame)]
  BY TopFacts, InterruptAssumption DEF PlainFrame, Frame
<1>2. stack[curr] = <<>> /\ service = {}
  BY TopFacts DEF Fault, InTask, In
<1>3. stack' = [stack EXCEPT ![curr] = Append(@, f)]
  BY DEF Fault, Push
<1> HIDE DEF f
<1> DEFINE base == <<>>
<1>4. /\ base \in Seq(AnyFrame) /\ OutermostRestores(base)
      /\ (base = <<>> <=> stack[curr] = <<>>)
      /\ \A i \in 1 .. Len(base) : base[i].what # "entry"
      /\ stack' = [stack EXCEPT ![curr] = Append(base, f)]
  BY <1>1, <1>2, <1>3 DEF OutermostRestores
<1>5. /\ iflag' = FALSE /\ raised' = raised /\ service' = {}
      /\ curr' = curr /\ live' = live /\ eflags' = eflags
  BY <1>2 DEF Fault
<1> HIDE DEF base
<1> QED  BY <1>1, <1>2, <1>4, <1>5, PushInv

(* A switch inside a section or the tick handler: interrupts are off in the *)
(* task that is left, and in the one that is taken up if it was in a frame. *)
LEMMA DispatchInv == ASSUME IntInv, NEW t \in Proc, Dispatch(t) PROVE IntInv'
<1>1. stack[curr] # <<>> /\ Top.what # "entry" /\ service = {} /\ iflag = FALSE
  BY TopFacts DEF Dispatch, In
<1>2. /\ Used \in Seq(AnyFrame) /\ OutermostRestores(Used) /\ Used # <<>>
      /\ \A i \in 1 .. Len(Used) : Used[i].what # "entry"
  BY <1>1, UsedFacts
<1>3. /\ t \in live \ {curr} /\ curr' = t
      /\ eflags' = [eflags EXCEPT ![curr] = iflag] /\ iflag' = eflags[t]
      /\ stack' = [stack EXCEPT ![curr] = Used]
      /\ live' = live /\ raised' = raised /\ service' = service
  BY DEF Dispatch, SwitchTo
<1>4. iflag <=> Used = <<>>
  BY <1>1, <1>2
<1> QED  BY <1>1, <1>2, <1>3, <1>4, SwitchStep

(* A task that ends leaves no frame behind.                                 *)
LEMMA ExitInv == ASSUME IntInv, NEW t \in Proc, Exit(t) PROVE IntInv'
<1> DEFINE u == stack[curr]
<1>1. /\ u \in Seq(AnyFrame) /\ OutermostRestores(u)
      /\ curr \in Proc /\ stack \in [Proc -> Seq(AnyFrame)]
      /\ u # <<>> => Len(u) \in 1 .. Len(u) /\ Top = u[Len(u)]
      /\ \A i \in 1 .. Len(u) : u[i].what = "entry" => i = Len(u)
  BY TopFacts
<1>2. ~ In("entry") /\ (u # <<>> => Top.what # "entry")
  BY DEF Exit, In, InTask
<1>3. service = {}
  BY <1>2, TopFacts
<1>4. /\ t \in live \ {curr} /\ curr' = t
      /\ eflags' = [eflags EXCEPT ![curr] = iflag] /\ iflag' = eflags[t]
      /\ stack' = stack /\ live' = live \ {curr}
      /\ raised' = raised /\ service' = service
  BY DEF Exit, SwitchTo
<1>5. stack' = [stack EXCEPT ![curr] = u]
  BY <1>1, <1>4
<1>6. u = <<>> => Len(u) = 0
  OBVIOUS
<1> HIDE DEF u
<1>7. \A i \in 1 .. Len(u) : u[i].what # "entry"
  BY <1>1, <1>2, <1>6
<1> QED  BY <1>1, <1>3, <1>4, <1>5, <1>7, SwitchStep

(* A new task has interrupts on and no frame.                               *)
LEMMA StartInv == ASSUME IntInv, NEW t \in Proc, Start(t) PROVE IntInv'
<1>1. /\ curr \in Proc /\ stack \in [Proc -> Seq(AnyFrame)] /\ live \subseteq Proc
      /\ curr \in live /\ eflags \in [Proc -> BOOLEAN] /\ t # curr
      /\ iflag \in BOOLEAN /\ raised \subseteq Line
  BY TopFacts DEF Start
<1>2. /\ stack' = [stack EXCEPT ![t] = <<>>] /\ eflags' = [eflags EXCEPT ![t] = TRUE]
      /\ live' = live \cup {t} /\ curr' = curr /\ iflag' = iflag
      /\ raised' = raised /\ service' = service
  BY DEF Start
<1>3. /\ stack'[t] = <<>> /\ \A p \in Proc \ {t} : stack'[p] = stack[p]
      /\ eflags'[t] = TRUE /\ \A p \in Proc \ {t} : eflags'[p] = eflags[p]
  BY <1>1, <1>2
<1>4. stack'[curr] = stack[curr]
  BY <1>1, <1>3
<1>5. IntTypeOK'
  <2>1. stack' \in [Proc -> Seq(AnyFrame)] /\ eflags' \in [Proc -> BOOLEAN]
    BY <1>1, <1>2
  <2> QED  BY <1>1, <1>2, <2>1 DEF IntTypeOK
<1>6. \A p \in Proc : OutermostRestores(stack'[p])
  <2>1. OutermostRestores(<<>>)
    BY DEF OutermostRestores
  <2> QED  BY <1>3, <2>1 DEF IntInv
<1>7. (iflag <=> InTask)'
  BY <1>2, <1>4 DEF IntInv, InTask
<1>8. FlagsSaved'
  BY <1>1, <1>2, <1>3 DEF IntInv, FlagsSaved
<1>9. EntryOnTop'
  BY <1>2, <1>3 DEF IntInv, EntryOnTop
<1>10. ServiceOfEntry'
  BY <1>2, <1>4 DEF IntInv, ServiceOfEntry, In, Top
<1> QED  BY <1>5, <1>6, <1>7, <1>8, <1>9, <1>10 DEF IntInv

(* Steps that leave frames, flags and the controllers' service alone.       *)
LEMMA OtherInv ==
  ASSUME IntInv, UNCHANGED <<curr, iflag, eflags, stack, live, service>>, raised' \subseteq Line
  PROVE  IntInv'
BY DEF IntInv, IntTypeOK, InTask, FlagsSaved, EntryOnTop, ServiceOfEntry, In, Top

(* Every step keeps the invariant.                                          *)
LEMMA IntNextInv == IntInv /\ [IntNext]_intVars => IntInv'
<1> SUFFICES ASSUME IntInv, [IntNext]_intVars
             PROVE  IntInv'
  OBVIOUS
<1>1. raised \subseteq Line
  BY TopFacts
<1>2. CASE Deliver
  BY <1>2, DeliverInv
<1>3. ASSUME NEW l \in Line, Raise(l) PROVE IntInv'
  BY <1>1, <1>3, OtherInv DEF Raise
<1>4. CASE SendEoi
  BY <1>4, SendEoiInv
<1>5. CASE Iret
  BY <1>5, PopInv DEF Iret, In
<1>6. CASE LeaveProtection
  BY <1>6, PopInv DEF LeaveProtection, In
<1>7. CASE Syscall \/ SyscallReturn \/ Halt
  BY <1>1, <1>7, OtherInv DEF Syscall, SyscallReturn, Halt
<1>8. CASE EnterProtection
  BY <1>8, EnterProtectionInv
<1>9. CASE Fault
  BY <1>9, FaultInv
<1>10. ASSUME NEW t \in Proc, Dispatch(t) \/ Start(t) \/ Exit(t) PROVE IntInv'
  BY <1>10, DispatchInv, StartInv, ExitInv
<1>11. CASE UNCHANGED intVars
  BY <1>1, <1>11, OtherInv DEF intVars
<1> QED
  BY <1>2, <1>3, <1>4, <1>5, <1>6, <1>7, <1>8, <1>9, <1>10, <1>11 DEF IntNext, Instruction

(* The inductive invariant in every behaviour.                              *)
LEMMA IntSpecInv == IntSpec => []IntInv
  BY IntInitInv, IntNextInv, PTL DEF IntSpec

-----------------------------------------------------------------------------
(* Interrupts are off exactly in sections, handlers and exceptions, and no  *)
(* request stays in service past the entry of its handler.                  *)
THEOREM SpecSectionsClosed == IntSpec => []SectionsClosed
<1>1. IntInv => SectionsClosed
  BY DEF IntInv, ServiceOfEntry, SectionsClosed
<1> QED  BY IntSpecInv, <1>1, PTL

(* A handler begins only when the running task is in no section, handler or *)
(* exception and no other request is in service, whatever was raised and    *)
(* whichever tasks were switched before.                                    *)
HandlersBeginOutside ==
  [][service' \ service # {} => InTask /\ service = {}]_intVars

(* HandlersBeginOutside in every behaviour.                                 *)
THEOREM SpecHandlersBeginOutside == IntSpec => HandlersBeginOutside
<1>1. ASSUME IntInv, [IntNext]_intVars
      PROVE  [service' \ service # {} => InTask /\ service = {}]_intVars
  <2>1. CASE Deliver
    <3>1. iflag /\ InTask
      BY <1>1, <2>1 DEF Deliver, Interrupted, IntInv
    <3>2. service = {}
      BY <1>1, <3>1 DEF IntInv, ServiceOfEntry, In, InTask
    <3> QED  BY <3>1, <3>2
  <2>2. CASE SendEoi
    <3>1. service' \subseteq service
      BY <2>2 DEF SendEoi, Acknowledged
    <3> QED  BY <3>1
  <2>3. CASE Instruction /\ ~ SendEoi
    <3>1. service' = service
      BY <2>3
      DEF Instruction, Iret, Syscall, SyscallReturn, EnterProtection, LeaveProtection, Fault,
          Halt, Dispatch, Start, Exit
    <3> QED  BY <3>1
  <2>4. ASSUME NEW l \in Line, Raise(l) PROVE service' = service
    BY <2>4 DEF Raise
  <2> QED  BY <1>1, <2>1, <2>2, <2>3, <2>4 DEF IntNext, Instruction
<1> QED  BY <1>1, IntSpecInv, PTL DEF IntSpec, HandlersBeginOutside


=============================================================================
