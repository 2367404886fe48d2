------------------------------- MODULE Memory -------------------------------
(***************************************************************************)
(* Physical pages and address spaces: core/memory.c and its use by fork,   *)
(* execve, wait and sbrk in core/task.c.  A page is a number, 0 is "none". *)
(* Directories and tables have NSlot user entries; the user pages they map *)
(* are 1 .. NSlot * NSlot, and user page 0 stands for the kernel's part,   *)
(* mapped in every directory.  Heap ends are in units, Unit of them a page. *)
(* A program is one segment that starts at user page 1.  The races on the  *)
(* task table are in TaskLife; here a slot is claimed in one step.         *)
(***************************************************************************)
EXTENDS Integers, FiniteSets, FiniteSetsExt

CONSTANTS
  Task, First,   \* the slots of task_table, and first_task
  PhysSizes,     \* sizes of physical memory, in pages
  NSlot,         \* user entries of a directory, entries of a table
  Unit,          \* units in a page
  ProgSize,      \* sizes of programs (p_memsz), in units
  MaxIncr        \* bound: units in one call of sbrk

Page == 1 .. Max(PhysSizes)
UPage == 1 .. NSlot * NSlot
StackPage == NSlot * NSlot   \* the page below MEM_TASK_STACK_TOP
BAD == -1                    \* what memory_copy_uvm returns when it fails

ASSUME MemoryAssumption ==
  /\ First \in Task
  /\ {NSlot, Unit, MaxIncr} \subseteq Nat \ {0} /\ NSlot >= 2
  /\ PhysSizes \subseteq Nat /\ Max(PhysSizes) \in PhysSizes
  /\ \A n \in PhysSizes : 4 <= n /\ n <= Max(PhysSizes)
  /\ ProgSize \subseteq 1 .. Unit * (StackPage - 2)

VARIABLES
  mem,   \* size: pages of this machine; used: the bitmap; entry: the tables in
         \* memory; oom: whether an allocation ever failed; panic: whether
         \* memory_create_map's assertion did, which stops the kernel
  task   \* task_t, and where the task is in its system call

vars == <<mem, task>>

-----------------------------------------------------------------------------
(* bitmap_alloc_nbits for one page. *)
FirstFree(m) ==
  LET free == (1 .. m.size) \ m.used IN IF free = {} THEN 0 ELSE Min(free)

(* addr_alloc_page, the page left as it is or cleared for a table, and      *)
(* addr_free_page.  Nothing reads what a free page held.                    *)
Empty == [i \in 1 .. NSlot |-> 0]
Take(m) ==
  IF FirstFree(m) = 0 THEN [m EXCEPT !.oom = TRUE]
  ELSE [m EXCEPT !.used = @ \cup {FirstFree(m)}]
TakeTable(m) ==
  IF FirstFree(m) = 0 THEN Take(m) ELSE [Take(m) EXCEPT !.entry[FirstFree(m)] = Empty]
Give(m, p) == [m EXCEPT !.used = @ \ {p}, !.entry[p] = Empty]

DirIndex(v) == (v - 1) \div NSlot + 1
TableIndex(v) == ((v - 1) % NSlot) + 1

(* What user page v is mapped to, 0 if it is not. *)
MappedTo(m, d, v) ==
  LET tb == m.entry[d][DirIndex(v)]
  IN  IF tb = 0 THEN 0 ELSE m.entry[tb][TableIndex(v)]

(* addr_alloc_page and memory_create_map for user page v: the page and, if   *)
(* need be, its table, in one step.  When there is no page for the table,    *)
(* the page that was to be mapped stays allocated.  memory_create_map has no *)
(* return statement at its end; built without optimisation it returns what   *)
(* is left in eax, the loop's count, which the callers' "err < 0" passes.    *)
MapOne(m, d, v) ==
  LET p == FirstFree(m)
      m1 == Take(m)
      hasTable == m.entry[d][DirIndex(v)] # 0
      m2 == IF hasTable THEN m1 ELSE TakeTable(m1)
      tb == IF hasTable THEN m.entry[d][DirIndex(v)] ELSE FirstFree(m1)
      done == [m2 EXCEPT !.entry[d][DirIndex(v)] = tb, !.entry[tb][TableIndex(v)] = p]
  IN  IF p = 0 THEN [ok |-> FALSE, mem |-> m1]
      ELSE IF v = 0 \/ MappedTo(m, d, v) # 0 THEN [ok |-> FALSE, mem |-> [m1 EXCEPT !.panic = TRUE]]
      ELSE IF tb = 0 THEN [ok |-> FALSE, mem |-> m2]
      ELSE [ok |-> TRUE, mem |-> done]

(* The places of a directory in the order memory_destory_uvm frees them:    *)
(* the pages of a table, then the table.                                    *)
Place == 1 .. NSlot * (NSlot + 1)
IsTable(k) == k % (NSlot + 1) = 0
PageOf(k) == k - (k - 1) \div (NSlot + 1)
At(m, d, k) ==
  IF IsTable(k) THEN m.entry[d][k \div (NSlot + 1)] ELSE MappedTo(m, d, PageOf(k))

(* Faulty variant of Remaining: tables are not among the pages to free. *)
RemainingPages(m, d, from) == {k \in Place : k >= from /\ At(m, d, k) # 0 /\ ~ IsTable(k)}

Remaining(m, d, from) == {k \in Place : k >= from /\ At(m, d, k) # 0}

Mapped(m, d) == {v \in UPage : MappedTo(m, d, v) # 0}

-----------------------------------------------------------------------------
(* phase: none, new (being forked), zombie, reaped; user; fork, forkdir,    *)
(* forkuvm, copy; load, loaded; map; destroy; broken (started, but the      *)
(* switch to it faults).  sel: whether the task has a TSS.  dir, at: the    *)
(* directory a call builds or destroys and how far it is; left: pages still *)
(* to be mapped; peer: the slot of the child or zombie; then: what mapping  *)
(* or destruction is part of; size: what a load or sbrk adds to the heap.   *)
(* own is history: heap_end is that of the program the task runs.           *)
NoTask ==
  [phase |-> "none", cr3 |-> 0, stack |-> 0, sel |-> FALSE, heap |-> 0, own |-> FALSE, dir |-> 0,
   at |-> 0, left |-> 0, peer |-> First, then |-> "none", size |-> 0]

(* first_task with one page of program; the heap end it has is never used.  *)
Init ==
  /\ \E n \in PhysSizes :
       mem = [size |-> n, used |-> 1 .. 4, oom |-> FALSE, panic |-> FALSE,
              entry |-> [p \in Page |-> IF p = 2 THEN [Empty EXCEPT ![1] = 4]
                                        ELSE IF p = 4 THEN [Empty EXCEPT ![1] = 3] ELSE Empty]]
  /\ task = [t \in Task |->
               IF t = First
                 THEN [NoTask EXCEPT !.phase = "user", !.cr3 = 2, !.stack = 1, !.sel = TRUE]
                 ELSE NoTask]

Can(t, phase) == ~ mem.panic /\ task[t].phase = phase
Back(r) ==
  [r EXCEPT !.phase = "user", !.dir = 0, !.at = 0, !.left = 0, !.peer = First, !.then = "none",
            !.size = 0]

-----------------------------------------------------------------------------
(* sys_fork.  alloc_task and task_init up to tss_init; the result of        *)
(* tss_init is ignored.                                                     *)
Fork(t, c) ==
  /\ Can(t, "user")
  /\ task[c].phase = "none"
  /\ task' = [task EXCEPT ![t].phase = "fork", ![t].peer = c,
                          ![c] = [NoTask EXCEPT !.phase = "new", !.sel = TRUE]]
  /\ UNCHANGED mem

ForkStack(t) ==
  /\ Can(t, "fork")
  /\ LET p == FirstFree(mem)
         c == task[t].peer
     IN  /\ mem' = Take(mem)
         /\ task' = [task EXCEPT ![t].phase = IF p = 0 THEN "forkuvm" ELSE "forkdir",
                                 ![c].stack = p, ![c].sel = p # 0]

(* Faulty variant of ForkDir: a child without a directory keeps the TSS whose *)
(* kernel stack was freed.                                                   *)
ForkDirKeepsSel(t) ==
  /\ Can(t, "forkdir")
  /\ LET p == FirstFree(mem)
         c == task[t].peer
     IN  /\ mem' = IF p = 0 THEN Give(Take(mem), task[c].stack) ELSE TakeTable(mem)
         /\ task' = [task EXCEPT ![t].phase = "forkuvm", ![c].cr3 = p]

ForkDir(t) ==
  /\ Can(t, "forkdir")
  /\ LET p == FirstFree(mem)
         c == task[t].peer
     IN  /\ mem' = IF p = 0 THEN Give(Take(mem), task[c].stack) ELSE TakeTable(mem)
         /\ task' = [task EXCEPT ![t].phase = "forkuvm", ![c].cr3 = p, ![c].sel = p # 0]

(* The child starts with what memory_copy_uvm returned as cr3; "< 0" is     *)
(* never true of it.                                                        *)
Started(t, cr3) ==
  LET c == task[t].peer
  IN  [task EXCEPT ![t] = Back(@),
                   ![c].cr3 = cr3,
                   ![c].phase = IF cr3 # BAD /\ task[c].sel THEN "user" ELSE "broken"]

CopyCreate(t) ==
  /\ Can(t, "forkuvm")
  /\ IF FirstFree(mem) = 0
       THEN mem' = Take(mem) /\ task' = Started(t, BAD)
       ELSE /\ mem' = TakeTable(mem)
            /\ task' = [task EXCEPT ![t].phase = "copy", ![t].dir = FirstFree(mem), ![t].at = 1]

(* Faulty variant of ToCopy: the page at the cursor is passed over. *)
ToCopyAfter(t) == {v \in Mapped(mem, task[t].cr3) : v > task[t].at}

ToCopy(t) == {v \in Mapped(mem, task[t].cr3) : v >= task[t].at}

CopyPage(t) ==
  /\ Can(t, "copy") /\ ToCopy(t) # {}
  /\ LET v == Min(ToCopy(t))
         r == MapOne(mem, task[t].dir, v)
     IN  /\ mem' = r.mem
         /\ task' = IF r.ok THEN [task EXCEPT ![t].at = v + 1]
                    ELSE [task EXCEPT ![t].phase = "destroy", ![t].at = 1, ![t].then = "fork"]

CopyEnd(t) ==
  /\ Can(t, "copy") /\ ToCopy(t) = {}
  /\ task' = Started(t, task[t].dir)
  /\ UNCHANGED mem

-----------------------------------------------------------------------------
(* memory_alloc_for_page_dir: `left` pages of the directory from `at` on.  A *)
(* round that fails ends it, but it returns 0 in any case, so no caller      *)
(* learns of it.                                                             *)
PagesFor(n) == (n + Unit - 1) \div Unit
MapDir(t) == IF task[t].then = "sbrk" THEN task[t].cr3 ELSE task[t].dir

MapPage(t) ==
  /\ Can(t, "map") /\ task[t].left # 0
  /\ LET r == MapOne(mem, MapDir(t), task[t].at)
     IN  /\ mem' = r.mem
         /\ task' = IF r.ok THEN [task EXCEPT ![t].at = @ + 1, ![t].left = @ - 1]
                    ELSE [task EXCEPT ![t].left = 0]

HasMapped(t, then) == Can(t, "map") /\ task[t].left = 0 /\ task[t].then = then

-----------------------------------------------------------------------------
(* sys_execve; first_task never calls it.                                   *)
ExecCreate(t) ==
  /\ Can(t, "user") /\ t # First
  /\ mem' = IF FirstFree(mem) = 0 THEN Take(mem) ELSE TakeTable(mem)
  /\ task' = IF FirstFree(mem) = 0 THEN task
             ELSE [task EXCEPT ![t].phase = "load", ![t].dir = FirstFree(mem)]

(* load_phdr.  It goes on when the new directory lacks pages: the program   *)
(* is then read to physical address 0, which no page of the model stands    *)
(* for.                                                                     *)
LoadPhdr(t, n) ==
  /\ Can(t, "load")
  /\ task' = [task EXCEPT ![t].phase = "map", ![t].then = "load", ![t].size = n,
                          ![t].at = 1, ![t].left = PagesFor(n)]
  /\ UNCHANGED mem

(* The program is read, and the heap of the task is from now on that of the *)
(* program, while the task still runs the old one.                          *)
LoadEnd(t) ==
  /\ HasMapped(t, "load")
  /\ task' = [task EXCEPT ![t].phase = "loaded", ![t].then = "none", ![t].at = 0, ![t].size = 0,
                          ![t].heap = Unit + task[t].size, ![t].own = FALSE]
  /\ UNCHANGED mem

(* No such file, not a program, a file that is too short (the segment's     *)
(* pages are mapped by then), or, after the segment, a next header that     *)
(* cannot be read or an entry point of 0.  The heap end stays what it is.   *)
LoadFails(t) ==
  /\ Can(t, "load") \/ HasMapped(t, "load") \/ Can(t, "loaded")
  /\ task' = [task EXCEPT ![t].phase = "destroy", ![t].then = "exec", ![t].at = 1, ![t].size = 0]
  /\ UNCHANGED mem

(* The stack, with the arguments written to it.                             *)
ExecStack(t) ==
  /\ Can(t, "loaded")
  /\ task' = [task EXCEPT ![t].phase = "map", ![t].then = "stack", ![t].at = StackPage, ![t].left = 1]
  /\ UNCHANGED mem

(* The change of directories.                                               *)
ExecSwap(t) ==
  /\ HasMapped(t, "stack")
  /\ task' = [task EXCEPT ![t].phase = "destroy", ![t].then = "exec", ![t].at = 1,
                          ![t].cr3 = task[t].dir, ![t].dir = task[t].cr3, ![t].own = TRUE]
  /\ UNCHANGED mem

-----------------------------------------------------------------------------
(* sys_exit, and sys_wait by whoever the parent is, one at a time under     *)
(* task_table_mutex.                                                        *)
Exit(t) ==
  /\ Can(t, "user") /\ t # First
  /\ task' = [task EXCEPT ![t].phase = "zombie", ![t].own = FALSE]
  /\ UNCHANGED mem

Reap(t, z) ==
  /\ Can(t, "user") /\ task[z].phase = "zombie"
  /\ \A u \in Task : task[u].then # "reap"
  /\ task' = [task EXCEPT ![t].phase = "destroy", ![t].dir = task[z].cr3, ![t].at = 1,
                          ![t].peer = z, ![t].then = "reap",
                          ![z].phase = "reaped"]
  /\ UNCHANGED mem

(* memory_destory_uvm, a page at a time; a table is read until it is freed. *)
DestroyPage(t) ==
  /\ Can(t, "destroy")
  /\ LET left == Remaining(mem, task[t].dir, task[t].at)
     IN  /\ left # {}
         /\ mem' = Give(mem, At(mem, task[t].dir, Min(left)))
         /\ task' = [task EXCEPT ![t].at = Min(left) + 1]

(* The directory itself, and what comes after. *)
DestroyEnd(t) ==
  /\ Can(t, "destroy")
  /\ Remaining(mem, task[t].dir, task[t].at) = {}
  /\ LET m == Give(mem, task[t].dir)
         z == task[t].peer
     IN  CASE task[t].then = "exec" -> mem' = m /\ task' = [task EXCEPT ![t] = Back(@)]
           [] task[t].then = "fork" -> mem' = m /\ task' = Started(t, BAD)
           [] task[t].then = "reap" ->
                /\ mem' = Give(m, task[z].stack)
                /\ task' = [task EXCEPT ![t] = Back(@), ![z] = NoTask]

-----------------------------------------------------------------------------
(* sys_sbrk.  HeapStart is where pages are added from: the first page that  *)
(* the heap does not reach yet.  The child of a fork has heap_end 0, so its  *)
(* first sbrk asks for user page 0, which the kernel maps already, and the  *)
(* assertion in memory_create_map stops the kernel.  MaxIncr bounds the     *)
(* increment, the second conjunct keeps the heap below the stack (the code  *)
(* does not: there the same assertion would fail).                          *)
HeapStart(h) == ((h + Unit - 1) \div Unit) * Unit

(* Faulty variant of Sbrk: a heap that grows to the next page adds none. *)
SbrkShort(t, n) ==
  /\ Can(t, "user") /\ t # First
  /\ task[t].heap + n <= Unit * StackPage
  /\ LET h == task[t].heap
     IN  task' = [task EXCEPT ![t].phase = "map", ![t].then = "sbrk", ![t].size = n,
                              ![t].at = HeapStart(h) \div Unit,
                              ![t].left = IF h + n < HeapStart(h) THEN 0
                                          ELSE (h + n - HeapStart(h)) \div Unit]
  /\ UNCHANGED mem

Sbrk(t, n) ==
  /\ Can(t, "user") /\ t # First
  /\ task[t].heap + n <= Unit * StackPage
  /\ LET h == task[t].heap
     IN  task' = IF h % Unit # 0 /\ (h % Unit) + n <= Unit THEN [task EXCEPT ![t].heap = h + n]
                 ELSE [task EXCEPT ![t].phase = "map", ![t].then = "sbrk", ![t].size = n,
                                   ![t].at = HeapStart(h) \div Unit,
                                   ![t].left = PagesFor(h + n - HeapStart(h))]
  /\ UNCHANGED mem

SbrkEnd(t) ==
  /\ HasMapped(t, "sbrk")
  /\ task' = [task EXCEPT ![t] = [Back(@) EXCEPT !.heap = task[t].heap + task[t].size]]
  /\ UNCHANGED mem

Next ==
  \E t \in Task :
    \/ \E c \in Task : Fork(t, c) \/ Reap(t, c)
    \/ ForkStack(t) \/ ForkDir(t) \/ CopyCreate(t) \/ CopyPage(t) \/ CopyEnd(t)
    \/ MapPage(t)
    \/ ExecCreate(t) \/ LoadEnd(t) \/ LoadFails(t) \/ ExecStack(t) \/ ExecSwap(t)
    \/ \E n \in ProgSize : LoadPhdr(t, n)
    \/ Exit(t) \/ DestroyPage(t) \/ DestroyEnd(t)
    \/ SbrkEnd(t) \/ \E n \in 1 .. MaxIncr : Sbrk(t, n)

Spec == Init /\ [][Next]_vars

-----------------------------------------------------------------------------
TypeOK ==
  /\ mem.size \in PhysSizes /\ mem.used \subseteq 1 .. mem.size /\ mem.oom \in BOOLEAN /\ mem.panic \in BOOLEAN
  /\ mem.entry \in [Page -> [1 .. NSlot -> Page \cup {0}]]
  /\ \A t \in Task :
       /\ task[t].cr3 \in Page \cup {0, BAD} /\ {task[t].stack, task[t].dir} \subseteq Page \cup {0}
       /\ task[t].heap \in 0 .. Unit * StackPage /\ task[t].peer \in Task /\ task[t].own \in BOOLEAN

(* Who holds which page: kernel stacks, and directories with the tables and *)
(* pages they lead to.  A directory that is being destroyed no longer holds *)
(* what was freed; a reaped zombie's is its reaper's.                       *)
Dirs ==
  {<<t, task[t].cr3, 0>> : t \in {u \in Task : task[u].cr3 \in Page /\ task[u].phase # "reaped"}}
  \cup {<<t, task[t].dir, IF task[t].phase = "destroy" THEN task[t].at ELSE 0>> :
          t \in {u \in Task : task[u].dir # 0}}
Held(d) == {<<d, 0, d[2]>>} \cup {<<d, k, At(mem, d[2], k)>> : k \in Remaining(mem, d[2], d[3])}
Holdings ==
  {<<t, 0, task[t].stack>> : t \in {u \in Task : task[u].sel /\ task[u].stack # 0}}
  \cup UNION {Held(d) : d \in Dirs}
HeldPages == {h[3] : h \in Holdings}

(* Isolation: a page of one address space, table or kernel stack is in no   *)
(* other, and none of them is free, at every step of a fork, an execve or a *)
(* wait, also one that runs out of memory.                                  *)
OwnedOnce ==
  Cardinality(Holdings) = Cardinality(HeldPages) /\ HeldPages \subseteq mem.used

(* Two things lose pages: fork, the directory task_init made, and an        *)
(* allocation that finds no page for the table (or stops the kernel).       *)
LostPages == mem.used \ HeldPages
LostOnlyByFork ==
  [][\A p \in LostPages' \ LostPages :
       \/ \E c \in Task : task[c].phase = "new" /\ task[c].cr3 = p /\ task'[c].phase # "new"
       \/ mem'.used = 1 .. mem.size \/ mem'.panic]_vars

(* What a program may use, from the start of its segment to its heap end,   *)
(* what an sbrk under way has added, and the stack.                          *)
HeapPages(t) ==
  {v \in UPage : v * Unit < task[t].heap \/ (task[t].then = "sbrk" /\ v < task[t].at)} \cup {StackPage}

(* A program whose heap end is its own has no page mapped that it may not    *)
(* use, and until memory runs out every page that it may, also in the middle *)
(* of an sbrk, a fork or an execve.  The heap end is not the program's own   *)
(* in the child of a fork and after an execve that failed behind             *)
(* load_elf_file's assignment (task.c:558-559); nobody but such a task, in   *)
(* sbrk, can trip the assertion of memory_create_map.                        *)
HeapMapped ==
  /\ \A t \in Task : task[t].own =>
       /\ Mapped(mem, task[t].cr3) \subseteq HeapPages(t)
       /\ ~ mem.oom => HeapPages(t) \subseteq Mapped(mem, task[t].cr3)
  /\ mem.panic => \E t \in Task : task[t].then = "sbrk" /\ ~ task[t].own

(* A child that can run has exactly the pages of its parent. *)
CopyComplete ==
  [][\A t \in Task : CopyEnd(t) =>
       Mapped(mem', task'[task[t].peer].cr3) = Mapped(mem, task[t].cr3)]_vars

=============================================================================
