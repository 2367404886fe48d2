---------------------------- MODULE MemoryProofs ----------------------------
(***************************************************************************)
(* Proofs about Memory: for any set of tasks, any memory and any size of    *)
(* its tables no page of an address space, table or kernel stack belongs to *)
(* two tasks, a heap is mapped up to its end and a forked child has all     *)
(* pages of its parent.  The inductive invariant, MemInv, says at which     *)
(* roots a task holds pages in every phase of its calls, that what is held  *)
(* at a root is a tree, and what is mapped in it.  That no page is lost     *)
(* (SpecLostOnlyByFork) goes along with it: every step takes the pages of   *)
(* each root to a root of the next state (Goes), but for the two leaks.     *)
(*                                                                          *)
(* Of a call that maps pages one by one it says which pages the directory   *)
(* has by then (MayUse, Built) and how many rounds are left (Rounds).       *)
(***************************************************************************)
EXTENDS Memory, FiniteSetTheorems, WellFoundedInduction, TLAPS

-----------------------------------------------------------------------------
(* Arithmetic of places.                                                    *)

(* Quotient and remainder are the only ones.                                *)
LEMMA Division ==
  ASSUME NEW b \in Nat \ {0}, NEW q \in Int, NEW r \in 0 .. b - 1
  PROVE  (b * q + r) \div b = q /\ (b * q + r) % b = r
OBVIOUS

(* A number is its quotient times the divisor, plus the remainder.          *)
LEMMA Quotient ==
  ASSUME NEW b \in Nat \ {0}, NEW a \in Int
  PROVE  /\ a \div b \in Int /\ a % b \in 0 .. b - 1
         /\ a = b * (a \div b) + (a % b)
OBVIOUS

-----------------------------------------------------------------------------
(* The places of a directory: tables, and the pages of each before it.      *)
W == NSlot + 1
TableAt(i) == i * W
PageAt(i, j) == (i - 1) * W + j

(* The sizes MemoryAssumption speaks of are numbers.                        *)
LEMMA Sizes ==
  /\ NSlot \in Nat /\ NSlot >= 2 /\ W \in Nat /\ W >= 3 /\ W = NSlot + 1
  /\ NSlot * NSlot \in Nat /\ NSlot * NSlot >= 4
  /\ NSlot * W \in Nat
BY MemoryAssumption DEF W

(* The place of table i is read as table i.                                 *)
LEMMA TablePlaces ==
  ASSUME NEW i \in 1 .. NSlot
  PROVE  /\ TableAt(i) \in Place /\ IsTable(TableAt(i))
         /\ TableAt(i) \div (NSlot + 1) = i
<1>1. TableAt(i) = W * i + 0 /\ TableAt(i) \in Int
  BY Sizes DEF TableAt
<1>2. (W * i + 0) \div W = i /\ (W * i + 0) % W = 0
  BY Division, Sizes
<1>3. i * W >= 1 /\ i * W <= NSlot * W
  BY Sizes
<1> QED  BY <1>1, <1>2, <1>3, Sizes DEF TableAt, Place, IsTable, W

(* The place of page j of table i is read so, and comes before the table.   *)
LEMMA PagePlaces ==
  ASSUME NEW i \in 1 .. NSlot, NEW j \in 1 .. NSlot
  PROVE  /\ PageAt(i, j) \in Place /\ ~ IsTable(PageAt(i, j))
         /\ PageAt(i, j) < TableAt(i)
         /\ PageOf(PageAt(i, j)) = (i - 1) * NSlot + j
         /\ PageOf(PageAt(i, j)) \in UPage
         /\ DirIndex(PageOf(PageAt(i, j))) = i
         /\ TableIndex(PageOf(PageAt(i, j))) = j
<1>1. PageAt(i, j) = W * (i - 1) + j /\ PageAt(i, j) \in Int
  BY Sizes DEF PageAt
<1>2. (W * (i - 1) + j) % W = j
  BY Division, Sizes
<1>3. (i - 1) * W >= 0 /\ (i - 1) * W + W <= NSlot * W
  BY Sizes
<1>4. PageAt(i, j) \in Place /\ ~ IsTable(PageAt(i, j))
  BY <1>1, <1>2, <1>3, Sizes DEF PageAt, Place, IsTable, W
<1>5. PageAt(i, j) - 1 = W * (i - 1) + (j - 1)
  BY <1>1, Sizes
<1>6. (W * (i - 1) + (j - 1)) \div W = i - 1
  BY Division, Sizes
<1>7. PageOf(PageAt(i, j)) = PageAt(i, j) - (i - 1)
  BY <1>5, <1>6 DEF PageOf, W
<1>8. PageOf(PageAt(i, j)) = (i - 1) * NSlot + j
  BY <1>7, Sizes DEF PageAt
<1>9. (i - 1) * NSlot >= 0 /\ (i - 1) * NSlot + NSlot <= NSlot * NSlot
  BY Sizes
<1>10. PageOf(PageAt(i, j)) \in UPage
  BY <1>8, <1>9, Sizes DEF UPage
<1>11. PageOf(PageAt(i, j)) - 1 = NSlot * (i - 1) + (j - 1)
  BY <1>8, Sizes
<1>12. (NSlot * (i - 1) + (j - 1)) \div NSlot = i - 1
       /\ (NSlot * (i - 1) + (j - 1)) % NSlot = j - 1
  <2>1. NSlot \in Nat \ {0} /\ i - 1 \in Int /\ j - 1 \in 0 .. NSlot - 1
    BY Sizes
  <2> QED  BY <2>1, Division
<1>13. PageAt(i, j) < TableAt(i)
  BY Sizes DEF PageAt, TableAt
<1> QED  BY <1>4, <1>8, <1>10, <1>11, <1>12, <1>13 DEF DirIndex, TableIndex

(* A page of the user space is one entry of one table.                      *)
LEMMA UserPages ==
  ASSUME NEW v \in UPage
  PROVE  /\ DirIndex(v) \in 1 .. NSlot /\ TableIndex(v) \in 1 .. NSlot
         /\ v = (DirIndex(v) - 1) * NSlot + TableIndex(v)
<1> DEFINE q == (v - 1) \div NSlot
           r == (v - 1) % NSlot
<1>1. q \in Int /\ r \in 0 .. NSlot - 1 /\ v - 1 = NSlot * q + r /\ v - 1 >= 0 /\ v - 1 < NSlot * NSlot
  <2>1. NSlot \in Nat \ {0} /\ v - 1 \in Int /\ v - 1 >= 0 /\ v - 1 < NSlot * NSlot
    BY Sizes DEF UPage
  <2> QED  BY <2>1, Quotient
<1>2. DirIndex(v) = q + 1 /\ TableIndex(v) = r + 1
  BY DEF DirIndex, TableIndex
<1> HIDE DEF q, r
<1>3. q >= 0
  <2>1. SUFFICES ASSUME q <= -1 PROVE FALSE
    BY <1>1
  <2>2. NSlot * q <= -NSlot
    BY <1>1, <2>1, Sizes
  <2> QED  BY <1>1, <2>2, Sizes
<1>4. q < NSlot
  <2>1. SUFFICES ASSUME q >= NSlot PROVE FALSE
    BY <1>1, Sizes
  <2>2. NSlot * q >= NSlot * NSlot
    BY <1>1, <2>1, Sizes
  <2> QED  BY <1>1, <2>2, Sizes
<1>5. v = NSlot * q + (r + 1)
  BY <1>1, Sizes DEF UPage
<1>6. NSlot * q = ((q + 1) - 1) * NSlot
  BY <1>1, Sizes
<1> QED  BY <1>1, <1>2, <1>3, <1>4, <1>5, <1>6, Sizes

(* There are no places but those of tables and of their pages.              *)
LEMMA AllPlaces ==
  ASSUME NEW k \in Place
  PROVE  \/ IsTable(k) /\ \E i \in 1 .. NSlot : k = TableAt(i)
         \/ ~ IsTable(k) /\ \E i, j \in 1 .. NSlot : k = PageAt(i, j)
<1> DEFINE q == k \div W
           r == k % W
<1>1. q \in Int /\ r \in 0 .. W - 1 /\ k = W * q + r /\ k >= 1 /\ k <= NSlot * W
  <2>1. W \in Nat \ {0} /\ k \in Int /\ k >= 1 /\ k <= NSlot * W
    BY Sizes DEF Place, W
  <2> QED  BY <2>1, Quotient
<1>2. IsTable(k) <=> r = 0
  BY DEF IsTable, W
<1> HIDE DEF q, r
<1>3. q >= 0
  <2>1. SUFFICES ASSUME q <= -1 PROVE FALSE
    BY <1>1
  <2>2. W * q <= -W
    BY <1>1, <2>1, Sizes
  <2> QED  BY <1>1, <2>2, Sizes
<1>4. CASE r = 0
  <2>1. q # 0
    BY <1>1, <1>4, Sizes
  <2>2. q <= NSlot
    <3>1. SUFFICES ASSUME q >= NSlot + 1 PROVE FALSE
      BY <1>1, Sizes
    <3>2. W * q >= W * (NSlot + 1)
      BY <1>1, <3>1, Sizes
    <3> QED  BY <1>1, <1>4, <3>2, Sizes
  <2>3. k = TableAt(q)
    BY <1>1, <1>4, Sizes DEF TableAt
  <2> QED  BY <1>1, <1>2, <1>3, <1>4, <2>1, <2>2, <2>3
<1>5. CASE r # 0
  <2>1. q < NSlot
    <3>1. SUFFICES ASSUME q >= NSlot PROVE FALSE
      BY <1>1, Sizes
    <3>2. W * q >= W * NSlot
      BY <1>1, <3>1, Sizes
    <3> QED  BY <1>1, <1>5, <3>2, Sizes
  <2>2. k = PageAt(q + 1, r)
    BY <1>1, Sizes DEF PageAt
  <2> QED  BY <1>1, <1>2, <1>3, <1>5, <2>1, <2>2, Sizes
<1> QED  BY <1>4, <1>5

-----------------------------------------------------------------------------
(* Minima.                                                                  *)

(* A set of naturals that is not empty has a least element.                 *)
LEMMA MinExists ==
  ASSUME NEW S, S \subseteq Nat, S # {}
  PROVE  Min(S) \in S /\ \A y \in S : Min(S) <= y
<1> DEFINE less == OpToRel(<, Nat)
<1>1. PICK x \in S : \A y \in S : ~ (<<y, x>> \in less)
  BY WFMin, NatLessThanWellFounded
<1>2. \A y \in Nat, z \in Nat : y < z => <<y, z>> \in less
  BY DEF OpToRel
<1> HIDE DEF less
<1>3. ASSUME NEW y \in S
      PROVE  x <= y
  <2>1. y \in Nat /\ x \in Nat /\ ~ (y < x)
    BY <1>1, <1>2
  <2> QED  BY <2>1
<1> QED  BY <1>3 DEF Min

Building == {"fork", "forkdir", "forkuvm", "copy"}
Running == Building \cup {"user", "load", "loaded", "map", "destroy"}
Phase == Running \cup {"none", "new", "zombie", "reaped", "broken"}

MemType ==
  [size : PhysSizes, used : SUBSET Page, entry : [Page -> [1 .. NSlot -> Page \cup {0}]],
   oom : BOOLEAN, panic : BOOLEAN]
TaskType ==
  [phase : Phase, cr3 : Page \cup {0, BAD}, stack : Page \cup {0}, sel : BOOLEAN,
   heap : 0 .. Unit * StackPage, own : BOOLEAN, dir : Page \cup {0}, at : Nat, left : Nat,
   peer : Task, then : {"none", "load", "stack", "sbrk", "fork", "exec", "reap"}, size : Nat]
IsMem(m) == m \in MemType /\ m.used \subseteq 1 .. m.size

(* The invariant is about a memory m and a task table a.                    *)

(* Who is in which part of a call, and what a task has by then: directory   *)
(* and purpose, the slot of its child or zombie, stack and TSS.             *)
Mapping(k, then) == k.phase = "map" /\ k.then = then
Loading(k) == k.phase \in {"load", "loaded"} \/ Mapping(k, "load") \/ Mapping(k, "stack")
Filling(k) == k.phase = "copy" \/ Loading(k)
OnPeer(k) == k.phase \in Building \/ k.then \in {"fork", "reap"}
HasDir(k) ==
  /\ k.dir # 0 <=> Filling(k) \/ k.phase = "destroy"
  /\ k.then # "none" <=> k.phase \in {"map", "destroy"}
  /\ k.phase = "map" <=> k.then \in {"load", "stack", "sbrk"}
HasSpace(k) ==
  /\ k.phase \in Running \cup {"zombie", "reaped"} => k.sel /\ k.stack # 0 /\ k.cr3 \in Page
  /\ k.phase = "none" => ~ k.sel /\ k.cr3 = 0
  /\ k.own => k.phase \in Running /\ k.heap # 0
PeerOf(k, c) ==
  /\ k.phase \in Building \/ k.then = "fork" => c.phase = "new"
  /\ k.then = "reap" => c.phase = "reaped"
  /\ k.phase \in {"fork", "forkdir"} => c.cr3 = 0 /\ c.sel
  /\ k.phase # "fork" /\ c.sel => c.stack # 0
  /\ k.phase = "fork" => c.stack = 0
Shape(a) ==
  /\ \A t \in Task : HasDir(a[t]) /\ HasSpace(a[t])
  /\ \A t \in Task : OnPeer(a[t]) => PeerOf(a[t], a[a[t].peer])
  /\ \A t, u \in Task : OnPeer(a[t]) /\ OnPeer(a[u]) /\ a[t].peer = a[u].peer => t = u

(* The directory task_init made for a child that is not started is empty.   *)
Blank(m, a) ==
  \A c \in Task : a[c].phase = "new" /\ a[c].cr3 # 0 =>
                    a[c].cr3 \in Page /\ m.entry[a[c].cr3] = Empty

(* The roots of ownership: of each task its kernel stack, its directory and *)
(* the one it builds or destroys; the page, if it has one, and the place    *)
(* from where on what it leads to is held.                                  *)
Last == NSlot * W
Field == {"stack", "cr3", "dir"}
Base(a, u, f) ==
  CASE f = "stack" -> IF a[u].sel THEN a[u].stack ELSE 0
    [] f = "cr3" -> IF a[u].cr3 \in Page /\ a[u].phase # "reaped" THEN a[u].cr3 ELSE 0
    [] f = "dir" -> a[u].dir
From(a, u, f) ==
  CASE f = "stack" -> Last + 1
    [] f = "cr3" -> 1
    [] f = "dir" -> IF a[u].phase = "destroy" THEN a[u].at ELSE 1

(* The pages of a directory from a place on, and that they are a tree.      *)
Pages(m, d, from) == {d} \cup {At(m, d, k) : k \in Remaining(m, d, from)}
Tree(m, d, from) ==
  /\ \A k \in Remaining(m, d, from) : At(m, d, k) # d
  /\ \A k, l \in Remaining(m, d, from) : At(m, d, k) = At(m, d, l) => k = l
Of(m, a, u, f) == IF Base(a, u, f) = 0 THEN {} ELSE Pages(m, Base(a, u, f), From(a, u, f))

Trees(m, a) ==
  \A u \in Task, f \in Field :
    Base(a, u, f) # 0 => Tree(m, Base(a, u, f), From(a, u, f)) /\ Of(m, a, u, f) \subseteq m.used
Apart(m, a) ==
  \A u, v \in Task, f, g \in Field :
    u # v \/ f # g => Of(m, a, u, f) \cap Of(m, a, v, g) = {}

(* What the directories map.  MayUse: what a program whose heap end is its   *)
(* own has; Built: what a directory that execve fills has so far; less of    *)
(* both when memory ran out.                                                 *)
Exactly(m, d, S) == Mapped(m, d) \subseteq S /\ (~ m.oom => S \subseteq Mapped(m, d))
Below(h) == {v \in UPage : v * Unit < h}
MayUse(k) == Below(k.heap) \cup {StackPage} \cup {v \in UPage : Mapping(k, "sbrk") /\ v < k.at}
Built(k) ==
  {v \in UPage : \/ Mapping(k, "load") /\ v < k.at
                 \/ (k.phase = "loaded" \/ Mapping(k, "stack")) /\ v * Unit < k.heap
                 \/ Mapping(k, "stack") /\ StackPage <= v /\ v < k.at}

(* The rounds of memory_alloc_for_page_dir that are left end where they      *)
(* should (Goal), and all of them come unless memory runs out or the kernel  *)
(* stops, which only a heap end that is not the program's own can make it.   *)
Start(k) == CASE k.then = "load" -> 1 [] k.then = "stack" -> StackPage [] k.then = "sbrk" -> PagesFor(k.heap)
Goal(k) ==
  CASE k.then = "load" -> 1 + PagesFor(k.size)
    [] k.then = "stack" -> StackPage + 1
    [] k.then = "sbrk" -> PagesFor(k.heap + k.size)
Rounds(m, k) ==
  /\ k.phase = "loaded" \/ Mapping(k, "stack") => \E s \in ProgSize : k.heap = Unit + s
  /\ Mapping(k, "load") => k.size \in ProgSize
  /\ Mapping(k, "sbrk") => k.heap + k.size <= Unit * StackPage
  /\ k.phase = "map" =>
       /\ Start(k) <= k.at /\ k.at + k.left <= Goal(k)
       /\ ~ m.oom /\ (k.own \/ k.then # "sbrk") => k.at + k.left = Goal(k)

MapsOf(m, k) ==
  /\ k.own /\ k.phase \in Running => Exactly(m, k.cr3, MayUse(k))
  /\ Loading(k) => Exactly(m, k.dir, Built(k))
  /\ k.phase = "copy" => Mapped(m, k.dir) = {v \in Mapped(m, k.cr3) : v < k.at}
  /\ Rounds(m, k)
Maps(m, a) == \A t \in Task : MapsOf(m, a[t])

Owning(m, a) == Trees(m, a) /\ Apart(m, a)
Sound(m, a) ==
  IsMem(m) /\ a \in [Task -> TaskType] /\ Shape(a) /\ Blank(m, a) /\ Owning(m, a) /\ Maps(m, a)

(* Nobody stops the kernel but an sbrk on a heap end of another program.     *)
Stopped(m, a) == m.panic => \E t \in Task : a[t].then = "sbrk" /\ ~ a[t].own
MemInv == Sound(mem, task) /\ Stopped(mem, task)

-----------------------------------------------------------------------------
(* The bitmap and single pages.                                             *)

(* Pages are numbers, and neither 0 nor the error value is one.             *)
LEMMA PageFacts ==
  /\ Max(PhysSizes) \in Nat /\ Max(PhysSizes) >= 4
  /\ \A n \in PhysSizes : n \in Nat /\ 1 .. n \subseteq Page
  /\ Page \subseteq Nat /\ 0 \notin Page /\ BAD \notin Page /\ BAD # 0
  /\ Empty \in [1 .. NSlot -> Page \cup {0}]
<1>1. Max(PhysSizes) \in Nat /\ Max(PhysSizes) >= 4
  BY MemoryAssumption
<1>2. \A n \in PhysSizes : n \in Nat /\ 1 .. n \subseteq Page
  BY <1>1, MemoryAssumption DEF Page
<1>3. Page \subseteq Nat /\ 0 \notin Page /\ BAD \notin Page /\ BAD # 0
  BY <1>1 DEF Page, BAD
<1>4. Empty \in [1 .. NSlot -> Page \cup {0}]
  BY DEF Empty
<1> QED  BY <1>1, <1>2, <1>3, <1>4

(* The page the bitmap finds is free, and it finds none only if none is.    *)
LEMMA FreeFacts ==
  ASSUME NEW m, IsMem(m)
  PROVE  \/ FirstFree(m) = 0 /\ m.used = 1 .. m.size
         \/ FirstFree(m) \in 1 .. m.size /\ FirstFree(m) \in Page /\ FirstFree(m) \notin m.used
<1> DEFINE free == (1 .. m.size) \ m.used
<1>1. m.size \in Nat /\ 1 .. m.size \subseteq Page /\ free \subseteq Nat
  BY PageFacts DEF IsMem, MemType
<1>2. CASE free = {}
  BY <1>2 DEF FirstFree, IsMem
<1>3. CASE free # {}
  <2>1. FirstFree(m) = Min(free)
    BY <1>3 DEF FirstFree
  <2>2. Min(free) \in free
    BY <1>1, <1>3, MinExists
  <2> QED  BY <1>1, <2>1, <2>2
<1> QED  BY <1>2, <1>3

(* Taking a page (bitmap_alloc_nbits for one page).                         *)
LEMMA TakeFacts ==
  ASSUME NEW m, IsMem(m)
  PROVE  /\ IsMem(Take(m)) /\ Take(m).entry = m.entry /\ Take(m).size = m.size
         /\ Take(m).panic = m.panic /\ (m.oom => Take(m).oom)
         /\ FirstFree(m) = 0 => Take(m).used = m.used /\ Take(m).oom
         /\ FirstFree(m) # 0 => Take(m).used = m.used \cup {FirstFree(m)} /\ Take(m).oom = m.oom
<1>1. m \in MemType /\ m.used \subseteq 1 .. m.size
  BY DEF IsMem
<1>2. CASE FirstFree(m) = 0
  <2>1. Take(m) = [m EXCEPT !.oom = TRUE]
    BY <1>2 DEF Take
  <2> QED  BY <1>1, <1>2, <2>1 DEF IsMem, MemType
<1>3. CASE FirstFree(m) # 0
  <2>1. Take(m) = [m EXCEPT !.used = m.used \cup {FirstFree(m)}]
    BY <1>3 DEF Take
  <2>2. FirstFree(m) \in 1 .. m.size /\ FirstFree(m) \in Page
    BY <1>3, FreeFacts
  <2> QED  BY <1>1, <1>3, <2>1, <2>2 DEF IsMem, MemType
<1> QED  BY <1>2, <1>3

(* Taking a page and clearing it (find_pte, memory_create_uvm).             *)
LEMMA TakeTableFacts ==
  ASSUME NEW m, IsMem(m)
  PROVE  /\ IsMem(TakeTable(m)) /\ TakeTable(m).size = m.size
         /\ TakeTable(m).panic = m.panic /\ (m.oom => TakeTable(m).oom)
         /\ FirstFree(m) = 0 => /\ TakeTable(m).used = m.used /\ TakeTable(m).oom
                                /\ TakeTable(m).entry = m.entry
         /\ FirstFree(m) # 0 =>
              /\ TakeTable(m).used = m.used \cup {FirstFree(m)} /\ TakeTable(m).oom = m.oom
              /\ TakeTable(m).entry = [m.entry EXCEPT ![FirstFree(m)] = Empty]
<1>1. IsMem(Take(m)) /\ Take(m).entry = m.entry
  BY TakeFacts
<1>2. CASE FirstFree(m) = 0
  BY <1>2, TakeFacts DEF TakeTable
<1>3. CASE FirstFree(m) # 0
  <2> DEFINE n == Take(m)
  <2>1. TakeTable(m) = [n EXCEPT !.entry = [n.entry EXCEPT ![FirstFree(m)] = Empty]]
    BY <1>3 DEF TakeTable
  <2>2. FirstFree(m) \in Page /\ Empty \in [1 .. NSlot -> Page \cup {0}]
    BY <1>3, FreeFacts, PageFacts
  <2>3. n \in MemType /\ n.used \subseteq 1 .. n.size
    BY <1>1 DEF IsMem
  <2>4. n.entry = m.entry /\ n.size = m.size /\ n.panic = m.panic /\ (m.oom => n.oom)
        /\ n.used = m.used \cup {FirstFree(m)} /\ n.oom = m.oom
    BY <1>3, TakeFacts
  <2> HIDE DEF n
  <2> QED  BY <1>3, <2>1, <2>2, <2>3, <2>4 DEF IsMem, MemType
<1> QED  BY <1>2, <1>3

(* Freeing a page (addr_free_page).                                         *)
LEMMA GiveFacts ==
  ASSUME NEW m, IsMem(m), NEW p \in Page
  PROVE  /\ IsMem(Give(m, p)) /\ Give(m, p).size = m.size
         /\ Give(m, p).panic = m.panic /\ Give(m, p).oom = m.oom
         /\ Give(m, p).used = m.used \ {p}
         /\ Give(m, p).entry = [m.entry EXCEPT ![p] = Empty]
<1>1. Give(m, p) = [m EXCEPT !.used = m.used \ {p}, !.entry = [m.entry EXCEPT ![p] = Empty]]
  BY DEF Give
<1>2. m \in MemType /\ m.used \subseteq 1 .. m.size
  BY DEF IsMem
<1>3. [m.entry EXCEPT ![p] = Empty] \in [Page -> [1 .. NSlot -> Page \cup {0}]]
  BY <1>2, PageFacts DEF MemType
<1> HIDE DEF Give
<1> DEFINE u == m.used \ {p}
           e == [m.entry EXCEPT ![p] = Empty]
<1>4. Give(m, p) = [m EXCEPT !.used = u, !.entry = e]
  BY <1>1
<1>5. u \subseteq m.used
  OBVIOUS
<1> HIDE DEF u, e
<1>6. /\ Give(m, p).used = u /\ Give(m, p).entry = e /\ Give(m, p).size = m.size
      /\ Give(m, p).panic = m.panic /\ Give(m, p).oom = m.oom
  BY <1>2, <1>4 DEF MemType
<1>7. IsMem(Give(m, p))
  BY <1>2, <1>3, <1>4, <1>5 DEF IsMem, MemType, e
<1> QED  BY <1>6, <1>7 DEF u, e

-----------------------------------------------------------------------------
(* What is at the places of a directory.                                    *)

(* What is at the place of a table: the entry of the directory.             *)
LEMMA AtTable ==
  ASSUME NEW m, NEW d, NEW i \in 1 .. NSlot
  PROVE  At(m, d, TableAt(i)) = m.entry[d][i]
BY TablePlaces DEF At

(* What is at the place of a page: the entry of the table, if there is one. *)
LEMMA AtPage ==
  ASSUME NEW m, NEW d, NEW i \in 1 .. NSlot, NEW j \in 1 .. NSlot
  PROVE  At(m, d, PageAt(i, j)) = IF m.entry[d][i] = 0 THEN 0 ELSE m.entry[m.entry[d][i]][j]
BY PagePlaces DEF At, MappedTo

(* The translation of a user page is what is at its place.                  *)
LEMMA MappedAt ==
  ASSUME NEW m, NEW d, NEW v \in UPage
  PROVE  /\ PageAt(DirIndex(v), TableIndex(v)) \in Place
         /\ MappedTo(m, d, v) = At(m, d, PageAt(DirIndex(v), TableIndex(v)))
<1>1. DirIndex(v) \in 1 .. NSlot /\ TableIndex(v) \in 1 .. NSlot
      /\ v = (DirIndex(v) - 1) * NSlot + TableIndex(v)
  BY UserPages
<1> DEFINE i == DirIndex(v)
           j == TableIndex(v)
<1>2. PageAt(i, j) \in Place /\ ~ IsTable(PageAt(i, j)) /\ PageOf(PageAt(i, j)) = (i - 1) * NSlot + j
  BY <1>1, PagePlaces
<1> QED  BY <1>1, <1>2 DEF At

(* A directory is read through the pages it still holds only.               *)
LEMMA Frame ==
  ASSUME NEW m, NEW n, IsMem(m), IsMem(n), NEW d \in Page, NEW from \in Nat,
         \A p \in Pages(m, d, from) : n.entry[p] = m.entry[p]
  PROVE  /\ \A k \in Place : k >= from => At(n, d, k) = At(m, d, k)
         /\ Remaining(n, d, from) = Remaining(m, d, from)
         /\ Pages(n, d, from) = Pages(m, d, from)
         /\ Tree(n, d, from) <=> Tree(m, d, from)
         /\ from = 1 => Mapped(n, d) = Mapped(m, d)
<1>1. n.entry[d] = m.entry[d]
  BY DEF Pages
<1>2. ASSUME NEW k \in Place, k >= from
      PROVE  At(n, d, k) = At(m, d, k)
  <2>1. CASE \E i \in 1 .. NSlot : k = TableAt(i)
    BY <1>1, <2>1, AtTable
  <2>2. CASE \E i, j \in 1 .. NSlot : k = PageAt(i, j)
    <3>1. PICK i \in 1 .. NSlot, j \in 1 .. NSlot : k = PageAt(i, j)
      BY <2>2
    <3> DEFINE tb == m.entry[d][i]
    <3>2. CASE tb = 0
      BY <1>1, <3>1, <3>2, AtPage
    <3>3. CASE tb # 0
      <4>1. TableAt(i) \in Place /\ TableAt(i) >= from
        <5>1. k < TableAt(i) /\ TableAt(i) \in Place /\ k \in Int /\ TableAt(i) \in Int
          BY <3>1, TablePlaces, PagePlaces DEF Place
        <5> QED  BY <1>2, <5>1
      <4>2. At(m, d, TableAt(i)) = tb
        BY AtTable
      <4>3. TableAt(i) \in Remaining(m, d, from)
        BY <3>3, <4>1, <4>2 DEF Remaining
      <4>4. tb \in Pages(m, d, from)
        BY <4>2, <4>3 DEF Pages
      <4>5. n.entry[tb] = m.entry[tb]
        BY <4>4
      <4> QED  BY <1>1, <3>1, <3>3, <4>5, AtPage
    <3> QED  BY <3>2, <3>3
  <2> QED  BY <2>1, <2>2, AllPlaces
<1>3. Remaining(n, d, from) = Remaining(m, d, from)
  BY <1>2 DEF Remaining
<1>4. \A k \in Remaining(m, d, from) : At(n, d, k) = At(m, d, k)
  BY <1>2 DEF Remaining
<1>5. Pages(n, d, from) = Pages(m, d, from)
  BY <1>3, <1>4 DEF Pages
<1>6. Tree(n, d, from) <=> Tree(m, d, from)
  BY <1>3, <1>4 DEF Tree
<1>7. ASSUME from = 1
      PROVE  Mapped(n, d) = Mapped(m, d)
  <2>1. \A v \in UPage : MappedTo(n, d, v) = MappedTo(m, d, v)
    BY <1>2, <1>7, MappedAt DEF Place
  <2> QED  BY <2>1 DEF Mapped
<1> QED  BY <1>2, <1>3, <1>5, <1>6, <1>7

(* A free place that gets a page the directory did not hold keeps it a tree, *)
(* and is all that it gains.                                                *)
LEMMA AddPlace ==
  ASSUME NEW m, NEW n, NEW d, NEW k \in Place, Tree(m, d, 1),
         \A l \in Place : l # k => At(n, d, l) = At(m, d, l),
         At(m, d, k) = 0, At(n, d, k) # 0, At(n, d, k) \notin Pages(m, d, 1)
  PROVE  /\ Tree(n, d, 1)
         /\ Pages(n, d, 1) = Pages(m, d, 1) \cup {At(n, d, k)}
<1>1. \A l \in Place : l >= 1
  BY DEF Place
<1>2. Remaining(n, d, 1) = Remaining(m, d, 1) \cup {k}
  BY <1>1 DEF Remaining
<1>3. \A l \in Remaining(m, d, 1) : l # k /\ At(n, d, l) = At(m, d, l)
                                    /\ At(m, d, l) \in Pages(m, d, 1)
  BY DEF Remaining, Pages
<1>4. d \in Pages(m, d, 1)
  BY DEF Pages
<1>5. \A l \in Remaining(n, d, 1) : At(n, d, l) # d
  BY <1>2, <1>3, <1>4 DEF Tree
<1>6. \A l, o \in Remaining(n, d, 1) : At(n, d, l) = At(n, d, o) => l = o
  BY <1>2, <1>3 DEF Tree
<1>7. {At(n, d, l) : l \in Remaining(m, d, 1)} = {At(m, d, l) : l \in Remaining(m, d, 1)}
  BY <1>3
<1>8. {At(n, d, l) : l \in Remaining(n, d, 1)}
        = {At(n, d, l) : l \in Remaining(m, d, 1)} \cup {At(n, d, k)}
  BY <1>2
<1> QED  BY <1>5, <1>6, <1>7, <1>8 DEF Tree, Pages

(* A page written to an entry of a table of the directory.                  *)
LEMMA PageAdded ==
  ASSUME NEW m, NEW n, IsMem(m), NEW d \in Page, Tree(m, d, 1), NEW v \in UPage,
         NEW tb \in Page, m.entry[d][DirIndex(v)] = tb,
         NEW p \in Page, p \notin Pages(m, d, 1), MappedTo(m, d, v) = 0,
         \A q \in Page : q # tb => n.entry[q] = m.entry[q],
         \A b \in 1 .. NSlot :
           n.entry[tb][b] = IF b = TableIndex(v) THEN p ELSE m.entry[tb][b]
  PROVE  /\ Tree(n, d, 1) /\ Pages(n, d, 1) = Pages(m, d, 1) \cup {p}
         /\ Mapped(n, d) = Mapped(m, d) \cup {v}
<1> DEFINE i == DirIndex(v)
           j == TableIndex(v)
           place == PageAt(i, j)
<1>1. i \in 1 .. NSlot /\ j \in 1 .. NSlot /\ v = (i - 1) * NSlot + j
  BY UserPages
<1>2. PageAt(i, j) \in Place /\ MappedTo(m, d, v) = At(m, d, PageAt(i, j))
  BY MappedAt
<1>3. TableAt(i) \in Remaining(m, d, 1) /\ At(m, d, TableAt(i)) = tb
  <2>1. TableAt(i) \in Place /\ TableAt(i) >= 1
    BY <1>1, TablePlaces DEF Place
  <2>2. At(m, d, TableAt(i)) = tb /\ tb # 0
    BY <1>1, AtTable, PageFacts
  <2> QED  BY <2>1, <2>2 DEF Remaining
<1>4. tb # d /\ tb # 0
  BY <1>3, PageFacts DEF Tree
<1>5. m.entry \in [Page -> [1 .. NSlot -> Page \cup {0}]]
  BY DEF IsMem, MemType
<1>6. n.entry[d] = m.entry[d]
  BY <1>4, <1>5
<1> HIDE DEF i, j
<1>7. \A a \in 1 .. NSlot : At(n, d, TableAt(a)) = At(m, d, TableAt(a))
  BY <1>6, AtTable
<1>8. ASSUME NEW a \in 1 .. NSlot, NEW b \in 1 .. NSlot, PageAt(a, b) # place
      PROVE  At(n, d, PageAt(a, b)) = At(m, d, PageAt(a, b))
  <2> DEFINE e == m.entry[d][a]
  <2>1. CASE e = 0
    BY <1>6, <2>1, AtPage
  <2>2. CASE e # 0 /\ e # tb
    <3>1. e \in Page
      <4>1. m.entry[d][a] \in Page \cup {0}
        BY <1>5
      <4> QED  BY <2>2, <4>1
    <3>2. n.entry[e] = m.entry[e]
      BY <1>5, <2>2, <3>1
    <3> QED  BY <1>6, <2>2, <3>2, AtPage
  <2>3. CASE e = tb
    <3>1. TableAt(a) \in Place /\ TableAt(a) >= 1 /\ At(m, d, TableAt(a)) = tb
      BY <2>3, TablePlaces, AtTable DEF Place
    <3>2. TableAt(a) \in Remaining(m, d, 1)
      BY <1>4, <3>1 DEF Remaining
    <3>3. TableAt(a) = TableAt(i)
      BY <1>3, <3>1, <3>2 DEF Tree
    <3>4. a = i
      BY <1>1, <3>3, TablePlaces
    <3>5. b # j
      BY <1>8, <3>4
    <3>6. n.entry[tb][b] = m.entry[tb][b]
      BY <1>5, <3>5 DEF j
    <3> QED  BY <1>4, <1>6, <2>3, <3>6, AtPage
  <2> QED  BY <2>1, <2>2, <2>3
<1>9. \A k \in Place : k # place => At(n, d, k) = At(m, d, k)
  BY <1>7, <1>8, AllPlaces
<1>10. At(n, d, PageAt(i, j)) = p
  <2>1. n.entry[tb][j] = p
    BY <1>1, <1>5 DEF j
  <2>2. n.entry[d][i] = tb
    BY <1>6 DEF i
  <2> QED  BY <1>1, <1>4, <2>1, <2>2, AtPage
<1>11. p # 0
  BY PageFacts
<1>12. Tree(n, d, 1) /\ Pages(n, d, 1) = Pages(m, d, 1) \cup {At(n, d, place)}
  <2>1. \A l \in Place : l # place => At(n, d, l) = At(m, d, l)
    BY <1>9
  <2>2. At(m, d, place) = 0 /\ At(n, d, place) # 0 /\ At(n, d, place) \notin Pages(m, d, 1)
    BY <1>2, <1>10, <1>11
  <2>3. place \in Place
    BY <1>2
  <2> HIDE DEF place
  <2> QED  BY <2>1, <2>2, <2>3, AddPlace
<1>13. At(n, d, place) = p
  BY <1>10
<1>14. ASSUME NEW u \in UPage
       PROVE  MappedTo(n, d, u) # 0 <=> MappedTo(m, d, u) # 0 \/ u = v
  <2> DEFINE k == PageAt(DirIndex(u), TableIndex(u))
  <2>1. k \in Place /\ MappedTo(m, d, u) = At(m, d, k) /\ MappedTo(n, d, u) = At(n, d, k)
    BY MappedAt
  <2>2. PageOf(k) = u
    <3>1. DirIndex(u) \in 1 .. NSlot /\ TableIndex(u) \in 1 .. NSlot
          /\ u = (DirIndex(u) - 1) * NSlot + TableIndex(u)
      BY UserPages
    <3> QED  BY <3>1, PagePlaces
  <2>3. PageOf(PageAt(i, j)) = v
    BY <1>1, PagePlaces
  <2>4. CASE k = PageAt(i, j)
    BY <1>10, <1>11, <2>1, <2>2, <2>3, <2>4
  <2>5. CASE k # PageAt(i, j)
    <3>1. u # v
      BY <2>5 DEF i, j
    <3> QED  BY <1>9, <2>1, <2>5, <3>1
  <2> QED  BY <2>4, <2>5
<1>15. Mapped(n, d) = Mapped(m, d) \cup {v}
  BY <1>14 DEF Mapped
<1> QED  BY <1>12, <1>13, <1>15

(* An empty table written to an entry of the directory.                     *)
LEMMA TableAdded ==
  ASSUME NEW m, NEW n, IsMem(m), NEW d \in Page, Tree(m, d, 1), NEW i \in 1 .. NSlot,
         m.entry[d][i] = 0, NEW tb \in Page, tb \notin Pages(m, d, 1),
         n.entry[tb] = Empty,
         \A q \in Page : q # tb /\ q # d => n.entry[q] = m.entry[q],
         \A a \in 1 .. NSlot : n.entry[d][a] = IF a = i THEN tb ELSE m.entry[d][a]
  PROVE  /\ Tree(n, d, 1) /\ Pages(n, d, 1) = Pages(m, d, 1) \cup {tb}
         /\ Mapped(n, d) = Mapped(m, d)
<1> DEFINE place == TableAt(i)
<1>1. m.entry \in [Page -> [1 .. NSlot -> Page \cup {0}]]
  BY DEF IsMem, MemType
<1>2. tb # d /\ tb # 0
  BY PageFacts DEF Pages
<1>4. ASSUME NEW a \in 1 .. NSlot
      PROVE  At(n, d, TableAt(a)) = IF a = i THEN tb ELSE At(m, d, TableAt(a))
  <2>1. At(n, d, TableAt(a)) = n.entry[d][a] /\ At(m, d, TableAt(a)) = m.entry[d][a]
    BY AtTable
  <2> QED  BY <2>1
<1>5. ASSUME NEW a \in 1 .. NSlot, NEW b \in 1 .. NSlot
      PROVE  At(n, d, PageAt(a, b)) = At(m, d, PageAt(a, b))
  <2>1. CASE a = i
    <3>1. At(m, d, PageAt(a, b)) = 0
      BY <2>1, AtPage
    <3>2. n.entry[d][a] = tb /\ n.entry[tb][b] = 0
      BY <2>1 DEF Empty
    <3> QED  BY <1>2, <3>1, <3>2, AtPage
  <2>2. CASE a # i
    <3> DEFINE e == m.entry[d][a]
    <3>1. n.entry[d][a] = e
      BY <2>2
    <3>2. CASE e = 0
      BY <3>1, <3>2, AtPage
    <3>3. CASE e # 0
      <4>1. TableAt(a) \in Place /\ TableAt(a) >= 1 /\ At(m, d, TableAt(a)) = e
        BY TablePlaces, AtTable DEF Place
      <4>2. TableAt(a) \in Remaining(m, d, 1)
        BY <3>3, <4>1 DEF Remaining
      <4>3. e # d /\ e \in Pages(m, d, 1)
        BY <4>1, <4>2 DEF Tree, Pages
      <4>4. e \in Page /\ e # tb
        <5>1. m.entry[d][a] \in Page \cup {0}
          BY <1>1
        <5> QED  BY <3>3, <4>3, <5>1
      <4>5. n.entry[e] = m.entry[e]
        BY <4>3, <4>4
      <4> QED  BY <3>1, <3>3, <4>5, AtPage
    <3> QED  BY <3>2, <3>3
  <2> QED  BY <2>1, <2>2
<1>6. \A k \in Place : k # place => At(n, d, k) = At(m, d, k)
  BY <1>4, <1>5, AllPlaces
<1>7. At(m, d, TableAt(i)) = 0 /\ At(n, d, TableAt(i)) = tb
  BY <1>4, AtTable
<1>8. Tree(n, d, 1) /\ Pages(n, d, 1) = Pages(m, d, 1) \cup {At(n, d, place)}
  <2>1. place \in Place
    BY TablePlaces
  <2>2. At(m, d, place) = 0 /\ At(n, d, place) # 0 /\ At(n, d, place) \notin Pages(m, d, 1)
    BY <1>2, <1>7
  <2> HIDE DEF place
  <2> QED  BY <1>6, <2>1, <2>2, AddPlace
<1>9. At(n, d, place) = tb
  BY <1>7
<1>10. \A u \in UPage : MappedTo(n, d, u) = MappedTo(m, d, u)
  BY <1>5, MappedAt, UserPages
<1> QED  BY <1>8, <1>9, <1>10 DEF Mapped

-----------------------------------------------------------------------------
(* Mapping pages into a directory that nothing else leads to.               *)

(* n is m after pages were mapped into d: what is outside d stays as it is,  *)
(* d gains pages that were free, and a page that was taken is d's unless    *)
(* memory ran out.                                                          *)
Grows(m, n, d) ==
  /\ IsMem(n) /\ n.size = m.size /\ m.used \subseteq n.used
  /\ \A p \in m.used : p \notin Pages(m, d, 1) => n.entry[p] = m.entry[p]
  /\ Tree(n, d, 1) /\ Pages(m, d, 1) \subseteq Pages(n, d, 1) /\ Pages(n, d, 1) \subseteq n.used
  /\ Pages(n, d, 1) \cap m.used \subseteq Pages(m, d, 1)
  /\ m.oom => n.oom
  /\ m.panic => n.panic
  /\ n.used \subseteq m.used \cup Pages(n, d, 1) \/ n.used = 1 .. n.size \/ n.panic

(* Nothing done grows nothing.                                              *)
LEMMA GrowsSame ==
  ASSUME NEW m, IsMem(m), NEW d, Tree(m, d, 1), Pages(m, d, 1) \subseteq m.used
  PROVE  Grows(m, m, d)
BY DEF Grows

(* One mapping after another.                                               *)
LEMMA GrowsOn ==
  ASSUME NEW m, NEW n, NEW o, NEW d, Grows(m, n, d), Grows(n, o, d)
  PROVE  Grows(m, o, d)
<1>1. /\ IsMem(o) /\ o.size = m.size /\ m.used \subseteq o.used
      /\ Tree(o, d, 1) /\ Pages(m, d, 1) \subseteq Pages(o, d, 1) /\ Pages(o, d, 1) \subseteq o.used
      /\ (m.oom => o.oom) /\ (m.panic => o.panic)
  BY DEF Grows
<1>2. ASSUME NEW p \in m.used, p \notin Pages(m, d, 1)
      PROVE  o.entry[p] = m.entry[p]
  <2>1. p \in n.used /\ p \notin Pages(n, d, 1) /\ n.entry[p] = m.entry[p]
    BY <1>2 DEF Grows
  <2>2. \A q \in n.used : q \notin Pages(n, d, 1) => o.entry[q] = n.entry[q]
    BY DEF Grows
  <2> QED  BY <2>1, <2>2
<1>3. Pages(o, d, 1) \cap m.used \subseteq Pages(m, d, 1)
  BY DEF Grows
<1>4. o.used \subseteq m.used \cup Pages(o, d, 1) \/ o.used = 1 .. o.size \/ o.panic
  <2>1. n.used \subseteq m.used \cup Pages(n, d, 1) \/ n.used = 1 .. n.size \/ n.panic
    BY DEF Grows
  <2>2. o.used \subseteq n.used \cup Pages(o, d, 1) \/ o.used = 1 .. o.size \/ o.panic
    BY DEF Grows
  <2>3. Pages(n, d, 1) \subseteq Pages(o, d, 1) /\ n.used \subseteq o.used /\ o.size = n.size
        /\ (n.panic => o.panic) /\ o.used \subseteq 1 .. o.size
    BY DEF Grows, IsMem
  <2>4. CASE n.used \subseteq m.used \cup Pages(n, d, 1)
    BY <2>2, <2>3, <2>4
  <2>5. CASE n.used = 1 .. n.size
    BY <2>3, <2>5
  <2>6. CASE n.panic
    BY <2>3, <2>6
  <2> QED  BY <2>1, <2>4, <2>5, <2>6
<1> QED  BY <1>1, <1>2, <1>3, <1>4 DEF Grows

(* A page is taken and not mapped: memory ran out, or the kernel stops.     *)
LEMMA GrowsLost ==
  ASSUME NEW m, NEW n, IsMem(m), IsMem(n), NEW d \in Page, Tree(m, d, 1),
         Pages(m, d, 1) \subseteq m.used,
         n.size = m.size, m.used \subseteq n.used, m.oom => n.oom, m.panic => n.panic,
         n.entry = m.entry, n.used \subseteq m.used \/ n.used = 1 .. n.size \/ n.panic
  PROVE  Grows(m, n, d) /\ Mapped(n, d) = Mapped(m, d)
<1>1. Pages(n, d, 1) = Pages(m, d, 1) /\ (Tree(n, d, 1) <=> Tree(m, d, 1))
      /\ Mapped(n, d) = Mapped(m, d)
  BY Frame
<1> QED  BY <1>1 DEF Grows

(* The two entries memory_create_map writes.                                *)
Enter(m, d, i, tb, j, p) == [m EXCEPT !.entry[d][i] = tb, !.entry[tb][j] = p]

Entered(m, n, d, i, tb, j, p) ==
  /\ IsMem(n) /\ n.size = m.size /\ n.used = m.used /\ n.oom = m.oom /\ n.panic = m.panic
  /\ \A q \in Page : q # tb /\ q # d => n.entry[q] = m.entry[q]
  /\ \A a \in 1 .. NSlot : n.entry[d][a] = IF a = i THEN tb ELSE m.entry[d][a]
  /\ \A b \in 1 .. NSlot : n.entry[tb][b] = IF b = j THEN p ELSE m.entry[tb][b]
  /\ n.entry[d] = [m.entry[d] EXCEPT ![i] = tb]

(* They are all that changes.                                               *)
LEMMA TwoEntries ==
  ASSUME NEW m, IsMem(m), NEW d \in Page, NEW tb \in Page, tb # d,
         NEW i \in 1 .. NSlot, NEW j \in 1 .. NSlot, NEW p \in Page,
         NEW n, n = Enter(m, d, i, tb, j, p)
  PROVE  Entered(m, n, d, i, tb, j, p)
<1> DEFINE row == [m.entry[d] EXCEPT ![i] = tb]
           col == [m.entry[tb] EXCEPT ![j] = p]
           en == [m.entry EXCEPT ![d] = row, ![tb] = col]
<1>1. m.entry \in [Page -> [1 .. NSlot -> Page \cup {0}]] /\ m \in MemType
  BY DEF IsMem, MemType
<1>2. m.entry[d] \in [1 .. NSlot -> Page \cup {0}] /\ m.entry[tb] \in [1 .. NSlot -> Page \cup {0}]
  BY <1>1
<1>3. /\ row \in [1 .. NSlot -> Page \cup {0}] /\ col \in [1 .. NSlot -> Page \cup {0}]
      /\ \A a \in 1 .. NSlot : row[a] = IF a = i THEN tb ELSE m.entry[d][a]
      /\ \A b \in 1 .. NSlot : col[b] = IF b = j THEN p ELSE m.entry[tb][b]
  BY <1>2
<1>4. n = [m EXCEPT !.entry = en]
  BY <1>1 DEF MemType, Enter
<1> HIDE DEF row, col
<1>5. /\ en \in [Page -> [1 .. NSlot -> Page \cup {0}]] /\ en[d] = row /\ en[tb] = col
      /\ \A q \in Page : q # tb /\ q # d => en[q] = m.entry[q]
  BY <1>1, <1>3
<1> HIDE DEF en
<1>6. IsMem(n) /\ n.size = m.size /\ n.used = m.used /\ n.oom = m.oom /\ n.panic = m.panic
      /\ n.entry = en
  BY <1>1, <1>4, <1>5 DEF IsMem, MemType
<1> QED  BY <1>3, <1>5, <1>6 DEF row, Entered

(* Mapping one page (memory_create_map for one page) grows the directory.   *)
LEMMA MapOneGrows ==
  ASSUME NEW m, IsMem(m), NEW d \in Page, Tree(m, d, 1), Pages(m, d, 1) \subseteq m.used,
         NEW v \in 0 .. StackPage
  PROVE  /\ Grows(m, MapOne(m, d, v).mem, d) /\ MapOne(m, d, v).ok \in BOOLEAN
         /\ MapOne(m, d, v).ok =>
              v \in UPage /\ Mapped(MapOne(m, d, v).mem, d) = Mapped(m, d) \cup {v}
              /\ MapOne(m, d, v).mem.panic = m.panic
         /\ ~ MapOne(m, d, v).ok =>
              (MapOne(m, d, v).mem.oom \/ MapOne(m, d, v).mem.panic)
              /\ Mapped(MapOne(m, d, v).mem, d) = Mapped(m, d)
         /\ MapOne(m, d, v).mem.panic => m.panic \/ v = 0 \/ v \in Mapped(m, d)
<1> DEFINE p == FirstFree(m)
           m1 == Take(m)
           r == MapOne(m, d, v)
<1>1. IsMem(m1) /\ m1.entry = m.entry /\ m1.size = m.size /\ m1.panic = m.panic /\ (m.oom => m1.oom)
  BY TakeFacts
<1>2. CASE p = 0
  <2>1. r = [ok |-> FALSE, mem |-> m1]
    BY <1>2 DEF MapOne
  <2>2. m1.used = m.used /\ m1.oom
    BY <1>2, TakeFacts
  <2>3. Grows(m, m1, d) /\ Mapped(m1, d) = Mapped(m, d)
    BY <1>1, <2>2, GrowsLost
  <2> QED  BY <1>1, <2>1, <2>2, <2>3
<1>3. ASSUME p # 0
      PROVE  /\ p \in 1 .. m.size /\ p \in Page /\ p \notin m.used
             /\ m1.used = m.used \cup {p} /\ m1.oom = m.oom
  BY <1>3, FreeFacts, TakeFacts
<1>4. CASE p # 0 /\ (v = 0 \/ MappedTo(m, d, v) # 0)
  <2> DEFINE n == [m1 EXCEPT !.panic = TRUE]
  <2>1. r = [ok |-> FALSE, mem |-> n]
    BY <1>4 DEF MapOne
  <2>2. /\ IsMem(n) /\ n.size = m1.size /\ n.used = m1.used /\ n.oom = m1.oom /\ n.panic = TRUE
        /\ n.entry = m1.entry
    BY <1>1 DEF IsMem, MemType
  <2>3. Grows(m, n, d) /\ Mapped(n, d) = Mapped(m, d)
    <3> HIDE DEF n, m1, p
    <3> QED  BY <1>1, <1>3, <1>4, <2>2, GrowsLost
  <2>4. v # 0 => v \in Mapped(m, d)
    BY <1>4 DEF Mapped, UPage, StackPage
  <2> HIDE DEF n
  <2> QED  BY <2>1, <2>2, <2>3, <2>4
<1>5. CASE p # 0 /\ ~ (v = 0 \/ MappedTo(m, d, v) # 0)
  <2> DEFINE i == DirIndex(v)
             j == TableIndex(v)
             e == m.entry[d][i]
  <2>1. v \in UPage
    BY <1>5 DEF UPage, StackPage
  <2>2. i \in 1 .. NSlot /\ j \in 1 .. NSlot
    BY <2>1, UserPages
  <2>3. m.entry \in [Page -> [1 .. NSlot -> Page \cup {0}]]
    BY DEF IsMem, MemType
  <2>4. e \in Page \cup {0}
    BY <2>2, <2>3
  <2>5. d \in m.used /\ d \in Pages(m, d, 1)
    BY DEF Pages
  <2>6. p \notin Pages(m, d, 1) /\ p # d
    BY <1>3, <1>5, <2>5
  <2>7. CASE e # 0
    <3> DEFINE n == Enter(m1, d, i, e, j, p)
    <3>1. r = [ok |-> TRUE, mem |-> n]
      BY <1>5, <2>7 DEF MapOne, Enter
    <3>2. e \in Pages(m, d, 1) /\ e # d /\ e \in Page
      <4>1. TableAt(i) \in Place /\ TableAt(i) >= 1 /\ At(m, d, TableAt(i)) = e
        BY <2>2, TablePlaces, AtTable DEF Place
      <4>2. TableAt(i) \in Remaining(m, d, 1)
        BY <2>7, <4>1 DEF Remaining
      <4> QED  BY <2>4, <2>7, <4>1, <4>2 DEF Pages, Tree
    <3>3. /\ IsMem(n) /\ n.size = m1.size /\ n.used = m1.used /\ n.oom = m1.oom /\ n.panic = m1.panic
          /\ \A q \in Page : q # e /\ q # d => n.entry[q] = m.entry[q]
          /\ n.entry[d] = [m.entry[d] EXCEPT ![i] = e]
          /\ \A b \in 1 .. NSlot : n.entry[e][b] = IF b = j THEN p ELSE m.entry[e][b]
      <4>1. p \in Page /\ n = Enter(m1, d, i, e, j, p)
        BY <1>3, <1>5
      <4> HIDE DEF m1, p, i, j, e, n, r
      <4>2. Entered(m1, n, d, i, e, j, p)
        BY <1>1, <2>2, <3>2, <4>1, TwoEntries
      <4> QED  BY <1>1, <4>2 DEF Entered
    <3>4. n.entry[d] = m.entry[d]
      <4>1. m.entry[d] \in [1 .. NSlot -> Page \cup {0}]
        BY <2>3
      <4> HIDE DEF n
      <4> QED  BY <3>3, <4>1
    <3> HIDE DEF n
    <3>5. \A q \in Page : q # e => n.entry[q] = m.entry[q]
      BY <3>3, <3>4
    <3>6. Tree(n, d, 1) /\ Pages(n, d, 1) = Pages(m, d, 1) \cup {p} /\ Mapped(n, d) = Mapped(m, d) \cup {v}
      <4>1. p \in Page /\ MappedTo(m, d, v) = 0
        BY <1>3, <1>5
      <4> HIDE DEF m1, p, r
      <4> QED  BY <2>1, <2>6, <3>2, <3>3, <3>5, <4>1, PageAdded
    <3>7. Grows(m, n, d)
      <4>1. /\ IsMem(n) /\ n.size = m.size /\ n.used = m.used \cup {p} /\ p \notin m.used
            /\ n.oom = m.oom /\ n.panic = m.panic
        BY <1>1, <1>3, <1>5, <3>3
      <4>2. \A q \in m.used : q \notin Pages(m, d, 1) => n.entry[q] = m.entry[q]
        <5>1. m.used \subseteq Page
          BY DEF IsMem, MemType
        <5> QED  BY <3>2, <3>5, <5>1
      <4> HIDE DEF p
      <4> QED  BY <3>6, <4>1, <4>2 DEF Grows
    <3> QED  BY <1>1, <2>1, <3>1, <3>3, <3>6, <3>7
  <2>8. CASE e = 0
    <3> DEFINE tb == FirstFree(m1)
               m2 == TakeTable(m1)
               n == Enter(m2, d, i, tb, j, p)
    <3>1. r = IF tb = 0 THEN [ok |-> FALSE, mem |-> m2] ELSE [ok |-> TRUE, mem |-> n]
      BY <1>5, <2>8 DEF MapOne, Enter
    <3>2. m1.used = m.used \cup {p} /\ m1.oom = m.oom /\ p \in Page /\ p \notin m.used
      BY <1>3, <1>5
    <3>3. IsMem(m2) /\ m2.size = m1.size /\ m2.panic = m1.panic
      BY <1>1, TakeTableFacts
    <3>4. CASE tb = 0
      <4>1. m2.used = m1.used /\ m2.oom /\ m2.entry = m1.entry /\ m1.used = 1 .. m1.size
        <5>1. m1.used = 1 .. m1.size
          <6> HIDE DEF m1
          <6> QED  BY <1>1, <3>4, FreeFacts, PageFacts DEF IsMem, MemType
        <5>2. m2.used = m1.used /\ m2.oom /\ m2.entry = m1.entry
          BY <1>1, <3>4, TakeTableFacts
        <5> QED  BY <5>1, <5>2
      <4>2. Grows(m, m2, d) /\ Mapped(m2, d) = Mapped(m, d)
        <5>1. m2.size = m.size /\ m.used \subseteq m2.used /\ m2.oom /\ m2.panic = m.panic
              /\ m2.entry = m.entry /\ m2.used = 1 .. m2.size
          BY <1>1, <3>2, <3>3, <4>1
        <5> HIDE DEF m2, m1, p
        <5> QED  BY <3>3, <5>1, GrowsLost
      <4> HIDE DEF m2
      <4> QED  BY <1>1, <3>1, <3>3, <3>4, <4>1, <4>2
    <3>5. CASE tb # 0
      <4>1. /\ tb \in Page /\ tb \notin m1.used /\ m2.used = m1.used \cup {tb} /\ m2.oom = m1.oom
            /\ m2.entry = [m1.entry EXCEPT ![tb] = Empty]
        BY <1>1, <3>5, TakeTableFacts, FreeFacts
      <4>2. tb # d /\ tb # p /\ tb \notin m.used /\ tb \notin Pages(m, d, 1)
        BY <2>5, <3>2, <4>1
      <4>3. /\ m2.entry[tb] = Empty /\ m2.entry[d] = m.entry[d]
            /\ \A q \in Page : q # tb => m2.entry[q] = m.entry[q]
        <5> HIDE DEF m2, m1, tb
        <5> QED  BY <1>1, <2>3, <4>1, <4>2
      <4>4. /\ IsMem(n) /\ n.size = m2.size /\ n.used = m2.used /\ n.oom = m2.oom /\ n.panic = m2.panic
            /\ \A q \in Page : q # tb /\ q # d => n.entry[q] = m2.entry[q]
            /\ \A a \in 1 .. NSlot : n.entry[d][a] = IF a = i THEN tb ELSE m2.entry[d][a]
            /\ \A b \in 1 .. NSlot : n.entry[tb][b] = IF b = j THEN p ELSE m2.entry[tb][b]
            /\ n.entry[d] = [m2.entry[d] EXCEPT ![i] = tb]
        <5>1. n = Enter(m2, d, i, tb, j, p)
          OBVIOUS
        <5> HIDE DEF m2, m1, tb, p, i, j, e, n, r
        <5>2. Entered(m2, n, d, i, tb, j, p)
          BY <2>2, <3>2, <3>3, <4>1, <4>2, <5>1, TwoEntries
        <5> QED  BY <5>2 DEF Entered
      <4> DEFINE row == [m.entry[d] EXCEPT ![i] = tb]
                 en == [m.entry EXCEPT ![tb] = Empty, ![d] = row]
                 m3 == [m EXCEPT !.entry = en]
      <4>5. row \in [1 .. NSlot -> Page \cup {0}] /\ row = n.entry[d]
            /\ \A a \in 1 .. NSlot : row[a] = IF a = i THEN tb ELSE m.entry[d][a]
        <5>1. m.entry[d] \in [1 .. NSlot -> Page \cup {0}]
          BY <2>3
        <5> HIDE DEF m2, m1, tb, p, i, j, e, n
        <5> QED  BY <4>1, <4>3, <4>4, <5>1
      <4> HIDE DEF row
      <4>6. IsMem(m3) /\ m3.entry = en
        <5>1. m \in MemType /\ m.used \subseteq 1 .. m.size
          BY DEF IsMem
        <5>2. en \in [Page -> [1 .. NSlot -> Page \cup {0}]]
          <6> HIDE DEF tb
          <6> QED  BY <2>3, <4>5, PageFacts
        <5> HIDE DEF en
        <5> QED  BY <5>1, <5>2 DEF IsMem, MemType
      <4>7. /\ en[tb] = Empty /\ en[d] = row
            /\ \A q \in Page : q # tb /\ q # d => en[q] = m.entry[q]
        <5> HIDE DEF tb
        <5> QED  BY <2>3, <4>1, <4>2
      <4> HIDE DEF m3, en, n, m2, m1, tb, p, r
      <4>8. Tree(m3, d, 1) /\ Pages(m3, d, 1) = Pages(m, d, 1) \cup {tb} /\ Mapped(m3, d) = Mapped(m, d)
        <5> HIDE DEF i, j, e
        <5>1. m.entry[d][i] = 0
          BY <2>8 DEF e
        <5>2. /\ m3.entry[tb] = Empty
              /\ \A q \in Page : q # tb /\ q # d => m3.entry[q] = m.entry[q]
              /\ \A a \in 1 .. NSlot : m3.entry[d][a] = IF a = i THEN tb ELSE m.entry[d][a]
          BY <4>5, <4>6, <4>7
        <5> QED  BY <2>2, <4>1, <4>2, <5>1, <5>2, TableAdded
      <4>9. Tree(n, d, 1) /\ Pages(n, d, 1) = Pages(m3, d, 1) \cup {p}
            /\ Mapped(n, d) = Mapped(m3, d) \cup {v}
        <5>1. m3.entry[d][DirIndex(v)] = tb
          BY <2>2, <4>5, <4>6, <4>7
        <5>2. MappedTo(m3, d, v) = 0
          <6>1. v \notin Mapped(m, d)
            BY <1>5 DEF Mapped
          <6> QED  BY <2>1, <4>8, <6>1 DEF Mapped
        <5>3. \A q \in Page : q # tb => n.entry[q] = m3.entry[q]
          BY <4>3, <4>4, <4>5, <4>6, <4>7
        <5>4. \A b \in 1 .. NSlot : n.entry[tb][b] = IF b = TableIndex(v) THEN p ELSE m3.entry[tb][b]
          BY <4>3, <4>4, <4>6, <4>7
        <5>5. p \notin Pages(m3, d, 1) /\ p \in Page /\ tb \in Page
          BY <2>6, <3>2, <4>1, <4>2, <4>8
        <5> HIDE DEF i, j, e
        <5> QED  BY <2>1, <4>6, <4>8, <5>1, <5>2, <5>3, <5>4, <5>5, PageAdded
      <4>10. Grows(m, n, d)
        <5>1. Pages(n, d, 1) = Pages(m, d, 1) \cup {tb, p} /\ Tree(n, d, 1)
          BY <4>8, <4>9
        <5>2. /\ IsMem(n) /\ n.size = m.size /\ n.used = m.used \cup {tb, p}
              /\ n.oom = m.oom /\ n.panic = m.panic
          BY <1>1, <3>2, <3>3, <4>1, <4>4
        <5>3. \A q \in m.used : q \notin Pages(m, d, 1) => n.entry[q] = m.entry[q]
          <6>1. m.used \subseteq Page
            BY DEF IsMem, MemType
          <6> QED  BY <2>5, <4>2, <4>3, <4>4, <6>1
        <5> QED  BY <3>2, <4>2, <5>1, <5>2, <5>3 DEF Grows
      <4>11. r = [ok |-> TRUE, mem |-> n]
        BY <3>1, <3>5
      <4> QED  BY <1>1, <2>1, <3>3, <4>4, <4>8, <4>9, <4>10, <4>11 DEF r
    <3> QED  BY <3>4, <3>5
  <2> QED  BY <2>7, <2>8
<1> QED  BY <1>2, <1>4, <1>5

(* The base and the start of each root.                                     *)
LEMMA Bases ==
  ASSUME NEW a, NEW u
  PROVE  /\ Base(a, u, "stack") = IF a[u].sel THEN a[u].stack ELSE 0
         /\ Base(a, u, "cr3") = IF a[u].cr3 \in Page /\ a[u].phase # "reaped" THEN a[u].cr3 ELSE 0
         /\ Base(a, u, "dir") = a[u].dir
         /\ From(a, u, "stack") = Last + 1 /\ From(a, u, "cr3") = 1
         /\ From(a, u, "dir") = IF a[u].phase = "destroy" THEN a[u].at ELSE 1
BY DEF Base, From

(* They are pages and places.                                               *)
LEMMA BaseTypes ==
  ASSUME NEW a \in [Task -> TaskType], NEW u \in Task, NEW f \in Field
  PROVE  Base(a, u, f) \in Page \cup {0} /\ From(a, u, f) \in Nat
<1>1. a[u] \in TaskType
  OBVIOUS
<1>2. a[u].stack \in Page \cup {0} /\ a[u].dir \in Page \cup {0} /\ a[u].at \in Nat
  BY <1>1 DEF TaskType
<1>3. Last + 1 \in Nat
  BY Sizes DEF Last
<1>4. f = "stack" \/ f = "cr3" \/ f = "dir"
  BY DEF Field
<1> QED  BY <1>2, <1>3, <1>4, Bases

(* Root (u, f) of b is root (v, g) of a, or nothing, and what a page of it  *)
(* holds is as it was.                                                      *)
Untouched(m, n, a, v, g) == \A p \in Of(m, a, v, g) : p \in n.used /\ n.entry[p] = m.entry[p]
SameRoot(a, b, u, f, v, g) ==
  Base(b, u, f) = 0 \/ (Base(b, u, f) = Base(a, v, g) /\ From(b, u, f) = From(a, v, g))
Keeps(m, n, a, b, u, f, v, g) ==
  Base(b, u, f) = 0 \/ (SameRoot(a, b, u, f, v, g) /\ Untouched(m, n, a, v, g))

(* A root that is kept stays a tree of the same pages.                      *)
LEMMA KeepsTree ==
  ASSUME NEW m, NEW n, IsMem(m), IsMem(n),
         NEW a \in [Task -> TaskType], NEW b \in [Task -> TaskType], Trees(m, a),
         NEW u \in Task, NEW f \in Field, NEW v \in Task, NEW g \in Field,
         Keeps(m, n, a, b, u, f, v, g)
  PROVE  /\ Base(b, u, f) # 0 => Tree(n, Base(b, u, f), From(b, u, f))
         /\ Of(n, b, u, f) \subseteq n.used /\ Of(n, b, u, f) \subseteq m.used
         /\ Of(n, b, u, f) \subseteq Of(m, a, v, g)
         /\ Base(b, u, f) # 0 /\ From(b, u, f) = 1 => Mapped(n, Base(b, u, f)) = Mapped(m, Base(b, u, f))
<1>1. CASE Base(b, u, f) = 0
  BY <1>1 DEF Of
<1>2. CASE Base(b, u, f) # 0
  <2> DEFINE d == Base(b, u, f)
             k == From(b, u, f)
  <2>1. d = Base(a, v, g) /\ k = From(a, v, g) /\ Untouched(m, n, a, v, g)
    BY <1>2 DEF Keeps, SameRoot
  <2>2. d \in Page /\ k \in Nat
    BY <1>2, BaseTypes
  <2>3. Of(m, a, v, g) = Pages(m, d, k) /\ Of(n, b, u, f) = Pages(n, d, k)
    BY <1>2, <2>1 DEF Of
  <2>4. Tree(m, d, k) /\ Of(m, a, v, g) \subseteq m.used
    BY <1>2, <2>1 DEF Trees
  <2>5. \A p \in Pages(m, d, k) : n.entry[p] = m.entry[p] /\ p \in n.used
    BY <2>1, <2>3 DEF Untouched
  <2> HIDE DEF d, k
  <2>6. Pages(n, d, k) = Pages(m, d, k) /\ (Tree(n, d, k) <=> Tree(m, d, k))
        /\ (k = 1 => Mapped(n, d) = Mapped(m, d))
    BY <2>2, <2>5, Frame
  <2>7. Of(n, b, u, f) = Of(m, a, v, g) /\ Of(m, a, v, g) \subseteq n.used
    BY <2>3, <2>5, <2>6
  <2> QED  BY <2>4, <2>6, <2>7 DEF d, k
<1> QED  BY <1>1, <1>2

(* Two roots may change places, and the first of them may gain pages that   *)
(* were free, or lose some; every other root is kept or gone.               *)
LEMMA Handover ==
  ASSUME NEW m, NEW n, IsMem(m), IsMem(n),
         NEW a \in [Task -> TaskType], NEW b \in [Task -> TaskType], Owning(m, a),
         NEW u0 \in Task, NEW f0 \in Field, NEW u1 \in Task, NEW f1 \in Field,
         \A u \in Task, f \in Field :
           (u # u0 \/ f # f0) /\ (u # u1 \/ f # f1) => Keeps(m, n, a, b, u, f, u, f),
         u0 # u1 \/ f0 # f1 => Keeps(m, n, a, b, u1, f1, u0, f0),
         Base(b, u0, f0) # 0 =>
           /\ Tree(n, Base(b, u0, f0), From(b, u0, f0))
           /\ Of(n, b, u0, f0) \subseteq n.used
           /\ Of(n, b, u0, f0) \cap m.used \subseteq Of(m, a, u1, f1)
  PROVE  Owning(n, b)
<1> DEFINE Src(u, f) == IF u = u1 /\ f = f1 THEN <<u0, f0>> ELSE <<u, f>>
           Special(u, f) == u = u0 /\ f = f0
<1>1. ASSUME NEW u \in Task, NEW f \in Field, ~ Special(u, f)
      PROVE  \E v \in Task, g \in Field :
               Src(u, f) = <<v, g>> /\ Keeps(m, n, a, b, u, f, v, g)
  BY <1>1
<1>2. ASSUME NEW u \in Task, NEW f \in Field, ~ Special(u, f)
      PROVE  /\ Base(b, u, f) # 0 => Tree(n, Base(b, u, f), From(b, u, f))
             /\ Of(n, b, u, f) \subseteq n.used /\ Of(n, b, u, f) \subseteq m.used
             /\ \E v \in Task, g \in Field :
                  Src(u, f) = <<v, g>> /\ Of(n, b, u, f) \subseteq Of(m, a, v, g)
  <2>1. PICK v \in Task, g \in Field : Src(u, f) = <<v, g>> /\ Keeps(m, n, a, b, u, f, v, g)
    BY <1>1, <1>2
  <2>2. Trees(m, a)
    BY DEF Owning
  <2> HIDE DEF Src
  <2> QED  BY <2>1, <2>2, KeepsTree
<1>3. Of(n, b, u0, f0) \subseteq n.used /\ Of(n, b, u0, f0) \cap m.used \subseteq Of(m, a, u1, f1)
  BY DEF Of
<1>4. Trees(n, b)
  <2> SUFFICES ASSUME NEW u \in Task, NEW f \in Field, Base(b, u, f) # 0
               PROVE  Tree(n, Base(b, u, f), From(b, u, f)) /\ Of(n, b, u, f) \subseteq n.used
    BY DEF Trees
  <2>1. CASE Special(u, f)
    BY <2>1
  <2>2. CASE ~ Special(u, f)
    BY <1>2, <2>2
  <2> QED  BY <2>1, <2>2
<1>5. Apart(n, b)
  <2>0. \A u, v \in Task, f, g \in Field :
          u # v \/ f # g => Of(m, a, u, f) \cap Of(m, a, v, g) = {}
    BY DEF Owning, Apart
  <2>1. ASSUME NEW u \in Task, NEW f \in Field, ~ Special(u, f)
        PROVE  Of(n, b, u0, f0) \cap Of(n, b, u, f) = {}
    <3>1. PICK v \in Task, g \in Field : Src(u, f) = <<v, g>> /\ Of(n, b, u, f) \subseteq Of(m, a, v, g)
      BY <1>2, <2>1
    <3>2. Of(n, b, u, f) \subseteq m.used
      BY <1>2, <2>1
    <3>3. v # u1 \/ g # f1
      BY <2>1, <3>1
    <3>4. Of(m, a, u1, f1) \cap Of(m, a, v, g) = {}
      BY <2>0, <3>3
    <3> QED  BY <1>3, <3>1, <3>2, <3>4
  <2>2. ASSUME NEW u \in Task, NEW f \in Field, ~ Special(u, f),
               NEW v \in Task, NEW g \in Field, ~ Special(v, g), u # v \/ f # g
        PROVE  Of(n, b, u, f) \cap Of(n, b, v, g) = {}
    <3>1. PICK u2 \in Task, f2 \in Field : Src(u, f) = <<u2, f2>> /\ Of(n, b, u, f) \subseteq Of(m, a, u2, f2)
      BY <1>2, <2>2
    <3>2. PICK v2 \in Task, g2 \in Field : Src(v, g) = <<v2, g2>> /\ Of(n, b, v, g) \subseteq Of(m, a, v2, g2)
      BY <1>2, <2>2
    <3>3. u2 # v2 \/ f2 # g2
      BY <2>2, <3>1, <3>2
    <3>4. Of(m, a, u2, f2) \cap Of(m, a, v2, g2) = {}
      BY <2>0, <3>3
    <3> QED  BY <3>1, <3>2, <3>4
  <2> SUFFICES ASSUME NEW u \in Task, NEW f \in Field, NEW v \in Task, NEW g \in Field, u # v \/ f # g
               PROVE  Of(n, b, u, f) \cap Of(n, b, v, g) = {}
    BY DEF Apart
  <2>3. CASE Special(u, f)
    BY <2>1, <2>3
  <2>4. CASE Special(v, g)
    BY <2>1, <2>4
  <2>5. CASE ~ Special(u, f) /\ ~ Special(v, g)
    <3> HIDE DEF Special
    <3> QED  BY <2>2, <2>5
  <2> QED  BY <2>3, <2>4, <2>5
<1> QED  BY <1>4, <1>5 DEF Owning

(* Roots whose fields stay.                                                 *)
LEMMA SameRoots ==
  ASSUME NEW a, NEW b, NEW u
  PROVE  /\ b[u].sel = a[u].sel /\ b[u].stack = a[u].stack => SameRoot(a, b, u, "stack", u, "stack")
         /\ b[u].cr3 = a[u].cr3 /\ (b[u].phase = "reaped" <=> a[u].phase = "reaped") =>
              SameRoot(a, b, u, "cr3", u, "cr3")
         /\ /\ b[u].dir = a[u].dir
            /\ \/ a[u].phase # "destroy" /\ (b[u].phase = "destroy" => b[u].at = 1)
               \/ a[u].phase = "destroy" /\ b[u].phase = "destroy" /\ b[u].at = a[u].at
            => SameRoot(a, b, u, "dir", u, "dir")
         /\ b[u] = a[u] => \A f \in Field : SameRoot(a, b, u, f, u, f)
<1>1. b[u].sel = a[u].sel /\ b[u].stack = a[u].stack => SameRoot(a, b, u, "stack", u, "stack")
  BY Bases DEF SameRoot
<1>2. b[u].cr3 = a[u].cr3 /\ (b[u].phase = "reaped" <=> a[u].phase = "reaped") =>
        SameRoot(a, b, u, "cr3", u, "cr3")
  BY Bases DEF SameRoot
<1>3. /\ b[u].dir = a[u].dir
      /\ \/ a[u].phase # "destroy" /\ (b[u].phase = "destroy" => b[u].at = 1)
         \/ a[u].phase = "destroy" /\ b[u].phase = "destroy" /\ b[u].at = a[u].at
      => SameRoot(a, b, u, "dir", u, "dir")
  BY Bases DEF SameRoot
<1>4. b[u] = a[u] => \A f \in Field : SameRoot(a, b, u, f, u, f)
  BY DEF SameRoot, Base, From, Field
<1> QED  BY <1>1, <1>2, <1>3, <1>4

(* What is allocated or cleared is in no root.                              *)
LEMMA UntouchedTake ==
  ASSUME NEW m, NEW n, NEW a, Owning(m, a), m.used \subseteq n.used,
         \A p \in m.used : n.entry[p] = m.entry[p]
  PROVE  \A u \in Task, f \in Field : Untouched(m, n, a, u, f)
BY DEF Owning, Trees, Untouched, Of

(* A directory that grows touches no other root.                            *)
LEMMA UntouchedGrow ==
  ASSUME NEW m, NEW n, NEW a, Owning(m, a), NEW v \in Task, NEW g \in Field,
         Base(a, v, g) # 0, From(a, v, g) = 1, Grows(m, n, Base(a, v, g))
  PROVE  \A u \in Task, f \in Field : u # v \/ f # g => Untouched(m, n, a, u, f)
<1> SUFFICES ASSUME NEW u \in Task, NEW f \in Field, u # v \/ f # g,
                    NEW p \in Of(m, a, u, f)
             PROVE  p \in n.used /\ n.entry[p] = m.entry[p]
  BY DEF Untouched
<1>1. Of(m, a, v, g) = Pages(m, Base(a, v, g), 1)
  BY DEF Of
<1>2. p \in m.used
  BY DEF Owning, Trees, Of
<1>3. p \notin Pages(m, Base(a, v, g), 1)
  BY <1>1 DEF Owning, Apart
<1> QED  BY <1>2, <1>3 DEF Grows

(* A page given back is touched in the root it belongs to only.             *)
LEMMA UntouchedGive ==
  ASSUME NEW m, NEW n, NEW a, Owning(m, a), NEW v \in Task, NEW g \in Field,
         NEW q \in Of(m, a, v, g), n.used = m.used \ {q},
         \A p \in m.used : p # q => n.entry[p] = m.entry[p]
  PROVE  \A u \in Task, f \in Field : u # v \/ f # g => Untouched(m, n, a, u, f)
<1> SUFFICES ASSUME NEW u \in Task, NEW f \in Field, u # v \/ f # g,
                    NEW p \in Of(m, a, u, f)
             PROVE  p \in n.used /\ n.entry[p] = m.entry[p]
  BY DEF Untouched
<1>1. p \in m.used
  BY DEF Owning, Trees, Of
<1>2. p # q
  BY DEF Owning, Apart
<1> QED  BY <1>1, <1>2

(* A page without a directory's contents, or with an empty one.             *)
LEMMA SinglePage ==
  ASSUME NEW m, NEW d \in Page
  PROVE  /\ Tree(m, d, Last + 1) /\ Pages(m, d, Last + 1) = {d}
         /\ m.entry[d] = Empty => Tree(m, d, 1) /\ Pages(m, d, 1) = {d} /\ Mapped(m, d) = {}
<1>1. Remaining(m, d, Last + 1) = {}
  BY Sizes DEF Remaining, Place, Last, W
<1>2. ASSUME m.entry[d] = Empty
      PROVE  Remaining(m, d, 1) = {} /\ Mapped(m, d) = {}
  <2>1. \A i \in 1 .. NSlot : m.entry[d][i] = 0
    BY <1>2 DEF Empty
  <2>2. \A k \in Place : At(m, d, k) = 0
    <3>1. \A i \in 1 .. NSlot : At(m, d, TableAt(i)) = 0
      BY <2>1, AtTable
    <3>2. \A i, j \in 1 .. NSlot : At(m, d, PageAt(i, j)) = 0
      BY <2>1, AtPage
    <3> QED  BY <3>1, <3>2, AllPlaces
  <2>3. \A v \in UPage : MappedTo(m, d, v) = 0
    BY <2>2, MappedAt
  <2> QED  BY <2>2, <2>3 DEF Remaining, Mapped
<1> QED  BY <1>1, <1>2 DEF Tree, Pages

(* Nothing but kept roots.                                                  *)
LEMMA OwningKept ==
  ASSUME NEW m, NEW n, IsMem(m), IsMem(n),
         NEW a \in [Task -> TaskType], NEW b \in [Task -> TaskType], Owning(m, a),
         \A u \in Task, f \in Field : Keeps(m, n, a, b, u, f, u, f)
  PROVE  Owning(n, b)
<1>1. First \in Task /\ "stack" \in Field
  BY MemoryAssumption DEF Field
<1>2. Keeps(m, n, a, b, First, "stack", First, "stack")
  BY <1>1
<1>3. Base(b, First, "stack") # 0 =>
        /\ Tree(n, Base(b, First, "stack"), From(b, First, "stack"))
        /\ Of(n, b, First, "stack") \subseteq n.used
        /\ Of(n, b, First, "stack") \cap m.used \subseteq Of(m, a, First, "stack")
  BY <1>1, <1>2, KeepsTree DEF Owning
<1> QED  BY <1>1, <1>3, Handover

(* A directory that is not touched maps what it did.                        *)
LEMMA RootMapped ==
  ASSUME NEW m, NEW n, IsMem(m), IsMem(n), NEW a \in [Task -> TaskType], NEW u \in Task, NEW f \in Field,
         Untouched(m, n, a, u, f), Base(a, u, f) # 0, From(a, u, f) = 1
  PROVE  Mapped(n, Base(a, u, f)) = Mapped(m, Base(a, u, f))
<1>1. Base(a, u, f) \in Page
  BY BaseTypes
<1>2. Of(m, a, u, f) = Pages(m, Base(a, u, f), 1)
  BY DEF Of
<1>3. \A p \in Pages(m, Base(a, u, f), 1) : n.entry[p] = m.entry[p]
  BY <1>2 DEF Untouched
<1> QED  BY <1>1, <1>3, Frame

(* The same for the two directories of a task.                              *)
LEMMA DirsMapped ==
  ASSUME NEW m, NEW n, IsMem(n), NEW a, Sound(m, a), NEW u \in Task
  PROVE  /\ Untouched(m, n, a, u, "cr3") /\ a[u].phase \in Running => Mapped(n, a[u].cr3) = Mapped(m, a[u].cr3)
         /\ Untouched(m, n, a, u, "dir") /\ Filling(a[u]) => Mapped(n, a[u].dir) = Mapped(m, a[u].dir)
<1>1. IsMem(m) /\ a \in [Task -> TaskType] /\ HasDir(a[u]) /\ HasSpace(a[u])
  BY DEF Sound, Shape
<1>2. "cr3" \in Field /\ "dir" \in Field
  BY DEF Field
<1>3. ASSUME Untouched(m, n, a, u, "cr3"), a[u].phase \in Running
      PROVE  Mapped(n, a[u].cr3) = Mapped(m, a[u].cr3)
  <2>1. a[u].cr3 \in Page /\ a[u].phase # "reaped"
    BY <1>1, <1>3 DEF HasSpace, Running, Building
  <2>2. Base(a, u, "cr3") = a[u].cr3 /\ From(a, u, "cr3") = 1 /\ a[u].cr3 # 0
    BY <2>1, Bases, PageFacts
  <2>3. Mapped(n, Base(a, u, "cr3")) = Mapped(m, Base(a, u, "cr3"))
    BY <1>1, <1>2, <1>3, <2>2, RootMapped
  <2> QED  BY <2>2, <2>3
<1>4. ASSUME Untouched(m, n, a, u, "dir"), Filling(a[u])
      PROVE  Mapped(n, a[u].dir) = Mapped(m, a[u].dir)
  <2>1. a[u].dir # 0 /\ a[u].phase # "destroy"
    BY <1>1, <1>4 DEF HasDir, Filling, Loading, Mapping
  <2>2. Base(a, u, "dir") = a[u].dir /\ From(a, u, "dir") = 1
    BY <2>1, Bases
  <2>3. Mapped(n, Base(a, u, "dir")) = Mapped(m, Base(a, u, "dir"))
    BY <1>1, <1>2, <1>4, <2>1, <2>2, RootMapped
  <2> QED  BY <2>2, <2>3
<1> QED  BY <1>3, <1>4

(* A task that does nothing, and whose pages are not touched.               *)
LEMMA OtherMaps ==
  ASSUME NEW m, NEW n, IsMem(n), NEW a, Sound(m, a), NEW u \in Task, m.oom => n.oom,
         \A f \in Field : Untouched(m, n, a, u, f)
  PROVE  MapsOf(n, a[u])
<1>1. MapsOf(m, a[u])
  BY DEF Sound, Maps
<1>2. Untouched(m, n, a, u, "cr3") /\ Untouched(m, n, a, u, "dir")
  BY DEF Field
<1>3. /\ a[u].phase \in Running => Mapped(n, a[u].cr3) = Mapped(m, a[u].cr3)
      /\ Filling(a[u]) => Mapped(n, a[u].dir) = Mapped(m, a[u].dir)
  BY <1>2, DirsMapped
<1>4. a[u].phase = "copy" => a[u].phase \in Running /\ Filling(a[u])
  BY DEF Running, Building, Filling
<1>5. Loading(a[u]) => Filling(a[u])
  BY DEF Filling
<1>6. Rounds(n, a[u])
  BY <1>1 DEF MapsOf, Rounds
<1> QED  BY <1>1, <1>3, <1>4, <1>5, <1>6 DEF MapsOf, Exactly

(* One root gains pages that were free; every other root is kept or gone.   *)
LEMMA HandoverOne ==
  ASSUME NEW m, NEW n, IsMem(m), IsMem(n),
         NEW a \in [Task -> TaskType], NEW b \in [Task -> TaskType], Owning(m, a),
         NEW u0 \in Task, NEW f0 \in Field,
         \A u \in Task, f \in Field : u # u0 \/ f # f0 => Keeps(m, n, a, b, u, f, u, f),
         Base(b, u0, f0) # 0 =>
           /\ Tree(n, Base(b, u0, f0), From(b, u0, f0))
           /\ Of(n, b, u0, f0) \subseteq n.used
           /\ Of(n, b, u0, f0) \cap m.used \subseteq Of(m, a, u0, f0)
  PROVE  Owning(n, b)
<1>1. \A u \in Task, f \in Field :
        (u # u0 \/ f # f0) /\ (u # u0 \/ f # f0) => Keeps(m, n, a, b, u, f, u, f)
  OBVIOUS
<1>2. u0 # u0 \/ f0 # f0 => Keeps(m, n, a, b, u0, f0, u0, f0)
  OBVIOUS
<1> QED  BY <1>1, <1>2, Handover

-----------------------------------------------------------------------------
(* No page goes astray.                                                     *)

(* The pages that belong to a root; a directory that is overwritten when    *)
(* its child starts; an allocation that could not be completed.             *)
Own(m, a) == {p \in Page : \E u \in Task, f \in Field : p \in Of(m, a, u, f)}
Lapse(a, b, p) == \E c \in Task : a[c].phase = "new" /\ a[c].cr3 = p /\ b[c].phase # "new"
Full(m, n) == n.used = 1 .. m.size \/ n.panic

(* In a step from m, a to n, b a page that was owned still is, or is free,   *)
(* and a page that was taken has an owner.                                  *)
Safe(m, n, a, b, u, f) ==
  \A p \in Of(m, a, u, f) : p \in n.used => p \in Own(n, b) \/ Lapse(a, b, p)
Spares(m, n, a, b) ==
  /\ \A u \in Task, f \in Field : Safe(m, n, a, b, u, f)
  /\ \A p \in n.used : p \notin m.used => p \in Own(n, b) \/ Full(m, n)
Goes(m, n, a, b) == Sound(n, b) /\ Spares(m, n, a, b)

(* Root (u, f) of a is some root of b, or it is none.                       *)
Stays(a, b, u, f) == \E v \in Task, g \in Field : SameRoot(b, a, u, f, v, g)

(* Roots whose fields stay.                                                 *)
LEMMA SameBack ==
  ASSUME NEW a, NEW b, NEW u \in Task
  PROVE  /\ b[u].sel = a[u].sel /\ b[u].stack = a[u].stack => Stays(a, b, u, "stack")
         /\ b[u].cr3 = a[u].cr3 /\ (b[u].phase = "reaped" <=> a[u].phase = "reaped") => Stays(a, b, u, "cr3")
         /\ /\ b[u].dir = a[u].dir
            /\ \/ a[u].phase # "destroy" /\ (b[u].phase = "destroy" => b[u].at = 1)
               \/ a[u].phase = "destroy" /\ b[u].phase = "destroy" /\ b[u].at = a[u].at
            => Stays(a, b, u, "dir")
         /\ b[u] = a[u] => \A f \in Field : Stays(a, b, u, f)
         /\ \A f \in Field : Base(a, u, f) = 0 => Stays(a, b, u, f)
<1>1. b[u].sel = a[u].sel /\ b[u].stack = a[u].stack => SameRoot(b, a, u, "stack", u, "stack")
  BY Bases DEF SameRoot
<1>2. b[u].cr3 = a[u].cr3 /\ (b[u].phase = "reaped" <=> a[u].phase = "reaped") =>
        SameRoot(b, a, u, "cr3", u, "cr3")
  BY Bases DEF SameRoot
<1>3. /\ b[u].dir = a[u].dir
      /\ \/ a[u].phase # "destroy" /\ (b[u].phase = "destroy" => b[u].at = 1)
         \/ a[u].phase = "destroy" /\ b[u].phase = "destroy" /\ b[u].at = a[u].at
      => SameRoot(b, a, u, "dir", u, "dir")
  BY Bases DEF SameRoot
<1>4. b[u] = a[u] => \A f \in Field : SameRoot(b, a, u, f, u, f)
  BY DEF SameRoot, Base, From, Field
<1>5. \A f \in Field : Base(a, u, f) = 0 => SameRoot(b, a, u, f, u, f)
  BY DEF SameRoot
<1>6. "stack" \in Field /\ "cr3" \in Field /\ "dir" \in Field
  BY DEF Field
<1>7. \A f \in Field : SameRoot(b, a, u, f, u, f) => Stays(a, b, u, f)
  BY DEF Stays
<1> QED  BY <1>1, <1>2, <1>3, <1>4, <1>5, <1>6, <1>7

(* A root that stays and is not touched keeps its pages.                    *)
LEMMA SafeRoot ==
  ASSUME NEW m, NEW n, IsMem(m), IsMem(n), NEW a \in [Task -> TaskType], NEW b \in [Task -> TaskType],
         NEW u \in Task, NEW f \in Field, Untouched(m, n, a, u, f), Stays(a, b, u, f)
  PROVE  Safe(m, n, a, b, u, f)
<1>1. CASE Base(a, u, f) = 0
  BY <1>1 DEF Safe, Of
<1>2. CASE Base(a, u, f) # 0
  <2>1. PICK v \in Task, g \in Field : SameRoot(b, a, u, f, v, g)
    BY DEF Stays
  <2> DEFINE d == Base(a, u, f)
             k == From(a, u, f)
  <2>2. d \in Page /\ k \in Nat
    BY <1>2, BaseTypes
  <2>3. Base(b, v, g) = d /\ From(b, v, g) = k
    BY <1>2, <2>1 DEF SameRoot
  <2>4. Of(m, a, u, f) = Pages(m, d, k) /\ Of(n, b, v, g) = Pages(n, d, k)
    BY <1>2, <2>3 DEF Of
  <2>5. \A p \in Pages(m, d, k) : n.entry[p] = m.entry[p] /\ p \in n.used
    BY <2>4 DEF Untouched
  <2> HIDE DEF d, k
  <2>6. Pages(n, d, k) = Pages(m, d, k)
    BY <2>2, <2>5, Frame
  <2>7. n.used \subseteq Page
    BY DEF IsMem, MemType
  <2>8. \A p \in Of(m, a, u, f) : p \in Own(n, b)
    BY <2>4, <2>5, <2>6, <2>7 DEF Own
  <2> QED  BY <2>8 DEF Safe
<1> QED  BY <1>1, <1>2

(* A root itself is owned.                                                  *)
LEMMA OwnBase ==
  ASSUME NEW n, NEW b, NEW v \in Task, NEW g \in Field, Base(b, v, g) \in Page
  PROVE  Base(b, v, g) \in Own(n, b)
<1>1. Base(b, v, g) # 0
  BY PageFacts
<1>2. Base(b, v, g) \in Of(n, b, v, g)
  BY <1>1 DEF Of, Pages
<1> QED  BY <1>2 DEF Own

(* Every root stays or its pages are accounted for.                         *)
LEMMA SparesKept ==
  ASSUME NEW m, NEW n, NEW a, NEW b \in [Task -> TaskType], Sound(m, a), IsMem(n),
         \A u \in Task, f \in Field :
           Safe(m, n, a, b, u, f) \/ (Untouched(m, n, a, u, f) /\ Stays(a, b, u, f)),
         \A p \in n.used : p \notin m.used => p \in Own(n, b) \/ Full(m, n)
  PROVE  Spares(m, n, a, b)
<1>1. IsMem(m) /\ a \in [Task -> TaskType]
  BY DEF Sound
<1>2. \A u \in Task, f \in Field : Safe(m, n, a, b, u, f)
  BY <1>1, SafeRoot
<1> QED  BY <1>2 DEF Spares

(* The directory made for a child lapses when the child starts.             *)
LEMMA NewLapse ==
  ASSUME NEW m, NEW n, NEW a, NEW b, Sound(m, a), NEW c \in Task, a[c].phase = "new", b[c].phase # "new"
  PROVE  Safe(m, n, a, b, c, "cr3")
<1> SUFFICES ASSUME NEW p \in Of(m, a, c, "cr3") PROVE Lapse(a, b, p)
  BY DEF Safe
<1>1. Base(a, c, "cr3") # 0 /\ From(a, c, "cr3") = 1 /\ Base(a, c, "cr3") = a[c].cr3
      /\ a[c].cr3 \in Page /\ a[c].cr3 # 0
  BY Bases, PageFacts DEF Of
<1>2. m.entry[a[c].cr3] = Empty
  BY <1>1 DEF Sound, Blank
<1>3. Pages(m, a[c].cr3, 1) = {a[c].cr3}
  BY <1>1, <1>2, SinglePage
<1>4. p = a[c].cr3
  BY <1>1, <1>3 DEF Of
<1> QED  BY <1>4 DEF Lapse

(* A root whose pages are all given back.                                   *)
LEMMA SafeGone ==
  ASSUME NEW m, NEW n, NEW a, NEW b, NEW u, NEW f, \A p \in Of(m, a, u, f) : p \notin n.used
  PROVE  Safe(m, n, a, b, u, f)
BY DEF Safe

(* A directory that grows at root (v, g) of a and is root (w, h) of b.       *)
LEMMA GrowSpares ==
  ASSUME NEW m, NEW a, Sound(m, a), NEW v \in Task, NEW g \in Field, NEW d,
         d = Base(a, v, g), d # 0, From(a, v, g) = 1, NEW n, Grows(m, n, d),
         NEW b \in [Task -> TaskType],
         \A u \in Task, f \in Field : u # v \/ f # g => Stays(a, b, u, f),
         NEW w \in Task, NEW h \in Field, Base(b, w, h) = d, From(b, w, h) = 1
  PROVE  Spares(m, n, a, b)
<1>1. IsMem(m) /\ a \in [Task -> TaskType] /\ Owning(m, a)
  BY DEF Sound
<1>2. IsMem(n) /\ n.used \subseteq Page
  BY DEF Grows, IsMem, MemType
<1>3. \A u \in Task, f \in Field : u # v \/ f # g => Untouched(m, n, a, u, f)
  BY <1>1, UntouchedGrow
<1>4. Of(m, a, v, g) = Pages(m, d, 1) /\ Of(n, b, w, h) = Pages(n, d, 1)
  BY DEF Of
<1>5. Pages(n, d, 1) \subseteq Own(n, b)
  <2>1. Pages(n, d, 1) \subseteq n.used
    BY DEF Grows
  <2> QED  BY <1>2, <1>4, <2>1 DEF Own
<1>6. Safe(m, n, a, b, v, g)
  <2>1. Pages(m, d, 1) \subseteq Pages(n, d, 1)
    BY DEF Grows
  <2> QED  BY <1>4, <1>5, <2>1 DEF Safe
<1>7. \A u \in Task, f \in Field :
        Safe(m, n, a, b, u, f) \/ (Untouched(m, n, a, u, f) /\ Stays(a, b, u, f))
  BY <1>3, <1>6
<1>8. \A p \in n.used : p \notin m.used => p \in Own(n, b) \/ Full(m, n)
  <2>1. (n.used \subseteq m.used \cup Pages(n, d, 1) \/ n.used = 1 .. n.size \/ n.panic) /\ n.size = m.size
    BY DEF Grows
  <2> QED  BY <1>5, <2>1 DEF Full
<1> QED  BY <1>2, <1>7, <1>8, SparesKept

-----------------------------------------------------------------------------
(* The steps.                                                               *)

(* The slot of a new task, and a free one.                                  *)
LEMMA NoTaskType ==
  /\ NoTask \in TaskType
  /\ [NoTask EXCEPT !.phase = "new", !.sel = TRUE] \in TaskType
<1>1. Unit * StackPage \in Nat
  <2>1. Unit \in Nat /\ StackPage \in Nat
    BY Sizes, MemoryAssumption DEF StackPage
  <2> QED  BY <2>1
<1>2. 0 \in 0 .. Unit * StackPage
  BY <1>1
<1>3. First \in Task /\ 0 \in Nat
  BY MemoryAssumption
<1>4. "none" \in Phase /\ "new" \in Phase
  BY DEF Phase
<1> QED  BY <1>2, <1>3, <1>4 DEF TaskType, NoTask

(* Who waits for whom when a call of task t changes its own slot and that   *)
(* of the child or zombie it works on.                                      *)
LEMMA PeerFacts ==
  ASSUME NEW a \in [Task -> TaskType], Shape(a), NEW u \in Task, OnPeer(a[u])
  PROVE  /\ a[u].peer \in Task /\ a[a[u].peer].phase \in {"new", "reaped"}
         /\ a[u].phase \in Running /\ PeerOf(a[u], a[a[u].peer])
<1>1. a[u] \in TaskType /\ a[u].peer \in Task /\ HasDir(a[u]) /\ PeerOf(a[u], a[a[u].peer])
  BY DEF Shape, TaskType
<1>2. a[u].phase \in Building \/ a[u].then \in {"fork", "reap"}
  BY DEF OnPeer
<1>3. a[a[u].peer].phase \in {"new", "reaped"}
  BY <1>1, <1>2 DEF PeerOf
<1>4. a[u].phase \in Running
  BY <1>1, <1>2 DEF HasDir, Running, Filling, Loading, Mapping
<1> QED  BY <1>1, <1>3, <1>4

(* A step that changes two tasks keeps the shape.                           *)
LEMMA ShapeTwo ==
  ASSUME NEW a \in [Task -> TaskType], NEW b \in [Task -> TaskType], Shape(a),
         NEW t \in Task, NEW c \in Task, t # c,
         \A u \in Task : u # t /\ u # c => b[u] = a[u],
         a[t].phase \in Running,
         a[c].phase \in {"none", "zombie"} \/ (OnPeer(a[t]) /\ a[t].peer = c),
         HasDir(b[t]), HasSpace(b[t]), HasDir(b[c]), HasSpace(b[c]),
         ~ OnPeer(b[c]), OnPeer(b[t]) => b[t].peer = c /\ PeerOf(b[t], b[c])
  PROVE  Shape(b)
<1>1. \A u \in Task : HasDir(b[u]) /\ HasSpace(b[u])
  <2> SUFFICES ASSUME NEW u \in Task, u # t, u # c
               PROVE  HasDir(b[u]) /\ HasSpace(b[u])
    OBVIOUS
  <2>1. b[u] = a[u]
    OBVIOUS
  <2> QED  BY <2>1 DEF Shape
<1>2. ASSUME NEW u \in Task, u # t, OnPeer(b[u])
      PROVE  u # c /\ b[u] = a[u] /\ OnPeer(a[u]) /\ a[u].peer \in Task /\ a[u].peer # t /\ a[u].peer # c
  <2>1. u # c
    BY <1>2
  <2>2. b[u] = a[u]
    BY <1>2, <2>1
  <2>3. OnPeer(a[u])
    BY <1>2, <2>2
  <2>4. a[u].peer \in Task /\ a[a[u].peer].phase \in {"new", "reaped"}
    BY <2>3, PeerFacts
  <2>5. a[u].peer # t
    BY <2>4 DEF Running, Building
  <2>6. a[u].peer # c
    <3>1. CASE a[c].phase \in {"none", "zombie"}
      BY <2>4, <3>1
    <3>2. CASE OnPeer(a[t]) /\ a[t].peer = c
      BY <1>2, <2>3, <3>2 DEF Shape
    <3> QED  BY <3>1, <3>2
  <2> QED  BY <2>1, <2>2, <2>3, <2>4, <2>5, <2>6
<1>3. \A u \in Task : OnPeer(b[u]) => PeerOf(b[u], b[b[u].peer])
  <2> SUFFICES ASSUME NEW u \in Task, OnPeer(b[u]), u # t
               PROVE  PeerOf(b[u], b[b[u].peer])
    OBVIOUS
  <2>1. b[u] = a[u] /\ OnPeer(a[u]) /\ a[u].peer \in Task /\ a[u].peer # t /\ a[u].peer # c
    BY <1>2
  <2>2. b[a[u].peer] = a[a[u].peer]
    BY <2>1
  <2>3. PeerOf(a[u], a[a[u].peer])
    BY <2>1 DEF Shape
  <2> QED  BY <2>1, <2>2, <2>3
<1>4. ASSUME NEW u \in Task, NEW v \in Task, OnPeer(b[u]), OnPeer(b[v]), b[u].peer = b[v].peer
      PROVE  u = v
  <2>1. CASE u # t /\ v # t
    <3>1. b[u] = a[u] /\ OnPeer(a[u]) /\ b[v] = a[v] /\ OnPeer(a[v])
      BY <1>2, <1>4, <2>1
    <3> QED  BY <1>4, <3>1 DEF Shape
  <2>2. CASE u = t /\ v # t
    BY <1>2, <1>4, <2>2
  <2>3. CASE u # t /\ v = t
    BY <1>2, <1>4, <2>3
  <2> QED  BY <2>1, <2>2, <2>3
<1> QED  BY <1>1, <1>3, <1>4 DEF Shape

(* The same when only the slot of t changes.                                *)
LEMMA ShapeOne ==
  ASSUME NEW a \in [Task -> TaskType], NEW b \in [Task -> TaskType], Shape(a), NEW t \in Task,
         \A u \in Task : u # t => b[u] = a[u],
         a[t].phase \in Running, HasDir(b[t]), HasSpace(b[t]),
         OnPeer(b[t]) => OnPeer(a[t]) /\ b[t].peer = a[t].peer /\ PeerOf(b[t], a[a[t].peer])
  PROVE  Shape(b)
<1>1. \A u \in Task : HasDir(b[u]) /\ HasSpace(b[u])
  <2> SUFFICES ASSUME NEW u \in Task, u # t
               PROVE  HasDir(b[u]) /\ HasSpace(b[u])
    OBVIOUS
  <2>1. b[u] = a[u]
    OBVIOUS
  <2> QED  BY <2>1 DEF Shape
<1>2. ASSUME NEW u \in Task, OnPeer(b[u])
      PROVE  /\ OnPeer(a[u]) /\ b[u].peer = a[u].peer /\ a[u].peer \in Task /\ b[a[u].peer] = a[a[u].peer]
             /\ PeerOf(b[u], a[a[u].peer])
  <2>1. OnPeer(a[u]) /\ b[u].peer = a[u].peer
    <3>1. CASE u = t
      BY <1>2, <3>1
    <3>2. CASE u # t
      <4>1. b[u] = a[u]
        BY <3>2
      <4> QED  BY <1>2, <4>1
    <3> QED  BY <3>1, <3>2
  <2>2. a[u].peer \in Task /\ a[a[u].peer].phase \in {"new", "reaped"} /\ PeerOf(a[u], a[a[u].peer])
    BY <2>1, PeerFacts
  <2>3. a[u].peer # t
    BY <2>2 DEF Running, Building
  <2>4. PeerOf(b[u], a[a[u].peer])
    <3>1. CASE u = t
      BY <1>2, <3>1
    <3>2. CASE u # t
      <4>1. b[u] = a[u]
        BY <3>2
      <4> QED  BY <2>2, <4>1
    <3> QED  BY <3>1, <3>2
  <2> QED  BY <2>1, <2>2, <2>3, <2>4
<1>3. \A u \in Task : OnPeer(b[u]) => PeerOf(b[u], b[b[u].peer])
  BY <1>2
<1>4. \A u, v \in Task : OnPeer(b[u]) /\ OnPeer(b[v]) /\ b[u].peer = b[v].peer => u = v
  BY <1>2 DEF Shape
<1> QED  BY <1>1, <1>3, <1>4 DEF Shape

(* A task that only waits has no claim on what is mapped; one that runs, but *)
(* maps nothing, only on its own directory.                                  *)
LEMMA PlainMaps ==
  ASSUME NEW m, NEW n, IsMem(n), NEW a, Sound(m, a), NEW u \in Task, m.oom => n.oom,
         Untouched(m, n, a, u, "cr3"), NEW k,
         \/ k.phase \notin Running
         \/ /\ k.phase \in Running \ {"copy", "load", "loaded", "map"}
            /\ k.own => a[u].own /\ ~ Mapping(a[u], "sbrk") /\ k.heap = a[u].heap /\ k.cr3 = a[u].cr3
  PROVE  MapsOf(n, k)
<1>1. MapsOf(m, a[u]) /\ HasSpace(a[u])
  BY DEF Sound, Maps, Shape
<1>2. a[u].phase \in Running => Mapped(n, a[u].cr3) = Mapped(m, a[u].cr3)
  BY DirsMapped
<1>3. k.phase \notin {"copy", "load", "loaded", "map"}
  BY DEF Running, Building
<1>4. k.own /\ k.phase \in Running => Exactly(n, k.cr3, MayUse(k))
  <2> SUFFICES ASSUME k.own, k.phase \in Running PROVE Exactly(n, k.cr3, MayUse(k))
    OBVIOUS
  <2>1. a[u].own /\ a[u].phase \in Running /\ ~ Mapping(a[u], "sbrk") /\ k.heap = a[u].heap /\ k.cr3 = a[u].cr3
    BY <1>1 DEF HasSpace
  <2>2. Exactly(m, a[u].cr3, MayUse(a[u]))
    BY <1>1, <2>1 DEF MapsOf
  <2>3. MayUse(k) = MayUse(a[u])
    BY <1>3, <2>1 DEF MayUse, Mapping
  <2> QED  BY <1>2, <2>1, <2>2, <2>3 DEF Exactly
<1>5. ~ Loading(k) /\ Rounds(n, k)
  BY <1>3 DEF Loading, Mapping, Rounds
<1> QED  BY <1>3, <1>4, <1>5 DEF MapsOf

(* A child that is not started keeps its empty directory, when no other     *)
(* slot becomes one.                                                        *)
LEMMA BlankNext ==
  ASSUME NEW m, NEW n, NEW a, Sound(m, a), NEW b,
         \A u \in Task : b[u].phase = "new" /\ b[u].cr3 # 0 =>
           a[u].phase = "new" /\ b[u].cr3 = a[u].cr3 /\ Untouched(m, n, a, u, "cr3")
  PROVE  Blank(n, b)
<1> SUFFICES ASSUME NEW u \in Task, b[u].phase = "new", b[u].cr3 # 0
             PROVE  b[u].cr3 \in Page /\ n.entry[b[u].cr3] = Empty
  BY Zenon DEF Blank
<1>1. a[u].phase = "new" /\ b[u].cr3 = a[u].cr3 /\ Untouched(m, n, a, u, "cr3") /\ a[u].cr3 # 0
  OBVIOUS
<1>2. a[u].cr3 \in Page /\ m.entry[a[u].cr3] = Empty
  BY <1>1 DEF Sound, Blank
<1>3. Base(a, u, "cr3") = a[u].cr3
  BY <1>1, <1>2, Bases
<1>4. a[u].cr3 \in Of(m, a, u, "cr3")
  BY <1>1, <1>2, <1>3, PageFacts DEF Of, Pages
<1>5. n.entry[a[u].cr3] = m.entry[a[u].cr3]
  BY <1>1, <1>4 DEF Untouched
<1> QED  BY <1>1, <1>2, <1>5

(* sys_fork claims a slot.                                                  *)
LEMMA ForkSound ==
  ASSUME NEW m, NEW a, Sound(m, a), NEW t \in Task, NEW c \in Task,
         a[t].phase = "user", a[c].phase = "none", NEW b \in [Task -> TaskType],
         \A u \in Task : u # t /\ u # c => b[u] = a[u],
         b[t].phase = "fork", b[t].peer = c, b[t].cr3 = a[t].cr3, b[t].dir = a[t].dir,
         b[t].stack = a[t].stack, b[t].sel = a[t].sel, b[t].then = a[t].then,
         b[t].heap = a[t].heap /\ b[t].own = a[t].own,
         b[c].phase = "new", b[c].cr3 = 0, b[c].dir = 0, b[c].stack = 0, b[c].sel, b[c].then = "none",
         ~ b[c].own
  PROVE  Goes(m, m, a, b)
<1>1. t # c /\ IsMem(m) /\ a \in [Task -> TaskType] /\ a[t] \in TaskType
  BY DEF Sound
<1>6. Shape(b)
  <2>1. Shape(a) /\ HasDir(a[t]) /\ HasSpace(a[t])
    BY DEF Sound, Shape
  <2>2. HasDir(b[t]) /\ HasSpace(b[t])
    BY <2>1 DEF HasDir, HasSpace, Filling, Loading, Mapping, Running, Building
  <2>3. HasDir(b[c]) /\ HasSpace(b[c])
    BY DEF HasDir, HasSpace, Filling, Loading, Mapping, Running, Building
  <2>4. ~ OnPeer(b[c]) /\ PeerOf(b[t], b[c])
    BY <2>1 DEF OnPeer, PeerOf, Building, HasDir, Filling, Loading, Mapping
  <2>5. a[t].phase \in Running
    BY DEF Running
  <2>6. a[c].phase \in {"none", "zombie"} \/ (OnPeer(a[t]) /\ a[t].peer = c)
    OBVIOUS
  <2>7. OnPeer(b[t]) => b[t].peer = c /\ PeerOf(b[t], b[c])
    BY <2>4
  <2> QED  BY <1>1, <2>1, <2>2, <2>3, <2>4, <2>5, <2>6, <2>7, ShapeTwo
<1>7. \A u \in Task, f \in Field : Untouched(m, m, a, u, f)
  BY UntouchedTake DEF Sound
<1>8. Blank(m, b)
  BY DEF Sound, Blank
<1>9. Owning(m, b)
  <2>1. \A f \in Field : Base(b, c, f) = 0
    BY Bases, PageFacts DEF Field
  <2>2. \A f \in Field : SameRoot(a, b, t, f, t, f)
    BY SameRoots DEF Field
  <2>3. \A u \in Task, f \in Field : u # c => SameRoot(a, b, u, f, u, f)
    BY <2>2, SameRoots
  <2>4. \A u \in Task, f \in Field : Keeps(m, m, a, b, u, f, u, f)
    BY <1>7, <2>1, <2>3 DEF Keeps
  <2> QED  BY <1>1, <2>4, OwningKept DEF Sound
<1>10. Maps(m, b)
  <2>1. MapsOf(m, b[c])
    <3>1. b[c].phase \notin Running
      BY DEF Running, Building
    <3> QED  BY <1>1, <1>7, <3>1, PlainMaps DEF Field
  <2>2. MapsOf(m, b[t])
    <3>1. b[t].phase \in Running \ {"copy", "load", "loaded", "map"} /\ ~ Mapping(a[t], "sbrk")
      BY DEF Running, Building, Mapping
    <3> QED  BY <1>1, <1>7, <3>1, PlainMaps DEF Field
  <2>3. \A u \in Task : u # t /\ u # c => MapsOf(m, b[u])
    BY DEF Sound, Maps
  <2> QED  BY <2>1, <2>2, <2>3 DEF Maps
<1>11. Spares(m, m, a, b)
  <2>1. HasDir(a[c]) /\ HasSpace(a[c])
    BY DEF Sound, Shape
  <2>2. a[c].dir = 0 /\ a[c].cr3 = 0 /\ ~ a[c].sel
    BY <2>1 DEF HasDir, HasSpace, Filling, Loading, Mapping
  <2>3. \A f \in Field : Base(a, c, f) = 0
    BY <2>2, Bases, PageFacts DEF Field
  <2>4. \A f \in Field : Stays(a, b, t, f)
    BY SameBack DEF Field
  <2>5. \A u \in Task, f \in Field : Stays(a, b, u, f)
    BY <2>3, <2>4, SameBack
  <2> QED  BY <1>1, <1>7, <2>5, SparesKept
<1> QED  BY <1>1, <1>6, <1>8, <1>9, <1>10, <1>11 DEF Sound, Goes

(* The child gets a kernel stack.                                           *)
LEMMA ForkStackSound ==
  ASSUME NEW m, NEW a, Sound(m, a), NEW t \in Task, NEW c \in Task,
         a[t].phase = "fork", c = a[t].peer, NEW n, n = Take(m),
         NEW p, p = FirstFree(m), NEW b \in [Task -> TaskType],
         \A u \in Task : u # t /\ u # c => b[u] = a[u],
         b[t].phase = IF p = 0 THEN "forkuvm" ELSE "forkdir",
         b[t].peer = c, b[t].cr3 = a[t].cr3, b[t].dir = a[t].dir,
         b[t].stack = a[t].stack, b[t].sel = a[t].sel, b[t].then = a[t].then,
         b[t].heap = a[t].heap /\ b[t].own = a[t].own,
         b[c].phase = a[c].phase, b[c].cr3 = a[c].cr3, b[c].dir = a[c].dir, b[c].stack = p,
         b[c].sel <=> p # 0, b[c].then = a[c].then, b[c].heap = a[c].heap /\ b[c].own = a[c].own
  PROVE  Goes(m, n, a, b)
<1>1. IsMem(m) /\ a \in [Task -> TaskType] /\ a[t] \in TaskType /\ Shape(a) /\ HasDir(a[t]) /\ HasSpace(a[t])
      /\ HasDir(a[c]) /\ HasSpace(a[c]) /\ Owning(m, a)
  BY DEF Sound, Shape
<1>2. OnPeer(a[t]) /\ PeerOf(a[t], a[c])
  BY <1>1 DEF OnPeer, Building, Shape
<1>3. a[c].phase = "new" /\ a[c].cr3 = 0 /\ a[c].stack = 0 /\ t # c
  BY <1>2 DEF PeerOf, Building
<1>4. /\ IsMem(n) /\ n.entry = m.entry /\ (m.oom => n.oom) /\ m.used \subseteq n.used
      /\ p # 0 => p \in Page /\ p \notin m.used /\ p \in n.used
  BY <1>1, TakeFacts, FreeFacts
<1>5. \A u \in Task, f \in Field : Untouched(m, n, a, u, f)
  BY <1>1, <1>4, UntouchedTake
<1>6. Shape(b)
  <2>1. HasDir(b[t]) /\ HasSpace(b[t])
    BY <1>1 DEF HasDir, HasSpace, Filling, Loading, Mapping, Running, Building
  <2>2. HasDir(b[c]) /\ HasSpace(b[c])
    BY <1>1, <1>3 DEF HasDir, HasSpace, Filling, Loading, Mapping, Running, Building
  <2>3. a[c].then = "none" /\ a[t].then = "none"
    BY <1>1, <1>3 DEF HasDir, Filling, Loading, Mapping
  <2>4. ~ OnPeer(b[c]) /\ PeerOf(b[t], b[c])
    BY <1>3, <2>3 DEF OnPeer, PeerOf, Building
  <2>5. a[t].phase \in Running
    BY DEF Running, Building
  <2>6. a[c].phase \in {"none", "zombie"} \/ (OnPeer(a[t]) /\ a[t].peer = c)
    BY <1>2
  <2>7. OnPeer(b[t]) => b[t].peer = c /\ PeerOf(b[t], b[c])
    BY <2>4
  <2> QED  BY <1>1, <1>3, <2>1, <2>2, <2>4, <2>5, <2>6, <2>7, ShapeTwo
<1>7. Blank(n, b)
  BY <1>3, <1>5, BlankNext DEF Field
<1>8. Owning(n, b)
  <2>1. \A f \in Field : SameRoot(a, b, t, f, t, f)
    BY SameRoots DEF Field
  <2>2. \A f \in Field : f # "stack" => SameRoot(a, b, c, f, c, f)
    BY <1>3, SameRoots DEF Field
  <2>3. \A u \in Task, f \in Field : u # c \/ f # "stack" => SameRoot(a, b, u, f, u, f)
    BY <2>1, <2>2, SameRoots
  <2>4. \A u \in Task, f \in Field : u # c \/ f # "stack" => Keeps(m, n, a, b, u, f, u, f)
    BY <1>5, <2>3 DEF Keeps
  <2>5. Base(b, c, "stack") = p /\ From(b, c, "stack") = Last + 1
    BY Bases
  <2>6. ASSUME p # 0
        PROVE  Tree(n, p, Last + 1) /\ Of(n, b, c, "stack") = {p}
    BY <1>4, <2>5, <2>6, SinglePage DEF Of
  <2>7. Base(b, c, "stack") # 0 =>
          /\ Tree(n, Base(b, c, "stack"), From(b, c, "stack"))
          /\ Of(n, b, c, "stack") \subseteq n.used
          /\ Of(n, b, c, "stack") \cap m.used \subseteq Of(m, a, c, "stack")
    BY <1>4, <2>5, <2>6
  <2>8. "stack" \in Field
    BY DEF Field
  <2> QED  BY <1>1, <1>4, <2>4, <2>7, <2>8, HandoverOne
<1>9. Maps(n, b)
  <2>1. MapsOf(n, b[c])
    <3>1. b[c].phase \notin Running
      BY <1>3 DEF Running, Building
    <3> QED  BY <1>4, <1>5, <3>1, PlainMaps DEF Field
  <2>2. MapsOf(n, b[t])
    <3>1. b[t].phase \in Running \ {"copy", "load", "loaded", "map"} /\ ~ Mapping(a[t], "sbrk")
      BY DEF Running, Building, Mapping
    <3> QED  BY <1>4, <1>5, <3>1, PlainMaps DEF Field
  <2>3. \A u \in Task : u # t /\ u # c => MapsOf(n, b[u])
    BY <1>4, <1>5, OtherMaps
  <2> QED  BY <2>1, <2>2, <2>3 DEF Maps
<1>10. Spares(m, n, a, b)
  <2>1. Stays(a, b, c, "stack")
    <3>1. Base(a, c, "stack") = 0
      BY <1>3, Bases
    <3> QED  BY <3>1, SameBack DEF Field
  <2>2. Stays(a, b, c, "cr3") /\ Stays(a, b, c, "dir")
    BY <1>3, SameBack
  <2>3. \A f \in Field : Stays(a, b, t, f)
    BY SameBack DEF Field
  <2>4. \A u \in Task, f \in Field : Stays(a, b, u, f)
    BY <2>1, <2>2, <2>3, SameBack DEF Field
  <2>5. \A r \in n.used : r \notin m.used => r \in Own(n, b)
    <3>1. p # 0 => p \in Own(n, b)
      <4>1. Base(b, c, "stack") = p
        BY Bases
      <4> QED  BY <1>4, <4>1, OwnBase DEF Field
    <3>2. \A r \in n.used : r \notin m.used => p # 0 /\ r = p
      BY <1>1, TakeFacts, FreeFacts
    <3> QED  BY <3>1, <3>2
  <2> QED  BY <1>4, <1>5, <2>4, <2>5, SparesKept
<1> QED  BY <1>4, <1>6, <1>7, <1>8, <1>9, <1>10 DEF Sound, Goes

(* No page for the directory, and the stack goes back.                      *)
LEMMA TakeGive ==
  ASSUME NEW m, IsMem(m), FirstFree(m) = 0, NEW q \in Page
  PROVE  /\ IsMem(Give(Take(m), q)) /\ (m.oom => Give(Take(m), q).oom)
         /\ Give(Take(m), q).used = m.used \ {q}
         /\ Give(Take(m), q).entry = [m.entry EXCEPT ![q] = Empty]
<1> DEFINE m1 == Take(m)
<1>1. IsMem(m1) /\ m1.used = m.used /\ m1.entry = m.entry /\ (m.oom => m1.oom)
  BY TakeFacts
<1> HIDE DEF m1
<1>2. /\ IsMem(Give(m1, q)) /\ Give(m1, q).oom = m1.oom /\ Give(m1, q).used = m1.used \ {q}
      /\ Give(m1, q).entry = [m1.entry EXCEPT ![q] = Empty]
  BY <1>1, GiveFacts
<1>3. Give(Take(m), q) = Give(m1, q)
  BY DEF m1
<1> QED  BY <1>1, <1>2, <1>3

(* The child gets a directory, or loses its stack.                          *)
LEMMA ForkDirSound ==
  ASSUME NEW m, NEW a, Sound(m, a), NEW t \in Task, NEW c \in Task,
         a[t].phase = "forkdir", c = a[t].peer, NEW p, p = FirstFree(m),
         NEW n, n = IF p = 0 THEN Give(Take(m), a[c].stack) ELSE TakeTable(m), NEW b \in [Task -> TaskType],
         \A u \in Task : u # t /\ u # c => b[u] = a[u],
         b[t].phase = "forkuvm",
         b[t].peer = c, b[t].cr3 = a[t].cr3, b[t].dir = a[t].dir,
         b[t].stack = a[t].stack, b[t].sel = a[t].sel, b[t].then = a[t].then,
         b[t].heap = a[t].heap /\ b[t].own = a[t].own,
         b[c].phase = a[c].phase, b[c].cr3 = p, b[c].dir = a[c].dir, b[c].stack = a[c].stack,
         b[c].sel <=> p # 0, b[c].then = a[c].then, b[c].heap = a[c].heap /\ b[c].own = a[c].own
  PROVE  Goes(m, n, a, b)
<1>1. IsMem(m) /\ a \in [Task -> TaskType] /\ a[t] \in TaskType /\ a[c] \in TaskType
      /\ Shape(a) /\ HasDir(a[t]) /\ HasSpace(a[t])
      /\ HasDir(a[c]) /\ HasSpace(a[c]) /\ Owning(m, a)
  BY DEF Sound, Shape
<1>2. OnPeer(a[t]) /\ PeerOf(a[t], a[c])
  BY <1>1 DEF OnPeer, Building, Shape
<1>3. a[c].phase = "new" /\ a[c].cr3 = 0 /\ a[c].sel /\ a[c].stack # 0 /\ t # c /\ a[c].stack \in Page
  <2>1. a[c].stack \in Page \cup {0}
    BY <1>1 DEF TaskType
  <2> QED  BY <1>2, <2>1 DEF PeerOf, Building
<1> DEFINE q == a[c].stack
<1>4. ASSUME p = 0
      PROVE  /\ IsMem(n) /\ (m.oom => n.oom) /\ n.used = m.used \ {q}
             /\ n.entry = [m.entry EXCEPT ![q] = Empty]
  <2>1. n = Give(Take(m), q) /\ FirstFree(m) = 0 /\ q \in Page /\ IsMem(m)
    BY <1>1, <1>3, <1>4
  <2> HIDE DEF q
  <2>2. /\ IsMem(Give(Take(m), q)) /\ (m.oom => Give(Take(m), q).oom)
        /\ Give(Take(m), q).used = m.used \ {q}
        /\ Give(Take(m), q).entry = [m.entry EXCEPT ![q] = Empty]
    BY <2>1, TakeGive
  <2> QED  BY <2>1, <2>2
<1>5. ASSUME p # 0
      PROVE  /\ IsMem(n) /\ (m.oom => n.oom) /\ n.used = m.used \cup {p}
             /\ n.entry = [m.entry EXCEPT ![p] = Empty]
             /\ p \in Page /\ p \notin m.used
  BY <1>1, <1>5, TakeTableFacts, FreeFacts
<1>6. m.entry \in [Page -> [1 .. NSlot -> Page \cup {0}]] /\ m.used \subseteq Page
  BY <1>1 DEF IsMem, MemType
<1> HIDE DEF q
<1>7. \A u \in Task, f \in Field : u # c \/ f # "stack" => Untouched(m, n, a, u, f)
  <2>1. CASE p = 0
    <3>1. q \in Of(m, a, c, "stack")
      <4>1. Base(a, c, "stack") = q /\ q # 0
        BY <1>3, Bases DEF q
      <4> QED  BY <4>1 DEF Of, Pages
    <3>2. \A r \in m.used : r # q => n.entry[r] = m.entry[r]
      BY <1>4, <1>6, <2>1
    <3>3. "stack" \in Field
      BY DEF Field
    <3>4. n.used = m.used \ {q}
      BY <1>4, <2>1
    <3>5. Owning(m, a) /\ c \in Task
      BY <1>1
    <3> QED  BY <3>1, <3>2, <3>3, <3>4, <3>5, UntouchedGive, SMTT(60)
  <2>2. CASE p # 0
    <3>1. \A r \in m.used : n.entry[r] = m.entry[r]
      BY <1>5, <1>6, <2>2
    <3>2. m.used \subseteq n.used
      BY <1>5, <2>2
    <3> QED  BY <1>1, <3>1, <3>2, UntouchedTake
  <2> QED  BY <2>1, <2>2
<1>8. Shape(b)
  <2>1. HasDir(b[t]) /\ HasSpace(b[t])
    BY <1>1 DEF HasDir, HasSpace, Filling, Loading, Mapping, Running, Building
  <2>2. HasDir(b[c]) /\ HasSpace(b[c])
    BY <1>1, <1>3 DEF HasDir, HasSpace, Filling, Loading, Mapping, Running, Building
  <2>3. a[c].then = "none" /\ a[t].then = "none"
    BY <1>1, <1>3 DEF HasDir, Filling, Loading, Mapping
  <2>4. ~ OnPeer(b[c]) /\ PeerOf(b[t], b[c])
    BY <1>3, <2>3 DEF OnPeer, PeerOf, Building
  <2>5. a[t].phase \in Running
    BY DEF Running, Building
  <2>6. a[c].phase \in {"none", "zombie"} \/ (OnPeer(a[t]) /\ a[t].peer = c)
    BY <1>2
  <2>7. OnPeer(b[t]) => b[t].peer = c /\ PeerOf(b[t], b[c])
    BY <2>4
  <2> QED  BY <1>1, <1>3, <2>1, <2>2, <2>4, <2>5, <2>6, <2>7, ShapeTwo
<1>9. IsMem(n) /\ (m.oom => n.oom)
  BY <1>4, <1>5
<1>10. Blank(n, b)
  <2> SUFFICES ASSUME NEW u \in Task, b[u].phase = "new", b[u].cr3 # 0
               PROVE  b[u].cr3 \in Page /\ n.entry[b[u].cr3] = Empty
    BY DEF Blank
  <2>1. CASE u = c
    BY <1>5, <1>6, <2>1
  <2>2. CASE u # c
    <3>1. b[u] = a[u] /\ Untouched(m, n, a, u, "cr3")
      BY <1>7, <2>2 DEF Field
    <3>2. a[u].cr3 \in Page /\ m.entry[a[u].cr3] = Empty
      BY <3>1 DEF Sound, Blank
    <3>3. a[u].cr3 \in Of(m, a, u, "cr3")
      <4>1. Base(a, u, "cr3") = a[u].cr3 /\ a[u].cr3 # 0
        BY <3>1, <3>2, Bases
      <4> QED  BY <4>1 DEF Of, Pages
    <3> QED  BY <3>1, <3>2, <3>3 DEF Untouched
  <2> QED  BY <2>1, <2>2
<1>11. Owning(n, b)
  <2>1. \A f \in Field : SameRoot(a, b, t, f, t, f)
    BY SameRoots DEF Field
  <2>2. SameRoot(a, b, c, "dir", c, "dir")
    BY <1>3, SameRoots
  <2>3. \A u \in Task, f \in Field : u # c => SameRoot(a, b, u, f, u, f)
    BY <2>1, SameRoots
  <2>4. Keeps(m, n, a, b, c, "stack", c, "stack")
    <3>1. CASE p = 0
      <4>1. Base(b, c, "stack") = 0
        BY <3>1, Bases
      <4> QED  BY <4>1 DEF Keeps
    <3>2. CASE p # 0
      <4>1. SameRoot(a, b, c, "stack", c, "stack")
        BY <1>3, <3>2, Bases DEF SameRoot
      <4>2. \A r \in m.used : r \in n.used /\ n.entry[r] = m.entry[r]
        BY <1>5, <1>6, <3>2
      <4>3. Untouched(m, n, a, c, "stack")
        BY <1>1, <4>2, UntouchedTake DEF Field
      <4> QED  BY <4>1, <4>3 DEF Keeps
    <3> QED  BY <3>1, <3>2
  <2>5. \A u \in Task, f \in Field : u # c \/ f # "cr3" => Keeps(m, n, a, b, u, f, u, f)
    BY <1>7, <2>2, <2>3, <2>4 DEF Keeps, Field
  <2>6. Base(b, c, "cr3") = p /\ From(b, c, "cr3") = 1
    <3>1. b[c].cr3 = p /\ b[c].phase # "reaped" /\ (p # 0 => p \in Page)
      BY <1>3, <1>5
    <3> QED  BY <3>1, Bases
  <2>7. ASSUME p # 0
        PROVE  Tree(n, p, 1) /\ Of(n, b, c, "cr3") = {p}
    <3>1. n.entry[p] = Empty
      BY <1>5, <1>6, <2>7
    <3> QED  BY <1>5, <2>6, <2>7, <3>1, SinglePage DEF Of
  <2>8. Base(b, c, "cr3") # 0 =>
          /\ Tree(n, Base(b, c, "cr3"), From(b, c, "cr3"))
          /\ Of(n, b, c, "cr3") \subseteq n.used
          /\ Of(n, b, c, "cr3") \cap m.used \subseteq Of(m, a, c, "cr3")
    BY <1>5, <2>6, <2>7
  <2>9. "cr3" \in Field
    BY DEF Field
  <2> QED  BY <1>1, <1>9, <2>5, <2>8, <2>9, HandoverOne
<1>12. Maps(n, b)
  <2>1. MapsOf(n, b[c])
    <3>1. b[c].phase \notin Running
      BY <1>3 DEF Running, Building
    <3> QED  BY <1>7, <1>9, <3>1, PlainMaps DEF Field
  <2>2. MapsOf(n, b[t])
    <3>1. b[t].phase \in Running \ {"copy", "load", "loaded", "map"} /\ ~ Mapping(a[t], "sbrk")
      BY DEF Running, Building, Mapping
    <3>2. Untouched(m, n, a, t, "cr3")
      BY <1>3, <1>7 DEF Field
    <3> QED  BY <1>9, <3>1, <3>2, PlainMaps
  <2>3. ASSUME NEW u \in Task, u # t, u # c
        PROVE  MapsOf(n, b[u])
    <3>1. b[u] = a[u] /\ \A f \in Field : Untouched(m, n, a, u, f)
      BY <1>7, <2>3
    <3>2. MapsOf(n, a[u])
      BY <1>9, <3>1, OtherMaps
    <3> QED  BY <3>1, <3>2
  <2> QED  BY <2>1, <2>2, <2>3 DEF Maps
<1>13. Spares(m, n, a, b)
  <2>1. Safe(m, n, a, b, c, "stack") \/ (Untouched(m, n, a, c, "stack") /\ Stays(a, b, c, "stack"))
    <3>1. CASE p = 0
      <4>1. Base(a, c, "stack") = q /\ From(a, c, "stack") = Last + 1 /\ q # 0
        BY <1>3, Bases DEF q
      <4>2. Of(m, a, c, "stack") = {q}
        BY <1>3, <4>1, SinglePage DEF Of, q
      <4>3. q \notin n.used
        BY <1>4, <3>1
      <4> QED  BY <4>2, <4>3, SafeGone
    <3>2. CASE p # 0
      <4>1. \A r \in m.used : n.entry[r] = m.entry[r]
        BY <1>5, <1>6, <3>2
      <4>2. m.used \subseteq n.used
        BY <1>5, <3>2
      <4>3. Untouched(m, n, a, c, "stack")
        BY <1>1, <4>1, <4>2, UntouchedTake DEF Field
      <4>4. (b[c].sel <=> a[c].sel) /\ b[c].stack = a[c].stack
        BY <1>3, <3>2
      <4>5. Stays(a, b, c, "stack")
        <5>1. SameRoot(b, a, c, "stack", c, "stack")
          BY <4>4, Bases DEF SameRoot
        <5> QED  BY <5>1 DEF Stays, Field
      <4> QED  BY <4>3, <4>5
    <3> QED  BY <3>1, <3>2
  <2>2. Stays(a, b, c, "cr3") /\ Stays(a, b, c, "dir")
    <3>1. Base(a, c, "cr3") = 0
      BY <1>3, Bases, PageFacts
    <3>2. Stays(a, b, c, "cr3")
      BY <3>1, SameBack DEF Field
    <3> QED  BY <1>3, <3>2, SameBack
  <2>3. \A f \in Field : Stays(a, b, t, f)
    BY SameBack DEF Field
  <2>4. \A u \in Task, f \in Field : u # c \/ f # "stack" => Stays(a, b, u, f)
    BY <2>2, <2>3, SameBack DEF Field
  <2>5. \A u \in Task, f \in Field :
          Safe(m, n, a, b, u, f) \/ (Untouched(m, n, a, u, f) /\ Stays(a, b, u, f))
    BY <1>7, <2>1, <2>4
  <2>6. \A r \in n.used : r \notin m.used => r \in Own(n, b)
    <3>1. CASE p = 0
      BY <1>4, <3>1
    <3>2. CASE p # 0
      <4>1. Base(b, c, "cr3") = p
        BY <1>3, <1>5, <3>2, Bases
      <4>2. p \in Own(n, b)
        BY <1>5, <3>2, <4>1, OwnBase DEF Field
      <4> QED  BY <1>5, <3>2, <4>2
    <3> QED  BY <3>1, <3>2
  <2> QED  BY <1>9, <2>5, <2>6, SparesKept
<1> QED  BY <1>8, <1>9, <1>10, <1>11, <1>12, <1>13 DEF Sound, Goes

(* Memory after an allocation, for a page that is not a directory and for   *)
(* an empty directory.                                                      *)
LEMMA TakeOwning ==
  ASSUME NEW m, NEW a, Sound(m, a), NEW n, n = Take(m)
  PROVE  /\ IsMem(n) /\ (m.oom => n.oom)
         /\ \A u \in Task, f \in Field : Untouched(m, n, a, u, f)
<1>1. IsMem(m) /\ Owning(m, a)
  BY DEF Sound
<1>2. IsMem(n) /\ (m.oom => n.oom) /\ m.used \subseteq n.used /\ n.entry = m.entry
  BY <1>1, TakeFacts
<1> QED  BY <1>1, <1>2, UntouchedTake

(* A fresh directory touches nothing that is owned.                         *)
LEMMA TakeTableOwning ==
  ASSUME NEW m, NEW a, Sound(m, a), NEW p, p = FirstFree(m), p # 0, NEW n, n = TakeTable(m)
  PROVE  /\ IsMem(n) /\ (m.oom => n.oom) /\ p \in Page /\ p \notin m.used /\ p \in n.used
         /\ \A u \in Task, f \in Field : Untouched(m, n, a, u, f)
         /\ Tree(n, p, 1) /\ Pages(n, p, 1) = {p} /\ Mapped(n, p) = {}
<1>1. IsMem(m) /\ Owning(m, a)
  BY DEF Sound
<1>2. /\ IsMem(n) /\ (m.oom => n.oom) /\ n.used = m.used \cup {p} /\ p \in Page /\ p \notin m.used
      /\ n.entry = [m.entry EXCEPT ![p] = Empty]
  BY <1>1, TakeTableFacts, FreeFacts
<1>3. m.entry \in [Page -> [1 .. NSlot -> Page \cup {0}]] /\ m.used \subseteq Page
  BY <1>1 DEF IsMem, MemType
<1>4. n.entry[p] = Empty /\ \A r \in m.used : n.entry[r] = m.entry[r]
  BY <1>2, <1>3
<1>5. m.used \subseteq n.used
  BY <1>2
<1>6. \A u \in Task, f \in Field : Untouched(m, n, a, u, f)
  BY <1>1, <1>4, <1>5, UntouchedTake
<1>7. Tree(n, p, 1) /\ Pages(n, p, 1) = {p} /\ Mapped(n, p) = {}
  <2>1. p \in Page /\ n.entry[p] = Empty
    BY <1>2, <1>4
  <2>2. n.entry[p] = Empty => Tree(n, p, 1) /\ Pages(n, p, 1) = {p} /\ Mapped(n, p) = {}
    BY <2>1, SinglePage
  <2> QED  BY <2>1, <2>2
<1> QED  BY <1>2, <1>6, <1>7

(* memory_copy_uvm finds no page for the directory.                         *)
LEMMA CopyCreateFails ==
  ASSUME NEW m, NEW a, Sound(m, a), NEW t \in Task, NEW c \in Task,
         a[t].phase = "forkuvm", c = a[t].peer, FirstFree(m) = 0, NEW n, n = Take(m),
         NEW b \in [Task -> TaskType],
         \A u \in Task : u # t /\ u # c => b[u] = a[u],
         b[t].phase = "user", b[t].cr3 = a[t].cr3, b[t].dir = 0,
         b[t].stack = a[t].stack, b[t].sel = a[t].sel, b[t].then = "none",
         b[t].heap = a[t].heap /\ b[t].own = a[t].own,
         b[c].phase = "broken", b[c].cr3 = BAD, b[c].dir = a[c].dir, b[c].stack = a[c].stack,
         b[c].sel = a[c].sel, b[c].then = a[c].then, b[c].heap = a[c].heap /\ b[c].own = a[c].own
  PROVE  Goes(m, n, a, b)
<1>1. IsMem(m) /\ a \in [Task -> TaskType] /\ a[t] \in TaskType /\ a[c] \in TaskType
      /\ Shape(a) /\ HasDir(a[t]) /\ HasSpace(a[t])
      /\ HasDir(a[c]) /\ HasSpace(a[c]) /\ Owning(m, a)
  BY DEF Sound, Shape
<1>2. OnPeer(a[t]) /\ PeerOf(a[t], a[c])
  BY <1>1 DEF OnPeer, Building, Shape
<1>3. a[c].phase = "new" /\ t # c
  BY <1>2 DEF PeerOf, Building
<1>4. IsMem(n) /\ (m.oom => n.oom) /\ \A u \in Task, f \in Field : Untouched(m, n, a, u, f)
  BY TakeOwning
<1>5. Shape(b)
  <2>1. HasDir(b[t]) /\ HasSpace(b[t])
    BY <1>1 DEF HasDir, HasSpace, Filling, Loading, Mapping, Running, Building
  <2>2. HasDir(b[c]) /\ HasSpace(b[c])
    BY <1>1, <1>3 DEF HasDir, HasSpace, Filling, Loading, Mapping, Running, Building
  <2>3. ~ OnPeer(b[c]) /\ ~ OnPeer(b[t])
    BY <1>1, <1>3 DEF OnPeer, Building, HasDir, Filling, Loading, Mapping
  <2>4. a[t].phase \in Running
    BY DEF Running, Building
  <2>5. a[c].phase \in {"none", "zombie"} \/ (OnPeer(a[t]) /\ a[t].peer = c)
    BY <1>2
  <2>6. OnPeer(b[t]) => b[t].peer = c /\ PeerOf(b[t], b[c])
    BY <2>3
  <2> QED  BY <1>1, <1>3, <2>1, <2>2, <2>3, <2>4, <2>5, <2>6, ShapeTwo
<1>6. Blank(n, b)
  BY <1>4, BlankNext DEF Field
<1>7. Owning(n, b)
  <2>1. SameRoot(a, b, t, "stack", t, "stack") /\ SameRoot(a, b, t, "cr3", t, "cr3")
    BY SameRoots
  <2>2. SameRoot(a, b, c, "stack", c, "stack") /\ SameRoot(a, b, c, "dir", c, "dir")
    BY <1>3, SameRoots
  <2>3. SameRoot(a, b, t, "dir", t, "dir") /\ SameRoot(a, b, c, "cr3", c, "cr3")
    BY Bases, PageFacts DEF SameRoot
  <2>4. \A u \in Task, f \in Field : SameRoot(a, b, u, f, u, f)
    BY <2>1, <2>2, <2>3, SameRoots DEF Field
  <2>5. \A u \in Task, f \in Field : Keeps(m, n, a, b, u, f, u, f)
    BY <1>4, <2>4 DEF Keeps
  <2> QED  BY <1>1, <1>4, <2>5, OwningKept
<1>8. Maps(n, b)
  <2>1. MapsOf(n, b[c])
    <3>1. b[c].phase \notin Running
      BY DEF Running, Building
    <3> QED  BY <1>4, <3>1, PlainMaps DEF Field
  <2>2. MapsOf(n, b[t])
    <3>1. b[t].phase \in Running \ {"copy", "load", "loaded", "map"} /\ ~ Mapping(a[t], "sbrk")
      BY DEF Running, Building, Mapping
    <3> QED  BY <1>4, <3>1, PlainMaps DEF Field
  <2>3. \A u \in Task : u # t /\ u # c => MapsOf(n, b[u])
    BY <1>4, OtherMaps
  <2> QED  BY <2>1, <2>2, <2>3 DEF Maps
<1>9. Spares(m, n, a, b)
  <2>1. Stays(a, b, t, "stack") /\ Stays(a, b, t, "cr3") /\ Stays(a, b, c, "stack") /\ Stays(a, b, c, "dir")
    BY <1>3, SameBack
  <2>2. Stays(a, b, t, "dir")
    <3>1. a[t].dir = 0
      BY <1>1 DEF HasDir, Filling, Loading, Mapping
    <3> QED  BY <3>1, Bases, SameBack DEF Field
  <2>3. Safe(m, n, a, b, c, "cr3")
    BY <1>3, NewLapse
  <2>4. \A u \in Task, f \in Field : Safe(m, n, a, b, u, f) \/ Stays(a, b, u, f)
    BY <2>1, <2>2, <2>3, SameBack DEF Field
  <2>5. n.used = m.used
    BY <1>1, TakeFacts
  <2> QED  BY <1>4, <2>4, <2>5, SparesKept
<1> QED  BY <1>4, <1>5, <1>6, <1>7, <1>8, <1>9 DEF Sound, Goes

(* memory_copy_uvm and execve begin with an empty directory.                *)
LEMMA NewDirSound ==
  ASSUME NEW m, NEW a, Sound(m, a), NEW t \in Task,
         NEW p, p = FirstFree(m), p # 0, NEW n, n = TakeTable(m), NEW b \in [Task -> TaskType],
         \A u \in Task : u # t => b[u] = a[u],
         \/ a[t].phase = "forkuvm" /\ b[t].phase = "copy" /\ b[t].at = 1
         \/ a[t].phase = "user" /\ b[t].phase = "load",
         b[t].cr3 = a[t].cr3, b[t].dir = p, b[t].peer = a[t].peer,
         b[t].stack = a[t].stack, b[t].sel = a[t].sel, b[t].then = a[t].then,
         b[t].heap = a[t].heap /\ b[t].own = a[t].own
  PROVE  Goes(m, n, a, b)
<1>1. IsMem(m) /\ a \in [Task -> TaskType] /\ a[t] \in TaskType /\ b[t] \in TaskType
      /\ Shape(a) /\ HasDir(a[t]) /\ HasSpace(a[t]) /\ Owning(m, a)
  BY DEF Sound, Shape
<1>2. /\ IsMem(n) /\ (m.oom => n.oom) /\ p \in Page /\ p \notin m.used /\ p \in n.used
      /\ \A u \in Task, f \in Field : Untouched(m, n, a, u, f)
      /\ Tree(n, p, 1) /\ Pages(n, p, 1) = {p} /\ Mapped(n, p) = {}
  BY TakeTableOwning
<1>3. a[t].phase \in Running /\ b[t].phase \in Running /\ b[t].phase \in {"copy", "load"}
      /\ a[t].phase \notin {"destroy", "reaped"} /\ b[t].phase \notin {"destroy", "reaped"}
  BY DEF Running, Building
<1>4. Shape(b)
  <2>1. HasDir(b[t]) /\ HasSpace(b[t])
    BY <1>1 DEF HasDir, HasSpace, Filling, Loading, Mapping, Running, Building
  <2>2. OnPeer(b[t]) => OnPeer(a[t])
    BY DEF OnPeer, Building
  <2>3. ASSUME OnPeer(b[t])
        PROVE  PeerOf(b[t], a[a[t].peer])
    <3>1. PeerOf(a[t], a[a[t].peer])
      BY <1>1, <2>2, <2>3 DEF Shape
    <3>2. a[t].phase = "forkuvm" /\ b[t].phase = "copy"
      BY <1>1, <2>3 DEF OnPeer, HasDir, Building, Filling, Loading, Mapping
    <3> QED  BY <3>1, <3>2 DEF PeerOf, Building
  <2> QED  BY <1>1, <1>3, <2>1, <2>2, <2>3, ShapeOne
<1>5. Blank(n, b)
  BY <1>2, <1>3, BlankNext DEF Field
<1>6. Owning(n, b)
  <2>1. SameRoot(a, b, t, "stack", t, "stack") /\ SameRoot(a, b, t, "cr3", t, "cr3")
    BY <1>3, SameRoots
  <2>2. \A u \in Task, f \in Field : u # t \/ f # "dir" => SameRoot(a, b, u, f, u, f)
    BY <2>1, SameRoots DEF Field
  <2>3. \A u \in Task, f \in Field : u # t \/ f # "dir" => Keeps(m, n, a, b, u, f, u, f)
    BY <1>2, <2>2 DEF Keeps
  <2>4. Base(b, t, "dir") = p /\ From(b, t, "dir") = 1
    BY <1>3, Bases
  <2>5. Of(n, b, t, "dir") = {p}
    BY <1>2, <2>4 DEF Of
  <2>6. Base(b, t, "dir") # 0 =>
          /\ Tree(n, Base(b, t, "dir"), From(b, t, "dir"))
          /\ Of(n, b, t, "dir") \subseteq n.used
          /\ Of(n, b, t, "dir") \cap m.used \subseteq Of(m, a, t, "dir")
    BY <1>2, <2>4, <2>5
  <2>7. "dir" \in Field
    BY DEF Field
  <2> QED  BY <1>1, <1>2, <2>3, <2>6, <2>7, HandoverOne
<1>7. Maps(n, b)
  <2>1. MapsOf(n, b[t])
    <3>1. MapsOf(m, a[t])
      BY DEF Sound, Maps
    <3>2. Mapped(n, a[t].cr3) = Mapped(m, a[t].cr3)
      BY <1>2, <1>3, DirsMapped DEF Field
    <3>3. b[t].own => Exactly(n, b[t].cr3, MayUse(b[t]))
      <4>1. MayUse(b[t]) = MayUse(a[t])
        BY <1>3 DEF MayUse, Mapping
      <4> QED  BY <1>2, <1>3, <3>1, <3>2, <4>1 DEF MapsOf, Exactly
    <3>4. b[t].phase = "copy" => {v \in Mapped(n, b[t].cr3) : v < b[t].at} = {}
      BY DEF Mapped, UPage
    <3>5. Mapped(n, b[t].dir) = {}
      BY <1>2
    <3>6. Built(b[t]) = {}
      BY <1>3 DEF Built, Mapping
    <3>7. Rounds(n, b[t])
      BY <1>3 DEF Rounds, Mapping
    <3> QED  BY <1>3, <3>3, <3>4, <3>5, <3>6, <3>7 DEF MapsOf, Exactly
  <2>2. \A u \in Task : u # t => MapsOf(n, b[u])
    BY <1>2, OtherMaps
  <2> QED  BY <2>1, <2>2 DEF Maps
<1>8. Spares(m, n, a, b)
  <2>1. Stays(a, b, t, "stack") /\ Stays(a, b, t, "cr3")
    BY <1>3, SameBack
  <2>2. Stays(a, b, t, "dir")
    <3>1. a[t].dir = 0
      BY <1>1 DEF HasDir, Filling, Loading, Mapping
    <3> QED  BY <3>1, Bases, SameBack DEF Field
  <2>3. \A u \in Task, f \in Field : Stays(a, b, u, f)
    BY <2>1, <2>2, SameBack DEF Field
  <2>4. p \in Own(n, b)
    <3>1. Base(b, t, "dir") = p
      BY Bases
    <3> QED  BY <1>2, <3>1, OwnBase DEF Field
  <2>5. n.used = m.used \cup {p}
    BY <1>1, TakeTableFacts
  <2> QED  BY <1>2, <2>3, <2>4, <2>5, SparesKept
<1> QED  BY <1>2, <1>4, <1>5, <1>6, <1>7, <1>8 DEF Sound, Goes

(* Memory after pages were mapped into a directory a task holds.            *)
LEMMA GrowReady ==
  ASSUME NEW m, NEW a, Sound(m, a), NEW v \in Task, NEW g \in Field,
         Base(a, v, g) # 0, From(a, v, g) = 1
  PROVE  /\ Base(a, v, g) \in Page /\ Tree(m, Base(a, v, g), 1)
         /\ Pages(m, Base(a, v, g), 1) \subseteq m.used
         /\ Of(m, a, v, g) = Pages(m, Base(a, v, g), 1)
<1>1. a \in [Task -> TaskType] /\ Trees(m, a)
  BY DEF Sound, Owning
<1>2. Base(a, v, g) \in Page
  BY <1>1, BaseTypes
<1>3. Of(m, a, v, g) = Pages(m, Base(a, v, g), 1)
  BY DEF Of
<1>4. Tree(m, Base(a, v, g), 1) /\ Of(m, a, v, g) \subseteq m.used
  BY <1>1 DEF Trees
<1> QED  BY <1>2, <1>3, <1>4

(* Growing the directory at one root touches nothing at the others.         *)
LEMMA GrowOwning ==
  ASSUME NEW m, NEW a, Sound(m, a), NEW v \in Task, NEW g \in Field, NEW d,
         d = Base(a, v, g), d # 0, From(a, v, g) = 1, NEW n, Grows(m, n, d)
  PROVE  /\ IsMem(n) /\ (m.oom => n.oom)
         /\ \A u \in Task, f \in Field : u # v \/ f # g => Untouched(m, n, a, u, f)
         /\ Tree(n, d, 1) /\ Pages(n, d, 1) \subseteq n.used
         /\ Pages(n, d, 1) \cap m.used \subseteq Of(m, a, v, g)
<1>1. Owning(m, a)
  BY DEF Sound
<1>2. \A u \in Task, f \in Field : u # v \/ f # g => Untouched(m, n, a, u, f)
  BY <1>1, UntouchedGrow
<1>3. Of(m, a, v, g) = Pages(m, d, 1)
  BY DEF Of
<1> QED  BY <1>2, <1>3 DEF Grows

(* The ownership after it, when the roots of the tasks stay what they are.  *)
LEMMA GrowKept ==
  ASSUME NEW m, NEW a, Sound(m, a), NEW v \in Task, NEW g \in Field, NEW d,
         d = Base(a, v, g), d # 0, From(a, v, g) = 1, NEW n, Grows(m, n, d),
         NEW b \in [Task -> TaskType],
         \A u \in Task, f \in Field : u # v \/ f # g => SameRoot(a, b, u, f, u, f),
         Base(b, v, g) = d, From(b, v, g) = 1
  PROVE  Owning(n, b)
<1>1. IsMem(m) /\ a \in [Task -> TaskType] /\ Owning(m, a)
  BY DEF Sound
<1>2. /\ IsMem(n) /\ (m.oom => n.oom)
      /\ \A u \in Task, f \in Field : u # v \/ f # g => Untouched(m, n, a, u, f)
      /\ Tree(n, d, 1) /\ Pages(n, d, 1) \subseteq n.used
      /\ Pages(n, d, 1) \cap m.used \subseteq Of(m, a, v, g)
  BY GrowOwning
<1>3. \A u \in Task, f \in Field : u # v \/ f # g => Keeps(m, n, a, b, u, f, u, f)
  BY <1>2 DEF Keeps
<1>4. Of(n, b, v, g) = Pages(n, d, 1)
  BY DEF Of
<1>5. Base(b, v, g) # 0 =>
        /\ Tree(n, Base(b, v, g), From(b, v, g))
        /\ Of(n, b, v, g) \subseteq n.used
        /\ Of(n, b, v, g) \cap m.used \subseteq Of(m, a, v, g)
  BY <1>2, <1>4
<1> QED  BY <1>1, <1>2, <1>3, <1>5, HandoverOne

(* memory_copy_uvm copies a page, or gives up.                              *)
LEMMA CopyPageSound ==
  ASSUME NEW m, NEW a, Sound(m, a), NEW t \in Task, a[t].phase = "copy",
         NEW v \in Mapped(m, a[t].cr3), v >= a[t].at,
         \A w \in Mapped(m, a[t].cr3) : w >= a[t].at => v <= w,
         NEW n, n = MapOne(m, a[t].dir, v).mem, NEW b \in [Task -> TaskType],
         \A u \in Task : u # t => b[u] = a[u],
         MapOne(m, a[t].dir, v).ok => b[t].phase = "copy" /\ b[t].at = v + 1 /\ b[t].then = a[t].then,
         ~ MapOne(m, a[t].dir, v).ok => b[t].phase = "destroy" /\ b[t].at = 1 /\ b[t].then = "fork",
         b[t].cr3 = a[t].cr3, b[t].dir = a[t].dir, b[t].peer = a[t].peer,
         b[t].stack = a[t].stack, b[t].sel = a[t].sel, b[t].heap = a[t].heap /\ b[t].own = a[t].own
  PROVE  Goes(m, n, a, b) /\ (n.panic => m.panic)
<1> DEFINE d == a[t].dir
           ok == MapOne(m, a[t].dir, v).ok
<1>1. IsMem(m) /\ a \in [Task -> TaskType] /\ a[t] \in TaskType /\ b[t] \in TaskType
      /\ Shape(a) /\ HasDir(a[t]) /\ HasSpace(a[t]) /\ Owning(m, a) /\ MapsOf(m, a[t])
  BY DEF Sound, Shape, Maps
<1>2. Base(a, t, "dir") = d /\ From(a, t, "dir") = 1 /\ d # 0 /\ "dir" \in Field
  BY <1>1, Bases DEF HasDir, Field, Filling, Loading, Mapping
<1>3. d \in Page /\ Tree(m, d, 1) /\ Pages(m, d, 1) \subseteq m.used
  BY <1>2, GrowReady
<1>4. v \in 0 .. StackPage /\ v \in Int
  BY DEF Mapped, UPage, StackPage
<1>5. /\ Grows(m, n, d) /\ ok \in BOOLEAN
      /\ ok => Mapped(n, d) = Mapped(m, d) \cup {v}
      /\ n.panic => m.panic \/ v = 0 \/ v \in Mapped(m, d)
  <2>1. n = MapOne(m, d, v).mem /\ ok = MapOne(m, d, v).ok
    OBVIOUS
  <2> HIDE DEF d, ok
  <2>2. /\ Grows(m, MapOne(m, d, v).mem, d) /\ MapOne(m, d, v).ok \in BOOLEAN
        /\ MapOne(m, d, v).ok => Mapped(MapOne(m, d, v).mem, d) = Mapped(m, d) \cup {v}
        /\ MapOne(m, d, v).mem.panic => m.panic \/ v = 0 \/ v \in Mapped(m, d)
    BY <1>1, <1>3, <1>4, MapOneGrows
  <2> QED  BY <2>1, <2>2
<1> HIDE DEF d, ok
<1>6. /\ IsMem(n) /\ (m.oom => n.oom)
      /\ \A u \in Task, f \in Field : u # t \/ f # "dir" => Untouched(m, n, a, u, f)
  BY <1>2, <1>5, GrowOwning
<1>7. \/ ok /\ b[t].phase = "copy" /\ b[t].at = v + 1 /\ b[t].then = a[t].then
      \/ ~ ok /\ b[t].phase = "destroy" /\ b[t].at = 1 /\ b[t].then = "fork"
  BY <1>5 DEF ok
<1>8. a[t].phase \in Running /\ b[t].phase \in Running
  BY <1>7 DEF Running, Building
<1>9. Shape(b)
  <2>1. HasDir(b[t]) /\ HasSpace(b[t])
    BY <1>1, <1>7 DEF HasDir, HasSpace, Filling, Loading, Mapping, Running, Building
  <2>2. OnPeer(a[t])
    BY DEF OnPeer, Building
  <2>3. PeerOf(a[t], a[a[t].peer])
    BY <1>1, <2>2 DEF Shape
  <2>4. a[t].then = "none"
    BY <1>1 DEF HasDir, Filling, Loading, Mapping
  <2>5. PeerOf(b[t], a[a[t].peer])
    BY <1>7, <2>3, <2>4 DEF PeerOf, Building
  <2> QED  BY <1>1, <1>8, <2>1, <2>2, <2>5, ShapeOne
<1>10. Blank(n, b)
  <2>1. b[t].phase # "new"
    BY <1>7
  <2> QED  BY <1>6, <2>1, BlankNext DEF Field
<1>11. Owning(n, b)
  <2>1. SameRoot(a, b, t, "stack", t, "stack") /\ SameRoot(a, b, t, "cr3", t, "cr3")
    BY <1>7, SameRoots
  <2>2. \A u \in Task, f \in Field : u # t \/ f # "dir" => SameRoot(a, b, u, f, u, f)
    BY <2>1, SameRoots DEF Field
  <2>3. Base(b, t, "dir") = d /\ From(b, t, "dir") = 1
    BY <1>7, Bases DEF d
  <2> QED  BY <1>2, <1>5, <2>2, <2>3, GrowKept
<1>12. Maps(n, b)
  <2>1. MapsOf(n, b[t])
    <3>1. Untouched(m, n, a, t, "cr3")
      BY <1>6 DEF Field
    <3>2. CASE ~ ok
      <4>1. b[t].phase \in Running \ {"copy", "load", "loaded", "map"} /\ ~ Mapping(a[t], "sbrk")
        BY <1>7, <1>8, <3>2 DEF Mapping
      <4> QED  BY <1>6, <1>8, <3>1, <4>1, PlainMaps
    <3>3. CASE ok
      <4>1. Mapped(n, a[t].cr3) = Mapped(m, a[t].cr3)
        BY <1>6, <1>8, <3>1, DirsMapped
      <4>2. Mapped(m, d) = {w \in Mapped(m, a[t].cr3) : w < a[t].at} /\ a[t].at \in Nat
        BY <1>1 DEF MapsOf, TaskType, d
      <4>3. Mapped(m, a[t].cr3) \subseteq Int
        BY DEF Mapped, UPage
      <4> DEFINE M == Mapped(m, a[t].cr3)
      <4>4. {w \in M : w < a[t].at} \cup {v} = {w \in M : w < v + 1}
        <5> HIDE DEF M
        <5>1. M \subseteq Int /\ v \in M /\ a[t].at \in Int /\ \A w \in M : w >= a[t].at => v <= w
          BY <4>2, <4>3 DEF M
        <5>2. ASSUME NEW w \in M
              PROVE  w < a[t].at \/ w = v <=> w < v + 1
          BY <1>4, <5>1, <5>2
        <5> QED  BY <5>1, <5>2
      <4>5. Mapped(n, d) = {w \in Mapped(n, b[t].cr3) : w < b[t].at}
        <5>1. b[t].at = v + 1 /\ b[t].cr3 = a[t].cr3
          BY <1>7, <3>3
        <5> QED  BY <1>5, <3>3, <4>1, <4>2, <4>4, <5>1
      <4>6. b[t].phase = "copy" /\ b[t].dir = d
        BY <1>7, <3>3 DEF d
      <4>7. b[t].own => Exactly(n, b[t].cr3, MayUse(b[t]))
        <5>1. MayUse(b[t]) = MayUse(a[t])
          BY <4>6 DEF MayUse, Mapping
        <5> QED  BY <1>1, <1>6, <1>8, <4>1, <5>1 DEF MapsOf, Exactly
      <4>8. ~ Loading(b[t]) /\ Rounds(n, b[t])
        BY <4>6 DEF Loading, Mapping, Rounds
      <4> QED  BY <4>5, <4>6, <4>7, <4>8 DEF MapsOf
    <3> QED  BY <3>2, <3>3
  <2>2. \A u \in Task : u # t => MapsOf(n, b[u])
    BY <1>6, OtherMaps
  <2> QED  BY <2>1, <2>2 DEF Maps
<1>13. Spares(m, n, a, b)
  <2>1. Stays(a, b, t, "stack") /\ Stays(a, b, t, "cr3")
    BY <1>7, SameBack
  <2>2. \A u \in Task, f \in Field : u # t \/ f # "dir" => Stays(a, b, u, f)
    BY <2>1, SameBack DEF Field
  <2>3. Base(b, t, "dir") = d /\ From(b, t, "dir") = 1
    BY <1>7, Bases DEF d
  <2> QED  BY <1>2, <1>5, <2>2, <2>3, GrowSpares
<1>14. n.panic => m.panic
  <2>1. v # 0 /\ a[t].at \in Int
    BY <1>1 DEF Mapped, UPage, TaskType
  <2>2. v \notin Mapped(m, d)
    BY <1>1, <1>4, <2>1 DEF MapsOf, d
  <2> QED  BY <1>5, <2>1, <2>2
<1> QED  BY <1>6, <1>9, <1>10, <1>11, <1>12, <1>13, <1>14 DEF Sound, Goes

(* A step that leaves memory as it is touches nothing.                      *)
LEMMA SameMemory ==
  ASSUME NEW m, NEW a, Sound(m, a)
  PROVE  \A u \in Task, f \in Field : Untouched(m, m, a, u, f)
BY UntouchedTake DEF Sound

(* The child of a fork starts with the directory that was copied.           *)
LEMMA CopyEndSound ==
  ASSUME NEW m, NEW a, Sound(m, a), NEW t \in Task, NEW c \in Task,
         a[t].phase = "copy", c = a[t].peer, NEW b \in [Task -> TaskType],
         \A u \in Task : u # t /\ u # c => b[u] = a[u],
         b[t].phase = "user", b[t].cr3 = a[t].cr3, b[t].dir = 0,
         b[t].stack = a[t].stack, b[t].sel = a[t].sel, b[t].then = "none",
         b[t].heap = a[t].heap /\ b[t].own = a[t].own,
         b[c].phase = IF a[c].sel THEN "user" ELSE "broken",
         b[c].cr3 = a[t].dir, b[c].dir = a[c].dir, b[c].stack = a[c].stack,
         b[c].sel = a[c].sel, b[c].then = a[c].then, b[c].heap = a[c].heap /\ b[c].own = a[c].own
  PROVE  Goes(m, m, a, b)
<1>1. IsMem(m) /\ a \in [Task -> TaskType] /\ a[t] \in TaskType /\ a[c] \in TaskType
      /\ Shape(a) /\ HasDir(a[t]) /\ HasSpace(a[t])
      /\ HasDir(a[c]) /\ HasSpace(a[c]) /\ Owning(m, a)
  BY DEF Sound, Shape
<1>2. OnPeer(a[t]) /\ PeerOf(a[t], a[c])
  BY <1>1 DEF OnPeer, Building, Shape
<1>3. a[c].phase = "new" /\ t # c /\ a[t].dir # 0 /\ a[t].dir \in Page /\ ~ a[c].own
      /\ a[c].dir = 0 /\ a[c].then = "none"
  <2>1. a[c].phase = "new" /\ t # c
    BY <1>2 DEF PeerOf, Building
  <2>2. a[t].dir # 0 /\ a[c].dir = 0 /\ a[c].then = "none" /\ ~ a[c].own
    BY <1>1, <2>1 DEF HasDir, HasSpace, Filling, Loading, Mapping, Running, Building
  <2>3. a[t].dir \in Page \cup {0}
    BY <1>1 DEF TaskType
  <2> QED  BY <2>1, <2>2, <2>3
<1>4. \A u \in Task, f \in Field : Untouched(m, m, a, u, f)
  BY SameMemory
<1>5. b[c].phase \in {"user", "broken"} /\ (b[c].phase = "user" => a[c].sel)
  OBVIOUS
<1>6. Shape(b)
  <2>1. HasDir(b[t]) /\ HasSpace(b[t])
    BY <1>1 DEF HasDir, HasSpace, Filling, Loading, Mapping, Running, Building
  <2>2. a[c].sel => a[c].stack # 0
    BY <1>2 DEF PeerOf
  <2>3. HasDir(b[c]) /\ HasSpace(b[c])
    BY <1>3, <1>5, <2>2 DEF HasDir, HasSpace, Filling, Loading, Mapping, Running, Building
  <2>4. ~ OnPeer(b[c]) /\ ~ OnPeer(b[t])
    BY <1>3, <1>5 DEF OnPeer, Building
  <2>5. a[t].phase \in Running
    BY DEF Running, Building
  <2>6. a[c].phase \in {"none", "zombie"} \/ (OnPeer(a[t]) /\ a[t].peer = c)
    BY <1>2
  <2>7. OnPeer(b[t]) => b[t].peer = c /\ PeerOf(b[t], b[c])
    BY <2>4
  <2> QED  BY <1>1, <1>3, <2>1, <2>3, <2>4, <2>5, <2>6, <2>7, ShapeTwo
<1>7. Blank(m, b)
  <2>1. b[t].phase # "new" /\ b[c].phase # "new"
    BY <1>5
  <2> QED  BY <1>4, <2>1, BlankNext DEF Field
<1>8. Owning(m, b)
  <2>1. SameRoot(a, b, t, "stack", t, "stack") /\ SameRoot(a, b, t, "cr3", t, "cr3")
    BY SameRoots
  <2>2. SameRoot(a, b, c, "stack", c, "stack") /\ SameRoot(a, b, c, "dir", c, "dir")
    BY <1>3, <1>5, SameRoots
  <2>3. \A u \in Task, f \in Field :
          (u # c \/ f # "cr3") /\ (u # t \/ f # "dir") => SameRoot(a, b, u, f, u, f)
    BY <2>1, <2>2, SameRoots DEF Field
  <2>4. \A u \in Task, f \in Field :
          (u # c \/ f # "cr3") /\ (u # t \/ f # "dir") => Keeps(m, m, a, b, u, f, u, f)
    BY <1>4, <2>3 DEF Keeps
  <2>5. Keeps(m, m, a, b, t, "dir", c, "cr3")
    BY Bases DEF Keeps
  <2>6. Base(a, t, "dir") = a[t].dir /\ From(a, t, "dir") = 1
    BY Bases
  <2>7. Base(b, c, "cr3") = a[t].dir /\ From(b, c, "cr3") = 1
    BY <1>3, <1>5, Bases
  <2>8. Of(m, b, c, "cr3") = Of(m, a, t, "dir")
    BY <2>6, <2>7 DEF Of
  <2>9. "cr3" \in Field /\ "dir" \in Field
    BY DEF Field
  <2>10. Tree(m, a[t].dir, 1) /\ Of(m, a, t, "dir") \subseteq m.used
    BY <1>1, <1>3, <2>6, <2>9 DEF Owning, Trees
  <2>11. Base(b, c, "cr3") # 0 =>
           /\ Tree(m, Base(b, c, "cr3"), From(b, c, "cr3"))
           /\ Of(m, b, c, "cr3") \subseteq m.used
           /\ Of(m, b, c, "cr3") \cap m.used \subseteq Of(m, a, t, "dir")
    BY <2>7, <2>8, <2>10
  <2>12. c # t \/ "cr3" # "dir" => Keeps(m, m, a, b, t, "dir", c, "cr3")
    BY <2>5
  <2> QED  BY <1>1, <2>4, <2>9, <2>11, <2>12, Handover
<1>9. Maps(m, b)
  <2>1. MapsOf(m, b[c])
    <3>1. b[c].phase \notin Running \/ b[c].phase \in Running \ {"copy", "load", "loaded", "map"}
      BY <1>5
    <3> QED  BY <1>1, <1>3, <1>4, <3>1, PlainMaps DEF Field
  <2>2. MapsOf(m, b[t])
    <3>1. b[t].phase \in Running \ {"copy", "load", "loaded", "map"} /\ ~ Mapping(a[t], "sbrk")
      BY DEF Running, Building, Mapping
    <3> QED  BY <1>1, <1>4, <3>1, PlainMaps DEF Field
  <2>3. \A u \in Task : u # t /\ u # c => MapsOf(m, b[u])
    BY <1>1, <1>4, OtherMaps
  <2> QED  BY <2>1, <2>2, <2>3 DEF Maps
<1>10. Spares(m, m, a, b)
  <2>1. Stays(a, b, t, "stack") /\ Stays(a, b, t, "cr3") /\ Stays(a, b, c, "stack") /\ Stays(a, b, c, "dir")
    BY <1>3, <1>5, SameBack
  <2>2. Stays(a, b, t, "dir")
    <3>1. Base(a, t, "dir") = a[t].dir /\ From(a, t, "dir") = 1
      BY Bases
    <3>2. Base(b, c, "cr3") = a[t].dir /\ From(b, c, "cr3") = 1
      BY <1>3, <1>5, Bases
    <3>3. SameRoot(b, a, t, "dir", c, "cr3")
      BY <3>1, <3>2 DEF SameRoot
    <3> QED  BY <3>3 DEF Stays, Field
  <2>3. Safe(m, m, a, b, c, "cr3")
    BY <1>3, <1>5, NewLapse
  <2>4. \A u \in Task, f \in Field : Safe(m, m, a, b, u, f) \/ Stays(a, b, u, f)
    BY <2>1, <2>2, <2>3, SameBack DEF Field
  <2> QED  BY <1>1, <1>4, <2>4, SparesKept
<1> QED  BY <1>1, <1>6, <1>7, <1>8, <1>9, <1>10 DEF Sound, Goes

(* execve finds no page: nothing changes but that memory ran out.           *)
LEMMA FullSound ==
  ASSUME NEW m, NEW a, Sound(m, a), NEW n,
         IsMem(n), m.oom => n.oom, n.used \subseteq m.used,
         \A u \in Task, f \in Field : Untouched(m, n, a, u, f)
  PROVE  Goes(m, n, a, a)
<1>1. IsMem(m) /\ a \in [Task -> TaskType] /\ Owning(m, a) /\ Shape(a)
  BY DEF Sound
<1>2. Owning(n, a)
  <2>1. \A u \in Task, f \in Field : Keeps(m, n, a, a, u, f, u, f)
    BY SameRoots DEF Keeps
  <2> QED  BY <1>1, <2>1, OwningKept
<1>3. Blank(n, a)
  BY BlankNext DEF Field
<1>4. Maps(n, a)
  BY OtherMaps DEF Maps
<1>5. Spares(m, n, a, a)
  <2>1. \A u \in Task, f \in Field : Stays(a, a, u, f)
    BY SameBack
  <2> QED  BY <1>1, <2>1, SparesKept
<1> QED  BY <1>1, <1>2, <1>3, <1>4, <1>5 DEF Sound, Goes

(* One slot changes, but none of its roots, and memory stays what it is.    *)
LEMMA QuietSound ==
  ASSUME NEW m, NEW a, Sound(m, a), NEW t \in Task, NEW b \in [Task -> TaskType],
         \A u \in Task : u # t => b[u] = a[u],
         a[t].phase \in Running \ {"destroy"}, b[t].phase \in Running \cup {"zombie"},
         b[t].phase = "destroy" => b[t].at = 1,
         b[t].cr3 = a[t].cr3, b[t].dir = a[t].dir, b[t].stack = a[t].stack, b[t].sel = a[t].sel,
         HasDir(b[t]), HasSpace(b[t]), ~ OnPeer(b[t]), MapsOf(m, b[t])
  PROVE  Goes(m, m, a, b)
<1>1. IsMem(m) /\ a \in [Task -> TaskType] /\ Shape(a) /\ Owning(m, a)
  BY DEF Sound
<1>2. \A u \in Task, f \in Field : Untouched(m, m, a, u, f)
  BY SameMemory
<1>3. a[t].phase \notin {"new", "reaped", "destroy"} /\ b[t].phase \notin {"new", "reaped"}
  BY DEF Running, Building
<1>4. Shape(b)
  BY <1>1, ShapeOne
<1>5. Blank(m, b)
  BY <1>2, <1>3, BlankNext DEF Field
<1>6. \A u \in Task, f \in Field : SameRoot(a, b, u, f, u, f) /\ Stays(a, b, u, f)
  <2>1. /\ SameRoot(a, b, t, "stack", t, "stack") /\ SameRoot(a, b, t, "cr3", t, "cr3")
        /\ SameRoot(a, b, t, "dir", t, "dir")
    BY <1>3, SameRoots
  <2>2. Stays(a, b, t, "stack") /\ Stays(a, b, t, "cr3") /\ Stays(a, b, t, "dir")
    BY <1>3, SameBack
  <2> QED  BY <2>1, <2>2, SameRoots, SameBack DEF Field
<1>7. Owning(m, b)
  <2>1. \A u \in Task, f \in Field : Keeps(m, m, a, b, u, f, u, f)
    BY <1>2, <1>6 DEF Keeps
  <2> QED  BY <1>1, <2>1, OwningKept
<1>8. Maps(m, b)
  BY DEF Sound, Maps
<1>9. Spares(m, m, a, b)
  BY <1>1, <1>2, <1>6, SparesKept
<1> QED  BY <1>1, <1>4, <1>5, <1>7, <1>8, <1>9 DEF Sound, Goes

(* Pages of a size: a page is needed when its first unit is below the end.  *)
LEMMA PagesForFacts ==
  ASSUME NEW s \in Nat
  PROVE  /\ PagesFor(s) \in Nat
         /\ \A v \in Int : v * Unit < s <=> v < PagesFor(s)
         /\ s # 0 <=> PagesFor(s) # 0
         /\ \A q \in Nat : PagesFor(s + q * Unit) = PagesFor(s) + q
<1> DEFINE q == PagesFor(s)
           r == (s + Unit - 1) % Unit
<1>1. Unit \in Nat \ {0}
  BY MemoryAssumption
<1>2. q \in Int /\ r \in 0 .. Unit - 1 /\ s + Unit - 1 = Unit * q + r
  BY <1>1, Quotient DEF PagesFor
<1> HIDE DEF q, r
<1>3. ASSUME NEW v \in Int
      PROVE  v * Unit < s <=> v < q
  <2>1. CASE v < q
    <3>1. Unit * v <= Unit * (q - 1)
      BY <1>1, <1>2, <2>1
    <3>2. Unit * (q - 1) = Unit * q - Unit
      BY <1>1, <1>2
    <3>3. Unit * q <= s + Unit - 1
      BY <1>1, <1>2
    <3>4. Unit * v = v * Unit /\ Unit * v \in Int /\ Unit * q \in Int /\ Unit * (q - 1) \in Int
      BY <1>1, <1>2
    <3>5. v * Unit < s
      BY <1>1, <3>1, <3>2, <3>3, <3>4
    <3> QED  BY <2>1, <3>5
  <2>2. CASE v >= q
    <3>1. Unit * v >= Unit * q
      BY <1>1, <1>2, <2>2
    <3>2. Unit * v = v * Unit /\ Unit * v \in Int /\ Unit * q \in Int
      BY <1>1, <1>2
    <3>3. Unit * q >= s
      BY <1>1, <1>2, <3>2
    <3>4. ~ (v * Unit < s) /\ ~ (v < q)
      BY <1>2, <2>2, <3>1, <3>2, <3>3
    <3> QED  BY <3>4
  <2> QED  BY <1>2, <2>1, <2>2
<1>4. q >= 0
  <2>1. (-1) * Unit < 0
    BY <1>1
  <2>2. (-1) * Unit < s
    BY <1>1, <2>1
  <2>3. -1 < q
    BY <1>3, <2>2
  <2> QED  BY <1>2, <2>3
<1>5. s # 0 <=> q # 0
  <2>1. 0 * Unit < s <=> 0 < q
    BY <1>3
  <2>2. 0 * Unit = 0
    BY <1>1
  <2> QED  BY <1>2, <1>4, <2>1, <2>2
<1>6. ASSUME NEW e \in Nat
      PROVE  PagesFor(s + e * Unit) = q + e
  <2>1. (s + e * Unit) + Unit - 1 = Unit * (q + e) + r
    <3>1. Unit * (q + e) = Unit * q + e * Unit /\ e * Unit \in Int /\ Unit * q \in Int
      BY <1>1, <1>2
    <3> QED  BY <1>1, <1>2, <3>1
  <2>2. (Unit * (q + e) + r) \div Unit = q + e
    BY <1>1, <1>2, Division
  <2> QED  BY <2>1, <2>2 DEF PagesFor
<1> QED  BY <1>2, <1>3, <1>4, <1>5, <1>6 DEF q

(* A heap reaches the stack's page exactly if it has more pages than lie    *)
(* below that.                                                              *)
LEMMA StackReach ==
  ASSUME NEW s \in Nat
  PROVE  StackPage * Unit < s <=> StackPage < PagesFor(s)
<1>1. StackPage \in Int
  BY Sizes DEF StackPage
<1> QED  BY <1>1, PagesForFacts

(* What a heap that ends at h reaches.                                      *)
LEMMA BelowPages ==
  ASSUME NEW h \in Nat
  PROVE  Below(h) = {v \in UPage : v < PagesFor(h)}
<1>1. \A v \in UPage : v \in Int
  BY DEF UPage
<1>2. \A v \in UPage : v * Unit < h <=> v < PagesFor(h)
  BY <1>1, PagesForFacts
<1> QED  BY <1>2 DEF Below

(* The pages of a program, which begin at the first user page.              *)
LEMMA ProgramPages ==
  ASSUME NEW s \in ProgSize
  PROVE  /\ s \in Nat /\ s # 0 /\ PagesFor(s) \in Nat /\ PagesFor(s) <= StackPage - 2
         /\ Unit + s \in 0 .. Unit * StackPage /\ Unit + s \in Nat \ {0}
         /\ PagesFor(Unit + s) = 1 + PagesFor(s)
<1>1. Unit \in Nat \ {0} /\ s \in 1 .. Unit * (StackPage - 2) /\ StackPage \in Nat /\ StackPage >= 4
  BY Sizes, MemoryAssumption DEF StackPage
<1>2. s \in Nat /\ s # 0
  BY <1>1
<1>3. PagesFor(s) \in Nat
  BY <1>2, PagesForFacts
<1>4. Unit * (StackPage - 2) = Unit * StackPage - Unit - Unit /\ Unit * StackPage \in Int
  BY <1>1
<1>5. PagesFor(s) <= StackPage - 2
  <2>1. (StackPage - 2) * Unit < s <=> StackPage - 2 < PagesFor(s)
    BY <1>1, <1>2, PagesForFacts
  <2>2. ~ ((StackPage - 2) * Unit < s)
    <3>1. (StackPage - 2) * Unit = Unit * (StackPage - 2) /\ Unit * (StackPage - 2) \in Int
      BY <1>1
    <3>2. s <= Unit * (StackPage - 2) /\ s \in Int
      BY <1>1
    <3> QED  BY <3>1, <3>2
  <2> QED  BY <1>1, <1>3, <2>1, <2>2
<1>6. Unit + s \in 0 .. Unit * StackPage /\ Unit + s \in Nat \ {0}
  BY <1>1, <1>4
<1>7. PagesFor(s + 1 * Unit) = PagesFor(s) + 1
  BY <1>2, PagesForFacts
<1>8. s + 1 * Unit = Unit + s
  BY <1>1
<1> QED  BY <1>2, <1>3, <1>5, <1>6, <1>7, <1>8

(* The pages sbrk asks for are those from the first the heap does not reach *)
(* to the last it will.                                                     *)
LEMMA SbrkPages ==
  ASSUME NEW h \in Nat, NEW n \in Nat \ {0}, h + n <= Unit * StackPage
  PROVE  /\ PagesFor(h) \in Nat /\ PagesFor(h + n) \in Nat /\ PagesFor(h + n) <= StackPage
         /\ HeapStart(h) \div Unit = PagesFor(h)
         /\ h % Unit # 0 /\ (h % Unit) + n <= Unit => PagesFor(h + n) = PagesFor(h) /\ h # 0
         /\ ~ (h % Unit # 0 /\ (h % Unit) + n <= Unit) =>
              LET k == PagesFor(h + n - HeapStart(h))
              IN  k \in Nat /\ k # 0 /\ PagesFor(h) + k = PagesFor(h + n)
<1> DEFINE q == PagesFor(h)
           r == h % Unit
           f == h \div Unit
<1>1. Unit \in Nat \ {0} /\ StackPage \in Nat
  BY Sizes, MemoryAssumption DEF StackPage
<1>2. q \in Nat /\ PagesFor(h + n) \in Nat
  <2>1. h + n \in Nat
    OBVIOUS
  <2> QED  BY <2>1, PagesForFacts
<1>3. f \in Int /\ r \in 0 .. Unit - 1 /\ h = Unit * f + r
  BY <1>1, Quotient
<1>4. HeapStart(h) = q * Unit /\ q * Unit \in Nat
  BY <1>1, <1>2 DEF HeapStart, PagesFor
<1> HIDE DEF f, r
<1>5. f >= 0 /\ f * Unit \in Int /\ f * Unit = Unit * f /\ (r = 0 \/ r \in 1 .. Unit - 1)
  <2>1. CASE f <= -1
    <3>1. Unit * f <= -Unit
      BY <1>1, <1>3, <2>1
    <3> QED  BY <1>1, <1>3, <3>1
  <2> QED  BY <1>1, <1>3, <2>1
<1>6. f \in Nat
  BY <1>3, <1>5
<1>7. q = IF r = 0 THEN f ELSE f + 1
  <2>1. PagesFor(r + f * Unit) = PagesFor(r) + f
    BY <1>1, <1>3, <1>6, PagesForFacts
  <2>2. h = r + f * Unit
    BY <1>1, <1>3, <1>5
  <2>3. PagesFor(r) \in Nat /\ (r # 0 <=> PagesFor(r) # 0)
        /\ \A v \in Int : v * Unit < r <=> v < PagesFor(r)
    BY <1>1, <1>3, PagesForFacts
  <2>4. ~ (1 < PagesFor(r))
    <3>1. 1 * Unit < r <=> 1 < PagesFor(r)
      BY <2>3
    <3> QED  BY <1>1, <1>3, <3>1
  <2> QED  BY <2>1, <2>2, <2>3, <2>4, <1>6
<1> HIDE DEF q
<1>8. HeapStart(h) \div Unit = q
  <2>1. (Unit * q + 0) \div Unit = q
    BY <1>1, <1>2, Division
  <2>2. HeapStart(h) = Unit * q + 0
    BY <1>1, <1>2, <1>4
  <2> QED  BY <2>1, <2>2
<1>9. PagesFor(h + n) <= StackPage
  <2>1. StackPage * Unit < h + n <=> StackPage < PagesFor(h + n)
    BY <1>1, PagesForFacts
  <2>2. StackPage * Unit = Unit * StackPage /\ Unit * StackPage \in Int
    BY <1>1
  <2> QED  BY <1>1, <1>2, <2>1, <2>2
<1>10. ASSUME r # 0, r + n <= Unit
       PROVE  PagesFor(h + n) = q /\ h # 0
  <2>1. h + n = (r + n) + f * Unit /\ r + n \in Nat
    BY <1>1, <1>3, <1>5
  <2>2. PagesFor((r + n) + f * Unit) = PagesFor(r + n) + f
    BY <1>6, <2>1, PagesForFacts
  <2>3. PagesFor(r + n) \in Nat /\ (r + n # 0 <=> PagesFor(r + n) # 0)
        /\ \A v \in Int : v * Unit < r + n <=> v < PagesFor(r + n)
    BY <2>1, PagesForFacts
  <2>4. ~ (1 < PagesFor(r + n))
    <3>1. 1 * Unit < r + n <=> 1 < PagesFor(r + n)
      BY <2>3
    <3> QED  BY <1>1, <1>3, <1>10, <3>1
  <2>5. PagesFor(r + n) = 1
    BY <1>3, <2>3, <2>4
  <2>6. h # 0
    <3>1. Unit * f >= 0
      BY <1>1, <1>6
    <3> QED  BY <1>3, <1>5, <1>10, <3>1
  <2> QED  BY <1>6, <1>7, <1>10, <2>1, <2>2, <2>5, <2>6
<1>11. ASSUME ~ (r # 0 /\ r + n <= Unit)
       PROVE  LET k == PagesFor(h + n - HeapStart(h))
              IN  k \in Nat /\ k # 0 /\ q + k = PagesFor(h + n)
  <2> DEFINE x == h + n - HeapStart(h)
  <2>1. q * Unit = IF r = 0 THEN f * Unit ELSE f * Unit + Unit
    <3>1. (f + 1) * Unit = f * Unit + Unit
      BY <1>1, <1>6
    <3> QED  BY <1>7, <3>1
  <2>2. x \in Nat /\ x # 0 /\ h + n = x + q * Unit
    BY <1>1, <1>3, <1>4, <1>5, <1>11, <2>1
  <2> HIDE DEF x
  <2>3. PagesFor(x) \in Nat /\ PagesFor(x) # 0 /\ PagesFor(x + q * Unit) = PagesFor(x) + q
    BY <1>2, <2>2, PagesForFacts
  <2>4. q + PagesFor(x) = PagesFor(h + n)
    BY <1>2, <2>2, <2>3
  <2> QED  BY <2>3, <2>4 DEF x
<1> QED  BY <1>2, <1>8, <1>9, <1>10, <1>11 DEF q, r

(* The page of the next round is one of the user space, and not mapped yet:  *)
(* but for an sbrk on a heap end that is not the program's own.              *)
LEMMA RoundPage ==
  ASSUME NEW m, NEW k \in TaskType, HasDir(k), HasSpace(k), MapsOf(m, k), k.phase = "map", k.left # 0
  PROVE  /\ k.at \in 0 .. StackPage
         /\ k.then = "sbrk" /\ k.own => k.at \in UPage /\ k.at \notin Mapped(m, k.cr3)
         /\ k.then # "sbrk" => k.at \in UPage /\ k.at \notin Mapped(m, k.dir)
         /\ k.then = "stack" => k.at = StackPage
<1>1. /\ k.then \in {"load", "stack", "sbrk"}
      /\ k.at \in Nat /\ k.left \in Nat /\ k.heap \in Nat /\ k.size \in Nat
      /\ UPage = 1 .. StackPage /\ StackPage \in Nat /\ StackPage >= 4 /\ Unit \in Nat \ {0}
  <2>1. k.at \in Nat /\ k.left \in Nat /\ k.heap \in Nat /\ k.size \in Nat
    BY DEF TaskType
  <2>2. UPage = 1 .. StackPage /\ StackPage \in Nat /\ StackPage >= 4 /\ Unit \in Nat \ {0}
    BY Sizes, MemoryAssumption DEF UPage, StackPage
  <2> QED  BY <2>1, <2>2 DEF HasDir
<1>2. Start(k) <= k.at /\ k.at + k.left <= Goal(k) /\ Rounds(m, k)
  BY DEF MapsOf, Rounds
<1>3. CASE k.then = "load"
  <2>1. k.size \in ProgSize
    BY <1>2, <1>3 DEF Rounds, Mapping
  <2>2. PagesFor(k.size) \in Nat /\ PagesFor(k.size) <= StackPage - 2
    BY <2>1, ProgramPages
  <2>3. Start(k) = 1 /\ Goal(k) = 1 + PagesFor(k.size)
    BY <1>3 DEF Start, Goal
  <2>4. k.at \in UPage
    BY <1>1, <1>2, <2>2, <2>3
  <2>5. k.at \notin Built(k)
    BY <1>1, <1>3, <2>4 DEF Built, Mapping
  <2>6. Mapped(m, k.dir) \subseteq Built(k)
    BY <1>3 DEF MapsOf, Exactly, Loading, Mapping
  <2> QED  BY <1>1, <1>3, <2>4, <2>5, <2>6
<1>4. CASE k.then = "stack"
  <2>1. PICK s \in ProgSize : k.heap = Unit + s
    BY <1>2, <1>4 DEF Rounds, Mapping
  <2>2. PagesFor(k.heap) <= StackPage - 1 /\ PagesFor(k.heap) \in Nat
    BY <1>1, <2>1, ProgramPages
  <2>3. Start(k) = StackPage /\ Goal(k) = StackPage + 1
    BY <1>4 DEF Start, Goal
  <2>4. k.at = StackPage
    BY <1>1, <1>2, <2>3
  <2>5. ~ (StackPage * Unit < k.heap)
    <3>1. StackPage * Unit < k.heap <=> StackPage < PagesFor(k.heap)
      BY <1>1, StackReach
    <3> QED  BY <1>1, <2>2, <3>1
  <2>6. k.at \notin Built(k)
    BY <1>1, <1>4, <2>4, <2>5 DEF Built, Mapping
  <2>7. Mapped(m, k.dir) \subseteq Built(k)
    BY <1>4 DEF MapsOf, Exactly, Loading, Mapping
  <2> QED  BY <1>1, <1>4, <2>4, <2>6, <2>7
<1>5. CASE k.then = "sbrk"
  <2>1. k.heap + k.size <= Unit * StackPage /\ k.heap + k.size \in Nat
    BY <1>1, <1>2, <1>5 DEF Rounds, Mapping
  <2>2. PagesFor(k.heap + k.size) \in Nat /\ PagesFor(k.heap + k.size) <= StackPage
    <3>1. StackPage * Unit < k.heap + k.size <=> StackPage < PagesFor(k.heap + k.size)
      BY <2>1, StackReach
    <3>2. StackPage * Unit = Unit * StackPage /\ Unit * StackPage \in Int
      BY <1>1
    <3>3. PagesFor(k.heap + k.size) \in Nat
      BY <2>1, PagesForFacts
    <3>4. ~ (StackPage * Unit < k.heap + k.size)
      BY <2>1, <3>2
    <3> QED  BY <1>1, <3>1, <3>3, <3>4
  <2>3. PagesFor(k.heap) \in Nat /\ (k.heap # 0 <=> PagesFor(k.heap) # 0)
    BY <1>1, PagesForFacts
  <2>4. Start(k) = PagesFor(k.heap) /\ Goal(k) = PagesFor(k.heap + k.size)
    BY <1>5 DEF Start, Goal
  <2>5. k.at < StackPage /\ PagesFor(k.heap) <= k.at
    BY <1>1, <1>2, <2>2, <2>4
  <2>6. ASSUME k.own
        PROVE  k.at \in UPage /\ k.at \notin Mapped(m, k.cr3)
    <3>1. k.heap # 0
      BY <2>6 DEF HasSpace
    <3>2. k.at \in UPage
      BY <1>1, <2>3, <2>5, <3>1
    <3>3. k.at \notin Below(k.heap)
      BY <1>1, <2>3, <2>5, BelowPages
    <3>4. k.at \notin MayUse(k)
      BY <1>1, <2>5, <3>3 DEF MayUse
    <3>5. Mapped(m, k.cr3) \subseteq MayUse(k)
      BY <2>6 DEF MapsOf, Exactly, Running
    <3> QED  BY <3>2, <3>4, <3>5
  <2> QED  BY <1>1, <1>5, <2>5, <2>6
<1> QED  BY <1>1, <1>3, <1>4, <1>5

(* memory_alloc_for_page_dir maps a page, or ends.                          *)
LEMMA MapPageSound ==
  ASSUME NEW m, NEW a, Sound(m, a), ~ m.panic, NEW t \in Task, a[t].phase = "map", a[t].left # 0,
         NEW g, g = IF a[t].then = "sbrk" THEN "cr3" ELSE "dir", NEW d, d = Base(a, t, g),
         NEW v, v = a[t].at, NEW n, n = MapOne(m, d, v).mem, NEW b \in [Task -> TaskType],
         \A u \in Task : u # t => b[u] = a[u],
         \/ MapOne(m, d, v).ok /\ b[t].at = v + 1 /\ b[t].left = a[t].left - 1
         \/ ~ MapOne(m, d, v).ok /\ b[t].at = v /\ b[t].left = 0,
         b[t].phase = "map", b[t].then = a[t].then, b[t].size = a[t].size, b[t].peer = a[t].peer,
         b[t].cr3 = a[t].cr3, b[t].dir = a[t].dir,
         b[t].stack = a[t].stack, b[t].sel = a[t].sel, b[t].heap = a[t].heap, b[t].own = a[t].own
  PROVE  Goes(m, n, a, b) /\ (n.panic => a[t].then = "sbrk" /\ ~ a[t].own)
<1> DEFINE ok == MapOne(m, d, v).ok
<1>1. IsMem(m) /\ a \in [Task -> TaskType] /\ a[t] \in TaskType /\ b[t] \in TaskType
      /\ Shape(a) /\ HasDir(a[t]) /\ HasSpace(a[t]) /\ Owning(m, a) /\ MapsOf(m, a[t])
  BY DEF Sound, Shape, Maps
<1>2. /\ a[t].then \in {"load", "stack", "sbrk"} /\ a[t].cr3 \in Page /\ a[t].cr3 # 0
      /\ a[t].then # "sbrk" => a[t].dir # 0
  <2>1. a[t].then \in {"load", "stack", "sbrk"} /\ a[t].cr3 \in Page
    BY <1>1 DEF HasDir, HasSpace, Running
  <2>2. a[t].then # "sbrk" => a[t].dir # 0
    BY <1>1, <2>1 DEF HasDir, Filling, Loading, Mapping
  <2> QED  BY <2>1, <2>2, PageFacts
<1>3. g \in Field /\ d # 0 /\ From(a, t, g) = 1 /\ d = IF a[t].then = "sbrk" THEN a[t].cr3 ELSE a[t].dir
  BY <1>2, Bases DEF Field
<1>4. d \in Page /\ Tree(m, d, 1) /\ Pages(m, d, 1) \subseteq m.used
  BY <1>3, GrowReady
<1>5. /\ v \in 0 .. StackPage
      /\ a[t].own \/ a[t].then # "sbrk" => v \in UPage /\ v \notin Mapped(m, d)
      /\ a[t].then = "stack" => v = StackPage
  BY <1>1, <1>3, RoundPage
<1>6. /\ Grows(m, n, d) /\ ok \in BOOLEAN
      /\ ok => v \in UPage /\ Mapped(n, d) = Mapped(m, d) \cup {v} /\ ~ n.panic
      /\ ~ ok => (n.oom \/ n.panic) /\ Mapped(n, d) = Mapped(m, d)
      /\ n.panic => v = 0 \/ v \in Mapped(m, d)
  BY <1>1, <1>4, <1>5, MapOneGrows
<1>7. n.panic => a[t].then = "sbrk" /\ ~ a[t].own
  <2>1. 0 \notin UPage
    BY DEF UPage
  <2> QED  BY <1>5, <1>6, <2>1
<1>8. \/ ok /\ b[t].at = v + 1 /\ b[t].left = a[t].left - 1
      \/ ~ ok /\ b[t].at = v /\ b[t].left = 0
  OBVIOUS
<1> HIDE DEF ok
<1>9. /\ IsMem(n) /\ (m.oom => n.oom)
      /\ \A u \in Task, f \in Field : u # t \/ f # g => Untouched(m, n, a, u, f)
  BY <1>3, <1>6, GrowOwning
<1>10. a[t].phase \in Running /\ b[t].phase \in Running
  BY DEF Running
<1>11. Shape(b)
  <2>1. HasDir(b[t]) /\ HasSpace(b[t])
    BY <1>1 DEF HasDir, HasSpace, Filling, Loading, Mapping
  <2>2. ~ OnPeer(b[t])
    BY <1>2 DEF OnPeer, Building
  <2> QED  BY <1>1, <1>10, <2>1, <2>2, ShapeOne
<1>12. Blank(n, b)
  <2>1. \A u \in Task : b[u].phase = "new" => u # t
    OBVIOUS
  <2> QED  BY <1>9, <2>1, BlankNext DEF Field
<1>13. \A f \in Field : Base(b, t, f) = Base(a, t, f) /\ From(b, t, f) = From(a, t, f)
  BY Bases DEF Field
<1>14. Owning(n, b)
  <2>1. \A f \in Field : SameRoot(a, b, t, f, t, f)
    BY <1>13 DEF SameRoot
  <2>2. \A u \in Task, f \in Field : u # t \/ f # g => SameRoot(a, b, u, f, u, f)
    BY <2>1, SameRoots
  <2> QED  BY <1>3, <1>6, <1>13, <2>2, GrowKept
<1>15. Rounds(n, b[t])
  <2>1. Start(b[t]) = Start(a[t]) /\ Goal(b[t]) = Goal(a[t])
    BY DEF Start, Goal
  <2>2. a[t].left \in Nat /\ v \in Nat /\ a[t].left # 0
    BY <1>1 DEF TaskType
  <2>3. /\ Rounds(m, a[t]) /\ Start(a[t]) <= v /\ v + a[t].left <= Goal(a[t])
        /\ ~ m.oom /\ (a[t].own \/ a[t].then # "sbrk") => v + a[t].left = Goal(a[t])
    BY <1>1 DEF MapsOf, Rounds
  <2>4. Start(a[t]) \in Int /\ Goal(a[t]) \in Int
    <3>1. a[t].heap \in Nat /\ a[t].size \in Nat /\ a[t].heap + a[t].size \in Nat
      BY <1>1 DEF TaskType
    <3>2. StackPage \in Int
      BY Sizes DEF StackPage
    <3> QED  BY <1>2, <3>1, <3>2, PagesForFacts DEF Start, Goal
  <2>5. Start(b[t]) <= b[t].at /\ b[t].at + b[t].left <= Goal(b[t])
    BY <1>8, <2>1, <2>2, <2>3, <2>4
  <2>6. ~ n.oom /\ (b[t].own \/ b[t].then # "sbrk") => b[t].at + b[t].left = Goal(b[t])
    <3>1. CASE ok
      BY <1>8, <1>9, <2>1, <2>2, <2>3, <2>4, <3>1
    <3>2. CASE ~ ok
      BY <1>6, <1>7, <3>2
    <3> QED  BY <3>1, <3>2
  <2>7. /\ b[t].phase = "loaded" \/ Mapping(b[t], "stack") => \E s \in ProgSize : b[t].heap = Unit + s
        /\ Mapping(b[t], "load") => b[t].size \in ProgSize
        /\ Mapping(b[t], "sbrk") => b[t].heap + b[t].size <= Unit * StackPage
    BY <2>3 DEF Rounds, Mapping
  <2> QED  BY <2>5, <2>6, <2>7 DEF Rounds
<1>16. b[t].own => Exactly(n, b[t].cr3, MayUse(b[t]))
  <2> SUFFICES ASSUME b[t].own PROVE Exactly(n, b[t].cr3, MayUse(b[t]))
    OBVIOUS
  <2>1. Exactly(m, a[t].cr3, MayUse(a[t]))
    BY <1>1, <1>10 DEF MapsOf
  <2>2. CASE a[t].then = "sbrk" /\ ok
    <3>1. Mapping(a[t], "sbrk") /\ Mapping(b[t], "sbrk") /\ v \in Nat
      BY <1>1, <2>2 DEF Mapping, TaskType
    <3>2. MayUse(b[t]) = MayUse(a[t]) \cup {v}
      <4>1. \A w \in UPage : w < v + 1 <=> w < v \/ w = v
        BY <3>1 DEF UPage
      <4>2. b[t].at = v + 1 /\ v \in UPage
        BY <1>6, <1>8, <2>2
      <4> QED  BY <3>1, <4>1, <4>2 DEF MayUse
    <3>3. Mapped(n, b[t].cr3) = Mapped(m, a[t].cr3) \cup {v}
      BY <1>3, <1>6, <2>2
    <3> QED  BY <1>9, <2>1, <3>2, <3>3 DEF Exactly
  <2>3. CASE a[t].then = "sbrk" /\ ~ ok
    <3>1. MayUse(b[t]) = MayUse(a[t])
      BY <1>8, <2>3 DEF MayUse, Mapping
    <3>2. Mapped(n, b[t].cr3) = Mapped(m, a[t].cr3)
      BY <1>3, <1>6, <2>3
    <3> QED  BY <1>9, <2>1, <3>1, <3>2 DEF Exactly
  <2>4. CASE a[t].then # "sbrk"
    <3>1. MayUse(b[t]) = MayUse(a[t])
      BY <2>4 DEF MayUse, Mapping
    <3>2. Mapped(n, b[t].cr3) = Mapped(m, a[t].cr3)
      <4>1. Untouched(m, n, a, t, "cr3")
        BY <1>9, <2>4 DEF Field
      <4> QED  BY <1>9, <1>10, <4>1, DirsMapped
    <3> QED  BY <1>9, <2>1, <3>1, <3>2 DEF Exactly
  <2> QED  BY <1>6, <2>2, <2>3, <2>4
<1>17. Loading(b[t]) => Exactly(n, b[t].dir, Built(b[t]))
  <2> SUFFICES ASSUME Loading(b[t]) PROVE Exactly(n, b[t].dir, Built(b[t]))
    OBVIOUS
  <2>1. a[t].then \in {"load", "stack"} /\ Loading(a[t]) /\ d = a[t].dir
    BY <1>3 DEF Loading, Mapping
  <2>2. Exactly(m, a[t].dir, Built(a[t]))
    BY <1>1, <2>1 DEF MapsOf
  <2>3. CASE ok
    <3>1. Built(b[t]) = Built(a[t]) \cup {v}
      <4>0. v \in Nat /\ v \in UPage /\ b[t].at = v + 1
        BY <1>1, <1>6, <1>8, <2>3 DEF TaskType
      <4>1. \A w \in UPage : w < v + 1 <=> w < v \/ w = v
        BY <4>0 DEF UPage
      <4>2. CASE a[t].then = "load"
        BY <4>0, <4>1, <4>2 DEF Built, Mapping
      <4>3. CASE a[t].then = "stack"
        <5>1. v = StackPage
          BY <1>5, <4>3
        <5>2. \A w \in UPage : StackPage <= w /\ w < v + 1 <=> (StackPage <= w /\ w < v) \/ w = v
          BY <4>0, <4>1, <5>1 DEF UPage
        <5> QED  BY <4>0, <4>3, <5>2 DEF Built, Mapping
      <4> QED  BY <2>1, <4>2, <4>3
    <3>2. Mapped(n, b[t].dir) = Mapped(m, a[t].dir) \cup {v}
      BY <1>6, <2>1, <2>3
    <3> QED  BY <1>9, <2>2, <3>1, <3>2 DEF Exactly
  <2>4. CASE ~ ok
    <3>1. Built(b[t]) = Built(a[t])
      BY <1>8, <2>4 DEF Built, Mapping
    <3>2. Mapped(n, b[t].dir) = Mapped(m, a[t].dir)
      BY <1>6, <2>1, <2>4
    <3> QED  BY <1>9, <2>2, <3>1, <3>2 DEF Exactly
  <2> QED  BY <1>6, <2>3, <2>4
<1>18. Maps(n, b)
  <2>1. MapsOf(n, b[t])
    BY <1>15, <1>16, <1>17 DEF MapsOf
  <2>2. \A u \in Task : u # t => MapsOf(n, b[u])
    BY <1>9, OtherMaps
  <2> QED  BY <2>1, <2>2 DEF Maps
<1>19. Spares(m, n, a, b)
  <2>1. \A f \in Field : Stays(a, b, t, f)
    BY <1>13 DEF Stays, SameRoot
  <2>2. \A u \in Task, f \in Field : u # t \/ f # g => Stays(a, b, u, f)
    BY <2>1, SameBack
  <2> QED  BY <1>3, <1>6, <1>13, <2>2, GrowSpares
<1> QED  BY <1>7, <1>9, <1>11, <1>12, <1>14, <1>18, <1>19 DEF Sound, Goes

(* execve changes directories: the two roots change places.                 *)
LEMMA ExecSwapSound ==
  ASSUME NEW m, NEW a, Sound(m, a), NEW t \in Task,
         a[t].phase = "map", a[t].then = "stack", a[t].left = 0, NEW b \in [Task -> TaskType],
         \A u \in Task : u # t => b[u] = a[u],
         b[t].phase = "destroy", b[t].at = 1, b[t].then = "exec",
         b[t].cr3 = a[t].dir, b[t].dir = a[t].cr3,
         b[t].stack = a[t].stack, b[t].sel = a[t].sel, b[t].heap = a[t].heap
  PROVE  Goes(m, m, a, b)
<1> DEFINE d == a[t].dir
<1>1. IsMem(m) /\ a \in [Task -> TaskType] /\ a[t] \in TaskType /\ b[t] \in TaskType
      /\ Shape(a) /\ HasDir(a[t]) /\ HasSpace(a[t]) /\ Owning(m, a) /\ MapsOf(m, a[t])
  BY DEF Sound, Shape, Maps
<1>2. d # 0 /\ d \in Page /\ a[t].cr3 \in Page /\ a[t].cr3 # 0 /\ a[t].sel /\ a[t].stack # 0
      /\ "dir" \in Field /\ "cr3" \in Field
  <2>1. d # 0 /\ a[t].cr3 \in Page /\ a[t].sel /\ a[t].stack # 0
    BY <1>1 DEF HasDir, HasSpace, Filling, Loading, Mapping, Running
  <2>2. d \in Page \cup {0}
    BY <1>1 DEF TaskType
  <2> QED  BY <2>1, <2>2, PageFacts DEF Field
<1>3. /\ Base(a, t, "dir") = d /\ From(a, t, "dir") = 1 /\ Base(a, t, "cr3") = a[t].cr3 /\ From(a, t, "cr3") = 1
      /\ Base(b, t, "dir") = a[t].cr3 /\ From(b, t, "dir") = 1 /\ Base(b, t, "cr3") = d /\ From(b, t, "cr3") = 1
  BY <1>2, Bases
<1>4. \A u \in Task, f \in Field : Untouched(m, m, a, u, f)
  BY SameMemory
<1>5. PICK s \in ProgSize : a[t].heap = Unit + s
  BY <1>1 DEF MapsOf, Rounds, Mapping
<1>6. a[t].phase \in Running /\ b[t].phase \in Running /\ a[t].heap # 0
  BY <1>5, ProgramPages DEF Running
<1>7. Shape(b)
  <2>1. HasDir(b[t]) /\ HasSpace(b[t])
    BY <1>2, <1>6 DEF HasDir, HasSpace, Filling, Loading, Mapping, Running
  <2>2. ~ OnPeer(b[t])
    BY DEF OnPeer, Building
  <2> QED  BY <1>1, <1>6, <2>1, <2>2, ShapeOne
<1>8. Blank(m, b)
  <2>1. \A u \in Task : b[u].phase = "new" => u # t
    OBVIOUS
  <2> QED  BY <1>4, <2>1, BlankNext DEF Field
<1> HIDE DEF d
<1>9. Owning(m, b)
  <2>1. SameRoot(a, b, t, "stack", t, "stack")
    BY SameRoots
  <2>2. \A u \in Task, f \in Field :
          (u # t \/ f # "cr3") /\ (u # t \/ f # "dir") => SameRoot(a, b, u, f, u, f)
    BY <2>1, SameRoots DEF Field
  <2>3. \A u \in Task, f \in Field :
          (u # t \/ f # "cr3") /\ (u # t \/ f # "dir") => Keeps(m, m, a, b, u, f, u, f)
    BY <1>4, <2>2 DEF Keeps
  <2>4. t # t \/ "cr3" # "dir" => Keeps(m, m, a, b, t, "dir", t, "cr3")
    BY <1>2, <1>3, <1>4 DEF Keeps, SameRoot
  <2>5. Of(m, b, t, "cr3") = Of(m, a, t, "dir")
    BY <1>3 DEF Of
  <2>6. Tree(m, d, 1) /\ Of(m, a, t, "dir") \subseteq m.used
    BY <1>2, <1>3, GrowReady
  <2>7. Base(b, t, "cr3") # 0 =>
           /\ Tree(m, Base(b, t, "cr3"), From(b, t, "cr3"))
           /\ Of(m, b, t, "cr3") \subseteq m.used
           /\ Of(m, b, t, "cr3") \cap m.used \subseteq Of(m, a, t, "dir")
    BY <1>3, <2>5, <2>6
  <2> QED  BY <1>1, <1>2, <2>3, <2>4, <2>7, Handover
<1>10. Exactly(m, b[t].cr3, MayUse(b[t]))
  <2>1. Exactly(m, a[t].dir, Built(a[t]))
    BY <1>1 DEF MapsOf, Loading, Mapping
  <2>2. /\ StackPage <= a[t].at /\ a[t].at <= StackPage + 1 /\ (~ m.oom => a[t].at = StackPage + 1)
        /\ StackPage \in Nat /\ a[t].at \in Nat /\ UPage = 1 .. StackPage
    <3>1. Start(a[t]) = StackPage /\ Goal(a[t]) = StackPage + 1
      BY DEF Start, Goal
    <3>2. StackPage \in Nat /\ a[t].at \in Nat /\ UPage = 1 .. StackPage
      BY <1>1, Sizes DEF StackPage, UPage, TaskType
    <3> QED  BY <1>1, <3>1, <3>2 DEF MapsOf, Rounds
  <2>3. Built(a[t]) = Below(a[t].heap) \cup {v \in UPage : StackPage <= v /\ v < a[t].at}
    BY DEF Built, Mapping, Below
  <2>4. MayUse(b[t]) = Below(a[t].heap) \cup {StackPage}
    BY DEF MayUse, Mapping
  <2>5. \A v \in UPage : StackPage <= v /\ v < a[t].at => v = StackPage
    BY <2>2
  <2>6. ~ m.oom => StackPage \in {v \in UPage : StackPage <= v /\ v < a[t].at}
    <3>1. StackPage \in UPage
      BY <2>2, Sizes DEF StackPage
    <3> QED  BY <2>2, <3>1
  <2> QED  BY <2>1, <2>3, <2>4, <2>5, <2>6 DEF Exactly
<1>11. Maps(m, b)
  <2>1. MapsOf(m, b[t])
    BY <1>10 DEF MapsOf, Loading, Mapping, Rounds
  <2>2. \A u \in Task : u # t => MapsOf(m, b[u])
    BY DEF Sound, Maps
  <2> QED  BY <2>1, <2>2 DEF Maps
<1>12. Spares(m, m, a, b)
  <2>1. Stays(a, b, t, "stack")
    BY SameBack
  <2>2. SameRoot(b, a, t, "cr3", t, "dir") /\ SameRoot(b, a, t, "dir", t, "cr3")
    BY <1>3 DEF SameRoot
  <2>3. Stays(a, b, t, "cr3") /\ Stays(a, b, t, "dir")
    BY <1>2, <2>2 DEF Stays
  <2>4. \A u \in Task, f \in Field : Stays(a, b, u, f)
    BY <2>1, <2>3, SameBack DEF Field
  <2> QED  BY <1>1, <1>4, <2>4, SparesKept
<1> QED  BY <1>1, <1>7, <1>8, <1>9, <1>11, <1>12 DEF Sound, Goes

(* A root moves from one owner to another.                                  *)
LEMMA Moved ==
  ASSUME NEW m, IsMem(m), NEW a \in [Task -> TaskType], NEW b \in [Task -> TaskType], Owning(m, a),
         NEW u0 \in Task, NEW f0 \in Field, NEW u1 \in Task, NEW f1 \in Field,
         \A u \in Task, f \in Field :
           (u # u0 \/ f # f0) /\ (u # u1 \/ f # f1) => SameRoot(a, b, u, f, u, f),
         Base(b, u1, f1) = 0,
         Base(b, u0, f0) = Base(a, u1, f1) /\ From(b, u0, f0) = From(a, u1, f1)
  PROVE  Owning(m, b)
<1>1. \A u \in Task, f \in Field : Untouched(m, m, a, u, f)
  BY UntouchedTake
<1>2. \A u \in Task, f \in Field :
        (u # u0 \/ f # f0) /\ (u # u1 \/ f # f1) => Keeps(m, m, a, b, u, f, u, f)
  BY <1>1 DEF Keeps
<1>3. u0 # u1 \/ f0 # f1 => Keeps(m, m, a, b, u1, f1, u0, f0)
  BY DEF Keeps
<1>4. Base(b, u0, f0) # 0 =>
        /\ Tree(m, Base(b, u0, f0), From(b, u0, f0))
        /\ Of(m, b, u0, f0) \subseteq m.used
        /\ Of(m, b, u0, f0) \cap m.used \subseteq Of(m, a, u1, f1)
  BY DEF Owning, Trees, Of
<1> QED  BY <1>2, <1>3, <1>4, Handover

(* wait finds a zombie, and destroys its directory.                         *)
LEMMA ReapSound ==
  ASSUME NEW m, NEW a, Sound(m, a), NEW t \in Task, NEW z \in Task,
         a[t].phase = "user", a[z].phase = "zombie", NEW b \in [Task -> TaskType],
         \A u \in Task : u # t /\ u # z => b[u] = a[u],
         b[t].phase = "destroy", b[t].at = 1, b[t].then = "reap", b[t].peer = z,
         b[t].cr3 = a[t].cr3, b[t].dir = a[z].cr3,
         b[t].stack = a[t].stack, b[t].sel = a[t].sel, b[t].heap = a[t].heap /\ b[t].own = a[t].own,
         b[z].phase = "reaped", b[z].cr3 = a[z].cr3, b[z].dir = a[z].dir, b[z].stack = a[z].stack,
         b[z].sel = a[z].sel, b[z].then = a[z].then, b[z].heap = a[z].heap /\ b[z].own = a[z].own
  PROVE  Goes(m, m, a, b)
<1>1. IsMem(m) /\ a \in [Task -> TaskType] /\ a[t] \in TaskType /\ a[z] \in TaskType
      /\ Shape(a) /\ HasDir(a[t]) /\ HasSpace(a[t])
      /\ HasDir(a[z]) /\ HasSpace(a[z]) /\ Owning(m, a) /\ t # z
  BY DEF Sound, Shape
<1>2. a[z].cr3 \in Page /\ a[z].cr3 # 0 /\ a[z].dir = 0 /\ a[z].then = "none" /\ a[t].dir = 0
      /\ a[z].sel /\ a[z].stack # 0
  <2>1. a[z].cr3 \in Page /\ a[z].sel /\ a[z].stack # 0
    BY <1>1 DEF HasSpace
  <2>2. a[z].dir = 0 /\ a[z].then = "none" /\ a[t].dir = 0
    BY <1>1 DEF HasDir, Filling, Loading, Mapping
  <2> QED  BY <2>1, <2>2, PageFacts
<1>3. \A u \in Task, f \in Field : Untouched(m, m, a, u, f)
  BY SameMemory
<1>4. Shape(b)
  <2>1. HasDir(b[t]) /\ HasSpace(b[t])
    BY <1>1, <1>2 DEF HasDir, HasSpace, Filling, Loading, Mapping, Running, Building
  <2>2. HasDir(b[z]) /\ HasSpace(b[z])
    BY <1>1, <1>2 DEF HasDir, HasSpace, Filling, Loading, Mapping, Running, Building
  <2>3. ~ OnPeer(b[z]) /\ PeerOf(b[t], b[z])
    BY <1>2 DEF OnPeer, PeerOf, Building
  <2>4. a[t].phase \in Running
    BY DEF Running, Building
  <2>5. a[z].phase \in {"none", "zombie"} \/ (OnPeer(a[t]) /\ a[t].peer = z)
    OBVIOUS
  <2>6. OnPeer(b[t]) => b[t].peer = z /\ PeerOf(b[t], b[z])
    BY <2>3
  <2> QED  BY <1>1, <2>1, <2>2, <2>3, <2>4, <2>5, <2>6, ShapeTwo
<1>5. Blank(m, b)
  <2>1. b[t].phase # "new" /\ b[z].phase # "new"
    OBVIOUS
  <2> QED  BY <1>3, <2>1, BlankNext DEF Field
<1>6. Owning(m, b)
  <2>1. SameRoot(a, b, t, "stack", t, "stack") /\ SameRoot(a, b, t, "cr3", t, "cr3")
    BY SameRoots
  <2>2. SameRoot(a, b, z, "stack", z, "stack") /\ SameRoot(a, b, z, "dir", z, "dir")
    BY SameRoots
  <2>3. \A u \in Task, f \in Field :
          (u # t \/ f # "dir") /\ (u # z \/ f # "cr3") => SameRoot(a, b, u, f, u, f)
    BY <2>1, <2>2, SameRoots DEF Field
  <2>4. Base(b, z, "cr3") = 0
    BY Bases
  <2>5. Base(b, t, "dir") = Base(a, z, "cr3") /\ From(b, t, "dir") = From(a, z, "cr3")
    BY <1>2, Bases
  <2>6. "cr3" \in Field /\ "dir" \in Field
    BY DEF Field
  <2> QED  BY <1>1, <2>3, <2>4, <2>5, <2>6, Moved
<1>7. Maps(m, b)
  <2>1. MapsOf(m, b[z])
    <3>1. b[z].phase \notin Running
      BY DEF Running, Building
    <3> QED  BY <1>1, <1>3, <3>1, PlainMaps DEF Field
  <2>2. MapsOf(m, b[t])
    <3>1. b[t].phase \in Running \ {"copy", "load", "loaded", "map"} /\ ~ Mapping(a[t], "sbrk")
      BY DEF Running, Building, Mapping
    <3> QED  BY <1>1, <1>3, <3>1, PlainMaps DEF Field
  <2>3. \A u \in Task : u # t /\ u # z => MapsOf(m, b[u])
    BY <1>1, <1>3, OtherMaps
  <2> QED  BY <2>1, <2>2, <2>3 DEF Maps
<1>8. Spares(m, m, a, b)
  <2>1. Stays(a, b, t, "stack") /\ Stays(a, b, t, "cr3") /\ Stays(a, b, z, "stack") /\ Stays(a, b, z, "dir")
    BY SameBack
  <2>2. Stays(a, b, t, "dir")
    BY <1>2, Bases, SameBack DEF Field
  <2>3. Stays(a, b, z, "cr3")
    <3>1. Base(b, t, "dir") = Base(a, z, "cr3") /\ From(b, t, "dir") = From(a, z, "cr3")
      BY <1>2, Bases
    <3>2. SameRoot(b, a, z, "cr3", t, "dir")
      BY <3>1 DEF SameRoot
    <3> QED  BY <3>2 DEF Stays, Field
  <2>4. \A u \in Task, f \in Field : Stays(a, b, u, f)
    BY <2>1, <2>2, <2>3, SameBack DEF Field
  <2> QED  BY <1>1, <1>3, <2>4, SparesKept
<1> QED  BY <1>1, <1>4, <1>5, <1>6, <1>7, <1>8 DEF Sound, Goes

(* memory_destory_uvm frees the page at its first place that is left.       *)
LEMMA DestroyPageSound ==
  ASSUME NEW m, NEW a, Sound(m, a), NEW t \in Task, a[t].phase = "destroy",
         NEW k \in Remaining(m, a[t].dir, a[t].at),
         \A l \in Remaining(m, a[t].dir, a[t].at) : k <= l,
         NEW n, n = Give(m, At(m, a[t].dir, k)), NEW b \in [Task -> TaskType],
         \A u \in Task : u # t => b[u] = a[u],
         b[t].phase = a[t].phase, b[t].at = k + 1, b[t].then = a[t].then, b[t].peer = a[t].peer,
         b[t].cr3 = a[t].cr3, b[t].dir = a[t].dir,
         b[t].stack = a[t].stack, b[t].sel = a[t].sel, b[t].heap = a[t].heap /\ b[t].own = a[t].own
  PROVE  Goes(m, n, a, b)
<1> DEFINE d == a[t].dir
           q == At(m, a[t].dir, k)
<1>1. IsMem(m) /\ a \in [Task -> TaskType] /\ a[t] \in TaskType
      /\ Shape(a) /\ HasDir(a[t]) /\ HasSpace(a[t]) /\ Owning(m, a) /\ a[t].at \in Nat
  BY DEF Sound, Shape, TaskType
<1>2. Base(a, t, "dir") = d /\ From(a, t, "dir") = a[t].at /\ d # 0 /\ "dir" \in Field /\ d \in Page
  <2>1. Base(a, t, "dir") = d /\ From(a, t, "dir") = a[t].at /\ d # 0 /\ "dir" \in Field
    BY <1>1, Bases DEF HasDir, Field, Filling, Loading, Mapping
  <2>2. d \in Page \cup {0}
    BY <1>1 DEF TaskType
  <2> QED  BY <2>1, <2>2
<1>3. Of(m, a, t, "dir") = Pages(m, d, a[t].at) /\ Tree(m, d, a[t].at) /\ Pages(m, d, a[t].at) \subseteq m.used
  BY <1>1, <1>2 DEF Owning, Trees, Of
<1>4. q \in Pages(m, d, a[t].at) /\ q # d /\ q \in m.used /\ q \in Page /\ k \in Nat /\ k >= a[t].at
  <2>1. q \in Pages(m, d, a[t].at)
    BY DEF Pages
  <2>2. q # d
    BY <1>3 DEF Tree
  <2>3. m.used \subseteq Page
    BY <1>1 DEF IsMem, MemType
  <2>4. k \in Nat /\ k >= a[t].at
    BY <1>1 DEF Remaining, Place
  <2> QED  BY <1>3, <2>1, <2>2, <2>3, <2>4
<1> HIDE DEF d, q
<1>5. n = Give(m, q)
  BY DEF d, q
<1>6. IsMem(n) /\ n.oom = m.oom /\ n.used = m.used \ {q}
  <2>1. IsMem(m) /\ q \in Page
    BY <1>1, <1>4
  <2>2. IsMem(Give(m, q)) /\ Give(m, q).oom = m.oom /\ Give(m, q).used = m.used \ {q}
    BY <2>1, GiveFacts
  <2> QED  BY <1>5, <2>2
<1>7. \A p \in m.used : p # q => n.entry[p] = m.entry[p]
  <2>1. m.entry \in [Page -> [1 .. NSlot -> Page \cup {0}]] /\ m.used \subseteq Page
    BY <1>1 DEF IsMem, MemType
  <2>2. n.entry = [m.entry EXCEPT ![q] = Empty]
    <3>1. IsMem(m) /\ q \in Page
      BY <1>1, <1>4
    <3>2. Give(m, q).entry = [m.entry EXCEPT ![q] = Empty]
      BY <3>1, GiveFacts
    <3> QED  BY <1>5, <3>2
  <2> QED  BY <2>1, <2>2
<1>8. \A u \in Task, f \in Field : u # t \/ f # "dir" => Untouched(m, n, a, u, f)
  <2>1. q \in Of(m, a, t, "dir") /\ "dir" \in Field /\ Owning(m, a)
    BY <1>1, <1>2, <1>3, <1>4
  <2>2. n.used = m.used \ {q}
    BY <1>6
  <2> QED  BY <1>7, <2>1, <2>2, UntouchedGive
<1>9. /\ Pages(m, d, k + 1) \subseteq Pages(m, d, a[t].at) /\ q \notin Pages(m, d, k + 1)
      /\ Tree(m, d, k + 1)
  <2>1. Remaining(m, d, k + 1) \subseteq Remaining(m, d, a[t].at) /\ k \notin Remaining(m, d, k + 1)
    BY <1>1, <1>4 DEF Remaining, Place
  <2>2. k \in Remaining(m, d, a[t].at) /\ q = At(m, d, k)
    BY DEF d, q
  <2>3. \A l \in Remaining(m, d, k + 1) : At(m, d, l) # q
    BY <1>3, <2>1, <2>2 DEF Tree
  <2>4. Pages(m, d, k + 1) \subseteq Pages(m, d, a[t].at)
    BY <2>1 DEF Pages
  <2>5. q \notin Pages(m, d, k + 1)
    BY <1>4, <2>3 DEF Pages
  <2>6. Tree(m, d, k + 1)
    BY <1>3, <2>1 DEF Tree
  <2> QED  BY <2>4, <2>5, <2>6
<1>10. Pages(n, d, k + 1) = Pages(m, d, k + 1) /\ Tree(n, d, k + 1)
  <2>1. \A p \in Pages(m, d, k + 1) : n.entry[p] = m.entry[p]
    BY <1>3, <1>7, <1>9
  <2>2. k + 1 \in Nat
    BY <1>4
  <2>3. Pages(n, d, k + 1) = Pages(m, d, k + 1) /\ (Tree(n, d, k + 1) <=> Tree(m, d, k + 1))
    <3>1. IsMem(m) /\ d \in Page
      BY <1>1, <1>2
    <3> QED  BY <1>6, <2>1, <2>2, <3>1, Frame
  <2> QED  BY <1>9, <2>3
<1>11. a[t].phase \in Running
  BY DEF Running, Building
<1>12. Shape(b)
  <2>1. HasDir(b[t]) /\ HasSpace(b[t])
    BY <1>1 DEF HasDir, HasSpace, Filling, Loading, Mapping
  <2>2. OnPeer(b[t]) => OnPeer(a[t])
    BY DEF OnPeer
  <2>3. OnPeer(b[t]) => PeerOf(a[t], a[a[t].peer])
    BY <1>1, <2>2 DEF Shape
  <2>4. OnPeer(b[t]) => PeerOf(b[t], a[a[t].peer])
    BY <2>3 DEF PeerOf
  <2> QED  BY <1>1, <1>11, <2>1, <2>2, <2>4, ShapeOne
<1>13. Blank(n, b)
  <2>1. b[t].phase # "new"
    OBVIOUS
  <2> QED  BY <1>8, <2>1, BlankNext DEF Field
<1>14. Owning(n, b)
  <2>1. SameRoot(a, b, t, "stack", t, "stack") /\ SameRoot(a, b, t, "cr3", t, "cr3")
    BY SameRoots
  <2>2. \A u \in Task, f \in Field : u # t \/ f # "dir" => SameRoot(a, b, u, f, u, f)
    BY <2>1, SameRoots DEF Field
  <2>3. \A u \in Task, f \in Field : u # t \/ f # "dir" => Keeps(m, n, a, b, u, f, u, f)
    BY <1>8, <2>2 DEF Keeps
  <2>4. Base(b, t, "dir") = d /\ From(b, t, "dir") = k + 1
    BY Bases DEF d
  <2>5. Of(n, b, t, "dir") = Pages(m, d, k + 1)
    BY <1>2, <1>10, <2>4 DEF Of
  <2>6. Base(b, t, "dir") # 0 =>
          /\ Tree(n, Base(b, t, "dir"), From(b, t, "dir"))
          /\ Of(n, b, t, "dir") \subseteq n.used
          /\ Of(n, b, t, "dir") \cap m.used \subseteq Of(m, a, t, "dir")
    BY <1>3, <1>6, <1>9, <1>10, <2>4, <2>5
  <2> QED  BY <1>1, <1>2, <1>6, <2>3, <2>6, HandoverOne
<1>15. Maps(n, b)
  <2>1. MapsOf(n, b[t])
    <3>1. b[t].phase \in Running \ {"copy", "load", "loaded", "map"} /\ ~ Mapping(a[t], "sbrk")
      BY <1>11 DEF Running, Building, Mapping
    <3>2. Untouched(m, n, a, t, "cr3")
      BY <1>8 DEF Field
    <3> QED  BY <1>6, <1>11, <3>1, <3>2, PlainMaps
  <2>2. \A u \in Task : u # t => MapsOf(n, b[u])
    BY <1>6, <1>8, OtherMaps
  <2> QED  BY <2>1, <2>2 DEF Maps
<1>16. Spares(m, n, a, b)
  <2>1. Stays(a, b, t, "stack") /\ Stays(a, b, t, "cr3")
    BY SameBack
  <2>2. \A u \in Task, f \in Field : u # t \/ f # "dir" => Stays(a, b, u, f)
    BY <2>1, SameBack DEF Field
  <2>3. Base(b, t, "dir") = d /\ From(b, t, "dir") = k + 1
    BY Bases DEF d
  <2>4. Of(n, b, t, "dir") = Pages(m, d, k + 1)
    BY <1>2, <1>10, <2>3 DEF Of
  <2>5. Pages(m, d, a[t].at) \subseteq {q} \cup Pages(m, d, k + 1)
    <3>1. Remaining(m, d, a[t].at) \subseteq {k} \cup Remaining(m, d, k + 1)
      <4>1. \A l \in Remaining(m, d, a[t].at) : k <= l
        BY DEF d
      <4> QED  BY <1>4, <4>1 DEF Remaining, Place
    <3>2. q = At(m, d, k)
      BY DEF d, q
    <3> QED  BY <3>1, <3>2 DEF Pages
  <2>6. Safe(m, n, a, b, t, "dir")
    <3>1. \A p \in Of(m, a, t, "dir") : p \in n.used => p \in Of(n, b, t, "dir") /\ p \in Page
      BY <1>1, <1>3, <1>6, <2>4, <2>5 DEF IsMem, MemType
    <3> QED  BY <1>2, <3>1 DEF Safe, Own
  <2>7. \A u \in Task, f \in Field :
          Safe(m, n, a, b, u, f) \/ (Untouched(m, n, a, u, f) /\ Stays(a, b, u, f))
    BY <1>8, <2>2, <2>6
  <2> QED  BY <1>6, <2>7, SparesKept
<1> QED  BY <1>6, <1>12, <1>13, <1>14, <1>15, <1>16 DEF Sound, Goes

(* The directory goes when nothing it leads to is left.                     *)
LEMMA LastPage ==
  ASSUME NEW m, NEW a, Sound(m, a), NEW t \in Task, a[t].phase = "destroy",
         NEW n, n = Give(m, a[t].dir)
  PROVE  /\ a[t].dir \in Page /\ a[t].dir \in Of(m, a, t, "dir") /\ IsMem(n) /\ n.oom = m.oom
         /\ n.used = m.used \ {a[t].dir} /\ \A p \in m.used : p # a[t].dir => n.entry[p] = m.entry[p]
         /\ \A u \in Task, f \in Field : u # t \/ f # "dir" => Untouched(m, n, a, u, f)
<1> DEFINE d == a[t].dir
<1>1. IsMem(m) /\ a \in [Task -> TaskType] /\ a[t] \in TaskType /\ HasDir(a[t]) /\ Owning(m, a)
  BY DEF Sound, Shape
<1>2. d \in Page /\ d # 0
  <2>1. d # 0
    BY <1>1 DEF HasDir, Filling, Loading, Mapping
  <2>2. d \in Page \cup {0}
    BY <1>1 DEF TaskType
  <2> QED  BY <2>1, <2>2
<1>3. d \in Of(m, a, t, "dir") /\ "dir" \in Field
  <2>1. Base(a, t, "dir") = d
    BY Bases
  <2> QED  BY <1>2, <2>1 DEF Of, Pages, Field
<1> HIDE DEF d
<1>4. IsMem(n) /\ n.oom = m.oom /\ n.used = m.used \ {d}
  <2>1. IsMem(Give(m, d)) /\ Give(m, d).oom = m.oom /\ Give(m, d).used = m.used \ {d}
    BY <1>1, <1>2, GiveFacts
  <2> QED  BY <2>1 DEF d
<1>5. \A p \in m.used : p # d => n.entry[p] = m.entry[p]
  <2>1. m.entry \in [Page -> [1 .. NSlot -> Page \cup {0}]] /\ m.used \subseteq Page
    BY <1>1 DEF IsMem, MemType
  <2>2. Give(m, d).entry = [m.entry EXCEPT ![d] = Empty]
    BY <1>1, <1>2, GiveFacts
  <2>3. n.entry = [m.entry EXCEPT ![d] = Empty]
    BY <2>2 DEF d
  <2> QED  BY <2>1, <2>3
<1>6. \A u \in Task, f \in Field : u # t \/ f # "dir" => Untouched(m, n, a, u, f)
  BY <1>1, <1>3, <1>4, <1>5, UntouchedGive
<1> QED  BY <1>2, <1>3, <1>4, <1>5, <1>6 DEF d

(* What the root of a destroyed directory still held is that page.          *)
LEMMA LastGone ==
  ASSUME NEW m, NEW a, Sound(m, a), NEW t \in Task, a[t].phase = "destroy",
         Remaining(m, a[t].dir, a[t].at) = {}, NEW n, n = Give(m, a[t].dir)
  PROVE  n.used \subseteq m.used /\ \A p \in Of(m, a, t, "dir") : p \notin n.used
<1>1. n.used = m.used \ {a[t].dir}
  BY LastPage
<1>2. Base(a, t, "dir") = a[t].dir /\ From(a, t, "dir") = a[t].at
  BY Bases
<1>3. Of(m, a, t, "dir") \subseteq {a[t].dir}
  BY <1>2 DEF Of, Pages
<1> QED  BY <1>1, <1>3

(* So it is safe to forget that root.                                       *)
LEMMA LastSafe ==
  ASSUME NEW m, NEW a, NEW b, Sound(m, a), NEW t \in Task, a[t].phase = "destroy",
         Remaining(m, a[t].dir, a[t].at) = {}, NEW n, n = Give(m, a[t].dir)
  PROVE  n.used \subseteq m.used /\ Safe(m, n, a, b, t, "dir")
BY LastGone, SafeGone

(* execve is done with the old directory.                                   *)
LEMMA ExecEndSound ==
  ASSUME NEW m, NEW a, Sound(m, a), NEW t \in Task, a[t].phase = "destroy",
         Remaining(m, a[t].dir, a[t].at) = {},
         NEW n, n = Give(m, a[t].dir), NEW b \in [Task -> TaskType],
         \A u \in Task : u # t => b[u] = a[u],
         b[t].phase = "user", b[t].cr3 = a[t].cr3, b[t].dir = 0,
         b[t].stack = a[t].stack, b[t].sel = a[t].sel, b[t].then = "none",
         b[t].heap = a[t].heap /\ b[t].own = a[t].own
  PROVE  Goes(m, n, a, b)
<1>1. IsMem(m) /\ a \in [Task -> TaskType] /\ a[t] \in TaskType
      /\ Shape(a) /\ HasDir(a[t]) /\ HasSpace(a[t]) /\ Owning(m, a)
  BY DEF Sound, Shape
<1>2. /\ IsMem(n) /\ n.oom = m.oom
      /\ \A u \in Task, f \in Field : u # t \/ f # "dir" => Untouched(m, n, a, u, f)
  BY LastPage
<1>3. a[t].phase \in Running
  BY DEF Running, Building
<1>4. Shape(b)
  <2>1. HasDir(b[t]) /\ HasSpace(b[t])
    BY <1>1 DEF HasDir, HasSpace, Filling, Loading, Mapping, Running, Building
  <2>2. ~ OnPeer(b[t])
    BY DEF OnPeer, Building
  <2> QED  BY <1>1, <1>3, <2>1, <2>2, ShapeOne
<1>5. Blank(n, b)
  <2>1. b[t].phase # "new"
    OBVIOUS
  <2> QED  BY <1>2, <2>1, BlankNext DEF Field
<1>6. Owning(n, b)
  <2>1. SameRoot(a, b, t, "stack", t, "stack") /\ SameRoot(a, b, t, "cr3", t, "cr3")
    BY SameRoots
  <2>2. Base(b, t, "dir") = 0
    BY Bases
  <2>3. \A u \in Task, f \in Field : u # t \/ f # "dir" => SameRoot(a, b, u, f, u, f)
    BY <2>1, SameRoots DEF Field
  <2>4. \A u \in Task, f \in Field : Keeps(m, n, a, b, u, f, u, f)
    BY <1>2, <2>2, <2>3 DEF Keeps
  <2> QED  BY <1>1, <1>2, <2>4, OwningKept
<1>7. Maps(n, b)
  <2>1. MapsOf(n, b[t])
    <3>1. b[t].phase \in Running \ {"copy", "load", "loaded", "map"} /\ ~ Mapping(a[t], "sbrk")
      BY DEF Running, Building, Mapping
    <3> QED  BY <1>2, <3>1, PlainMaps DEF Field
  <2>2. \A u \in Task : u # t => MapsOf(n, b[u])
    BY <1>2, OtherMaps
  <2> QED  BY <2>1, <2>2 DEF Maps
<1>8. Spares(m, n, a, b)
  <2>1. Stays(a, b, t, "stack") /\ Stays(a, b, t, "cr3")
    BY SameBack
  <2>2. Safe(m, n, a, b, t, "dir") /\ n.used \subseteq m.used
    BY LastSafe
  <2>3. \A u \in Task, f \in Field : u # t \/ f # "dir" => Stays(a, b, u, f)
    BY <2>1, SameBack DEF Field
  <2>4. \A u \in Task, f \in Field :
          Safe(m, n, a, b, u, f) \/ (Untouched(m, n, a, u, f) /\ Stays(a, b, u, f))
    BY <1>2, <2>2, <2>3
  <2> QED  BY <1>2, <2>2, <2>4, SparesKept
<1> QED  BY <1>2, <1>4, <1>5, <1>6, <1>7, <1>8 DEF Sound, Goes

(* fork is done with the directory it could not fill.                       *)
LEMMA ForkEndSound ==
  ASSUME NEW m, NEW a, Sound(m, a), NEW t \in Task, NEW c \in Task,
         a[t].phase = "destroy", a[t].then = "fork", c = a[t].peer,
         Remaining(m, a[t].dir, a[t].at) = {},
         NEW n, n = Give(m, a[t].dir), NEW b \in [Task -> TaskType],
         \A u \in Task : u # t /\ u # c => b[u] = a[u],
         b[t].phase = "user", b[t].cr3 = a[t].cr3, b[t].dir = 0,
         b[t].stack = a[t].stack, b[t].sel = a[t].sel, b[t].then = "none",
         b[t].heap = a[t].heap /\ b[t].own = a[t].own,
         b[c].phase = "broken", b[c].cr3 = BAD, b[c].dir = a[c].dir, b[c].stack = a[c].stack,
         b[c].sel = a[c].sel, b[c].then = a[c].then, b[c].heap = a[c].heap /\ b[c].own = a[c].own
  PROVE  Goes(m, n, a, b)
<1>1. IsMem(m) /\ a \in [Task -> TaskType] /\ a[t] \in TaskType /\ a[c] \in TaskType
      /\ Shape(a) /\ HasDir(a[t]) /\ HasSpace(a[t])
      /\ HasDir(a[c]) /\ HasSpace(a[c]) /\ Owning(m, a)
  BY DEF Sound, Shape
<1>2. OnPeer(a[t]) /\ PeerOf(a[t], a[c])
  BY <1>1 DEF OnPeer, Shape
<1>3. a[c].phase = "new" /\ t # c
  BY <1>2 DEF PeerOf
<1>4. /\ IsMem(n) /\ n.oom = m.oom
      /\ \A u \in Task, f \in Field : u # t \/ f # "dir" => Untouched(m, n, a, u, f)
  BY LastPage
<1>5. Shape(b)
  <2>1. HasDir(b[t]) /\ HasSpace(b[t])
    BY <1>1 DEF HasDir, HasSpace, Filling, Loading, Mapping, Running, Building
  <2>2. HasDir(b[c]) /\ HasSpace(b[c])
    BY <1>1, <1>3 DEF HasDir, HasSpace, Filling, Loading, Mapping, Running, Building
  <2>3. ~ OnPeer(b[c]) /\ ~ OnPeer(b[t])
    BY <1>1, <1>3 DEF OnPeer, Building, HasDir, Filling, Loading, Mapping
  <2>4. a[t].phase \in Running
    BY DEF Running, Building
  <2>5. a[c].phase \in {"none", "zombie"} \/ (OnPeer(a[t]) /\ a[t].peer = c)
    BY <1>2
  <2>6. OnPeer(b[t]) => b[t].peer = c /\ PeerOf(b[t], b[c])
    BY <2>3
  <2> QED  BY <1>1, <1>3, <2>1, <2>2, <2>3, <2>4, <2>5, <2>6, ShapeTwo
<1>6. Blank(n, b)
  <2>1. b[t].phase # "new" /\ b[c].phase # "new"
    OBVIOUS
  <2> QED  BY <1>4, <2>1, BlankNext DEF Field
<1>7. Owning(n, b)
  <2>1. SameRoot(a, b, t, "stack", t, "stack") /\ SameRoot(a, b, t, "cr3", t, "cr3")
    BY SameRoots
  <2>2. SameRoot(a, b, c, "stack", c, "stack") /\ SameRoot(a, b, c, "dir", c, "dir")
    BY <1>3, SameRoots
  <2>3. Base(b, t, "dir") = 0 /\ Base(b, c, "cr3") = 0
    BY Bases, PageFacts
  <2>4. SameRoot(a, b, c, "cr3", c, "cr3")
    BY <2>3 DEF SameRoot
  <2>5. \A u \in Task, f \in Field : u # t \/ f # "dir" => SameRoot(a, b, u, f, u, f)
    BY <2>1, <2>2, <2>4, SameRoots DEF Field
  <2>6. \A u \in Task, f \in Field : Keeps(m, n, a, b, u, f, u, f)
    BY <1>4, <2>3, <2>5 DEF Keeps
  <2> QED  BY <1>1, <1>4, <2>6, OwningKept
<1>8. Maps(n, b)
  <2>1. MapsOf(n, b[c])
    <3>1. b[c].phase \notin Running
      BY DEF Running, Building
    <3> QED  BY <1>4, <3>1, PlainMaps DEF Field
  <2>2. MapsOf(n, b[t])
    <3>1. b[t].phase \in Running \ {"copy", "load", "loaded", "map"} /\ ~ Mapping(a[t], "sbrk")
      BY DEF Running, Building, Mapping
    <3> QED  BY <1>4, <3>1, PlainMaps DEF Field
  <2>3. \A u \in Task : u # t /\ u # c => MapsOf(n, b[u])
    BY <1>4, OtherMaps
  <2> QED  BY <2>1, <2>2, <2>3 DEF Maps
<1>9. Spares(m, n, a, b)
  <2>1. Stays(a, b, t, "stack") /\ Stays(a, b, t, "cr3") /\ Stays(a, b, c, "stack") /\ Stays(a, b, c, "dir")
    BY <1>3, SameBack
  <2>2. Safe(m, n, a, b, t, "dir") /\ n.used \subseteq m.used
    BY LastSafe
  <2>3. Safe(m, n, a, b, c, "cr3")
    BY <1>3, NewLapse
  <2>4. \A u \in Task, f \in Field : (u # t \/ f # "dir") /\ (u # c \/ f # "cr3") => Stays(a, b, u, f)
    BY <2>1, SameBack DEF Field
  <2>5. \A u \in Task, f \in Field :
          Safe(m, n, a, b, u, f) \/ (Untouched(m, n, a, u, f) /\ Stays(a, b, u, f))
    BY <1>4, <2>2, <2>3, <2>4
  <2> QED  BY <1>4, <2>2, <2>5, SparesKept
<1> QED  BY <1>4, <1>5, <1>6, <1>7, <1>8, <1>9 DEF Sound, Goes

(* wait frees the kernel stack of the zombie last, and its slot.            *)
LEMMA ReapEndSound ==
  ASSUME NEW m, NEW a, Sound(m, a), NEW t \in Task, NEW z \in Task,
         a[t].phase = "destroy", a[t].then = "reap", z = a[t].peer,
         Remaining(m, a[t].dir, a[t].at) = {},
         NEW n, n = Give(Give(m, a[t].dir), a[z].stack), NEW b \in [Task -> TaskType],
         \A u \in Task : u # t /\ u # z => b[u] = a[u],
         b[t].phase = "user", b[t].cr3 = a[t].cr3, b[t].dir = 0,
         b[t].stack = a[t].stack, b[t].sel = a[t].sel, b[t].then = "none",
         b[t].heap = a[t].heap /\ b[t].own = a[t].own,
         b[z] = NoTask
  PROVE  Goes(m, n, a, b)
<1> DEFINE s == a[z].stack
           m1 == Give(m, a[t].dir)
<1>1. IsMem(m) /\ a \in [Task -> TaskType] /\ a[t] \in TaskType /\ a[z] \in TaskType
      /\ Shape(a) /\ HasDir(a[t]) /\ HasSpace(a[t])
      /\ HasDir(a[z]) /\ HasSpace(a[z]) /\ Owning(m, a)
  BY DEF Sound, Shape
<1>2. OnPeer(a[t]) /\ PeerOf(a[t], a[z])
  BY <1>1 DEF OnPeer, Shape
<1>3. a[z].phase = "reaped" /\ t # z
  BY <1>2 DEF PeerOf
<1>4. a[z].sel /\ s # 0 /\ s \in Page
  <2>1. a[z].sel /\ s # 0
    BY <1>1, <1>3 DEF HasSpace
  <2>2. s \in Page \cup {0}
    BY <1>1 DEF TaskType
  <2> QED  BY <2>1, <2>2
<1>5. s \in Of(m, a, z, "stack") /\ "stack" \in Field
  <2>1. Base(a, z, "stack") = s
    BY <1>4, Bases
  <2> QED  BY <1>4, <2>1 DEF Of, Pages, Field
<1>6. NoTask.phase = "none" /\ NoTask.cr3 = 0 /\ NoTask.dir = 0 /\ NoTask.stack = 0 /\ ~ NoTask.sel
      /\ NoTask.then = "none" /\ ~ NoTask.own
  BY DEF NoTask
<1>7. /\ IsMem(m1) /\ m1.oom = m.oom
      /\ m1.used = m.used \ {a[t].dir} /\ \A p \in m.used : p # a[t].dir => m1.entry[p] = m.entry[p]
      /\ \A u \in Task, f \in Field : u # t \/ f # "dir" => Untouched(m, m1, a, u, f)
  BY LastPage
<1> HIDE DEF m1, s
<1>8. n = Give(m1, s)
  BY DEF m1, s
<1>9. IsMem(n) /\ n.oom = m.oom /\ n.used = m1.used \ {s}
  <2>1. IsMem(Give(m1, s)) /\ Give(m1, s).oom = m1.oom /\ Give(m1, s).used = m1.used \ {s}
    BY <1>4, <1>7, GiveFacts
  <2> QED  BY <1>7, <1>8, <2>1
<1>10. \A p \in m1.used : p # s => n.entry[p] = m1.entry[p]
  <2>1. m1.entry \in [Page -> [1 .. NSlot -> Page \cup {0}]] /\ m1.used \subseteq Page
    BY <1>7 DEF IsMem, MemType
  <2>2. Give(m1, s).entry = [m1.entry EXCEPT ![s] = Empty]
    BY <1>4, <1>7, GiveFacts
  <2> QED  BY <1>8, <2>1, <2>2
<1>11. ASSUME NEW u \in Task, NEW f \in Field, u # t \/ f # "dir", u # z \/ f # "stack"
       PROVE  Untouched(m, n, a, u, f)
  <2> SUFFICES ASSUME NEW p \in Of(m, a, u, f)
               PROVE  p \in n.used /\ n.entry[p] = m.entry[p]
    BY DEF Untouched
  <2>1. p \in m1.used /\ m1.entry[p] = m.entry[p]
    BY <1>7, <1>11 DEF Untouched
  <2>2. p # s
    BY <1>1, <1>5, <1>11 DEF Owning, Apart
  <2> QED  BY <1>9, <1>10, <2>1, <2>2
<1>12. Shape(b)
  <2>1. HasDir(b[t]) /\ HasSpace(b[t])
    BY <1>1 DEF HasDir, HasSpace, Filling, Loading, Mapping, Running, Building
  <2>2. HasDir(b[z]) /\ HasSpace(b[z])
    BY <1>6 DEF HasDir, HasSpace, Filling, Loading, Mapping, Running, Building
  <2>3. ~ OnPeer(b[z]) /\ ~ OnPeer(b[t])
    BY <1>6 DEF OnPeer, Building
  <2>4. a[t].phase \in Running
    BY DEF Running, Building
  <2>5. a[z].phase \in {"none", "zombie"} \/ (OnPeer(a[t]) /\ a[t].peer = z)
    BY <1>2
  <2>6. OnPeer(b[t]) => b[t].peer = z /\ PeerOf(b[t], b[z])
    BY <2>3
  <2> QED  BY <1>1, <1>3, <2>1, <2>2, <2>3, <2>4, <2>5, <2>6, ShapeTwo
<1>13. Blank(n, b)
  <2>1. b[t].phase # "new" /\ b[z].phase # "new"
    BY <1>6
  <2> QED  BY <1>11, <2>1, BlankNext DEF Field
<1>14. Owning(n, b)
  <2>1. SameRoot(a, b, t, "stack", t, "stack") /\ SameRoot(a, b, t, "cr3", t, "cr3")
    BY SameRoots
  <2>2. Base(b, t, "dir") = 0
    BY Bases
  <2>3. \A f \in Field : Base(b, z, f) = 0
    BY <1>6, Bases, PageFacts DEF Field
  <2>4. \A u \in Task, f \in Field : (u # t \/ f # "dir") /\ u # z => SameRoot(a, b, u, f, u, f)
    BY <2>1, SameRoots DEF Field
  <2>5. \A u \in Task, f \in Field : Keeps(m, n, a, b, u, f, u, f)
    BY <1>11, <2>2, <2>3, <2>4 DEF Keeps
  <2> QED  BY <1>1, <1>9, <2>5, OwningKept
<1>15. Maps(n, b)
  <2>1. MapsOf(n, b[z])
    <3>1. b[z].phase = "none" /\ ~ b[z].own
      BY <1>6
    <3> QED  BY <3>1 DEF MapsOf, Running, Building, Loading, Mapping, Rounds
  <2>2. MapsOf(n, b[t])
    <3>1. b[t].phase \in Running \ {"copy", "load", "loaded", "map"} /\ ~ Mapping(a[t], "sbrk")
      BY DEF Running, Building, Mapping
    <3>2. Untouched(m, n, a, t, "cr3")
      BY <1>3, <1>11 DEF Field
    <3> QED  BY <1>9, <3>1, <3>2, PlainMaps
  <2>3. ASSUME NEW u \in Task, u # t, u # z
        PROVE  MapsOf(n, b[u])
    <3>1. \A f \in Field : Untouched(m, n, a, u, f)
      BY <1>11, <2>3
    <3>2. MapsOf(n, a[u])
      BY <1>9, <3>1, OtherMaps
    <3> QED  BY <2>3, <3>2
  <2> QED  BY <2>1, <2>2, <2>3 DEF Maps
<1>16. Spares(m, n, a, b)
  <2>1. Stays(a, b, t, "stack") /\ Stays(a, b, t, "cr3")
    BY SameBack
  <2>2. Stays(a, b, z, "cr3") /\ Stays(a, b, z, "dir")
    <3>1. a[z].dir = 0
      BY <1>1, <1>3 DEF HasDir, Filling, Loading, Mapping
    <3>2. Base(a, z, "cr3") = 0 /\ Base(a, z, "dir") = 0
      BY <1>3, <3>1, Bases
    <3> QED  BY <3>2, SameBack DEF Field
  <2>3. Safe(m, n, a, b, t, "dir")
    <3>1. m1 = Give(m, a[t].dir)
      BY DEF m1
    <3>2. \A p \in Of(m, a, t, "dir") : p \notin m1.used
      BY <3>1, LastGone
    <3> QED  BY <1>9, <3>2, SafeGone
  <2>4. Safe(m, n, a, b, z, "stack")
    <3>1. Base(a, z, "stack") = s /\ From(a, z, "stack") = Last + 1
      BY <1>4, Bases DEF s
    <3>2. Of(m, a, z, "stack") = {s}
      BY <1>4, <3>1, SinglePage DEF Of
    <3> QED  BY <1>9, <3>2, SafeGone
  <2>5. \A u \in Task, f \in Field : (u # t \/ f # "dir") /\ (u # z \/ f # "stack") => Stays(a, b, u, f)
    BY <2>1, <2>2, SameBack DEF Field
  <2>6. \A u \in Task, f \in Field :
          Safe(m, n, a, b, u, f) \/ (Untouched(m, n, a, u, f) /\ Stays(a, b, u, f))
    BY <1>11, <2>3, <2>4, <2>5
  <2>7. n.used \subseteq m.used
    BY <1>7, <1>9
  <2> QED  BY <1>9, <2>6, <2>7, SparesKept
<1> QED  BY <1>9, <1>12, <1>13, <1>14, <1>15, <1>16 DEF Sound, Goes

(* The directory of first_task leads to a table and a page.                 *)
LEMMA FirstTree ==
  ASSUME NEW m, NEW i0, i0 = 1,
         m.entry[2][i0] = 4, \A i \in 1 .. NSlot : i # i0 => m.entry[2][i] = 0,
         m.entry[4][i0] = 3, \A j \in 1 .. NSlot : j # i0 => m.entry[4][j] = 0
  PROVE  Tree(m, 2, 1) /\ Pages(m, 2, 1) = {2, 4, 3}
<1>1. i0 \in 1 .. NSlot
  BY Sizes
<1>2. TableAt(i0) \in Place /\ PageAt(i0, i0) \in Place /\ TableAt(i0) # PageAt(i0, i0)
  <2>1. PageAt(i0, i0) < TableAt(i0) /\ TableAt(i0) \in Int /\ PageAt(i0, i0) \in Int
    BY <1>1, TablePlaces, PagePlaces DEF Place
  <2> QED  BY <1>1, <2>1, TablePlaces, PagePlaces
<1>3. At(m, 2, TableAt(i0)) = 4 /\ At(m, 2, PageAt(i0, i0)) = 3
  BY <1>1, AtTable, AtPage
<1>4. ASSUME NEW k \in Place, At(m, 2, k) # 0
      PROVE  k \in {TableAt(i0), PageAt(i0, i0)}
  <2>1. CASE \E i \in 1 .. NSlot : k = TableAt(i)
    <3>1. PICK i \in 1 .. NSlot : k = TableAt(i)
      BY <2>1
    <3>2. m.entry[2][i] # 0
      BY <1>4, <3>1, AtTable
    <3> QED  BY <3>1, <3>2
  <2>2. CASE \E i, j \in 1 .. NSlot : k = PageAt(i, j)
    <3>1. PICK i \in 1 .. NSlot, j \in 1 .. NSlot : k = PageAt(i, j)
      BY <2>2
    <3>2. At(m, 2, k) = IF m.entry[2][i] = 0 THEN 0 ELSE m.entry[m.entry[2][i]][j]
      BY <3>1, AtPage
    <3>3. m.entry[2][i] # 0
      BY <1>4, <3>2
    <3>4. i = i0 /\ m.entry[4][j] # 0
      BY <1>4, <3>2, <3>3
    <3>5. j = i0
      BY <3>4
    <3> QED  BY <3>1, <3>4, <3>5
  <2> QED  BY <2>1, <2>2, AllPlaces
<1>5. TableAt(i0) >= 1 /\ PageAt(i0, i0) >= 1
  BY <1>2 DEF Place
<1>6. Remaining(m, 2, 1) = {TableAt(i0), PageAt(i0, i0)}
  BY <1>2, <1>3, <1>4, <1>5 DEF Remaining
<1> QED  BY <1>2, <1>3, <1>6 DEF Tree, Pages

(* The memory at boot and its only task.                                    *)
LEMMA InitSound ==
  ASSUME NEW m, m \in MemType, m.used = 1 .. 4,
         NEW i0, i0 = 1,
         m.entry[2][i0] = 4, \A i \in 1 .. NSlot : i # i0 => m.entry[2][i] = 0,
         m.entry[4][i0] = 3, \A j \in 1 .. NSlot : j # i0 => m.entry[4][j] = 0,
         NEW a \in [Task -> TaskType],
         a[First].phase = "user", a[First].cr3 = 2, a[First].stack = 1, a[First].sel,
         a[First].dir = 0, a[First].then = "none", ~ a[First].own,
         \A u \in Task : u # First => a[u] = NoTask
  PROVE  Sound(m, a)
<1>1. First \in Task /\ m.size \in PhysSizes /\ m.size >= 4 /\ {1, 2, 3, 4} \subseteq Page
      /\ {1, 2, 3, 4} \subseteq m.used
  <2>1. m.size \in PhysSizes
    BY DEF MemType
  <2>2. m.size \in Nat /\ m.size >= 4 /\ m.size <= Max(PhysSizes) /\ Max(PhysSizes) \in Nat
    BY <2>1, PageFacts, MemoryAssumption
  <2>3. {1, 2, 3, 4} \subseteq Page
    BY <2>2 DEF Page
  <2> QED  BY <2>1, <2>2, <2>3, MemoryAssumption
<1>2. IsMem(m)
  <2>1. m.size \in Nat
    BY <1>1, PageFacts
  <2> QED  BY <1>1, <2>1 DEF IsMem
<1>3. NoTask.phase = "none" /\ NoTask.cr3 = 0 /\ NoTask.dir = 0 /\ NoTask.stack = 0 /\ ~ NoTask.sel
      /\ NoTask.then = "none" /\ ~ NoTask.own
  BY DEF NoTask
<1>4. Shape(a)
  <2>1. \A u \in Task : HasDir(a[u]) /\ HasSpace(a[u])
    BY <1>1, <1>3 DEF HasDir, HasSpace, Filling, Loading, Mapping, Running, Building
  <2>2. \A u \in Task : ~ OnPeer(a[u])
    BY <1>1, <1>3 DEF OnPeer, Building
  <2> QED  BY <2>1, <2>2 DEF Shape
<1>5. Blank(m, a)
  BY <1>3 DEF Blank
<1>6. \A u \in Task, f \in Field : u # First \/ f = "dir" => Base(a, u, f) = 0
  BY <1>3, Bases, PageFacts DEF Field
<1>7. /\ Base(a, First, "stack") = 1 /\ From(a, First, "stack") = Last + 1
      /\ Base(a, First, "cr3") = 2 /\ From(a, First, "cr3") = 1
  BY <1>1, Bases
<1>8. Tree(m, 1, Last + 1) /\ Of(m, a, First, "stack") = {1}
  BY <1>1, <1>7, SinglePage DEF Of
<1>9. Tree(m, 2, 1) /\ Of(m, a, First, "cr3") = {2, 4, 3}
  BY <1>7, FirstTree DEF Of
<1>10. \A u \in Task, f \in Field : u # First \/ f = "dir" => Of(m, a, u, f) = {}
  BY <1>6 DEF Of
<1>11. Trees(m, a)
  <2>1. ASSUME NEW u \in Task, NEW f \in Field, Base(a, u, f) # 0
        PROVE  Tree(m, Base(a, u, f), From(a, u, f)) /\ Of(m, a, u, f) \subseteq m.used
    <3>1. u = First /\ (f = "stack" \/ f = "cr3")
      BY <1>6, <2>1 DEF Field
    <3> QED  BY <1>1, <1>7, <1>8, <1>9, <3>1
  <2> QED  BY <2>1 DEF Trees
<1>12. Apart(m, a)
  <2>1. ASSUME NEW u \in Task, NEW v \in Task, NEW f \in Field, NEW g \in Field, u # v \/ f # g
        PROVE  Of(m, a, u, f) \cap Of(m, a, v, g) = {}
    <3>1. CASE u # First \/ f = "dir" \/ v # First \/ g = "dir"
      BY <1>10, <3>1
    <3>2. CASE ~ (u # First \/ f = "dir" \/ v # First \/ g = "dir")
      BY <1>8, <1>9, <2>1, <3>2 DEF Field
    <3> QED  BY <3>1, <3>2
  <2> QED  BY <2>1 DEF Apart
<1>13. Maps(m, a)
  <2>1. \A u \in Task : ~ a[u].own /\ a[u].phase \notin {"load", "loaded", "copy", "map"}
    BY <1>3
  <2> QED  BY <2>1 DEF Maps, MapsOf, Loading, Rounds, Mapping
<1> QED  BY <1>2, <1>4, <1>5, <1>11, <1>12, <1>13 DEF Sound, Owning

(* The initial state.                                                       *)
LEMMA MemInitInv == Init => MemInv
<1> SUFFICES ASSUME Init PROVE MemInv
  OBVIOUS
<1> DEFINE second == [Empty EXCEPT ![1] = 4]
           fourth == [Empty EXCEPT ![1] = 3]
           start == [NoTask EXCEPT !.phase = "user", !.cr3 = 2, !.stack = 1, !.sel = TRUE]
<1>1. /\ task = [t \in Task |-> IF t = First THEN start ELSE NoTask]
      /\ \E n \in PhysSizes :
           mem = [size |-> n, used |-> 1 .. 4, oom |-> FALSE, panic |-> FALSE,
                  entry |-> [p \in Page |-> IF p = 2 THEN second ELSE IF p = 4 THEN fourth ELSE Empty]]
  BY DEF Init
<1>2. {1, 2, 3, 4} \subseteq Page /\ 1 .. 4 \subseteq Page /\ First \in Task
  BY PageFacts, MemoryAssumption DEF Page
<1>3. /\ second \in [1 .. NSlot -> Page \cup {0}] /\ fourth \in [1 .. NSlot -> Page \cup {0}]
      /\ second[1] = 4 /\ fourth[1] = 3
      /\ \A i \in 1 .. NSlot : i # 1 => second[i] = 0 /\ fourth[i] = 0
  <2>1. 1 \in 1 .. NSlot
    BY Sizes
  <2> QED  BY <1>2, <2>1, PageFacts DEF Empty
<1>4. start \in TaskType /\ start.phase = "user" /\ start.cr3 = 2 /\ start.stack = 1 /\ start.sel
      /\ start.dir = 0 /\ start.then = "none" /\ ~ start.own
  <2>1. NoTask \in TaskType /\ "user" \in Phase
    BY NoTaskType DEF Phase, Running
  <2>2. start = [NoTask EXCEPT !.phase = "user", !.cr3 = 2, !.stack = 1, !.sel = TRUE]
    OBVIOUS
  <2> HIDE DEF start
  <2> QED  BY <1>2, <2>1, <2>2 DEF TaskType, NoTask
<1> HIDE DEF second, fourth, start
<1>5. task \in [Task -> TaskType] /\ task[First] = start /\ \A u \in Task : u # First => task[u] = NoTask
  BY <1>1, <1>2, <1>4, NoTaskType
<1>6. /\ mem \in MemType /\ mem.used = 1 .. 4 /\ mem.entry[2] = second /\ mem.entry[4] = fourth
      /\ ~ mem.panic
  <2>1. PICK n \in PhysSizes :
           mem = [size |-> n, used |-> 1 .. 4, oom |-> FALSE, panic |-> FALSE,
                  entry |-> [p \in Page |-> IF p = 2 THEN second ELSE IF p = 4 THEN fourth ELSE Empty]]
    BY <1>1
  <2> DEFINE e == [p \in Page |-> IF p = 2 THEN second ELSE IF p = 4 THEN fourth ELSE Empty]
  <2>2. e \in [Page -> [1 .. NSlot -> Page \cup {0}]] /\ e[2] = second /\ e[4] = fourth
    BY <1>2, <1>3, PageFacts
  <2>3. mem = [size |-> n, used |-> 1 .. 4, oom |-> FALSE, panic |-> FALSE, entry |-> e]
    BY <2>1
  <2> HIDE DEF e
  <2> QED  BY <1>2, <2>2, <2>3 DEF MemType
<1>7. PICK i0 : i0 = 1
  OBVIOUS
<1>8. mem.entry[2][i0] = 4 /\ (\A i \in 1 .. NSlot : i # i0 => mem.entry[2][i] = 0)
      /\ mem.entry[4][i0] = 3 /\ (\A j \in 1 .. NSlot : j # i0 => mem.entry[4][j] = 0)
  BY <1>3, <1>6, <1>7
<1>9. task[First].phase = "user" /\ task[First].cr3 = 2 /\ task[First].stack = 1 /\ task[First].sel
      /\ task[First].dir = 0 /\ task[First].then = "none" /\ ~ task[First].own
  BY <1>4, <1>5
<1>10. mem \in MemType /\ mem.used = 1 .. 4
  BY <1>6
<1>11. task \in [Task -> TaskType] /\ \A u \in Task : u # First => task[u] = NoTask
  BY <1>5
<1>12. Sound(mem, task)
  BY <1>7, <1>8, <1>9, <1>10, <1>11, InitSound
<1> QED  BY <1>6, <1>12 DEF MemInv, Stopped

-----------------------------------------------------------------------------
(* The actions are these steps.                                             *)

(* Two slots of the task table are written, or one.                         *)
LEMMA TwoSlots ==
  ASSUME NEW a \in [Task -> TaskType], NEW t \in Task, NEW c \in Task, t # c,
         NEW x \in TaskType, NEW y \in TaskType, NEW b, b = [a EXCEPT ![t] = x, ![c] = y]
  PROVE  /\ b \in [Task -> TaskType] /\ b[t] = x /\ b[c] = y
         /\ \A u \in Task : u # t /\ u # c => b[u] = a[u]
OBVIOUS

(* A step of one task, as a function.                                       *)
LEMMA OneSlot ==
  ASSUME NEW a \in [Task -> TaskType], NEW t \in Task, NEW x \in TaskType, NEW b, b = [a EXCEPT ![t] = x]
  PROVE  /\ b \in [Task -> TaskType] /\ b[t] = x
         /\ \A u \in Task : u # t => b[u] = a[u]
OBVIOUS

(* A fork takes a slot of the table.                                        *)
LEMMA ForkStep ==
  ASSUME MemInv, NEW t \in Task, NEW c \in Task, Fork(t, c)
  PROVE  Goes(mem, mem', task, task')
<1> DEFINE x == [task[t] EXCEPT !.phase = "fork", !.peer = c]
           y == [NoTask EXCEPT !.phase = "new", !.sel = TRUE]
<1>1. Sound(mem, task) /\ task \in [Task -> TaskType] /\ task[t] \in TaskType
      /\ task[t].phase = "user" /\ task[c].phase = "none" /\ t # c /\ mem' = mem
  BY DEF MemInv, Sound, Fork, Can
<1>2. task' = [task EXCEPT ![t] = x, ![c] = y]
  BY <1>1 DEF Fork
<1>3. /\ x \in TaskType /\ x.phase = "fork" /\ x.peer = c /\ x.cr3 = task[t].cr3 /\ x.dir = task[t].dir
      /\ x.stack = task[t].stack /\ x.sel = task[t].sel /\ x.then = task[t].then /\ x.heap = task[t].heap
      /\ x.own = task[t].own
  <2>1. "fork" \in Phase
    BY DEF Phase, Running, Building
  <2> QED  BY <1>1, <2>1 DEF TaskType
<1>4. /\ y \in TaskType /\ y.phase = "new" /\ y.cr3 = 0 /\ y.dir = 0 /\ y.stack = 0 /\ y.sel
      /\ y.then = "none" /\ ~ y.own
  BY NoTaskType DEF NoTask
<1> HIDE DEF x, y
<1>5. /\ task' \in [Task -> TaskType] /\ task'[t] = x /\ task'[c] = y
      /\ \A u \in Task : u # t /\ u # c => task'[u] = task[u]
  BY <1>1, <1>2, <1>3, <1>4, TwoSlots
<1>6. Goes(mem, mem, task, task')
  BY <1>1, <1>3, <1>4, <1>5, ForkSound
<1> QED  BY <1>1, <1>6

(* A fork that goes on takes a page for the kernel stack of the child.      *)
LEMMA ForkStackStep ==
  ASSUME MemInv, NEW t \in Task, ForkStack(t)
  PROVE  Goes(mem, mem', task, task')
<1> DEFINE p == FirstFree(mem)
           c == task[t].peer
           x == [task[t] EXCEPT !.phase = IF p = 0 THEN "forkuvm" ELSE "forkdir"]
           y == [task[c] EXCEPT !.stack = p, !.sel = p # 0]
<1>1. Sound(mem, task) /\ task \in [Task -> TaskType] /\ task[t] \in TaskType
      /\ task[t].phase = "fork" /\ IsMem(mem) /\ Shape(task) /\ mem' = Take(mem)
  BY DEF MemInv, Sound, ForkStack, Can
<1>2. c \in Task /\ t # c /\ task[c] \in TaskType
  <2>1. OnPeer(task[t])
    BY <1>1 DEF OnPeer, Building
  <2> QED  BY <1>1, <2>1, PeerFacts DEF Running, Building
<1>3. p \in Page \cup {0}
  BY <1>1, FreeFacts
<1>4. task' = [task EXCEPT ![t] = x, ![c] = y]
  BY <1>1, <1>2 DEF ForkStack
<1> HIDE DEF p, c
<1>5. /\ x \in TaskType /\ x.phase = IF p = 0 THEN "forkuvm" ELSE "forkdir"
      /\ x.peer = c /\ x.cr3 = task[t].cr3 /\ x.dir = task[t].dir
      /\ x.stack = task[t].stack /\ x.sel = task[t].sel /\ x.then = task[t].then /\ x.heap = task[t].heap
      /\ x.own = task[t].own
  <2>1. "forkuvm" \in Phase /\ "forkdir" \in Phase
    BY DEF Phase, Running, Building
  <2>2. task[t].peer = c
    BY DEF c
  <2> QED  BY <1>1, <2>1, <2>2 DEF TaskType
<1>6. /\ y \in TaskType /\ y.phase = task[c].phase /\ y.cr3 = task[c].cr3 /\ y.dir = task[c].dir
      /\ y.stack = p /\ (y.sel <=> p # 0) /\ y.then = task[c].then /\ y.heap = task[c].heap
      /\ y.own = task[c].own
  BY <1>2, <1>3 DEF TaskType
<1> HIDE DEF x, y
<1>7. /\ task' \in [Task -> TaskType] /\ task'[t] = x /\ task'[c] = y
      /\ \A u \in Task : u # t /\ u # c => task'[u] = task[u]
  BY <1>1, <1>2, <1>4, <1>5, <1>6, TwoSlots
<1>8. c = task[t].peer /\ p = FirstFree(mem)
  BY DEF c, p
<1> QED  BY <1>1, <1>2, <1>5, <1>6, <1>7, <1>8, ForkStackSound

(* A fork takes the directory of the child.                                 *)
LEMMA ForkDirStep ==
  ASSUME MemInv, NEW t \in Task, ForkDir(t)
  PROVE  Goes(mem, mem', task, task')
<1> DEFINE p == FirstFree(mem)
           c == task[t].peer
           x == [task[t] EXCEPT !.phase = "forkuvm"]
           y == [task[c] EXCEPT !.cr3 = p, !.sel = p # 0]
<1>1. Sound(mem, task) /\ task \in [Task -> TaskType] /\ task[t] \in TaskType
      /\ task[t].phase = "forkdir" /\ IsMem(mem) /\ Shape(task)
  BY DEF MemInv, Sound, ForkDir, Can
<1>2. c \in Task /\ t # c /\ task[c] \in TaskType
  <2>1. OnPeer(task[t])
    BY <1>1 DEF OnPeer, Building
  <2> QED  BY <1>1, <2>1, PeerFacts DEF Running, Building
<1>3. p \in Page \cup {0}
  BY <1>1, FreeFacts
<1>4. task' = [task EXCEPT ![t] = x, ![c] = y]
  BY <1>1, <1>2 DEF ForkDir
<1>5. mem' = IF p = 0 THEN Give(Take(mem), task[c].stack) ELSE TakeTable(mem)
  BY DEF ForkDir
<1> HIDE DEF p, c
<1>6. /\ x \in TaskType /\ x.phase = "forkuvm"
      /\ x.peer = c /\ x.cr3 = task[t].cr3 /\ x.dir = task[t].dir
      /\ x.stack = task[t].stack /\ x.sel = task[t].sel /\ x.then = task[t].then /\ x.heap = task[t].heap
      /\ x.own = task[t].own
  <2>1. "forkuvm" \in Phase
    BY DEF Phase, Running, Building
  <2>2. task[t].peer = c
    BY DEF c
  <2> QED  BY <1>1, <2>1, <2>2 DEF TaskType
<1>7. /\ y \in TaskType /\ y.phase = task[c].phase /\ y.cr3 = p /\ y.dir = task[c].dir
      /\ y.stack = task[c].stack /\ (y.sel <=> p # 0) /\ y.then = task[c].then /\ y.heap = task[c].heap
      /\ y.own = task[c].own
  BY <1>2, <1>3 DEF TaskType
<1> HIDE DEF x, y
<1>8. /\ task' \in [Task -> TaskType] /\ task'[t] = x /\ task'[c] = y
      /\ \A u \in Task : u # t /\ u # c => task'[u] = task[u]
  BY <1>1, <1>2, <1>4, <1>6, <1>7, TwoSlots
<1>9. c = task[t].peer /\ p = FirstFree(mem)
  BY DEF c, p
<1> QED  BY <1>1, <1>2, <1>5, <1>6, <1>7, <1>8, <1>9, ForkDirSound

(* What Back leaves of a task.                                              *)
LEMMA BackFacts ==
  ASSUME NEW k \in TaskType
  PROVE  /\ Back(k) \in TaskType /\ Back(k).phase = "user" /\ Back(k).cr3 = k.cr3 /\ Back(k).dir = 0
         /\ Back(k).stack = k.stack /\ Back(k).sel = k.sel /\ Back(k).then = "none"
         /\ Back(k).heap = k.heap /\ Back(k).own = k.own
<1>1. "user" \in Phase /\ First \in Task
  BY MemoryAssumption DEF Phase, Running
<1> QED  BY <1>1 DEF Back, TaskType

(* The task table when a child is started.                                  *)
LEMMA StartedFacts ==
  ASSUME MemInv, NEW t \in Task, OnPeer(task[t]), NEW d \in Page \cup {BAD}, NEW c, c = task[t].peer,
         NEW b, b = Started(t, d)
  PROVE  /\ c \in Task /\ t # c /\ b \in [Task -> TaskType]
         /\ \A u \in Task : u # t /\ u # c => b[u] = task[u]
         /\ b[t].phase = "user" /\ b[t].cr3 = task[t].cr3 /\ b[t].dir = 0
         /\ b[t].stack = task[t].stack /\ b[t].sel = task[t].sel /\ b[t].then = "none"
         /\ b[t].heap = task[t].heap /\ b[t].own = task[t].own
         /\ b[c].phase = (IF d # BAD /\ task[c].sel THEN "user" ELSE "broken")
         /\ b[c].cr3 = d /\ b[c].dir = task[c].dir /\ b[c].stack = task[c].stack
         /\ b[c].sel = task[c].sel /\ b[c].then = task[c].then /\ b[c].heap = task[c].heap
         /\ b[c].own = task[c].own
<1> DEFINE x == Back(task[t])
           y == [task[c] EXCEPT !.cr3 = d, !.phase = IF d # BAD /\ task[c].sel THEN "user" ELSE "broken"]
<1>1. task \in [Task -> TaskType] /\ task[t] \in TaskType /\ Shape(task)
  BY DEF MemInv, Sound
<1>2. c \in Task /\ t # c /\ task[c] \in TaskType
  BY <1>1, PeerFacts DEF Running, Building
<1>3. b = [task EXCEPT ![t] = x, ![c] = y]
  BY <1>1, <1>2 DEF Started
<1>4. /\ x \in TaskType /\ x.phase = "user" /\ x.cr3 = task[t].cr3 /\ x.dir = 0
      /\ x.stack = task[t].stack /\ x.sel = task[t].sel /\ x.then = "none" /\ x.heap = task[t].heap
      /\ x.own = task[t].own
  BY <1>1, BackFacts
<1>5. /\ y \in TaskType /\ y.phase = (IF d # BAD /\ task[c].sel THEN "user" ELSE "broken")
      /\ y.cr3 = d /\ y.dir = task[c].dir /\ y.stack = task[c].stack
      /\ y.sel = task[c].sel /\ y.then = task[c].then /\ y.heap = task[c].heap /\ y.own = task[c].own
  <2>1. "user" \in Phase /\ "broken" \in Phase
    BY DEF Phase, Running
  <2> QED  BY <1>2, <2>1 DEF TaskType
<1> HIDE DEF x, y
<1>6. /\ b \in [Task -> TaskType] /\ b[t] = x /\ b[c] = y
      /\ \A u \in Task : u # t /\ u # c => b[u] = task[u]
  BY <1>1, <1>2, <1>3, <1>4, <1>5, TwoSlots
<1> QED  BY <1>2, <1>4, <1>5, <1>6

(* memory_copy_uvm takes a new directory.                                   *)
LEMMA CopyCreateStep ==
  ASSUME MemInv, NEW t \in Task, CopyCreate(t)
  PROVE  Goes(mem, mem', task, task')
<1> DEFINE p == FirstFree(mem)
           x == [task[t] EXCEPT !.phase = "copy", !.dir = p, !.at = 1]
<1>1. Sound(mem, task) /\ task \in [Task -> TaskType] /\ task[t] \in TaskType
      /\ task[t].phase = "forkuvm" /\ IsMem(mem) /\ Shape(task)
  BY DEF MemInv, Sound, CopyCreate, Can
<1>2. CASE p = 0
  <2>1. mem' = Take(mem) /\ task' = Started(t, BAD)
    BY <1>2 DEF CopyCreate
  <2>2. OnPeer(task[t])
    BY <1>1 DEF OnPeer, Building
  <2>3. PICK c : c = task[t].peer
    OBVIOUS
  <2>4. PICK b : b = Started(t, BAD)
    OBVIOUS
  <2>5. /\ c \in Task /\ t # c /\ b \in [Task -> TaskType]
        /\ \A u \in Task : u # t /\ u # c => b[u] = task[u]
        /\ b[t].phase = "user" /\ b[t].cr3 = task[t].cr3 /\ b[t].dir = 0
        /\ b[t].stack = task[t].stack /\ b[t].sel = task[t].sel /\ b[t].then = "none"
        /\ b[t].heap = task[t].heap /\ b[t].own = task[t].own
        /\ b[c].phase = "broken"
        /\ b[c].cr3 = BAD /\ b[c].dir = task[c].dir /\ b[c].stack = task[c].stack
        /\ b[c].sel = task[c].sel /\ b[c].then = task[c].then /\ b[c].heap = task[c].heap
        /\ b[c].own = task[c].own
    BY <2>2, <2>3, <2>4, StartedFacts
  <2>6. Goes(mem, Take(mem), task, b)
    BY <1>1, <1>2, <2>3, <2>5, CopyCreateFails
  <2> QED  BY <2>1, <2>4, <2>6
<1>3. CASE p # 0
  <2>1. mem' = TakeTable(mem) /\ task' = [task EXCEPT ![t] = x]
    BY <1>1, <1>3 DEF CopyCreate
  <2>2. p \in Page \cup {0} /\ p = FirstFree(mem)
    BY <1>1, FreeFacts
  <2> HIDE DEF p
  <2>3. /\ x \in TaskType /\ x.phase = "copy" /\ x.at = 1
        /\ x.cr3 = task[t].cr3 /\ x.dir = p /\ x.peer = task[t].peer
        /\ x.stack = task[t].stack /\ x.sel = task[t].sel /\ x.then = task[t].then
        /\ x.heap = task[t].heap /\ x.own = task[t].own
    <3>1. "copy" \in Phase
      BY DEF Phase, Running, Building
    <3> QED  BY <1>1, <2>2, <3>1 DEF TaskType
  <2> HIDE DEF x
  <2>4. /\ task' \in [Task -> TaskType] /\ task'[t] = x
        /\ \A u \in Task : u # t => task'[u] = task[u]
    BY <1>1, <2>1, <2>3, OneSlot
  <2>5. PICK b, n : b = task' /\ n = mem'
    OBVIOUS
  <2>6. /\ b \in [Task -> TaskType] /\ \A u \in Task : u # t => b[u] = task[u]
        /\ b[t].cr3 = task[t].cr3 /\ b[t].dir = p /\ b[t].peer = task[t].peer
        /\ b[t].stack = task[t].stack /\ b[t].sel = task[t].sel /\ b[t].then = task[t].then
        /\ b[t].heap = task[t].heap /\ b[t].own = task[t].own
    BY <2>3, <2>4, <2>5
  <2>7. \/ task[t].phase = "forkuvm" /\ b[t].phase = "copy" /\ b[t].at = 1
        \/ task[t].phase = "user" /\ b[t].phase = "load"
    BY <1>1, <2>3, <2>4, <2>5
  <2>8. n = TakeTable(mem)
    BY <2>1, <2>5
  <2>9. Goes(mem, n, task, b)
    BY <1>1, <1>3, <2>2, <2>6, <2>7, <2>8, NewDirSound
  <2> QED  BY <2>5, <2>9
<1> QED  BY <1>2, <1>3

(* sys_execve takes a new directory.                                        *)
LEMMA ExecCreateStep ==
  ASSUME MemInv, NEW t \in Task, ExecCreate(t)
  PROVE  Goes(mem, mem', task, task')
<1> DEFINE p == FirstFree(mem)
           x == [task[t] EXCEPT !.phase = "load", !.dir = p]
<1>1. Sound(mem, task) /\ task \in [Task -> TaskType] /\ task[t] \in TaskType
      /\ task[t].phase = "user" /\ IsMem(mem)
  BY DEF MemInv, Sound, ExecCreate, Can
<1>2. CASE p = 0
  <2>1. mem' = Take(mem) /\ task' = task
    BY <1>2 DEF ExecCreate
  <2>2. /\ IsMem(mem') /\ (mem.oom => mem'.oom)
        /\ \A u \in Task, f \in Field : Untouched(mem, mem', task, u, f)
        /\ mem'.used \subseteq mem.used
    BY <1>1, <1>2, <2>1, TakeOwning, TakeFacts
  <2>3. Goes(mem, mem', task, task)
    BY <1>1, <2>2, FullSound
  <2> QED  BY <2>1, <2>3
<1>3. CASE p # 0
  <2>1. mem' = TakeTable(mem) /\ task' = [task EXCEPT ![t] = x]
    BY <1>1, <1>3 DEF ExecCreate
  <2>2. p \in Page \cup {0} /\ p = FirstFree(mem)
    BY <1>1, FreeFacts
  <2> HIDE DEF p
  <2>3. /\ x \in TaskType /\ x.phase = "load"
        /\ x.cr3 = task[t].cr3 /\ x.dir = p /\ x.peer = task[t].peer
        /\ x.stack = task[t].stack /\ x.sel = task[t].sel /\ x.then = task[t].then
        /\ x.heap = task[t].heap /\ x.own = task[t].own
    <3>1. "load" \in Phase
      BY DEF Phase, Running, Building
    <3> QED  BY <1>1, <2>2, <3>1 DEF TaskType
  <2> HIDE DEF x
  <2>4. /\ task' \in [Task -> TaskType] /\ task'[t] = x
        /\ \A u \in Task : u # t => task'[u] = task[u]
    BY <1>1, <2>1, <2>3, OneSlot
  <2>5. PICK b, n : b = task' /\ n = mem'
    OBVIOUS
  <2>6. /\ b \in [Task -> TaskType] /\ \A u \in Task : u # t => b[u] = task[u]
        /\ b[t].cr3 = task[t].cr3 /\ b[t].dir = p /\ b[t].peer = task[t].peer
        /\ b[t].stack = task[t].stack /\ b[t].sel = task[t].sel /\ b[t].then = task[t].then
        /\ b[t].heap = task[t].heap /\ b[t].own = task[t].own
    BY <2>3, <2>4, <2>5
  <2>7. \/ task[t].phase = "forkuvm" /\ b[t].phase = "copy" /\ b[t].at = 1
        \/ task[t].phase = "user" /\ b[t].phase = "load"
    BY <1>1, <2>3, <2>4, <2>5
  <2>8. n = TakeTable(mem)
    BY <2>1, <2>5
  <2>9. Goes(mem, n, task, b)
    BY <1>1, <1>3, <2>2, <2>6, <2>7, <2>8, NewDirSound
  <2> QED  BY <2>5, <2>9
<1> QED  BY <1>2, <1>3

(* memory_copy_uvm copies one page.                                         *)
LEMMA CopyPageStep ==
  ASSUME MemInv, NEW t \in Task, CopyPage(t)
  PROVE  Goes(mem, mem', task, task') /\ (mem'.panic => mem.panic)
<1> DEFINE v == Min(ToCopy(t))
           d == task[t].dir
           ok == MapOne(mem, task[t].dir, v).ok
           x == IF ok THEN [task[t] EXCEPT !.at = v + 1]
                ELSE [task[t] EXCEPT !.phase = "destroy", !.at = 1, !.then = "fork"]
<1>1. Sound(mem, task) /\ task \in [Task -> TaskType] /\ task[t] \in TaskType
      /\ task[t].phase = "copy" /\ IsMem(mem)
  BY DEF MemInv, Sound, CopyPage, Can
<1>2. ToCopy(t) # {} /\ ToCopy(t) \subseteq Nat
  BY DEF CopyPage, ToCopy, Mapped, UPage
<1>3. v \in ToCopy(t) /\ \A w \in ToCopy(t) : v <= w
  BY <1>2, MinExists
<1>4. /\ v \in Mapped(mem, task[t].cr3) /\ v >= task[t].at /\ v \in Nat
      /\ \A w \in Mapped(mem, task[t].cr3) : w >= task[t].at => v <= w
  BY <1>2, <1>3 DEF ToCopy
<1>5. mem' = MapOne(mem, task[t].dir, v).mem
  BY DEF CopyPage
<1>6. task' = [task EXCEPT ![t] = x]
  <2>1. task' = IF ok THEN [task EXCEPT ![t].at = v + 1]
                ELSE [task EXCEPT ![t].phase = "destroy", ![t].at = 1, ![t].then = "fork"]
    BY DEF CopyPage
  <2> HIDE DEF ok, v
  <2> QED  BY <1>1, <2>1
<1> HIDE DEF ok, v, d
<1>7. /\ x \in TaskType
      /\ ok => x.phase = "copy" /\ x.at = v + 1 /\ x.then = task[t].then
      /\ ~ ok => x.phase = "destroy" /\ x.at = 1 /\ x.then = "fork"
      /\ x.cr3 = task[t].cr3 /\ x.dir = task[t].dir /\ x.peer = task[t].peer
      /\ x.stack = task[t].stack /\ x.sel = task[t].sel /\ x.heap = task[t].heap /\ x.own = task[t].own
  <2>1. "destroy" \in Phase /\ v + 1 \in Nat
    BY <1>4 DEF Phase, Running
  <2> QED  BY <1>1, <2>1 DEF TaskType
<1> HIDE DEF x
<1>8. /\ task' \in [Task -> TaskType] /\ task'[t] = x
      /\ \A u \in Task : u # t => task'[u] = task[u]
  BY <1>1, <1>6, <1>7, OneSlot
<1>9. PICK b, n : b = task' /\ n = mem'
  OBVIOUS
<1>10. /\ b \in [Task -> TaskType] /\ \A u \in Task : u # t => b[u] = task[u]
       /\ MapOne(mem, task[t].dir, v).ok => b[t].phase = "copy" /\ b[t].at = v + 1 /\ b[t].then = task[t].then
       /\ ~ MapOne(mem, task[t].dir, v).ok => b[t].phase = "destroy" /\ b[t].at = 1 /\ b[t].then = "fork"
       /\ b[t].cr3 = task[t].cr3 /\ b[t].dir = task[t].dir /\ b[t].peer = task[t].peer
       /\ b[t].stack = task[t].stack /\ b[t].sel = task[t].sel /\ b[t].heap = task[t].heap
       /\ b[t].own = task[t].own
  BY <1>7, <1>8, <1>9 DEF ok
<1>11. n = MapOne(mem, task[t].dir, v).mem
  BY <1>5, <1>9
<1>12. Goes(mem, n, task, b) /\ (n.panic => mem.panic)
  BY <1>1, <1>4, <1>10, <1>11, CopyPageSound
<1> QED  BY <1>9, <1>12

(* The end of memory_copy_uvm.                                              *)
LEMMA CopyEndStep ==
  ASSUME MemInv, NEW t \in Task, CopyEnd(t)
  PROVE  Goes(mem, mem', task, task')
<1>1. Sound(mem, task) /\ task \in [Task -> TaskType] /\ task[t] \in TaskType
      /\ task[t].phase = "copy" /\ IsMem(mem) /\ HasDir(task[t])
      /\ mem' = mem /\ task' = Started(t, task[t].dir)
  BY DEF MemInv, Sound, Shape, CopyEnd, Can
<1>2. OnPeer(task[t]) /\ task[t].dir # 0
  BY <1>1 DEF OnPeer, Building, HasDir, Filling, Loading, Mapping
<1>3. task[t].dir \in Page /\ task[t].dir # BAD
  <2>1. task[t].dir \in Page \cup {0}
    BY <1>1 DEF TaskType
  <2> QED  BY <1>2, <2>1, PageFacts
<1>4. PICK c, d, b : c = task[t].peer /\ d = task[t].dir /\ b = Started(t, d)
  OBVIOUS
<1>5. d \in Page \cup {BAD}
  BY <1>3, <1>4
<1>6. /\ c \in Task /\ t # c /\ b \in [Task -> TaskType]
      /\ \A u \in Task : u # t /\ u # c => b[u] = task[u]
      /\ b[t].phase = "user" /\ b[t].cr3 = task[t].cr3 /\ b[t].dir = 0
      /\ b[t].stack = task[t].stack /\ b[t].sel = task[t].sel /\ b[t].then = "none"
      /\ b[t].heap = task[t].heap /\ b[t].own = task[t].own
      /\ b[c].phase = (IF d # BAD /\ task[c].sel THEN "user" ELSE "broken")
      /\ b[c].cr3 = d /\ b[c].dir = task[c].dir /\ b[c].stack = task[c].stack
      /\ b[c].sel = task[c].sel /\ b[c].then = task[c].then /\ b[c].heap = task[c].heap
      /\ b[c].own = task[c].own
  BY <1>2, <1>4, <1>5, StartedFacts
<1>7. b[c].phase = (IF task[c].sel THEN "user" ELSE "broken") /\ b[c].cr3 = task[t].dir
  BY <1>3, <1>4, <1>6
<1>8. Goes(mem, mem, task, b)
  BY <1>1, <1>4, <1>6, <1>7, CopyEndSound
<1> QED  BY <1>1, <1>4, <1>8

(* A step that leaves memory and the roots of its task as they are.         *)
LEMMA QuietStep ==
  ASSUME MemInv, NEW t \in Task, NEW x \in TaskType, mem' = mem, task' = [task EXCEPT ![t] = x],
         task[t].phase \in Running \ {"destroy"}, x.phase \in Running \cup {"zombie"},
         x.phase = "destroy" => x.at = 1,
         x.cr3 = task[t].cr3, x.dir = task[t].dir, x.stack = task[t].stack, x.sel = task[t].sel,
         HasDir(x), HasSpace(x), ~ OnPeer(x), MapsOf(mem, x)
  PROVE  Goes(mem, mem', task, task')
<1>1. Sound(mem, task) /\ task \in [Task -> TaskType]
  BY DEF MemInv, Sound
<1>2. PICK b : b = [task EXCEPT ![t] = x]
  OBVIOUS
<1>3. b \in [Task -> TaskType] /\ b[t] = x /\ \A u \in Task : u # t => b[u] = task[u]
  BY <1>1, <1>2, OneSlot
<1>4. Goes(mem, mem, task, b)
  BY <1>1, <1>3, QuietSound
<1> QED  BY <1>2, <1>4

(* What is known of a task that takes a step.                               *)
LEMMA OfTask ==
  ASSUME MemInv, NEW t \in Task
  PROVE  /\ Sound(mem, task) /\ IsMem(mem) /\ task \in [Task -> TaskType] /\ task[t] \in TaskType
         /\ HasDir(task[t]) /\ HasSpace(task[t]) /\ MapsOf(mem, task[t])
BY DEF MemInv, Sound, Shape, Maps

(* A task exits.                                                            *)
LEMMA ExitStep ==
  ASSUME MemInv, NEW t \in Task, Exit(t)
  PROVE  Goes(mem, mem', task, task')
<1> DEFINE x == [task[t] EXCEPT !.phase = "zombie", !.own = FALSE]
<1>1. Sound(mem, task) /\ task \in [Task -> TaskType] /\ task[t] \in TaskType /\ IsMem(mem)
      /\ HasDir(task[t]) /\ HasSpace(task[t]) /\ task[t].phase = "user" /\ mem' = mem
  BY OfTask DEF Exit, Can
<1>2. task' = [task EXCEPT ![t] = x]
  BY <1>1 DEF Exit
<1>3. /\ x \in TaskType /\ x.phase = "zombie" /\ x.then = task[t].then /\ ~ x.own
      /\ x.cr3 = task[t].cr3 /\ x.dir = task[t].dir /\ x.stack = task[t].stack /\ x.sel = task[t].sel
  <2>1. "zombie" \in Phase
    BY DEF Phase
  <2> QED  BY <1>1, <2>1 DEF TaskType
<1> HIDE DEF x
<1>4. HasDir(x) /\ HasSpace(x) /\ ~ OnPeer(x)
  BY <1>1, <1>3 DEF HasDir, HasSpace, OnPeer, Filling, Loading, Mapping, Running, Building
<1>5. MapsOf(mem, x)
  <2>1. x.phase \notin Running
    BY <1>3 DEF Running, Building
  <2> QED  BY <1>1, <2>1, SameMemory, PlainMaps DEF Field
<1> QED  BY <1>1, <1>2, <1>3, <1>4, <1>5, QuietStep DEF Running

(* load_phdr asks for the pages of the segment.                             *)
LEMMA LoadPhdrStep ==
  ASSUME MemInv, NEW t \in Task, NEW s \in ProgSize, LoadPhdr(t, s)
  PROVE  Goes(mem, mem', task, task')
<1> DEFINE x == [task[t] EXCEPT !.phase = "map", !.then = "load", !.size = s, !.at = 1, !.left = PagesFor(s)]
<1>1. Sound(mem, task) /\ task \in [Task -> TaskType] /\ task[t] \in TaskType /\ MapsOf(mem, task[t])
      /\ HasDir(task[t]) /\ HasSpace(task[t]) /\ task[t].phase = "load" /\ mem' = mem
  BY OfTask DEF LoadPhdr, Can
<1>2. task' = [task EXCEPT ![t] = x]
  BY <1>1 DEF LoadPhdr
<1>3. s \in Nat /\ PagesFor(s) \in Nat
  BY ProgramPages
<1>4. /\ x \in TaskType /\ x.phase = "map" /\ x.then = "load" /\ x.size = s /\ x.at = 1 /\ x.left = PagesFor(s)
      /\ x.cr3 = task[t].cr3 /\ x.dir = task[t].dir /\ x.stack = task[t].stack /\ x.sel = task[t].sel
      /\ x.heap = task[t].heap /\ x.own = task[t].own
  <2>1. "map" \in Phase
    BY DEF Phase, Running
  <2> QED  BY <1>1, <1>3, <2>1 DEF TaskType
<1> HIDE DEF x
<1>5. HasDir(x) /\ HasSpace(x) /\ ~ OnPeer(x)
  BY <1>1, <1>4 DEF HasDir, HasSpace, OnPeer, Filling, Loading, Mapping, Running, Building
<1>6. MapsOf(mem, x)
  <2>1. MayUse(x) = MayUse(task[t])
    BY <1>1, <1>4 DEF MayUse, Mapping
  <2>2. x.own => Exactly(mem, x.cr3, MayUse(x))
    BY <1>1, <1>4, <2>1 DEF MapsOf, Running
  <2>3. Built(task[t]) = {} /\ Built(x) = {}
    BY <1>1, <1>4 DEF Built, Mapping, UPage
  <2>4. Exactly(mem, x.dir, Built(x))
    BY <1>1, <1>4, <2>3 DEF MapsOf, Loading
  <2>5. Rounds(mem, x)
    BY <1>3, <1>4 DEF Rounds, Mapping, Start, Goal
  <2> QED  BY <1>4, <2>2, <2>4, <2>5 DEF MapsOf
<1> QED  BY <1>1, <1>2, <1>4, <1>5, <1>6, QuietStep DEF Running

(* The segment is read, and the heap end is the new program's.              *)
LEMMA LoadEndStep ==
  ASSUME MemInv, NEW t \in Task, LoadEnd(t)
  PROVE  Goes(mem, mem', task, task')
<1> DEFINE k == task[t]
           x == [task[t] EXCEPT !.phase = "loaded", !.then = "none", !.at = 0, !.size = 0,
                                !.heap = Unit + task[t].size, !.own = FALSE]
<1>1. Sound(mem, task) /\ task \in [Task -> TaskType] /\ k \in TaskType /\ MapsOf(mem, k)
      /\ HasDir(k) /\ HasSpace(k) /\ k.phase = "map" /\ k.then = "load" /\ k.left = 0 /\ mem' = mem
  BY OfTask DEF LoadEnd, HasMapped, Can
<1>2. task' = [task EXCEPT ![t] = x]
  BY <1>1 DEF LoadEnd
<1>3. k.size \in ProgSize
  BY <1>1 DEF MapsOf, Rounds, Mapping
<1>4. /\ PagesFor(k.size) \in Nat /\ Unit + k.size \in 0 .. Unit * StackPage /\ Unit + k.size \in Nat
      /\ PagesFor(Unit + k.size) = 1 + PagesFor(k.size)
  BY <1>3, ProgramPages
<1>5. /\ x \in TaskType /\ x.phase = "loaded" /\ x.then = "none" /\ x.heap = Unit + k.size /\ ~ x.own
      /\ x.cr3 = k.cr3 /\ x.dir = k.dir /\ x.stack = k.stack /\ x.sel = k.sel
  <2>1. "loaded" \in Phase
    BY DEF Phase, Running
  <2> QED  BY <1>1, <1>4, <2>1 DEF TaskType
<1> HIDE DEF x, k
<1>6. HasDir(x) /\ HasSpace(x) /\ ~ OnPeer(x)
  BY <1>1, <1>5 DEF HasDir, HasSpace, OnPeer, Filling, Loading, Mapping, Running, Building
<1>7. MapsOf(mem, x)
  <2>1. Exactly(mem, k.dir, Built(k))
    BY <1>1 DEF MapsOf, Loading, Mapping
  <2>2. k.at \in Nat /\ k.at <= 1 + PagesFor(k.size) /\ (~ mem.oom => k.at = 1 + PagesFor(k.size))
    <3>1. Goal(k) = 1 + PagesFor(k.size) /\ k.at \in Nat
      BY <1>1 DEF Goal, TaskType
    <3> QED  BY <1>1, <1>4, <3>1 DEF MapsOf, Rounds
  <2>3. Built(k) = {v \in UPage : v < k.at}
    BY <1>1 DEF Built, Mapping
  <2>4. Built(x) = {v \in UPage : v < 1 + PagesFor(k.size)}
    <3>1. Built(x) = Below(x.heap)
      BY <1>5 DEF Built, Mapping, Below
    <3> QED  BY <1>4, <1>5, <3>1, BelowPages
  <2>5. Built(k) \subseteq Built(x) /\ (~ mem.oom => Built(k) = Built(x))
    <3>1. \A v \in UPage : v < k.at => v < 1 + PagesFor(k.size)
      BY <1>4, <2>2 DEF UPage
    <3> QED  BY <2>2, <2>3, <2>4, <3>1
  <2>6. Exactly(mem, x.dir, Built(x))
    BY <1>5, <2>1, <2>5 DEF Exactly
  <2>7. Rounds(mem, x)
    BY <1>3, <1>5 DEF Rounds, Mapping
  <2> QED  BY <1>5, <2>6, <2>7 DEF MapsOf
<1>8. k = task[t]
  BY DEF k
<1> QED  BY <1>1, <1>2, <1>5, <1>6, <1>7, <1>8, QuietStep DEF Running

(* The load fails.                                                          *)
LEMMA LoadFailsStep ==
  ASSUME MemInv, NEW t \in Task, LoadFails(t)
  PROVE  Goes(mem, mem', task, task')
<1> DEFINE x == [task[t] EXCEPT !.phase = "destroy", !.then = "exec", !.at = 1, !.size = 0]
<1>1. Sound(mem, task) /\ task \in [Task -> TaskType] /\ task[t] \in TaskType /\ IsMem(mem)
      /\ HasDir(task[t]) /\ HasSpace(task[t]) /\ mem' = mem
      /\ (task[t].phase \in {"load", "loaded"} \/ Mapping(task[t], "load"))
  BY OfTask DEF LoadFails, HasMapped, Can, Mapping
<1>2. task' = [task EXCEPT ![t] = x]
  BY <1>1 DEF LoadFails
<1>3. /\ x \in TaskType /\ x.phase = "destroy" /\ x.then = "exec" /\ x.at = 1
      /\ x.cr3 = task[t].cr3 /\ x.dir = task[t].dir /\ x.stack = task[t].stack /\ x.sel = task[t].sel
      /\ x.heap = task[t].heap /\ x.own = task[t].own
  <2>1. "destroy" \in Phase
    BY DEF Phase, Running
  <2> QED  BY <1>1, <2>1 DEF TaskType
<1> HIDE DEF x
<1>4. task[t].phase \in Running \ {"destroy"} /\ x.phase \in Running \ {"copy", "load", "loaded", "map"}
      /\ ~ Mapping(task[t], "sbrk")
  BY <1>1, <1>3 DEF Running, Building, Mapping
<1>5. HasDir(x) /\ HasSpace(x) /\ ~ OnPeer(x)
  BY <1>1, <1>3, <1>4 DEF HasDir, HasSpace, OnPeer, Filling, Loading, Mapping, Running, Building
<1>6. MapsOf(mem, x)
  BY <1>1, <1>3, <1>4, SameMemory, PlainMaps DEF Field
<1> QED  BY <1>1, <1>2, <1>3, <1>4, <1>5, <1>6, QuietStep

(* execve asks for the page of the stack.                                   *)
LEMMA ExecStackStep ==
  ASSUME MemInv, NEW t \in Task, ExecStack(t)
  PROVE  Goes(mem, mem', task, task')
<1> DEFINE x == [task[t] EXCEPT !.phase = "map", !.then = "stack", !.at = StackPage, !.left = 1]
<1>1. Sound(mem, task) /\ task \in [Task -> TaskType] /\ task[t] \in TaskType /\ MapsOf(mem, task[t])
      /\ HasDir(task[t]) /\ HasSpace(task[t]) /\ task[t].phase = "loaded" /\ mem' = mem
  BY OfTask DEF ExecStack, Can
<1>2. task' = [task EXCEPT ![t] = x]
  BY <1>1 DEF ExecStack
<1>3. StackPage \in Nat
  BY Sizes DEF StackPage
<1>4. /\ x \in TaskType /\ x.phase = "map" /\ x.then = "stack" /\ x.at = StackPage /\ x.left = 1
      /\ x.cr3 = task[t].cr3 /\ x.dir = task[t].dir /\ x.stack = task[t].stack /\ x.sel = task[t].sel
      /\ x.heap = task[t].heap /\ x.own = task[t].own
  <2>1. "map" \in Phase
    BY DEF Phase, Running
  <2> QED  BY <1>1, <1>3, <2>1 DEF TaskType
<1> HIDE DEF x
<1>5. HasDir(x) /\ HasSpace(x) /\ ~ OnPeer(x)
  BY <1>1, <1>4 DEF HasDir, HasSpace, OnPeer, Filling, Loading, Mapping, Running, Building
<1>6. MapsOf(mem, x)
  <2>1. MayUse(x) = MayUse(task[t])
    BY <1>1, <1>4 DEF MayUse, Mapping
  <2>2. x.own => Exactly(mem, x.cr3, MayUse(x))
    BY <1>1, <1>4, <2>1 DEF MapsOf, Running
  <2>3. Built(x) = Built(task[t])
    BY <1>1, <1>3, <1>4 DEF Built, Mapping, UPage
  <2>4. Exactly(mem, x.dir, Built(x))
    BY <1>1, <1>4, <2>3 DEF MapsOf, Loading
  <2>5. Rounds(mem, x)
    BY <1>1, <1>3, <1>4 DEF MapsOf, Rounds, Mapping, Start, Goal
  <2> QED  BY <1>4, <2>2, <2>4, <2>5 DEF MapsOf
<1> QED  BY <1>1, <1>2, <1>4, <1>5, <1>6, QuietStep DEF Running

(* execve changes directories.                                              *)
LEMMA ExecSwapStep ==
  ASSUME MemInv, NEW t \in Task, ExecSwap(t)
  PROVE  Goes(mem, mem', task, task')
<1> DEFINE x == [task[t] EXCEPT !.phase = "destroy", !.then = "exec", !.at = 1,
                                !.cr3 = task[t].dir, !.dir = task[t].cr3, !.own = TRUE]
<1>1. Sound(mem, task) /\ task \in [Task -> TaskType] /\ task[t] \in TaskType /\ HasSpace(task[t])
      /\ task[t].phase = "map" /\ task[t].then = "stack" /\ task[t].left = 0 /\ mem' = mem
  BY OfTask DEF ExecSwap, HasMapped, Can
<1>2. task' = [task EXCEPT ![t] = x]
  BY <1>1 DEF ExecSwap
<1>3. /\ x \in TaskType /\ x.phase = "destroy" /\ x.at = 1 /\ x.then = "exec"
      /\ x.cr3 = task[t].dir /\ x.dir = task[t].cr3
      /\ x.stack = task[t].stack /\ x.sel = task[t].sel /\ x.heap = task[t].heap
  <2>1. "destroy" \in Phase /\ task[t].cr3 \in Page
    BY <1>1 DEF Phase, Running, HasSpace
  <2> QED  BY <1>1, <2>1 DEF TaskType
<1> HIDE DEF x
<1>4. PICK b : b = task'
  OBVIOUS
<1>5. b \in [Task -> TaskType] /\ b[t] = x /\ \A u \in Task : u # t => b[u] = task[u]
  BY <1>1, <1>2, <1>3, <1>4, OneSlot
<1>6. Goes(mem, mem, task, b)
  BY <1>1, <1>3, <1>5, ExecSwapSound
<1> QED  BY <1>1, <1>4, <1>6

(* memory_alloc_for_page_dir maps one page.                                 *)
LEMMA MapPageStep ==
  ASSUME MemInv, NEW t \in Task, MapPage(t)
  PROVE  /\ Goes(mem, mem', task, task')
         /\ mem'.panic => task'[t].then = "sbrk" /\ ~ task'[t].own
<1> DEFINE k == task[t]
           v == task[t].at
           ok == MapOne(mem, MapDir(t), v).ok
           x == IF ok THEN [k EXCEPT !.at = v + 1, !.left = k.left - 1] ELSE [k EXCEPT !.left = 0]
<1>1. Sound(mem, task) /\ task \in [Task -> TaskType] /\ k \in TaskType /\ IsMem(mem) /\ HasSpace(k)
      /\ k.phase = "map" /\ k.left # 0 /\ ~ mem.panic
  BY OfTask DEF MapPage, Can
<1>2. mem' = MapOne(mem, MapDir(t), v).mem
  BY DEF MapPage
<1>3. task' = [task EXCEPT ![t] = x]
  BY <1>1 DEF MapPage
<1>4. PICK g, d, b, n : /\ g = IF k.then = "sbrk" THEN "cr3" ELSE "dir"
                        /\ d = MapDir(t) /\ b = task' /\ n = mem'
  OBVIOUS
<1>5. d = Base(task, t, g)
  <2>1. k.cr3 \in Page
    BY <1>1 DEF HasSpace, Running
  <2> QED  BY <1>1, <1>4, <2>1, Bases DEF MapDir
<1>6. k.left \in Nat /\ k.left - 1 \in Nat /\ v \in Nat /\ v + 1 \in Nat
  BY <1>1 DEF TaskType
<1> HIDE DEF ok
<1>7. x \in TaskType
  BY <1>1, <1>6 DEF TaskType
<1>8. /\ \/ ok /\ x.at = v + 1 /\ x.left = k.left - 1
         \/ ~ ok /\ x.at = v /\ x.left = 0
      /\ x.phase = "map" /\ x.then = k.then /\ x.size = k.size /\ x.peer = k.peer
      /\ x.cr3 = k.cr3 /\ x.dir = k.dir /\ x.stack = k.stack /\ x.sel = k.sel
      /\ x.heap = k.heap /\ x.own = k.own
  BY <1>1, <1>6 DEF TaskType
<1> HIDE DEF x
<1>9. b \in [Task -> TaskType] /\ b[t] = x /\ \A u \in Task : u # t => b[u] = task[u]
  BY <1>1, <1>3, <1>4, <1>7, OneSlot
<1>10. n = MapOne(mem, d, v).mem /\ (ok <=> MapOne(mem, d, v).ok)
  BY <1>2, <1>4 DEF ok
<1>11. Goes(mem, n, task, b) /\ (n.panic => k.then = "sbrk" /\ ~ k.own)
  BY <1>1, <1>4, <1>5, <1>8, <1>9, <1>10, MapPageSound
<1> QED  BY <1>4, <1>8, <1>9, <1>11

(* sys_sbrk within a page, or up to the call that maps pages.               *)
LEMMA SbrkStep ==
  ASSUME MemInv, NEW t \in Task, NEW n \in 1 .. MaxIncr, Sbrk(t, n)
  PROVE  Goes(mem, mem', task, task')
<1> DEFINE k == task[t]
           h == task[t].heap
           within == h % Unit # 0 /\ (h % Unit) + n <= Unit
           x == [k EXCEPT !.heap = h + n]
           y == [k EXCEPT !.phase = "map", !.then = "sbrk", !.size = n, !.at = HeapStart(h) \div Unit,
                          !.left = PagesFor(h + n - HeapStart(h))]
<1>1. Sound(mem, task) /\ task \in [Task -> TaskType] /\ k \in TaskType /\ MapsOf(mem, k)
      /\ HasDir(k) /\ HasSpace(k) /\ k.phase = "user" /\ mem' = mem /\ h + n <= Unit * StackPage
  BY OfTask DEF Sbrk, Can
<1>2. task' = IF within THEN [task EXCEPT ![t] = x] ELSE [task EXCEPT ![t] = y]
  BY <1>1 DEF Sbrk
<1>3. h \in Nat /\ n \in Nat \ {0} /\ h + n \in Nat /\ Unit * StackPage \in Nat
  <2>1. MaxIncr \in Nat /\ Unit * StackPage \in Nat
    BY Sizes, MemoryAssumption DEF StackPage
  <2> QED  BY <1>1, <2>1 DEF TaskType
<1>4. /\ PagesFor(h) \in Nat /\ PagesFor(h + n) \in Nat
      /\ HeapStart(h) \div Unit = PagesFor(h)
      /\ within => PagesFor(h + n) = PagesFor(h)
      /\ ~ within => /\ PagesFor(h + n - HeapStart(h)) \in Nat
                     /\ PagesFor(h) + PagesFor(h + n - HeapStart(h)) = PagesFor(h + n)
  BY <1>1, <1>3, SbrkPages
<1>5. k.own => Exactly(mem, k.cr3, Below(h) \cup {StackPage})
  <2>1. MayUse(k) = Below(h) \cup {StackPage}
    BY <1>1 DEF MayUse, Mapping
  <2> QED  BY <1>1, <2>1 DEF MapsOf, Running
<1>6. k.dir = 0 /\ k.then = "none" /\ k.cr3 \in Page /\ k.sel /\ k.stack # 0 /\ (k.own => h # 0)
  BY <1>1 DEF HasDir, HasSpace, Running, Building, Filling, Loading, Mapping
<1>7. k = task[t] /\ h = k.heap
  OBVIOUS
<1> HIDE DEF within, h, k
<1>8. CASE within
  <2>1. /\ x \in TaskType /\ x.phase = "user" /\ x.then = k.then /\ x.heap = h + n /\ x.own = k.own
        /\ x.cr3 = k.cr3 /\ x.dir = k.dir /\ x.stack = k.stack /\ x.sel = k.sel
    <3>1. h + n \in 0 .. Unit * StackPage
      BY <1>1, <1>3
    <3> QED  BY <1>1, <3>1 DEF TaskType
  <2>2. task' = [task EXCEPT ![t] = x]
    BY <1>2, <1>8
  <2> HIDE DEF x
  <2>3. HasDir(x) /\ HasSpace(x) /\ ~ OnPeer(x)
    <3>1. x.own => x.heap # 0
      BY <1>3, <2>1
    <3> QED  BY <1>6, <2>1, <3>1 DEF HasDir, HasSpace, OnPeer, Filling, Loading, Mapping, Running, Building
  <2>4. MayUse(x) = Below(h) \cup {StackPage}
    <3>1. Below(h + n) = Below(h)
      BY <1>3, <1>4, <1>8, BelowPages
    <3> QED  BY <2>1, <3>1 DEF MayUse, Mapping
  <2>5. MapsOf(mem, x)
    BY <1>5, <2>1, <2>4 DEF MapsOf, Loading, Mapping, Rounds
  <2> QED  BY <1>1, <1>7, <2>1, <2>2, <2>3, <2>5, QuietStep DEF Running
<1>9. CASE ~ within
  <2>1. /\ y \in TaskType /\ y.phase = "map" /\ y.then = "sbrk" /\ y.heap = h /\ y.own = k.own
        /\ y.at = PagesFor(h) /\ y.left = PagesFor(h + n - HeapStart(h)) /\ y.size = n
        /\ y.cr3 = k.cr3 /\ y.dir = k.dir /\ y.stack = k.stack /\ y.sel = k.sel
    <3>1. "map" \in Phase
      BY DEF Phase, Running
    <3> QED  BY <1>1, <1>3, <1>4, <1>7, <1>9, <3>1 DEF TaskType
  <2>2. task' = [task EXCEPT ![t] = y]
    BY <1>2, <1>9
  <2> HIDE DEF y
  <2>3. HasDir(y) /\ HasSpace(y) /\ ~ OnPeer(y)
    BY <1>6, <2>1 DEF HasDir, HasSpace, OnPeer, Filling, Loading, Mapping, Running, Building
  <2>4. MayUse(y) = Below(h) \cup {StackPage}
    <3>1. Below(h) = {v \in UPage : v < PagesFor(h)}
      BY <1>3, BelowPages
    <3> QED  BY <2>1, <3>1 DEF MayUse, Mapping
  <2>5. Rounds(mem, y)
    <3>1. Start(y) = PagesFor(h) /\ Goal(y) = PagesFor(h + n)
      BY <2>1 DEF Start, Goal
    <3> QED  BY <1>1, <1>4, <1>9, <2>1, <3>1 DEF Rounds, Mapping
  <2>6. MapsOf(mem, y)
    BY <1>5, <2>1, <2>4, <2>5 DEF MapsOf, Loading, Mapping
  <2> QED  BY <1>1, <1>7, <2>1, <2>2, <2>3, <2>6, QuietStep DEF Running
<1> QED  BY <1>8, <1>9

(* The end of sys_sbrk.                                                     *)
LEMMA SbrkEndStep ==
  ASSUME MemInv, NEW t \in Task, SbrkEnd(t)
  PROVE  Goes(mem, mem', task, task')
<1> DEFINE k == task[t]
           e == task[t].heap + task[t].size
           y == Back(task[t])
           x == [y EXCEPT !.heap = e]
<1>1. Sound(mem, task) /\ task \in [Task -> TaskType] /\ k \in TaskType /\ MapsOf(mem, k)
      /\ HasDir(k) /\ HasSpace(k) /\ k.phase = "map" /\ k.then = "sbrk" /\ k.left = 0 /\ mem' = mem
  BY OfTask DEF SbrkEnd, HasMapped, Can
<1>2. task' = [task EXCEPT ![t] = x]
  BY <1>1 DEF SbrkEnd
<1>3. k.heap \in Nat /\ k.size \in Nat /\ e \in 0 .. Unit * StackPage /\ e \in Nat /\ e = k.heap + k.size
  <2>1. k.heap \in Nat /\ k.size \in Nat /\ e \in Nat
    BY <1>1 DEF TaskType
  <2>2. e <= Unit * StackPage
    BY <1>1 DEF MapsOf, Rounds, Mapping
  <2>3. Unit * StackPage \in Nat
    BY Sizes, MemoryAssumption DEF StackPage
  <2> QED  BY <2>1, <2>2, <2>3
<1>4. k.dir = 0 /\ k.cr3 \in Page /\ k.sel /\ k.stack # 0 /\ (k.own => k.heap # 0)
  BY <1>1 DEF HasDir, HasSpace, Running, Building, Filling, Loading, Mapping
<1>5. /\ y \in TaskType /\ y.phase = "user" /\ y.cr3 = k.cr3 /\ y.dir = 0
      /\ y.stack = k.stack /\ y.sel = k.sel /\ y.then = "none" /\ y.own = k.own
  BY <1>1, BackFacts
<1>6. k = task[t]
  OBVIOUS
<1> HIDE DEF k, e, y
<1>7. /\ x \in TaskType /\ x.phase = "user" /\ x.cr3 = k.cr3 /\ x.dir = 0 /\ x.heap = e
      /\ x.stack = k.stack /\ x.sel = k.sel /\ x.then = "none" /\ x.own = k.own
  BY <1>3, <1>5 DEF TaskType
<1> HIDE DEF x
<1>8. HasDir(x) /\ HasSpace(x) /\ ~ OnPeer(x)
  <2>1. x.own => x.heap # 0
    BY <1>3, <1>4, <1>7
  <2> QED  BY <1>4, <1>7, <2>1 DEF HasDir, HasSpace, OnPeer, Filling, Loading, Mapping, Running, Building
<1>9. x.own => Exactly(mem, x.cr3, MayUse(x))
  <2> SUFFICES ASSUME k.own PROVE Exactly(mem, k.cr3, MayUse(x))
    BY <1>7
  <2>1. Exactly(mem, k.cr3, MayUse(k))
    BY <1>1 DEF MapsOf, Running
  <2>2. /\ PagesFor(k.heap) \in Nat /\ PagesFor(e) \in Nat /\ k.at \in Nat
        /\ PagesFor(k.heap) <= k.at /\ k.at <= PagesFor(e) /\ (~ mem.oom => k.at = PagesFor(e))
    <3>1. PagesFor(k.heap) \in Nat /\ PagesFor(e) \in Nat /\ k.at \in Nat
      BY <1>1, <1>3, PagesForFacts DEF TaskType
    <3>2. Start(k) = PagesFor(k.heap) /\ Goal(k) = PagesFor(e)
      BY <1>1, <1>3 DEF Start, Goal
    <3> QED  BY <1>1, <3>1, <3>2 DEF MapsOf, Rounds
  <2>3. Below(k.heap) = {v \in UPage : v < PagesFor(k.heap)} /\ Below(e) = {v \in UPage : v < PagesFor(e)}
    BY <1>3, BelowPages
  <2>4. MayUse(k) = {v \in UPage : v < k.at} \cup {StackPage}
    <3>1. \A v \in UPage : v < PagesFor(k.heap) => v < k.at
      BY <2>2 DEF UPage
    <3> QED  BY <1>1, <2>3, <3>1 DEF MayUse, Mapping
  <2>5. MayUse(x) = {v \in UPage : v < PagesFor(e)} \cup {StackPage}
    BY <1>7, <2>3 DEF MayUse, Mapping
  <2>6. \A v \in UPage : v < k.at => v < PagesFor(e)
    BY <2>2 DEF UPage
  <2> QED  BY <2>1, <2>2, <2>4, <2>5, <2>6 DEF Exactly
<1>10. MapsOf(mem, x)
  BY <1>7, <1>9 DEF MapsOf, Loading, Mapping, Rounds
<1> QED  BY <1>1, <1>2, <1>6, <1>4, <1>5, <1>7, <1>8, <1>10, QuietStep DEF Running, Building

(* sys_wait finds a zombie.                                                 *)
LEMMA ReapStep ==
  ASSUME MemInv, NEW t \in Task, NEW z \in Task, Reap(t, z)
  PROVE  Goes(mem, mem', task, task')
<1> DEFINE x == [task[t] EXCEPT !.phase = "destroy", !.dir = task[z].cr3, !.at = 1, !.peer = z, !.then = "reap"]
           y == [task[z] EXCEPT !.phase = "reaped"]
<1>1. Sound(mem, task) /\ task \in [Task -> TaskType] /\ task[t] \in TaskType /\ task[z] \in TaskType
      /\ task[t].phase = "user" /\ task[z].phase = "zombie" /\ t # z /\ mem' = mem /\ HasSpace(task[z])
  BY DEF MemInv, Sound, Shape, Reap, Can
<1>2. task' = [task EXCEPT ![t] = x, ![z] = y]
  BY <1>1 DEF Reap
<1>3. task[z].cr3 \in Page
  BY <1>1 DEF HasSpace
<1>4. /\ x \in TaskType /\ x.phase = "destroy" /\ x.at = 1 /\ x.then = "reap" /\ x.peer = z
      /\ x.cr3 = task[t].cr3 /\ x.dir = task[z].cr3
      /\ x.stack = task[t].stack /\ x.sel = task[t].sel /\ x.heap = task[t].heap /\ x.own = task[t].own
  <2>1. "destroy" \in Phase
    BY DEF Phase, Running
  <2> QED  BY <1>1, <1>3, <2>1 DEF TaskType
<1>5. /\ y \in TaskType /\ y.phase = "reaped" /\ y.cr3 = task[z].cr3 /\ y.dir = task[z].dir
      /\ y.stack = task[z].stack /\ y.sel = task[z].sel /\ y.then = task[z].then /\ y.heap = task[z].heap
      /\ y.own = task[z].own
  <2>1. "reaped" \in Phase
    BY DEF Phase
  <2> QED  BY <1>1, <2>1 DEF TaskType
<1> HIDE DEF x, y
<1>6. /\ task' \in [Task -> TaskType] /\ task'[t] = x /\ task'[z] = y
      /\ \A u \in Task : u # t /\ u # z => task'[u] = task[u]
  BY <1>1, <1>2, <1>4, <1>5, TwoSlots
<1>7. Goes(mem, mem, task, task')
  BY <1>1, <1>4, <1>5, <1>6, ReapSound
<1> QED  BY <1>1, <1>7

(* memory_destroy_uvm frees one page or table.                              *)
LEMMA DestroyPageStep ==
  ASSUME MemInv, NEW t \in Task, DestroyPage(t)
  PROVE  Goes(mem, mem', task, task')
<1> DEFINE left == Remaining(mem, task[t].dir, task[t].at)
           k == Min(left)
           x == [task[t] EXCEPT !.at = k + 1]
<1>1. Sound(mem, task) /\ task \in [Task -> TaskType] /\ task[t] \in TaskType
      /\ task[t].phase = "destroy"
  BY DEF MemInv, Sound, DestroyPage, Can
<1>2. /\ left # {} /\ mem' = Give(mem, At(mem, task[t].dir, k))
      /\ task' = [task EXCEPT ![t].at = k + 1]
  BY DEF DestroyPage
<1>3. left \subseteq Nat
  BY DEF Remaining, Place
<1>4. k \in left /\ \A l \in left : k <= l
  <2> HIDE DEF left
  <2> QED  BY <1>2, <1>3, MinExists
<1>5. k \in Nat
  BY <1>3, <1>4
<1>6. k \in Remaining(mem, task[t].dir, task[t].at)
      /\ \A l \in Remaining(mem, task[t].dir, task[t].at) : k <= l
  BY <1>4
<1> HIDE DEF k, left
<1>7. task' = [task EXCEPT ![t] = x]
  BY <1>1, <1>2
<1>8. /\ x \in TaskType /\ x.phase = task[t].phase /\ x.at = k + 1 /\ x.then = task[t].then
      /\ x.peer = task[t].peer /\ x.cr3 = task[t].cr3 /\ x.dir = task[t].dir
      /\ x.stack = task[t].stack /\ x.sel = task[t].sel /\ x.heap = task[t].heap /\ x.own = task[t].own
  <2>1. k + 1 \in Nat
    BY <1>5
  <2> QED  BY <1>1, <2>1 DEF TaskType
<1> HIDE DEF x
<1>9. /\ task' \in [Task -> TaskType] /\ task'[t] = x
      /\ \A u \in Task : u # t => task'[u] = task[u]
  BY <1>1, <1>7, <1>8, OneSlot
<1>10. PICK b, n : b = task' /\ n = mem'
  OBVIOUS
<1>11. /\ b \in [Task -> TaskType] /\ \A u \in Task : u # t => b[u] = task[u]
       /\ b[t].phase = task[t].phase /\ b[t].at = k + 1 /\ b[t].then = task[t].then
       /\ b[t].peer = task[t].peer /\ b[t].cr3 = task[t].cr3 /\ b[t].dir = task[t].dir
       /\ b[t].stack = task[t].stack /\ b[t].sel = task[t].sel /\ b[t].heap = task[t].heap
       /\ b[t].own = task[t].own
  BY <1>8, <1>9, <1>10
<1>12. n = Give(mem, At(mem, task[t].dir, k))
  BY <1>2, <1>10
<1>13. Goes(mem, n, task, b)
  BY <1>1, <1>6, <1>11, <1>12, DestroyPageSound
<1> QED  BY <1>10, <1>13

(* memory_destroy_uvm frees the directory.                                  *)
LEMMA DestroyEndStep ==
  ASSUME MemInv, NEW t \in Task, DestroyEnd(t)
  PROVE  Goes(mem, mem', task, task')
<1> DEFINE m == Give(mem, task[t].dir)
           z == task[t].peer
           x == Back(task[t])
<1>1. Sound(mem, task) /\ task \in [Task -> TaskType] /\ task[t] \in TaskType
      /\ task[t].phase = "destroy" /\ HasDir(task[t]) /\ Shape(task)
      /\ task[t].then \in {"fork", "exec", "reap"}
      /\ Remaining(mem, task[t].dir, task[t].at) = {}
  <2>1. Sound(mem, task) /\ task \in [Task -> TaskType] /\ Shape(task) /\ task[t].phase = "destroy"
        /\ Remaining(mem, task[t].dir, task[t].at) = {}
    BY DEF MemInv, Sound, DestroyEnd, Can
  <2>2. task[t] \in TaskType /\ HasDir(task[t])
    BY <2>1 DEF Shape
  <2> QED  BY <2>1, <2>2 DEF HasDir, TaskType, Filling, Loading, Mapping
<1>2. CASE task[t].phase = "destroy" /\ task[t].then = "exec"
  <2>1. mem' = m /\ task' = [task EXCEPT ![t] = x]
    BY <1>1, <1>2 DEF DestroyEnd
  <2>2. /\ x \in TaskType /\ x.phase = "user" /\ x.cr3 = task[t].cr3 /\ x.dir = 0
        /\ x.stack = task[t].stack /\ x.sel = task[t].sel /\ x.then = "none" /\ x.heap = task[t].heap
        /\ x.own = task[t].own
    BY <1>1, BackFacts
  <2> HIDE DEF x
  <2>3. /\ task' \in [Task -> TaskType] /\ task'[t] = x
        /\ \A u \in Task : u # t => task'[u] = task[u]
    BY <1>1, <2>1, <2>2, OneSlot
  <2>4. PICK b, n : b = task' /\ n = mem'
    OBVIOUS
  <2>5. /\ b \in [Task -> TaskType] /\ \A u \in Task : u # t => b[u] = task[u]
        /\ b[t].phase = "user" /\ b[t].cr3 = task[t].cr3 /\ b[t].dir = 0
        /\ b[t].stack = task[t].stack /\ b[t].sel = task[t].sel /\ b[t].then = "none"
        /\ b[t].heap = task[t].heap /\ b[t].own = task[t].own
    BY <2>2, <2>3, <2>4
  <2>6. n = Give(mem, task[t].dir)
    BY <2>1, <2>4
  <2>7. Goes(mem, n, task, b)
    BY <1>1, <2>5, <2>6, ExecEndSound
  <2> QED  BY <2>4, <2>7
<1>3. CASE task[t].phase = "destroy" /\ task[t].then = "fork"
  <2>1. mem' = m /\ task' = Started(t, BAD)
    BY <1>1, <1>3 DEF DestroyEnd
  <2>2. OnPeer(task[t])
    BY <1>3 DEF OnPeer
  <2>3. PICK c, b, n : c = task[t].peer /\ b = Started(t, BAD) /\ n = Give(mem, task[t].dir)
    OBVIOUS
  <2>4. /\ c \in Task /\ t # c /\ b \in [Task -> TaskType]
        /\ \A u \in Task : u # t /\ u # c => b[u] = task[u]
        /\ b[t].phase = "user" /\ b[t].cr3 = task[t].cr3 /\ b[t].dir = 0
        /\ b[t].stack = task[t].stack /\ b[t].sel = task[t].sel /\ b[t].then = "none"
        /\ b[t].heap = task[t].heap /\ b[t].own = task[t].own
        /\ b[c].phase = "broken"
        /\ b[c].cr3 = BAD /\ b[c].dir = task[c].dir /\ b[c].stack = task[c].stack
        /\ b[c].sel = task[c].sel /\ b[c].then = task[c].then /\ b[c].heap = task[c].heap
        /\ b[c].own = task[c].own
    BY <2>2, <2>3, StartedFacts
  <2>5. Goes(mem, n, task, b)
    BY <1>1, <1>3, <2>3, <2>4, ForkEndSound
  <2> QED  BY <2>1, <2>3, <2>5
<1>4. CASE task[t].phase = "destroy" /\ task[t].then = "reap"
  <2>1. mem' = Give(m, task[z].stack) /\ task' = [task EXCEPT ![t] = x, ![z] = NoTask]
    BY <1>1, <1>4 DEF DestroyEnd
  <2>2. z \in Task /\ t # z
    <3>1. OnPeer(task[t])
      BY <1>4 DEF OnPeer
    <3> QED  BY <1>1, <3>1, PeerFacts
  <2>3. /\ x \in TaskType /\ x.phase = "user" /\ x.cr3 = task[t].cr3 /\ x.dir = 0
        /\ x.stack = task[t].stack /\ x.sel = task[t].sel /\ x.then = "none" /\ x.heap = task[t].heap
        /\ x.own = task[t].own
    BY <1>1, BackFacts
  <2>4. z = task[t].peer
    OBVIOUS
  <2> HIDE DEF x, z
  <2>5. /\ task' \in [Task -> TaskType] /\ task'[t] = x /\ task'[z] = NoTask
        /\ \A u \in Task : u # t /\ u # z => task'[u] = task[u]
    BY <1>1, <2>1, <2>2, <2>3, NoTaskType, TwoSlots
  <2>6. PICK b, n : b = task' /\ n = mem'
    OBVIOUS
  <2>7. /\ b \in [Task -> TaskType] /\ \A u \in Task : u # t /\ u # z => b[u] = task[u]
        /\ b[t].phase = "user" /\ b[t].cr3 = task[t].cr3 /\ b[t].dir = 0
        /\ b[t].stack = task[t].stack /\ b[t].sel = task[t].sel /\ b[t].then = "none"
        /\ b[t].heap = task[t].heap /\ b[t].own = task[t].own
        /\ b[z] = NoTask
    BY <2>3, <2>5, <2>6
  <2>8. n = Give(Give(mem, task[t].dir), task[z].stack)
    BY <2>1, <2>6
  <2>9. Goes(mem, n, task, b)
    BY <1>1, <1>4, <2>2, <2>4, <2>7, <2>8, ReapEndSound
  <2> QED  BY <2>6, <2>9
<1> QED  BY <1>1, <1>2, <1>3, <1>4

(* Every step keeps the invariant and loses no page.                        *)
LEMMA MemNextGoes == MemInv /\ Next => Goes(mem, mem', task, task')
<1> SUFFICES ASSUME MemInv, Next PROVE Goes(mem, mem', task, task')
  OBVIOUS
<1>1. ASSUME NEW t \in Task, NEW c \in Task, Fork(t, c) \/ Reap(t, c)
      PROVE  Goes(mem, mem', task, task')
  BY <1>1, ForkStep, ReapStep
<1>2. ASSUME NEW t \in Task, ForkStack(t) \/ ForkDir(t) \/ CopyCreate(t) \/ CopyPage(t) \/ CopyEnd(t)
      PROVE  Goes(mem, mem', task, task')
  BY <1>2, ForkStackStep, ForkDirStep, CopyCreateStep, CopyPageStep, CopyEndStep
<1>3. ASSUME NEW t \in Task, ExecCreate(t) \/ LoadEnd(t) \/ LoadFails(t) \/ ExecStack(t) \/ ExecSwap(t)
      PROVE  Goes(mem, mem', task, task')
  BY <1>3, ExecCreateStep, LoadEndStep, LoadFailsStep, ExecStackStep, ExecSwapStep
<1>4. ASSUME NEW t \in Task, MapPage(t) \/ \E n \in ProgSize : LoadPhdr(t, n)
      PROVE  Goes(mem, mem', task, task')
  BY <1>4, MapPageStep, LoadPhdrStep
<1>5. ASSUME NEW t \in Task, SbrkEnd(t) \/ \E n \in 1 .. MaxIncr : Sbrk(t, n)
      PROVE  Goes(mem, mem', task, task')
  BY <1>5, SbrkStep, SbrkEndStep
<1>6. ASSUME NEW t \in Task, Exit(t) \/ DestroyPage(t) \/ DestroyEnd(t)
      PROVE  Goes(mem, mem', task, task')
  BY <1>6, ExitStep, DestroyPageStep, DestroyEndStep
<1> QED  BY <1>1, <1>2, <1>3, <1>4, <1>5, <1>6 DEF Next

(* Only memory_create_map stops the kernel.                                 *)
LEMMA PanicStays ==
  ASSUME NEW m, "panic" \in DOMAIN m
  PROVE  /\ "panic" \in DOMAIN Take(m) /\ Take(m).panic = m.panic
         /\ "panic" \in DOMAIN TakeTable(m) /\ TakeTable(m).panic = m.panic
         /\ \A p : "panic" \in DOMAIN Give(m, p) /\ Give(m, p).panic = m.panic
<1>1. "panic" \in DOMAIN Take(m) /\ Take(m).panic = m.panic
  BY DEF Take
<1>2. "panic" \in DOMAIN TakeTable(m) /\ TakeTable(m).panic = m.panic
  <2> HIDE DEF Take
  <2> QED  BY <1>1 DEF TakeTable
<1>3. ASSUME NEW p
      PROVE  "panic" \in DOMAIN Give(m, p) /\ Give(m, p).panic = m.panic
  BY DEF Give
<1> QED  BY <1>1, <1>2, <1>3

LEMMA NextStopped == MemInv /\ Next => Stopped(mem', task')
<1> SUFFICES ASSUME MemInv, Next, mem'.panic PROVE \E t \in Task : task'[t].then = "sbrk" /\ ~ task'[t].own
  BY DEF Stopped
<1>1. "panic" \in DOMAIN mem
  BY DEF MemInv, Sound, IsMem, MemType
<1>2. ASSUME NEW t \in Task, NEW c \in Task, Fork(t, c) \/ Reap(t, c) PROVE FALSE
  BY <1>2 DEF Fork, Reap, Can
<1>3. ASSUME NEW t \in Task, ForkStack(t) \/ ForkDir(t) PROVE FALSE
  <2>1. CASE ForkStack(t)
    BY <1>1, <2>1, PanicStays DEF ForkStack, Can
  <2>2. CASE ForkDir(t)
    <3>1. mem' = TakeTable(mem) \/ mem' = Give(Take(mem), task[task[t].peer].stack)
      BY <2>2 DEF ForkDir
    <3>2. ~ mem.panic
      BY <2>2 DEF ForkDir, Can
    <3> QED  BY <1>1, <3>1, <3>2, PanicStays
  <2> QED  BY <1>3, <2>1, <2>2
<1>4. ASSUME NEW t \in Task, CopyCreate(t) \/ ExecCreate(t) PROVE FALSE
  <2>1. mem' = TakeTable(mem) \/ mem' = Take(mem)
    BY <1>4 DEF CopyCreate, ExecCreate
  <2>2. ~ mem.panic
    BY <1>4 DEF CopyCreate, ExecCreate, Can
  <2> QED  BY <1>1, <2>1, <2>2, PanicStays
<1>5. ASSUME NEW t \in Task, CopyPage(t) PROVE FALSE
  <2>1. ~ mem.panic
    BY <1>5 DEF CopyPage, Can
  <2> QED  BY <1>5, <2>1, CopyPageStep
<1>6. ASSUME NEW t \in Task, CopyEnd(t) \/ LoadEnd(t) \/ LoadFails(t) \/ ExecStack(t) \/ ExecSwap(t) PROVE FALSE
  BY <1>6 DEF CopyEnd, LoadEnd, LoadFails, ExecStack, ExecSwap, HasMapped, Can
<1>7. ASSUME NEW t \in Task, Exit(t) \/ SbrkEnd(t) PROVE FALSE
  BY <1>7 DEF Exit, SbrkEnd, HasMapped, Can
<1>8. ASSUME NEW t \in Task, NEW n, LoadPhdr(t, n) \/ Sbrk(t, n) PROVE FALSE
  BY <1>8 DEF LoadPhdr, Sbrk, Can
<1>9. ASSUME NEW t \in Task, DestroyPage(t) \/ DestroyEnd(t) PROVE FALSE
  <2>1. ~ mem.panic
    BY <1>9 DEF DestroyPage, DestroyEnd, Can
  <2>2. \E p, q : mem' = Give(mem, p) \/ mem' = Give(Give(mem, p), q)
    <3>1. CASE DestroyPage(t)
      BY <3>1 DEF DestroyPage
    <3>2. CASE DestroyEnd(t)
      <4>1. task[t].then \in {"exec", "fork", "reap"}
        BY <3>2, OfTask DEF DestroyEnd, Can, HasDir, TaskType
      <4> QED  BY <3>2, <4>1 DEF DestroyEnd
    <3> QED  BY <1>9, <3>1, <3>2
  <2> QED  BY <1>1, <2>1, <2>2, PanicStays
<1>10. ASSUME NEW t \in Task, MapPage(t)
       PROVE  task'[t].then = "sbrk" /\ ~ task'[t].own
  BY <1>10, MapPageStep
<1> QED  BY <1>2, <1>3, <1>4, <1>5, <1>6, <1>7, <1>8, <1>9, <1>10 DEF Next

(* So does a step that does nothing.                                        *)
LEMMA MemNextInv == MemInv /\ [Next]_vars => MemInv'
<1> SUFFICES ASSUME MemInv, [Next]_vars PROVE MemInv'
  OBVIOUS
<1>1. CASE Next
  BY <1>1, MemNextGoes, NextStopped DEF Goes, MemInv
<1>2. CASE UNCHANGED vars
  BY <1>2 DEF vars, MemInv
<1> QED  BY <1>1, <1>2

(* In every state the pages in use belong to one owner each.                *)
LEMMA MemSpecInv == Spec => []MemInv
BY MemInitInv, MemNextInv, PTL DEF Spec

-----------------------------------------------------------------------------
(* What the invariant says of the properties of Memory.                     *)

(* A directory in Dirs, and a holding that belongs to a root.               *)
DirOf(u, f) ==
  <<u, Base(task, u, f), IF f = "dir" /\ task[u].phase = "destroy" THEN task[u].at ELSE 0>>
OwnedBy(u, f, h) ==
  IF f = "stack" THEN h = <<u, 0, Base(task, u, f)>>
  ELSE \/ h = <<DirOf(u, f), 0, Base(task, u, f)>>
       \/\E k \in Remaining(mem, Base(task, u, f), From(task, u, f)) :
            h = <<DirOf(u, f), k, At(mem, Base(task, u, f), k)>>

(* Every holding belongs to a root ...                                      *)
LEMMA HoldingRoot ==
  ASSUME NEW h \in Holdings
  PROVE  \E u \in Task, f \in Field : Base(task, u, f) # 0 /\ OwnedBy(u, f, h)
<1>1. CASE \E t \in Task : task[t].sel /\ task[t].stack # 0 /\ h = <<t, 0, task[t].stack>>
  <2>1. PICK t \in Task : task[t].sel /\ task[t].stack # 0 /\ h = <<t, 0, task[t].stack>>
    BY <1>1
  <2>2. Base(task, t, "stack") = task[t].stack
    BY <2>1, Bases
  <2> QED  BY <2>1, <2>2 DEF OwnedBy, Field
<1>2. CASE \E d \in Dirs : h \in Held(d)
  <2>1. PICK d \in Dirs : h \in Held(d)
    BY <1>2
  <2>2. PICK u \in Task, f \in {"cr3", "dir"} :
          Base(task, u, f) # 0 /\ d = DirOf(u, f) /\ d[2] = Base(task, u, f)
          /\ Remaining(mem, d[2], d[3]) = Remaining(mem, Base(task, u, f), From(task, u, f))
    <3>0. ASSUME NEW x
          PROVE  Remaining(mem, x, 0) = Remaining(mem, x, 1)
      BY DEF Remaining, Place
    <3>1. CASE \E t \in Task : task[t].cr3 \in Page /\ task[t].phase # "reaped" /\ d = <<t, task[t].cr3, 0>>
      <4>1. PICK t \in Task : task[t].cr3 \in Page /\ task[t].phase # "reaped" /\ d = <<t, task[t].cr3, 0>>
        BY <3>1
      <4>2. Base(task, t, "cr3") = task[t].cr3 /\ From(task, t, "cr3") = 1 /\ task[t].cr3 # 0
        BY <4>1, Bases, PageFacts
      <4>3. d = DirOf(t, "cr3") /\ d[2] = task[t].cr3 /\ d[3] = 0
        BY <4>1, <4>2 DEF DirOf
      <4> QED  BY <3>0, <4>2, <4>3
    <3>2. CASE \E t \in Task : task[t].dir # 0
                                /\ d = <<t, task[t].dir, IF task[t].phase = "destroy" THEN task[t].at ELSE 0>>
      <4>1. PICK t \in Task : task[t].dir # 0
                                /\ d = <<t, task[t].dir, IF task[t].phase = "destroy" THEN task[t].at ELSE 0>>
        BY <3>2
      <4>2. Base(task, t, "dir") = task[t].dir
            /\ From(task, t, "dir") = IF task[t].phase = "destroy" THEN task[t].at ELSE 1
        BY Bases
      <4>3. d = DirOf(t, "dir") /\ d[2] = task[t].dir
            /\ d[3] = IF task[t].phase = "destroy" THEN task[t].at ELSE 0
        BY <4>1, <4>2 DEF DirOf
      <4>4. Remaining(mem, d[2], d[3]) = Remaining(mem, Base(task, t, "dir"), From(task, t, "dir"))
        BY <3>0, <4>2, <4>3
      <4> QED  BY <4>1, <4>2, <4>3, <4>4
    <3> QED  BY <2>1, <3>1, <3>2 DEF Dirs
  <2>3. f \in Field /\ f # "stack"
    BY DEF Field
  <2>4. h = <<d, 0, d[2]>> \/\E k \in Remaining(mem, d[2], d[3]) : h = <<d, k, At(mem, d[2], k)>>
    BY <2>1 DEF Held
  <2>5. OwnedBy(u, f, h)
    BY <2>2, <2>3, <2>4 DEF OwnedBy
  <2> QED  BY <2>2, <2>3, <2>5
<1> QED  BY <1>1, <1>2 DEF Holdings

(* ... is for a page of it ...                                              *)
LEMMA HoldingPage ==
  ASSUME NEW u \in Task, NEW f \in Field, Base(task, u, f) # 0, NEW h, OwnedBy(u, f, h)
  PROVE  h[3] \in Of(mem, task, u, f)
<1>1. h[3] = Base(task, u, f)
      \/\E k \in Remaining(mem, Base(task, u, f), From(task, u, f)) : h[3] = At(mem, Base(task, u, f), k)
  BY DEF OwnedBy
<1> QED  BY <1>1 DEF Of, Pages

(* ... and is the only one for that page.                                   *)
LEMMA HoldingOnce ==
  ASSUME MemInv, NEW h \in Holdings, NEW g \in Holdings, h[3] = g[3]
  PROVE  h = g
<1>1. PICK u \in Task, f \in Field : Base(task, u, f) # 0 /\ OwnedBy(u, f, h)
  BY HoldingRoot
<1>2. PICK v \in Task, e \in Field : Base(task, v, e) # 0 /\ OwnedBy(v, e, g)
  BY HoldingRoot
<1>3. h[3] \in Of(mem, task, u, f) /\ h[3] \in Of(mem, task, v, e)
  BY <1>1, <1>2, HoldingPage
<1>4. u = v /\ f = e
  BY <1>3 DEF MemInv, Sound, Owning, Apart
<1>5. Tree(mem, Base(task, u, f), From(task, u, f))
  BY <1>1 DEF MemInv, Sound, Owning, Trees
<1> DEFINE b == Base(task, u, f)
           r == Remaining(mem, Base(task, u, f), From(task, u, f))
           d == DirOf(u, f)
<1>6. OwnedBy(u, f, h) /\ OwnedBy(u, f, g)
  BY <1>1, <1>2, <1>4
<1>7. CASE f = "stack"
  BY <1>6, <1>7 DEF OwnedBy
<1>8. CASE f # "stack"
  <2>1. h = <<d, 0, b>> \/\E k \in r : h = <<d, k, At(mem, b, k)>>
    BY <1>6, <1>8 DEF OwnedBy
  <2>2. g = <<d, 0, b>> \/\E k \in r : g = <<d, k, At(mem, b, k)>>
    BY <1>6, <1>8 DEF OwnedBy
  <2>3. (\A k \in r : At(mem, b, k) # b) /\ \A k, l \in r : At(mem, b, k) = At(mem, b, l) => k = l
    BY <1>5 DEF Tree
  <2> HIDE DEF b, r, d
  <2> QED  BY <2>1, <2>2, <2>3
<1> QED  BY <1>7, <1>8

(* Isolation: no page, table or kernel stack is in two address spaces, and  *)
(* none of them is free in the bitmap of core/memory.c, whatever the sizes, *)
(* also when memory runs out half way through fork, execve or wait.         *)
THEOREM SpecOwnedOnce == Spec => []OwnedOnce
<1>1. MemInv => OwnedOnce
  <2> SUFFICES ASSUME MemInv PROVE OwnedOnce
    OBVIOUS
  <2>1. HeldPages \subseteq mem.used
    <3> SUFFICES ASSUME NEW h \in Holdings PROVE h[3] \in mem.used
      BY DEF HeldPages
    <3>1. PICK u \in Task, f \in Field : Base(task, u, f) # 0 /\ OwnedBy(u, f, h)
      BY HoldingRoot
    <3>2. h[3] \in Of(mem, task, u, f)
      BY <3>1, HoldingPage
    <3> QED  BY <3>1, <3>2 DEF MemInv, Sound, Owning, Trees
  <2>2. IsFiniteSet(HeldPages)
    <3>1. mem.used \subseteq 1 .. mem.size /\ mem.size \in PhysSizes
      BY DEF MemInv, Sound, IsMem, MemType
    <3>2. IsFiniteSet(1 .. mem.size)
      <4>1. 1 \in Int /\ mem.size \in Int
        BY <3>1, PageFacts
      <4> QED  BY <4>1, FS_Interval
    <3> QED  BY <2>1, <3>1, <3>2, FS_Subset
  <2> DEFINE F == [h \in Holdings |-> h[3]]
  <2>3. F \in Injection(Holdings, HeldPages)
    <3>1. F \in [Holdings -> HeldPages]
      BY DEF HeldPages
    <3>2. \A h, g \in Holdings : F[h] = F[g] => h = g
      BY HoldingOnce
    <3> HIDE DEF F
    <3> QED  BY <3>1, <3>2 DEF Injection, IsInjective
  <2>4. F \in Surjection(Holdings, HeldPages)
    BY DEF Surjection, HeldPages
  <2> HIDE DEF F
  <2>5. Cardinality(Holdings) = Cardinality(HeldPages)
    BY <2>2, <2>3, <2>4, FS_Injection
  <2> QED  BY <2>1, <2>5 DEF OwnedOnce
<1> QED  BY <1>1, MemSpecInv, PTL

(* What sbrk and execve promise a program whose heap end is its own: no page *)
(* is mapped that it may not use, and until memory runs out every page that  *)
(* it may.  Nobody else's sbrk stops the kernel.                             *)
THEOREM SpecHeapMapped == Spec => []HeapMapped
<1>1. MemInv => HeapMapped
  <2> SUFFICES ASSUME MemInv PROVE HeapMapped
    OBVIOUS
  <2>1. ASSUME NEW t \in Task, task[t].own
        PROVE  /\ Mapped(mem, task[t].cr3) \subseteq HeapPages(t)
               /\ ~ mem.oom => HeapPages(t) \subseteq Mapped(mem, task[t].cr3)
    <3>1. HasDir(task[t]) /\ HasSpace(task[t]) /\ MapsOf(mem, task[t])
      BY OfTask
    <3>2. Exactly(mem, task[t].cr3, MayUse(task[t]))
      BY <2>1, <3>1 DEF HasSpace, MapsOf
    <3>3. HeapPages(t) = MayUse(task[t])
      <4>1. task[t].then = "sbrk" <=> Mapping(task[t], "sbrk")
        BY <3>1 DEF HasDir, Mapping
      <4> QED  BY <4>1 DEF HeapPages, MayUse, Below
    <3> QED  BY <3>2, <3>3 DEF Exactly
  <2>2. mem.panic => \E t \in Task : task[t].then = "sbrk" /\ ~ task[t].own
    BY DEF MemInv, Stopped
  <2> QED  BY <2>1, <2>2 DEF HeapMapped
<1> QED  BY <1>1, MemSpecInv, PTL

(* memory_copy_uvm, when it does not give up, maps for the child what the   *)
(* parent has, whatever other tasks do between its pages.                   *)
THEOREM SpecCopyComplete == Spec => CopyComplete
<1> DEFINE Step == \A t \in Task : CopyEnd(t) =>
                     Mapped(mem', task'[task[t].peer].cr3) = Mapped(mem, task[t].cr3)
<1>1. MemInv /\ [Next]_vars => [Step]_vars
  <2> SUFFICES ASSUME MemInv, NEW t \in Task, CopyEnd(t)
               PROVE  Mapped(mem', task'[task[t].peer].cr3) = Mapped(mem, task[t].cr3)
    OBVIOUS
  <2>1. task \in [Task -> TaskType] /\ task[t] \in TaskType /\ task[t].phase = "copy" /\ MapsOf(mem, task[t])
    BY DEF MemInv, Sound, Maps, CopyEnd, Can
  <2>2. OnPeer(task[t])
    BY <2>1 DEF OnPeer, Building
  <2>3. task[t].dir \in Page
    <3>1. HasDir(task[t])
      BY DEF MemInv, Sound, Shape
    <3> QED  BY <2>1, <3>1 DEF HasDir, TaskType, Filling, Loading, Mapping
  <2>4. PICK c, d, b : c = task[t].peer /\ d = task[t].dir /\ b = Started(t, d)
    OBVIOUS
  <2>5. d \in Page \cup {BAD}
    BY <2>3, <2>4
  <2>6. b[c].cr3 = d
    BY <2>2, <2>4, <2>5, StartedFacts
  <2>7. mem' = mem /\ task' = b
    BY <2>4 DEF CopyEnd
  <2>8. Mapped(mem, task[t].dir) = {v \in Mapped(mem, task[t].cr3) : v < task[t].at}
    BY <2>1 DEF MapsOf
  <2>9. {v \in Mapped(mem, task[t].cr3) : v >= task[t].at} = {}
    BY DEF CopyEnd, ToCopy
  <2>10. \A v \in Mapped(mem, task[t].cr3) : v < task[t].at
    <3>1. Mapped(mem, task[t].cr3) \subseteq Int /\ task[t].at \in Int
      BY <2>1 DEF Mapped, UPage, TaskType
    <3> QED  BY <2>9, <3>1
  <2> QED  BY <2>4, <2>6, <2>7, <2>8, <2>10
<1> QED  BY <1>1, MemSpecInv, PTL DEF CopyComplete, Spec

(* What a root leads to is held: the other direction of HoldingRoot.        *)
LEMMA RootHeld ==
  ASSUME NEW u \in Task, NEW f \in Field, NEW p \in Of(mem, task, u, f)
  PROVE  p \in HeldPages
<1> DEFINE b == Base(task, u, f)
           x == DirOf(u, f)[3]
<1>1. b # 0 /\ p \in Pages(mem, b, From(task, u, f))
  BY DEF Of
<1>2. p = b \/\E k \in Remaining(mem, b, From(task, u, f)) : p = At(mem, b, k)
  BY <1>1 DEF Pages
<1>3. CASE f = "stack"
  <2>1. b = task[u].stack /\ task[u].sel /\ task[u].stack # 0 /\ From(task, u, f) = Last + 1
    BY <1>1, <1>3, Bases
  <2>2. Remaining(mem, b, Last + 1) = {}
    BY Sizes DEF Remaining, Place, Last, W
  <2>3. p = task[u].stack
    BY <1>2, <2>1, <2>2
  <2>4. <<u, 0, task[u].stack>> \in Holdings
    BY <2>1 DEF Holdings
  <2> QED  BY <2>3, <2>4 DEF HeldPages
<1>4. CASE f # "stack"
  <2>1. Remaining(mem, b, x) = Remaining(mem, b, From(task, u, f))
    <3>1. Remaining(mem, b, 0) = Remaining(mem, b, 1)
      BY DEF Remaining, Place
    <3>2. x = From(task, u, f) \/ (x = 0 /\ From(task, u, f) = 1)
      BY <1>4, Bases DEF DirOf, Field
    <3> QED  BY <3>1, <3>2
  <2>2. DirOf(u, f) \in Dirs
    <3>1. CASE f = "cr3"
      <4>1. task[u].cr3 \in Page /\ task[u].phase # "reaped" /\ b = task[u].cr3
        BY <1>1, <3>1, Bases
      <4>2. DirOf(u, f) = <<u, task[u].cr3, 0>>
        BY <3>1, <4>1 DEF DirOf
      <4> QED  BY <4>1, <4>2 DEF Dirs
    <3>2. CASE f = "dir"
      <4>1. b = task[u].dir /\ task[u].dir # 0
        BY <1>1, <3>2, Bases
      <4>2. DirOf(u, f) = <<u, task[u].dir, IF task[u].phase = "destroy" THEN task[u].at ELSE 0>>
        BY <3>2, <4>1 DEF DirOf
      <4> QED  BY <4>1, <4>2 DEF Dirs
    <3> QED  BY <1>4, <3>1, <3>2 DEF Field
  <2>3. DirOf(u, f)[2] = b
    BY DEF DirOf
  <2>4. PICK d : d = DirOf(u, f)
    OBVIOUS
  <2>5. d \in Dirs /\ d[2] = b /\ Remaining(mem, d[2], d[3]) = Remaining(mem, b, From(task, u, f))
    BY <2>1, <2>2, <2>3, <2>4
  <2>6. \E h \in Held(d) : h[3] = p
    <3>1. CASE p = b
      <4>1. <<d, 0, d[2]>> \in Held(d)
        BY DEF Held
      <4> QED  BY <2>5, <3>1, <4>1
    <3>2. CASE \E k \in Remaining(mem, b, From(task, u, f)) : p = At(mem, b, k)
      <4>1. PICK k \in Remaining(mem, d[2], d[3]) : p = At(mem, d[2], k)
        BY <2>5, <3>2
      <4>2. <<d, k, At(mem, d[2], k)>> \in Held(d)
        BY DEF Held
      <4> QED  BY <4>1, <4>2
    <3> QED  BY <1>2, <3>1, <3>2
  <2>7. \A h \in Held(d) : h \in Holdings
    BY <2>5 DEF Holdings
  <2> QED  BY <2>6, <2>7 DEF HeldPages
<1> QED  BY <1>3, <1>4

(* The pages that are held are those of the roots.                          *)
LEMMA OwnedHeld == MemInv => HeldPages = Own(mem, task)
<1> SUFFICES ASSUME MemInv PROVE HeldPages = Own(mem, task)
  OBVIOUS
<1>1. ASSUME NEW h \in Holdings
      PROVE  h[3] \in Own(mem, task)
  <2>1. PICK u \in Task, f \in Field : Base(task, u, f) # 0 /\ OwnedBy(u, f, h)
    BY HoldingRoot
  <2>2. h[3] \in Of(mem, task, u, f)
    BY <2>1, HoldingPage
  <2>3. h[3] \in Page
    BY <2>1, <2>2 DEF MemInv, Sound, IsMem, MemType, Owning, Trees
  <2> QED  BY <2>2, <2>3 DEF Own
<1>2. Own(mem, task) \subseteq HeldPages
  BY RootHeld DEF Own
<1> QED  BY <1>1, <1>2 DEF HeldPages

(* The bitmap of core/memory.c forgets no page but the directory that fork  *)
(* overwrites (task.c:468) and what is taken when no page is left for a     *)
(* table, or the kernel stops, in memory_create_map.                        *)
THEOREM SpecLostOnlyByFork == Spec => LostOnlyByFork
<1> DEFINE Step == \A p \in LostPages' \ LostPages :
                     \/\E c \in Task : task[c].phase = "new" /\ task[c].cr3 = p /\ task'[c].phase # "new"
                     \/ mem'.used = 1 .. mem.size \/ mem'.panic
<1>1. MemInv => HeldPages = Own(mem, task)
  BY OwnedHeld
<1>2. MemInv /\ MemInv' /\ HeldPages = Own(mem, task) /\ (HeldPages = Own(mem, task))' /\ Next => Step
  <2> SUFFICES ASSUME MemInv, Next, HeldPages = Own(mem, task), HeldPages' = Own(mem', task'),
                      NEW p \in LostPages', p \notin LostPages
               PROVE  Lapse(task, task', p) \/ Full(mem, mem')
    BY DEF Lapse, Full
  <2>1. p \in mem'.used /\ p \notin Own(mem', task')
    BY DEF LostPages
  <2>2. Spares(mem, mem', task, task')
    BY MemNextGoes DEF Goes
  <2>3. CASE p \notin mem.used
    BY <2>1, <2>2, <2>3 DEF Spares
  <2>4. CASE p \in mem.used
    <3>1. p \in Own(mem, task)
      BY <2>4 DEF LostPages
    <3>2. PICK u \in Task, f \in Field : p \in Of(mem, task, u, f)
      BY <3>1 DEF Own
    <3>3. Safe(mem, mem', task, task', u, f)
      BY <2>2 DEF Spares
    <3> QED  BY <2>1, <3>2, <3>3 DEF Safe
  <2> QED  BY <2>3, <2>4
<1>3. MemInv /\ MemInv' /\ HeldPages = Own(mem, task) /\ (HeldPages = Own(mem, task))' /\ [Next]_vars => [Step]_vars
  BY <1>2
<1> QED  BY <1>1, <1>3, MemSpecInv, PTL DEF LostOnlyByFork, Spec
=============================================================================
