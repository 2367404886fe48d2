---------------------------- MODULE LinkedList ----------------------------
(***************************************************************************)
(* The doubly linked lists of tools/list.c: ready_list and sleep_list share *)
(* the run_node of every task, the wait lists its wait_node, mounted_list   *)
(* and its free list the node of every fs_t.  Other modules use sequences   *)
(* in their place.  A call is one step: its callers turned interrupts off   *)
(* or run before there are tasks.  They insert a node that is in no list    *)
(* and remove one from the list it is in, OnePlace of Sched for tasks.      *)
(***************************************************************************)
EXTENDS Integers, Sequences

CONSTANTS
  Node,   \* the nodes
  List,   \* the lists they move between
  Null    \* (list_node_t *)0

ASSUME NullAssumption == Null \notin Node

VARIABLES
  first, last, list_count,   \* list_t, of each list
  next, prev,           \* list_node_t, of each node
  items                 \* history: what the calls made so far put in each list

listVars == <<first, last, list_count, next, prev, items>>

Held(l) == {items[l][i] : i \in DOMAIN items[l]}
Free(n) == \A l \in List : n \notin Held(l)

(* list_init of every list, list_node_init of every node *)
ListInit ==
  /\ first = [l \in List |-> Null] /\ last = [l \in List |-> Null]
  /\ list_count = [l \in List |-> 0]
  /\ next = [n \in Node |-> Null] /\ prev = [n \in Node |-> Null]
  /\ items = [l \in List |-> <<>>]

ListIsEmpty(l) == list_count[l] = 0

ListInsertFirst(l, n) ==
  /\ Free(n)
  /\ next' = [next EXCEPT ![n] = first[l]]
  /\ prev' = [m \in Node |-> IF m = n THEN Null
                             ELSE IF ~ ListIsEmpty(l) /\ m = first[l] THEN n ELSE prev[m]]
  /\ first' = [first EXCEPT ![l] = n]
  /\ last' = [last EXCEPT ![l] = IF ListIsEmpty(l) THEN n ELSE @]
  /\ list_count' = [list_count EXCEPT ![l] = @ + 1]
  /\ items' = [items EXCEPT ![l] = <<n>> \o @]

ListInsertLast(l, n) ==
  /\ Free(n)
  /\ prev' = [prev EXCEPT ![n] = last[l]]
  /\ next' = [m \in Node |-> IF m = n THEN Null
                             ELSE IF ~ ListIsEmpty(l) /\ m = last[l] THEN n ELSE next[m]]
  /\ first' = [first EXCEPT ![l] = IF ListIsEmpty(l) THEN n ELSE @]
  /\ last' = [last EXCEPT ![l] = n]
  /\ list_count' = [list_count EXCEPT ![l] = @ + 1]
  /\ items' = [items EXCEPT ![l] = Append(@, n)]

(* The first node, n, is given to the caller, if there is one. *)
ListRemoveFirst(l) ==
  /\ ~ ListIsEmpty(l)
  /\ LET n == first[l]
     IN /\ first' = [first EXCEPT ![l] = next[n]]
        /\ last' = [last EXCEPT ![l] = IF next[n] = Null THEN Null ELSE @]
        /\ prev' = [m \in Node |-> IF m = n \/ m = next[n] THEN Null ELSE prev[m]]
        /\ next' = [next EXCEPT ![n] = Null]
  /\ list_count' = [list_count EXCEPT ![l] = @ - 1]
  /\ items' = [items EXCEPT ![l] = Tail(@)]

(* What is left of s without its i-th element. *)
Without(s, i) == [j \in 1 .. Len(s) - 1 |-> IF j < i THEN s[j] ELSE s[j + 1]]

(* Faulty variant of Unlinked: the node after n keeps its way back to n. *)
UnlinkedForward(n) ==
  /\ next' = [m \in Node |-> IF m = n THEN Null ELSE IF m = prev[n] THEN next[n] ELSE next[m]]
  /\ prev' = [prev EXCEPT ![n] = Null]

(* The neighbours of n are linked to each other, n to nothing. *)
Unlinked(n) ==
  /\ next' = [m \in Node |-> IF m = n THEN Null ELSE IF m = prev[n] THEN next[n] ELSE next[m]]
  /\ prev' = [m \in Node |-> IF m = n THEN Null ELSE IF m = next[n] THEN prev[n] ELSE prev[m]]

ListRemove(l, i) ==
  /\ i \in DOMAIN items[l]
  /\ LET n == items[l][i]
     IN /\ first' = [first EXCEPT ![l] = IF n = @ THEN next[n] ELSE @]
        /\ last' = [last EXCEPT ![l] = IF n = @ THEN prev[n] ELSE @]
        /\ Unlinked(n)
  /\ list_count' = [list_count EXCEPT ![l] = @ - 1]
  /\ items' = [items EXCEPT ![l] = Without(@, i)]

ListNext ==
  \E l \in List :
    \/ \E n \in Node : ListInsertFirst(l, n) \/ ListInsertLast(l, n)
    \/ ListRemoveFirst(l)
    \/ \E i \in 1 .. Len(items[l]) : ListRemove(l, i)

ListSpec == ListInit /\ [][ListNext]_listVars

-----------------------------------------------------------------------------
(* Where node i of s leads: to the node beside it, to nothing at the ends.  *)
At(s, i) == IF i \in DOMAIN s THEN s[i] ELSE Null

(* A list read by its pointers. *)
Spelled(l) ==
  LET s == items[l]
  IN /\ list_count[l] = Len(s) /\ first[l] = At(s, 1) /\ last[l] = At(s, Len(s))
     /\ \A i \in DOMAIN s : next[s[i]] = At(s, i + 1) /\ prev[s[i]] = At(s, i - 1)

(* From whichever end and however often nodes moved between the lists, a    *)
(* list read by its pointers is the sequence of the calls, its count is the *)
(* length, and a node in no list points nowhere: what list_remove_first     *)
(* returns, a scan finds by next and list_count says is right.              *)
PointersSpellItems ==
  /\ \A l \in List : Spelled(l)
  /\ \A n \in Node : Free(n) => next[n] = Null /\ prev[n] = Null

(* No node is in two places; what PointersSpellItems rests on. *)
NodesOnce ==
  /\ items \in [List -> Seq(Node)]
  /\ \A k, l \in List : \A i \in DOMAIN items[k] : \A j \in DOMAIN items[l] :
       items[k][i] = items[l][j] => k = l /\ i = j

=============================================================================
