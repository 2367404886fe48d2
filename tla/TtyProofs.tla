------------------------------ MODULE TtyProofs ------------------------------
(* Proofs about Tty: the room of the output fifo and the characters of the   *)
(* input fifo are accounted for by the two semaphores, for any number of     *)
(* tasks and any sizes of the fifos.                                        *)
EXTENDS Tty, FiniteSetTheorems, TLAPS

-----------------------------------------------------------------------------
(* The inductive invariant.                                                 *)

At(places) == {t \in Task : pc[t] \in places}
Taking == {"readWait"}               \* in sem_wait of isem, or through it
Putting == {"writeCr", "writeCh"}    \* in sem_wait of osem, or through it
Drained == {"drained"}

TtyTypeOK ==
  /\ TypeOK
  /\ semLine \in [{"isem", "osem"} -> Seq(Task)]
  /\ line \in [{"console"} -> Seq(Task)]

ReadersRead == At({"readWait", "readStore", "readNext"}) \subseteq Reader

(* The wait list q of a semaphore whose credit is c: only tasks that called *)
(* sem_wait (P), each once, and as many as the credit is below zero.        *)
WaitList(q, c, P) ==
  /\ q \in Seq(Task) /\ IsInjective(q) /\ Range(q) \subseteq P
  /\ Len(q) = IF c < 0 THEN -c ELSE 0
WaitLists ==
  /\ WaitList(semLine["isem"], credit["isem"], At(Taking))
  /\ WaitList(semLine["osem"], credit["osem"], At(Putting))

(* RoomConserved and InputMatched with waiters on both sides of the balance *)
RoomBalance ==
  credit["osem"] + Len(ofifo) + Cardinality(At(Putting)) + Cardinality(At(Drained)) = OBuf
InputBalance ==
  /\ Len(ififo) <= credit["isem"] + Cardinality(At(Taking))
  /\ credit["isem"] + Cardinality(At(Taking)) <= Len(ififo) + Cardinality(Reader)

TtyInv == TtyTypeOK /\ ReadersRead /\ WaitLists /\ RoomBalance /\ InputBalance

-----------------------------------------------------------------------------
(* Sequences.                                                               *)

(* A sequence without repetitions is as long as its range is large.         *)
LEMMA InjectiveLength ==
  ASSUME NEW S, NEW q \in Seq(S), IsInjective(q)
  PROVE  IsFiniteSet(Range(q)) /\ Cardinality(Range(q)) = Len(q)
<1>1. Len(q) \in Nat /\ DOMAIN q = 1 .. Len(q)
  OBVIOUS
<1>2. q \in [1 .. Len(q) -> Range(q)]
  BY <1>1 DEF Range
<1>3. q \in Bijection(1 .. Len(q), Range(q))
  BY <1>1, <1>2 DEF Range, IsInjective, Bijection, Injection, Surjection
<1>4. ExistsBijection(1 .. Len(q), Range(q))
  BY <1>3 DEF ExistsBijection
<1> QED  BY <1>1, <1>4, FS_CountingElements, FS_NatBijection

(* sem_wait: a task that finds no credit goes to the end of the list.       *)
LEMMA WaitGrows ==
  ASSUME NEW q, NEW c \in Int, NEW P, WaitList(q, c, P), NEW t \in Task, t \notin P
  PROVE  WaitList(IF c > 0 THEN q ELSE Append(q, t), c - 1, P \cup {t})
<1>1. q \in Seq(Task) /\ IsInjective(q) /\ Range(q) \subseteq P /\ t \notin Range(q)
      /\ Len(q) = IF c < 0 THEN -c ELSE 0
  BY DEF WaitList
<1>2. CASE c > 0
  BY <1>1, <1>2 DEF WaitList
<1>3. CASE ~ (c > 0)
  <2> DEFINE e == Append(q, t)
  <2>1. /\ e \in Seq(Task) /\ Len(e) = Len(q) + 1 /\ DOMAIN e = 1 .. Len(q) + 1
        /\ DOMAIN q = 1 .. Len(q) /\ Len(q) \in Nat
        /\ \A i \in 1 .. Len(q) : e[i] = q[i]
        /\ e[Len(q) + 1] = t
    BY <1>1
  <2> HIDE DEF e
  <2>2. IsInjective(e)
    <3> SUFFICES ASSUME NEW a \in 1 .. Len(q) + 1, NEW b \in 1 .. Len(q) + 1, e[a] = e[b]
                 PROVE  a = b
      BY <2>1 DEF IsInjective
    <3>1. \A i \in 1 .. Len(q) : e[i] = q[i] /\ q[i] # t
      BY <1>1, <2>1 DEF Range
    <3>2. (a \in 1 .. Len(q) \/ a = Len(q) + 1) /\ (b \in 1 .. Len(q) \/ b = Len(q) + 1)
      BY <2>1
    <3> QED  BY <1>1, <2>1, <3>1, <3>2 DEF IsInjective
  <2>3. Range(e) \subseteq P \cup {t}
    <3>1. \A i \in 1 .. Len(q) + 1 : i \in 1 .. Len(q) \/ i = Len(q) + 1
      BY <2>1
    <3> QED  BY <1>1, <2>1, <3>1 DEF Range
  <2>4. Len(e) = IF c - 1 < 0 THEN -(c - 1) ELSE 0
    BY <1>1, <1>3, <2>1
  <2>5. WaitList(e, c - 1, P \cup {t})
    BY <2>1, <2>2, <2>3, <2>4 DEF WaitList
  <2> QED  BY <1>3, <2>5 DEF e
<1> QED  BY <1>2, <1>3

(* sem_notify: the first of the list is let through.                        *)
LEMMA NotifyServes ==
  ASSUME NEW q, NEW c \in Int, NEW P, WaitList(q, c, P)
  PROVE  WaitList(IF c < 0 THEN Tail(q) ELSE q, c + 1, P)
<1>1. q \in Seq(Task) /\ IsInjective(q) /\ Range(q) \subseteq P
      /\ Len(q) = IF c < 0 THEN -c ELSE 0
  BY DEF WaitList
<1>2. CASE ~ (c < 0)
  BY <1>1, <1>2 DEF WaitList
<1>3. CASE c < 0
  <2> DEFINE e == Tail(q)
  <2>1. /\ e \in Seq(Task) /\ Len(e) = Len(q) - 1 /\ DOMAIN e = 1 .. Len(q) - 1
        /\ DOMAIN q = 1 .. Len(q) /\ Len(q) \in Nat \ {0}
        /\ \A i \in 1 .. Len(q) - 1 : e[i] = q[i + 1]
    BY <1>1, <1>3
  <2> HIDE DEF e
  <2>2. \A i \in 1 .. Len(q) - 1 : i + 1 \in 1 .. Len(q)
    BY <2>1
  <2>3. IsInjective(e)
    <3> SUFFICES ASSUME NEW a \in 1 .. Len(q) - 1, NEW b \in 1 .. Len(q) - 1, e[a] = e[b]
                 PROVE  a = b
      BY <2>1 DEF IsInjective
    <3>1. a + 1 = b + 1
      BY <1>1, <2>1, <2>2 DEF IsInjective
    <3> QED  BY <3>1
  <2>4. Range(e) \subseteq P
    BY <1>1, <2>1, <2>2 DEF Range
  <2>5. Len(e) = IF c + 1 < 0 THEN -(c + 1) ELSE 0
    BY <1>1, <1>3, <2>1
  <2>6. WaitList(e, c + 1, P)
    BY <2>1, <2>3, <2>4, <2>5 DEF WaitList
  <2> QED  BY <1>3, <2>6 DEF e
<1> QED  BY <1>2, <1>3

(* The list only asks that its tasks still wait.                            *)
LEMMA WaitListMonotonic ==
  ASSUME NEW q, NEW c, NEW P, NEW R, WaitList(q, c, P), Range(q) \subseteq R
  PROVE  WaitList(q, c, R)
BY DEF WaitList

-----------------------------------------------------------------------------
(* Counting tasks.                                                          *)

(* Tasks at some places are finitely many.                                  *)
LEMMA AtFinite ==
  ASSUME NEW places
  PROVE  IsFiniteSet(At(places)) /\ Cardinality(At(places)) \in Nat
<1>1. At(places) \in SUBSET Task
  BY DEF At
<1> QED  BY <1>1, TtyAssumption, FS_Subset, FS_CardinalityType

(* What a task that goes to place adds to those at places.                  *)
Change(t, place, places) ==
  (IF place \in places THEN 1 ELSE 0) - (IF pc[t] \in places THEN 1 ELSE 0)

(* One task goes from place to place.                                       *)
LEMMA Moving ==
  ASSUME pc \in [Task -> Writing \cup {"user", "readWait", "readStore", "readNext"}],
         NEW t \in Task, NEW place, Goto(t, place), NEW places
  PROVE  /\ At(places)' = IF place \in places THEN At(places) \cup {t} ELSE At(places) \ {t}
         /\ Cardinality(At(places)') = Cardinality(At(places)) + Change(t, place, places)
<1>1. \A u \in Task : pc'[u] = IF u = t THEN place ELSE pc[u]
  BY DEF Goto
<1>2. At(places)' = IF place \in places THEN At(places) \cup {t} ELSE At(places) \ {t}
  BY <1>1 DEF At
<1>3. t \in At(places) <=> pc[t] \in places
  BY DEF At
<1> DEFINE A == At(places)
<1>4. IsFiniteSet(A) /\ Cardinality(A) \in Nat
  BY AtFinite
<1>5. /\ Cardinality(A \cup {t}) = IF t \in A THEN Cardinality(A) ELSE Cardinality(A) + 1
      /\ Cardinality(A \ {t}) = IF t \in A THEN Cardinality(A) - 1 ELSE Cardinality(A)
  BY <1>4, FS_AddElement, FS_RemoveElement
<1>6. CASE place \in places
  <2>1. At(places)' = A \cup {t}
    BY <1>2, <1>6
  <2> HIDE DEF A
  <2>2. Cardinality(A \cup {t}) = Cardinality(A) + (IF t \in A THEN 0 ELSE 1)
    BY <1>4, <1>5
  <2>3. Change(t, place, places) = IF t \in A THEN 0 ELSE 1
    BY <1>3, <1>6 DEF Change, A
  <2> QED  BY <2>1, <2>2, <2>3, <1>2 DEF A
<1>7. CASE place \notin places
  <2>1. At(places)' = A \ {t}
    BY <1>2, <1>7
  <2> HIDE DEF A
  <2>2. Cardinality(A \ {t}) = Cardinality(A) + (IF t \in A THEN -1 ELSE 0)
    BY <1>4, <1>5
  <2>3. Change(t, place, places) = IF t \in A THEN -1 ELSE 0
    BY <1>3, <1>7 DEF Change, A
  <2> QED  BY <2>1, <2>2, <2>3, <1>2 DEF A
<1> QED  BY <1>6, <1>7

(* The units of a semaphore, free or with a task that was let through, are  *)
(* its credit with all that called sem_wait.                                *)
LEMMA Units ==
  ASSUME NEW s \in {"isem", "osem"}, NEW places, credit[s] \in Int,
         WaitList(semLine[s], credit[s], At(places))
  PROVE  /\ Count(s) + InFlight(s, places) = credit[s] + Cardinality(At(places))
         /\ Count(s) \in Nat /\ InFlight(s, places) \in Nat
         /\ InFlight(s, places) <= Cardinality(At(places))
         /\ \A t \in At(places) : Passed(t, s) => InFlight(s, places) > 0
<1> DEFINE A == At(places)
           W == Range(semLine[s])
           F == {t \in Task : pc[t] \in places /\ Passed(t, s)}
<1>1. /\ IsFiniteSet(W) /\ Cardinality(W) = IF credit[s] < 0 THEN -credit[s] ELSE 0
      /\ W \subseteq A
  BY InjectiveLength DEF WaitList
<1>2. IsFiniteSet(A) /\ Cardinality(A) \in Nat
  BY AtFinite
<1>3. F = A \ W /\ InFlight(s, places) = Cardinality(F)
  BY DEF At, Passed, InFlight
<1>4. Cardinality(A \ W) = Cardinality(A) - Cardinality(W) /\ IsFiniteSet(A \ W)
  <2>1. A \cap W = W
    BY <1>1
  <2> HIDE DEF A, W
  <2> QED  BY <1>1, <1>2, <2>1, FS_Difference
<1>5. \A t \in A : Passed(t, s) => t \in F
  BY DEF At
<1>6. Cardinality(F) \in Nat /\ (F # {} => Cardinality(F) > 0)
  <2>1. IsFiniteSet(F)
    BY <1>3, <1>4
  <2> HIDE DEF F
  <2> QED  BY <2>1, FS_CardinalityType, FS_EmptySet
<1>7. Count(s) = (IF credit[s] > 0 THEN credit[s] ELSE 0) /\ Count(s) \in Nat
  BY DEF Count
<1> DEFINE a == Cardinality(A)
           w == Cardinality(W)
           f == Cardinality(F)
           c == credit[s]
<1>8. f = a - w /\ a \in Nat /\ f \in Nat /\ w = (IF c < 0 THEN -c ELSE 0) /\ c \in Int
      /\ Count(s) = IF c > 0 THEN c ELSE 0
  BY <1>1, <1>2, <1>3, <1>4, <1>6, <1>7
<1> HIDE DEF a, w, f, c
<1>9. Count(s) + f = c + a /\ f <= a
  BY <1>8
<1> QED  BY <1>3, <1>5, <1>6, <1>7, <1>9 DEF a, f, c

-----------------------------------------------------------------------------
(* What the parts of a step do to the parts of the invariant.               *)

(* The types, one by one.                                                   *)
LEMMA TtyTypes ==
  ASSUME TtyInv
  PROVE  /\ ififo \in Seq(Char) /\ Len(ififo) \in 0 .. IBuf
         /\ ofifo \in Seq(Char \cup {"return"}) /\ Len(ofifo) \in 0 .. OBuf
         /\ credit \in [{"isem", "osem"} -> Int]
         /\ semLine \in [{"isem", "osem"} -> Seq(Task)]
         /\ line \in [{"console"} -> Seq(Task)]
         /\ pc \in [Task -> Writing \cup {"user", "readWait", "readStore", "readNext"}]
         /\ ch \in [Task -> Char] /\ len \in [Reader -> Nat]
         /\ Reader \subseteq Task /\ Writer \subseteq Task
         /\ IBuf \in Nat \ {0} /\ OBuf \in Nat
BY TtyAssumption DEF TtyInv, TtyTypeOK, TypeOK, Task

(* The types after a step, from those of the variables.                     *)
LEMMA TtyTypesAfter ==
  ASSUME ififo' \in Seq(Char), Len(ififo') <= IBuf,
         ofifo' \in Seq(Char \cup {"return"}), Len(ofifo') <= OBuf,
         credit' \in [{"isem", "osem"} -> Int],
         semLine' \in [{"isem", "osem"} -> Seq(Task)],
         line' \in [{"console"} -> Seq(Task)],
         pc' \in [Task -> Writing \cup {"user", "readWait", "readStore", "readNext"}],
         ch' \in [Task -> Char], len' \in [Reader -> Nat]
  PROVE  TtyTypeOK'
<1>1. line'["console"] \in Seq(Task) /\ \A s \in {"isem", "osem"} : semLine'[s] \in Seq(Task)
  OBVIOUS
<1> QED  BY <1>1 DEF TtyTypeOK, TypeOK

(* sem_wait on one of the two semaphores.                                   *)
LEMMA WaitEffect ==
  ASSUME TtyInv, NEW t \in Task, NEW s \in {"isem", "osem"}, Sems!Wait(t, s)
  PROVE  /\ credit' \in [{"isem", "osem"} -> Int]
         /\ semLine' \in [{"isem", "osem"} -> Seq(Task)]
         /\ credit'[s] = credit[s] - 1
         /\ semLine'[s] = IF credit[s] > 0 THEN semLine[s] ELSE Append(semLine[s], t)
         /\ \A r \in {"isem", "osem"} \ {s} : credit'[r] = credit[r] /\ semLine'[r] = semLine[r]
<1>1. /\ credit' = [credit EXCEPT ![s] = @ - 1]
      /\ semLine' = [semLine EXCEPT ![s] = IF credit[s] > 0 THEN @ ELSE Append(@, t)]
  BY Zenon DEF Sems!Wait
<1>2. (IF credit[s] > 0 THEN semLine[s] ELSE Append(semLine[s], t)) \in Seq(Task)
  BY TtyTypes
<1>3. credit[s] - 1 \in Int
  BY TtyTypes
<1> QED  BY <1>1, <1>2, <1>3, TtyTypes

(* sem_notify on one of the two semaphores.                                 *)
LEMMA NotifyEffect ==
  ASSUME TtyInv, NEW s \in {"isem", "osem"}, Sems!Notify(s)
  PROVE  /\ credit' \in [{"isem", "osem"} -> Int]
         /\ semLine' \in [{"isem", "osem"} -> Seq(Task)]
         /\ credit'[s] = credit[s] + 1
         /\ semLine'[s] = IF credit[s] < 0 THEN Tail(semLine[s]) ELSE semLine[s]
         /\ \A r \in {"isem", "osem"} \ {s} : credit'[r] = credit[r] /\ semLine'[r] = semLine[r]
<1>1. /\ credit' = [credit EXCEPT ![s] = @ + 1]
      /\ semLine' = [semLine EXCEPT ![s] = IF credit[s] < 0 THEN Tail(@) ELSE @]
  BY Zenon DEF Sems!Notify
<1>2. \E P : WaitList(semLine[s], credit[s], P)
  BY DEF TtyInv, WaitLists
<1>3. credit[s] \in Int /\ Len(semLine[s]) = IF credit[s] < 0 THEN -credit[s] ELSE 0
  BY <1>2, TtyTypes DEF WaitList
<1>4. (IF credit[s] < 0 THEN Tail(semLine[s]) ELSE semLine[s]) \in Seq(Task)
  <2>1. CASE credit[s] < 0
    <3>1. semLine[s] # <<>> /\ semLine[s] \in Seq(Task)
      BY <1>3, <2>1, TtyTypes
    <3> QED  BY <2>1, <3>1
  <2>2. CASE ~ (credit[s] < 0)
    BY <2>2, TtyTypes
  <2> QED  BY <2>1, <2>2
<1>5. credit[s] + 1 \in Int
  BY <1>3
<1> QED  BY <1>1, <1>4, <1>5, TtyTypes

(* Only a task that was let through leaves the callers of a semaphore.      *)
LEMMA ListKept ==
  ASSUME TtyInv, NEW s \in {"isem", "osem"}, NEW places,
         WaitList(semLine[s], credit[s], At(places)),
         credit'[s] = credit[s], semLine'[s] = semLine[s],
         NEW t \in Task, NEW place, Goto(t, place),
         place \in places \/ pc[t] \notin places \/ Passed(t, s)
  PROVE  WaitList(semLine'[s], credit'[s], At(places)')
<1>1. At(places)' = IF place \in places THEN At(places) \cup {t} ELSE At(places) \ {t}
  BY TtyTypes, Moving
<1>2. Range(semLine[s]) \subseteq At(places)
  BY DEF WaitList
<1>3. Range(semLine[s]) \subseteq At(places)'
  BY <1>1, <1>2 DEF At, Passed
<1>4. WaitList(semLine[s], credit[s], At(places)')
  BY <1>3, WaitListMonotonic
<1> QED  BY <1>4

(* A task that calls sem_wait joins the callers and, maybe, the list.       *)
LEMMA ListJoined ==
  ASSUME TtyInv, NEW s \in {"isem", "osem"}, NEW places,
         WaitList(semLine[s], credit[s], At(places)),
         NEW t \in Task, Sems!Wait(t, s),
         NEW place \in places, Goto(t, place), pc[t] \notin places
  PROVE  WaitList(semLine'[s], credit'[s], At(places)')
<1>1. At(places)' = At(places) \cup {t} /\ t \notin At(places)
  BY TtyTypes, Moving DEF At
<1>2. credit[s] \in Int
  BY TtyTypes
<1>3. WaitList(IF credit[s] > 0 THEN semLine[s] ELSE Append(semLine[s], t), credit[s] - 1,
               At(places) \cup {t})
  BY <1>1, <1>2, WaitGrows
<1> QED  BY <1>1, <1>3, WaitEffect

(* A step of t that conserves the room, with what it does to the credit and *)
(* to the fifo.                                                             *)
LEMMA RoomKept ==
  ASSUME TtyInv, NEW t \in Task, NEW place, Goto(t, place),
         credit'["osem"] \in Int, Len(ofifo') \in Int,
         credit'["osem"] + Len(ofifo') + Change(t, place, Putting) + Change(t, place, Drained)
           = credit["osem"] + Len(ofifo)
  PROVE  RoomBalance'
<1> DEFINE c == credit["osem"]
           n == Len(ofifo)
           ca == credit'["osem"]
           na == Len(ofifo')
           p == Cardinality(At(Putting))
           d == Cardinality(At(Drained))
           dp == Change(t, place, Putting)
           dd == Change(t, place, Drained)
<1>1. Cardinality(At(Putting)') = p + dp /\ Cardinality(At(Drained)') = d + dd
  BY TtyTypes, Moving
<1>2. c \in Int /\ n \in Int /\ ca \in Int /\ na \in Int
      /\ p \in Int /\ d \in Int /\ dp \in Int /\ dd \in Int
  BY TtyTypes, AtFinite DEF Change
<1>3. c + n + p + d = OBuf /\ ca + na + dp + dd = c + n
  BY DEF TtyInv, RoomBalance
<1> HIDE DEF c, n, ca, na, p, d, dp, dd
<1>4. ca + na + (p + dp) + (d + dd) = OBuf
  BY <1>2, <1>3
<1> QED  BY <1>1, <1>4 DEF RoomBalance, ca, na

(* The same for the characters of the input fifo.                           *)
LEMMA InputKept ==
  ASSUME TtyInv, NEW t \in Task, NEW place, Goto(t, place), ififo' = ififo,
         NEW units \in Int, credit'["isem"] = credit["isem"] + units,
         units + Change(t, place, Taking) = 0
  PROVE  InputBalance'
<1> DEFINE c == credit["isem"]
           p == Cardinality(At(Taking))
           dp == Change(t, place, Taking)
<1>1. Cardinality(At(Taking)') = p + dp
  BY TtyTypes, Moving
<1>2. c \in Int /\ p \in Int /\ dp \in Int
  BY TtyTypes, AtFinite DEF Change
<1> HIDE DEF c, p, dp
<1>3. (c + units) + (p + dp) = c + p
  BY <1>2 DEF dp
<1> QED  BY <1>1, <1>3 DEF TtyInv, InputBalance, c, p

(* Only readers get to the places of tty_read.                              *)
LEMMA ReadersKept ==
  ASSUME TtyInv, NEW t \in Task, NEW place, Goto(t, place),
         place \in {"readWait", "readStore", "readNext"} => t \in Reader
  PROVE  ReadersRead'
<1> DEFINE reads == {"readWait", "readStore", "readNext"}
<1> HIDE DEF reads
<1>1. At(reads)' = IF place \in reads THEN At(reads) \cup {t} ELSE At(reads) \ {t}
  BY TtyTypes, Moving
<1>2. At(reads) \subseteq Reader
  BY DEF TtyInv, ReadersRead, reads
<1>3. At(reads)' \subseteq Reader
  BY <1>1, <1>2 DEF reads
<1> QED  BY <1>3 DEF ReadersRead, reads

-----------------------------------------------------------------------------
(* A step of t alone, which leaves the fifos and the semaphores as they are *)
(* and t outside of them: ReadStore, ReadReturn, WriteCall, DrainEnd.       *)
Outside == {"user", "readStore", "readNext", "write", "writeCrDone", "drain"}

(* The invariant after such a step.                                         *)
LEMMA OutsideInv ==
  ASSUME TtyInv, NEW t \in Task, NEW place \in Outside, Goto(t, place), pc[t] \in Outside,
         place \in {"readStore", "readNext"} => t \in Reader,
         UNCHANGED <<ififo, ofifo, credit, semLine>>,
         line' \in [{"console"} -> Seq(Task)], ch' \in [Task -> Char], len' \in [Reader -> Nat]
  PROVE  TtyInv'
<1>1. pc' \in [Task -> Writing \cup {"user", "readWait", "readStore", "readNext"}]
  BY TtyTypes DEF Goto, Outside, Writing
<1>2. TtyTypeOK'
  BY <1>1, TtyTypes, TtyTypesAfter
<1>3. ReadersRead'
  BY ReadersKept DEF Outside
<1>4. pc[t] \notin Putting /\ pc[t] \notin Taking
  BY DEF Outside, Putting, Taking
<1>5. WaitLists'
  <2>1. WaitList(semLine'["isem"], credit'["isem"], At(Taking)')
    BY <1>4, ListKept DEF TtyInv, WaitLists
  <2>2. WaitList(semLine'["osem"], credit'["osem"], At(Putting)')
    BY <1>4, ListKept DEF TtyInv, WaitLists
  <2> QED  BY <2>1, <2>2 DEF WaitLists
<1>6. /\ Change(t, place, Putting) = 0 /\ Change(t, place, Drained) = 0
      /\ Change(t, place, Taking) = 0
  BY DEF Outside, Change, Putting, Drained, Taking
<1>7. RoomBalance'
  <2>1. credit'["osem"] = credit["osem"] + 0 /\ Len(ofifo') = Len(ofifo) + 0
    BY TtyTypes
  <2>2. credit'["osem"] + Len(ofifo') + Change(t, place, Putting) + Change(t, place, Drained)
         = credit["osem"] + Len(ofifo)
    BY <1>6, <2>1, TtyTypes
  <2>9. credit'["osem"] \in Int /\ Len(ofifo') \in Int
    BY <2>1, TtyTypes
  <2> QED  BY <2>1, <2>2, <2>9, RoomKept
<1>8. InputBalance'
  <2>1. credit'["isem"] = credit["isem"] + 0
    BY TtyTypes
  <2> QED  BY <1>6, <2>1, InputKept
<1> QED  BY <1>2, <1>3, <1>5, <1>7, <1>8 DEF TtyInv

(* tty_read stores the character, or takes one back.                        *)
LEMMA ReadStoreInv ==
  ASSUME TtyInv, NEW r \in Reader, ReadStore(r)
  PROVE  TtyInv'
<1>1. r \in Task /\ ch[r] \in Char /\ len[r] \in Nat
  BY TtyTypes
<1>2. AfterStore(len[r], ch[r]) \in {"readNext", "write"}
  BY DEF AfterStore
<1>3. Stored(len[r], ch[r]) \in Nat
  <2>1. ch[r] = "delete" \/ ch[r] = "newline" \/ ch[r] = "plain"
    BY <1>1 DEF Char
  <2>2. ReadSize \in Nat
    BY TtyAssumption
  <2> QED  BY <1>1, <2>1, <2>2 DEF Stored
<1>4. len' \in [Reader -> Nat]
  BY <1>3, TtyTypes DEF ReadStore
<1> QED  BY <1>1, <1>2, <1>4, TtyTypes, OutsideInv DEF ReadStore, Outside

(* tty_read returns a line or a full buffer.                                *)
LEMMA ReadReturnInv ==
  ASSUME TtyInv, NEW r \in Reader, ReadReturn(r)
  PROVE  TtyInv'
<1>1. r \in Task /\ ch' \in [Task -> Char] /\ len' \in [Reader -> Nat]
  BY TtyTypes DEF ReadReturn, Char
<1> QED  BY <1>1, TtyTypes, OutsideInv DEF ReadReturn, Outside

(* tty_write begins with a character.                                       *)
LEMMA WriteCallInv ==
  ASSUME TtyInv, NEW w \in Writer, NEW c \in Char, WriteCall(w, c)
  PROVE  TtyInv'
<1>1. w \in Task /\ ch' \in [Task -> Char]
  BY TtyTypes DEF WriteCall
<1> QED  BY <1>1, TtyTypes, OutsideInv DEF WriteCall, Outside

(* console_write found the fifo empty and gives the mutex up.               *)
LEMMA DrainEndInv ==
  ASSUME TtyInv, NEW t \in Task, DrainEnd(t)
  PROVE  TtyInv'
<1>1. line' = [line EXCEPT !["console"] = Tail(@)] /\ line["console"] # <<>>
  BY Zenon DEF DrainEnd, Console!Leave
<1>2. Tail(line["console"]) \in Seq(Task)
  BY <1>1, TtyTypes
<1>3. line' \in [{"console"} -> Seq(Task)]
  BY <1>1, <1>2, TtyTypes
<1>4. WriteDone(t) \in {"user", "readNext"} /\ (WriteDone(t) = "readNext" => t \in Reader)
  BY DEF WriteDone
<1> QED  BY <1>3, <1>4, TtyTypes, OutsideInv DEF DrainEnd, Outside

-----------------------------------------------------------------------------
(* The calls of sem_wait: the credit goes to the task.                      *)

(* tty_read asks isem for a character.                                      *)
LEMMA ReadWaitInv ==
  ASSUME TtyInv, NEW r \in Reader, ReadCall(r) \/ ReadMore(r)
  PROVE  TtyInv'
<1>1. /\ r \in Task /\ pc[r] \in {"user", "readNext"}
      /\ Sems!Wait(r, "isem") /\ Goto(r, "readWait")
      /\ UNCHANGED <<ififo, ofifo, line>>
  BY TtyTypes DEF ReadCall, ReadMore
<1>2. TtyTypeOK'
  <2>1. pc' \in [Task -> Writing \cup {"user", "readWait", "readStore", "readNext"}]
    BY <1>1, TtyTypes DEF Goto
  <2>2. ch' \in [Task -> Char] /\ len' \in [Reader -> Nat]
    <3>1. CASE ReadCall(r)
      BY <3>1, TtyTypes DEF ReadCall
    <3>2. CASE ReadMore(r)
      BY <1>1, <3>2, TtyTypes DEF ReadMore, Char
    <3> QED  BY <3>1, <3>2
  <2> QED  BY <1>1, <2>1, <2>2, TtyTypes, WaitEffect, TtyTypesAfter
<1>3. ReadersRead'
  BY <1>1, ReadersKept
<1>4. /\ credit'["isem"] = credit["isem"] + (-1)
      /\ credit'["osem"] = credit["osem"] + 0 /\ semLine'["osem"] = semLine["osem"]
      /\ Len(ofifo') = Len(ofifo) + 0
  BY <1>1, TtyTypes, WaitEffect
<1>5. WaitLists'
  <2>1. WaitList(semLine'["isem"], credit'["isem"], At(Taking)')
    <3>1. "readWait" \in Taking /\ pc[r] \notin Taking
      BY <1>1 DEF Taking
    <3> QED  BY <1>1, <3>1, ListJoined DEF TtyInv, WaitLists
  <2>2. WaitList(semLine'["osem"], credit'["osem"], At(Putting)')
    <3>1. pc[r] \notin Putting /\ credit'["osem"] = credit["osem"]
      BY <1>1, <1>4, TtyTypes DEF Putting
    <3> QED  BY <1>1, <1>4, <3>1, ListKept DEF TtyInv, WaitLists
  <2> QED  BY <2>1, <2>2 DEF WaitLists
<1>6. /\ Change(r, "readWait", Putting) = 0 /\ Change(r, "readWait", Drained) = 0
      /\ Change(r, "readWait", Taking) = 1
  BY <1>1 DEF Change, Putting, Drained, Taking
<1>7. RoomBalance'
  <2>1. credit'["osem"] + Len(ofifo') + Change(r, "readWait", Putting) + Change(r, "readWait", Drained)
         = credit["osem"] + Len(ofifo)
    BY <1>6, <1>4, TtyTypes
  <2>9. credit'["osem"] \in Int /\ Len(ofifo') \in Int
    BY <1>4, TtyTypes
  <2> QED  BY <1>1, <1>4, <2>1, <2>9, RoomKept
<1>8. InputBalance'
  BY <1>1, <1>4, <1>6, InputKept
<1> QED  BY <1>2, <1>3, <1>5, <1>7, <1>8 DEF TtyInv

(* tty_write asks osem for a place.                                         *)
LEMMA WriteWaitInv ==
  ASSUME TtyInv, NEW t \in Task, WriteBegin(t) \/ WriteNext(t)
  PROVE  TtyInv'
<1>1. PICK place \in Putting : Goto(t, place)
  BY DEF WriteBegin, WriteNext, Putting
<1>2. /\ pc[t] \in {"write", "writeCrDone"} /\ Sems!Wait(t, "osem")
      /\ UNCHANGED <<ififo, ofifo, line, ch, len>>
  BY DEF WriteBegin, WriteNext
<1>3. TtyTypeOK'
  <2>1. pc' \in [Task -> Writing \cup {"user", "readWait", "readStore", "readNext"}]
    BY <1>1, TtyTypes DEF Goto, Putting, Writing
  <2> QED  BY <1>2, <2>1, TtyTypes, WaitEffect, TtyTypesAfter
<1>4. ReadersRead'
  BY <1>1, ReadersKept DEF Putting
<1>5. /\ credit'["osem"] = credit["osem"] + (-1)
      /\ credit'["isem"] = credit["isem"] + 0 /\ semLine'["isem"] = semLine["isem"]
      /\ Len(ofifo') = Len(ofifo) + 0
  BY <1>2, TtyTypes, WaitEffect
<1>6. WaitLists'
  <2>1. WaitList(semLine'["osem"], credit'["osem"], At(Putting)')
    <3>1. pc[t] \notin Putting
      BY <1>2 DEF Putting
    <3> QED  BY <1>1, <1>2, <3>1, ListJoined DEF TtyInv, WaitLists
  <2>2. WaitList(semLine'["isem"], credit'["isem"], At(Taking)')
    <3>1. pc[t] \notin Taking /\ credit'["isem"] = credit["isem"]
      BY <1>2, <1>5, TtyTypes DEF Taking
    <3> QED  BY <1>1, <1>5, <3>1, ListKept DEF TtyInv, WaitLists
  <2> QED  BY <2>1, <2>2 DEF WaitLists
<1>7. /\ Change(t, place, Putting) = 1 /\ Change(t, place, Drained) = 0
      /\ Change(t, place, Taking) = 0
  BY <1>1, <1>2 DEF Change, Putting, Drained, Taking
<1>8. RoomBalance'
  <2>1. credit'["osem"] + Len(ofifo') + Change(t, place, Putting) + Change(t, place, Drained)
         = credit["osem"] + Len(ofifo)
    BY <1>7, <1>5, TtyTypes
  <2>9. credit'["osem"] \in Int /\ Len(ofifo') \in Int
    BY <1>5, TtyTypes
  <2> QED  BY <1>1, <1>5, <2>1, <2>9, RoomKept
<1>9. InputBalance'
  BY <1>1, <1>2, <1>5, <1>7, InputKept
<1> QED  BY <1>3, <1>4, <1>6, <1>8, <1>9 DEF TtyInv

-----------------------------------------------------------------------------
(* A task that was let through by osem finds room, and a character takes    *)
(* the place of its unit.                                                   *)

(* A put of a task that passed osem never fails.                            *)
LEMMA PassedHasRoom ==
  ASSUME TtyInv, NEW t \in Task, pc[t] \in Putting, Passed(t, "osem")
  PROVE  HasRoom
<1> DEFINE n == Len(ofifo)
           c == Count("osem")
           f == InFlight("osem", Putting)
           k == credit["osem"]
           p == Cardinality(At(Putting))
           d == Cardinality(At(Drained))
<1>1. t \in At(Putting)
  BY DEF At
<1>2. WaitList(semLine["osem"], credit["osem"], At(Putting)) /\ credit["osem"] \in Int
  BY TtyTypes DEF TtyInv, WaitLists
<1>3. c + f = k + p /\ c \in Nat /\ f \in Nat /\ f > 0
  BY <1>1, <1>2, Units
<1>4. n \in Nat /\ k \in Int /\ p \in Nat /\ d \in Nat /\ k + n + p + d = OBuf /\ OBuf \in Nat
  BY TtyTypes, AtFinite DEF TtyInv, RoomBalance
<1> HIDE DEF n, c, f, k, p, d
<1>5. n < OBuf
  BY <1>3, <1>4
<1> QED  BY <1>5 DEF HasRoom, n

(* The character takes the place; the unit is used up.                      *)
LEMMA PutInv ==
  ASSUME TtyInv, NEW t \in Task, WriteCr(t) \/ WriteCh(t)
  PROVE  TtyInv'
<1>1. /\ pc[t] \in Putting /\ Passed(t, "osem")
      /\ UNCHANGED <<ififo, credit, semLine, ch, len>>
  BY DEF WriteCr, WriteCh, Putting
<1>2. HasRoom
  BY <1>1, PassedHasRoom
<1>3. PICK place \in {"writeCrDone", "drain"} : Goto(t, place)
  BY <1>2 DEF WriteCr, WriteCh
<1>4. PICK c \in Char \cup {"return"} : ofifo' = Append(ofifo, c)
  <2>1. ch[t] \in Char
    BY TtyTypes
  <2> QED  BY <1>2, <2>1 DEF WriteCr, WriteCh, Put, HasRoom
<1>5. ofifo' \in Seq(Char \cup {"return"}) /\ Len(ofifo') = Len(ofifo) + 1
  BY <1>4, TtyTypes
<1>6. line' \in [{"console"} -> Seq(Task)]
  <2>1. CASE WriteCr(t)
    BY <2>1, TtyTypes DEF WriteCr
  <2>2. CASE WriteCh(t)
    <3>1. line' = [line EXCEPT !["console"] = Append(@, t)]
      BY <1>2, <2>2, Zenon DEF WriteCh, Console!Enter
    <3>2. Append(line["console"], t) \in Seq(Task)
      BY TtyTypes
    <3> QED  BY <3>1, <3>2, TtyTypes
  <2> QED  BY <2>1, <2>2
<1>7. TtyTypeOK'
  <2>1. pc' \in [Task -> Writing \cup {"user", "readWait", "readStore", "readNext"}]
    BY <1>3, TtyTypes DEF Goto, Writing
  <2>2. Len(ofifo') <= OBuf
    BY <1>2, <1>5, TtyTypes DEF HasRoom
  <2> QED  BY <1>1, <1>5, <1>6, <2>1, <2>2, TtyTypes, TtyTypesAfter
<1>8. ReadersRead'
  BY <1>3, ReadersKept
<1>9. WaitLists'
  <2>1. WaitList(semLine'["osem"], credit'["osem"], At(Putting)')
    BY <1>1, <1>3, ListKept DEF TtyInv, WaitLists
  <2>2. WaitList(semLine'["isem"], credit'["isem"], At(Taking)')
    <3>1. pc[t] \notin Taking
      BY <1>1 DEF Putting, Taking
    <3> QED  BY <1>1, <1>3, <3>1, ListKept DEF TtyInv, WaitLists
  <2> QED  BY <2>1, <2>2 DEF WaitLists
<1>10. /\ Change(t, place, Putting) = -1 /\ Change(t, place, Drained) = 0
       /\ Change(t, place, Taking) = 0
  BY <1>1, <1>3 DEF Change, Putting, Drained, Taking
<1>11. /\ credit'["osem"] = credit["osem"] + 0
       /\ credit'["isem"] = credit["isem"] + 0
  BY <1>1, TtyTypes
<1>12. RoomBalance'
  <2>1. credit'["osem"] + Len(ofifo') + Change(t, place, Putting) + Change(t, place, Drained)
         = credit["osem"] + Len(ofifo)
    BY <1>10, <1>5, <1>11, TtyTypes
  <2>9. credit'["osem"] \in Int /\ Len(ofifo') \in Int
    BY <1>5, <1>11, TtyTypes
  <2> QED  BY <1>3, <1>5, <1>11, <2>1, <2>9, RoomKept
<1>13. InputBalance'
  BY <1>1, <1>3, <1>10, <1>11, InputKept
<1> QED  BY <1>7, <1>8, <1>9, <1>12, <1>13 DEF TtyInv

(* console_write takes a character: its room is owed until the notification *)
LEMMA DrainGetInv ==
  ASSUME TtyInv, NEW t \in Task, DrainGet(t)
  PROVE  TtyInv'
<1>1. /\ pc[t] = "drain" /\ ofifo # <<>> /\ ofifo' = Tail(ofifo) /\ Goto(t, "drained")
      /\ UNCHANGED <<ififo, credit, semLine, line, ch, len>>
  BY DEF DrainGet
<1>2. ofifo' \in Seq(Char \cup {"return"}) /\ Len(ofifo') = Len(ofifo) + (-1)
  BY <1>1, TtyTypes
<1>3. TtyTypeOK'
  <2>1. pc' \in [Task -> Writing \cup {"user", "readWait", "readStore", "readNext"}]
    BY <1>1, TtyTypes DEF Goto, Writing
  <2>2. Len(ofifo') <= OBuf
    BY <1>2, TtyTypes
  <2> QED  BY <1>1, <1>2, <2>1, <2>2, TtyTypes, TtyTypesAfter
<1>4. ReadersRead'
  BY <1>1, ReadersKept
<1>5. pc[t] \notin Putting /\ pc[t] \notin Taking
  BY <1>1 DEF Putting, Taking
<1>6. WaitLists'
  <2>1. WaitList(semLine'["osem"], credit'["osem"], At(Putting)')
    BY <1>1, <1>5, ListKept DEF TtyInv, WaitLists
  <2>2. WaitList(semLine'["isem"], credit'["isem"], At(Taking)')
    BY <1>1, <1>5, ListKept DEF TtyInv, WaitLists
  <2> QED  BY <2>1, <2>2 DEF WaitLists
<1>7. /\ Change(t, "drained", Putting) = 0 /\ Change(t, "drained", Drained) = 1
      /\ Change(t, "drained", Taking) = 0
  BY <1>1 DEF Change, Putting, Drained, Taking
<1>8. /\ credit'["osem"] = credit["osem"] + 0
      /\ credit'["isem"] = credit["isem"] + 0
  BY <1>1, TtyTypes
<1>9. RoomBalance'
  <2>1. credit'["osem"] + Len(ofifo') + Change(t, "drained", Putting) + Change(t, "drained", Drained)
         = credit["osem"] + Len(ofifo)
    BY <1>7, <1>2, <1>8, TtyTypes
  <2>9. credit'["osem"] \in Int /\ Len(ofifo') \in Int
    BY <1>2, <1>8, TtyTypes
  <2> QED  BY <1>1, <1>2, <1>8, <2>1, <2>9, RoomKept
<1>10. InputBalance'
  BY <1>1, <1>7, <1>8, InputKept
<1> QED  BY <1>3, <1>4, <1>6, <1>9, <1>10 DEF TtyInv

(* console_write gives the place back.                                      *)
LEMMA DrainNotifyInv ==
  ASSUME TtyInv, NEW t \in Task, DrainNotify(t)
  PROVE  TtyInv'
<1>1. /\ pc[t] = "drained" /\ Sems!Notify("osem") /\ Goto(t, "drain")
      /\ UNCHANGED <<ififo, ofifo, line, ch, len>>
  BY DEF DrainNotify
<1>2. TtyTypeOK'
  <2>1. pc' \in [Task -> Writing \cup {"user", "readWait", "readStore", "readNext"}]
    BY <1>1, TtyTypes DEF Goto, Writing
  <2> QED  BY <1>1, <2>1, TtyTypes, NotifyEffect, TtyTypesAfter
<1>3. ReadersRead'
  BY <1>1, ReadersKept
<1>4. /\ credit'["osem"] = credit["osem"] + 1
      /\ credit'["isem"] = credit["isem"] + 0 /\ semLine'["isem"] = semLine["isem"]
      /\ Len(ofifo') = Len(ofifo) + 0
  BY <1>1, TtyTypes, NotifyEffect
<1>5. WaitLists'
  <2>1. WaitList(semLine'["osem"], credit'["osem"], At(Putting)')
    <3>1. At(Putting)' = At(Putting)
      <4>1. "drain" \notin Putting /\ t \notin At(Putting)
        BY <1>1 DEF At, Putting
      <4>2. At(Putting)' = IF "drain" \in Putting THEN At(Putting) \cup {t} ELSE At(Putting) \ {t}
        BY <1>1, TtyTypes, Moving
      <4> QED  BY <4>1, <4>2
    <3>2. credit["osem"] \in Int /\ WaitList(semLine["osem"], credit["osem"], At(Putting))
      BY TtyTypes DEF TtyInv, WaitLists
    <3>3. WaitList(IF credit["osem"] < 0 THEN Tail(semLine["osem"]) ELSE semLine["osem"],
                   credit["osem"] + 1, At(Putting))
      BY <3>2, NotifyServes
    <3> QED  BY <1>1, <3>1, <3>3, NotifyEffect
  <2>2. WaitList(semLine'["isem"], credit'["isem"], At(Taking)')
    <3>1. pc[t] \notin Taking /\ credit'["isem"] = credit["isem"]
      BY <1>1, <1>4, TtyTypes DEF Taking
    <3> QED  BY <1>1, <1>4, <3>1, ListKept DEF TtyInv, WaitLists
  <2> QED  BY <2>1, <2>2 DEF WaitLists
<1>6. /\ Change(t, "drain", Putting) = 0 /\ Change(t, "drain", Drained) = -1
      /\ Change(t, "drain", Taking) = 0
  BY <1>1 DEF Change, Putting, Drained, Taking
<1>7. RoomBalance'
  <2>1. credit'["osem"] + Len(ofifo') + Change(t, "drain", Putting) + Change(t, "drain", Drained)
         = credit["osem"] + Len(ofifo)
    BY <1>6, <1>4, TtyTypes
  <2>9. credit'["osem"] \in Int /\ Len(ofifo') \in Int
    BY <1>4, TtyTypes
  <2> QED  BY <1>1, <1>4, <2>1, <2>9, RoomKept
<1>8. InputBalance'
  BY <1>1, <1>4, <1>6, InputKept
<1> QED  BY <1>2, <1>3, <1>5, <1>7, <1>8 DEF TtyInv

-----------------------------------------------------------------------------
(* The input fifo.                                                          *)

(* Units of isem in terms of the balance; readers that were let through are *)
(* no more than there are readers.                                          *)
LEMMA InputUnitsBounds ==
  ASSUME TtyInv
  PROVE  /\ InputUnits = credit["isem"] + Cardinality(At(Taking))
         /\ InputUnits \in Nat /\ InputUnits <= Count("isem") + Cardinality(Reader)
         /\ \A r \in Task : pc[r] = "readWait" /\ Passed(r, "isem") => InputUnits > 0
         /\ Cardinality(Reader) \in Nat /\ Count("isem") \in Nat
<1> DEFINE c == Count("isem")
           f == InFlight("isem", Taking)
           k == credit["isem"]
           p == Cardinality(At(Taking))
           n == Cardinality(Reader)
<1>1. WaitList(semLine["isem"], credit["isem"], At(Taking)) /\ credit["isem"] \in Int
  BY TtyTypes DEF TtyInv, WaitLists
<1>2. /\ c + f = k + p /\ c \in Nat /\ f \in Nat /\ f <= p
      /\ \A t \in At(Taking) : Passed(t, "isem") => f > 0
  BY <1>1, Units
<1>3. At(Taking) \in SUBSET Reader
  BY DEF TtyInv, ReadersRead, At, Taking
<1>4. n \in Nat /\ p \in Nat /\ p <= n
  <2>1. IsFiniteSet(Reader)
    BY TtyTypes, TtyAssumption, FS_Subset
  <2> QED  BY <1>3, <2>1, AtFinite, FS_Subset, FS_CardinalityType
<1>5. InputUnits = c + f
  BY DEF InputUnits, Taking
<1>6. \A r \in Task : pc[r] = "readWait" /\ Passed(r, "isem") => f > 0
  BY <1>2 DEF At, Taking
<1> HIDE DEF c, f, k, p, n
<1>7. c + f = k + p /\ c + f \in Nat /\ c + f <= c + n /\ (f > 0 => c + f > 0)
  BY <1>2, <1>4
<1>8. InputUnits = k + p /\ InputUnits \in Nat /\ InputUnits <= c + n
  BY <1>5, <1>7
<1>9. \A r \in Task : pc[r] = "readWait" /\ Passed(r, "isem") => InputUnits > 0
  BY <1>5, <1>6, <1>7
<1> QED  BY <1>2, <1>4, <1>8, <1>9 DEF c, k, p, n

(* A reader that passed takes a character, or finds a unit without one.     *)
LEMMA ReadGetInv ==
  ASSUME TtyInv, NEW r \in Reader, ReadGet(r)
  PROVE  TtyInv'
<1>1. /\ r \in Task /\ pc[r] = "readWait" /\ Passed(r, "isem") /\ Goto(r, "readStore")
      /\ UNCHANGED <<ofifo, credit, semLine, line, len>>
  BY TtyTypes DEF ReadGet
<1>2. \/ ififo # <<>> /\ ififo' = Tail(ififo)
      \/ ififo = <<>> /\ ififo' = ififo
  BY DEF ReadGet
<1>3. /\ ififo' \in Seq(Char) /\ Len(ififo') \in Nat /\ Len(ififo') <= Len(ififo)
      /\ \/ Len(ififo') = Len(ififo) - 1
         \/ Len(ififo) = 0 /\ Len(ififo') = 0
  <2>1. CASE ififo # <<>> /\ ififo' = Tail(ififo)
    BY <2>1, TtyTypes
  <2>2. CASE ififo = <<>> /\ ififo' = ififo
    BY <2>2, TtyTypes
  <2> QED  BY <1>2, <2>1, <2>2
<1>4. ch' \in [Task -> Char]
  <2>1. ififo # <<>> => Head(ififo) \in Char
    BY TtyTypes
  <2> QED  BY <1>1, <2>1, TtyTypes DEF ReadGet
<1>5. TtyTypeOK'
  <2>1. pc' \in [Task -> Writing \cup {"user", "readWait", "readStore", "readNext"}]
    BY <1>1, TtyTypes DEF Goto
  <2>2. Len(ififo') <= IBuf
    BY <1>3, TtyTypes
  <2> QED  BY <1>1, <1>3, <1>4, <2>1, <2>2, TtyTypes, TtyTypesAfter
<1>6. ReadersRead'
  BY <1>1, ReadersKept
<1>7. WaitLists'
  <2>1. WaitList(semLine'["isem"], credit'["isem"], At(Taking)')
    BY <1>1, ListKept DEF TtyInv, WaitLists
  <2>2. WaitList(semLine'["osem"], credit'["osem"], At(Putting)')
    <3>1. pc[r] \notin Putting
      BY <1>1 DEF Putting
    <3> QED  BY <1>1, <3>1, ListKept DEF TtyInv, WaitLists
  <2> QED  BY <2>1, <2>2 DEF WaitLists
<1>8. /\ Change(r, "readStore", Putting) = 0 /\ Change(r, "readStore", Drained) = 0
      /\ Change(r, "readStore", Taking) = -1
  BY <1>1 DEF Change, Putting, Drained, Taking
<1>9. RoomBalance'
  <2>1. credit'["osem"] + Len(ofifo') + Change(r, "readStore", Putting)
          + Change(r, "readStore", Drained) = credit["osem"] + Len(ofifo)
    BY <1>1, <1>8, TtyTypes
  <2>2. credit'["osem"] \in Int /\ Len(ofifo') \in Int
    BY <1>1, TtyTypes
  <2> QED  BY <1>1, <2>1, <2>2, RoomKept
<1>10. InputBalance'
  <2> DEFINE k == credit["isem"]
             p == Cardinality(At(Taking))
             n == Cardinality(Reader)
             m == Len(ififo)
             q == Len(ififo')
  <2>1. Cardinality(At(Taking)') = p + (-1)
    <3>1. Cardinality(At(Taking)') = p + Change(r, "readStore", Taking)
      BY <1>1, TtyTypes, Moving
    <3> QED  BY <1>8, <3>1
  <2>2. /\ k \in Int /\ p \in Nat /\ n \in Nat /\ m \in Nat /\ q \in Nat
        /\ m <= k + p /\ k + p <= m + n /\ k + p > 0
        /\ q = m - 1 \/ (m = 0 /\ q = 0)
    <3>1. k \in Int /\ p \in Nat /\ n \in Nat /\ m \in Nat /\ q \in Nat
      BY <1>3, TtyTypes, AtFinite, InputUnitsBounds
    <3>2. m <= k + p /\ k + p <= m + n
      BY DEF TtyInv, InputBalance
    <3>3. k + p > 0
      BY <1>1, InputUnitsBounds
    <3> QED  BY <1>3, <3>1, <3>2, <3>3
  <2> HIDE DEF k, p, n, m, q
  <2>3. q <= k + (p + (-1)) /\ k + (p + (-1)) <= q + n
    BY <2>2
  <2>4. credit'["isem"] = k
    BY <1>1 DEF k
  <2> QED  BY <2>1, <2>3, <2>4 DEF InputBalance, q, n
<1> QED  BY <1>5, <1>6, <1>7, <1>9, <1>10 DEF TtyInv

(* The keyboard handler adds a unit, and a character unless the fifo is     *)
(* full of characters that readers have passed isem for.                    *)
LEMMA KeyInv ==
  ASSUME TtyInv, NEW c \in Char, Key(c)
  PROVE  TtyInv'
<1>1. /\ Count("isem") < IBuf /\ ififo' = Put(ififo, c, IBuf) /\ Sems!Notify("isem")
      /\ UNCHANGED <<ofifo, line, pc, ch, len>>
  BY DEF Key
<1>2. /\ ififo' \in Seq(Char) /\ Len(ififo') \in Nat /\ Len(ififo') <= IBuf
      /\ \/ Len(ififo') = Len(ififo) + 1
         \/ Len(ififo') = Len(ififo) /\ Len(ififo) = IBuf
  <2>1. CASE Len(ififo) < IBuf
    BY <1>1, <2>1, TtyTypes DEF Put
  <2>2. CASE ~ (Len(ififo) < IBuf)
    BY <1>1, <2>2, TtyTypes DEF Put
  <2> QED  BY <2>1, <2>2
<1>3. TtyTypeOK'
  BY <1>1, <1>2, TtyTypes, NotifyEffect, TtyTypesAfter
<1>4. \A places : At(places)' = At(places)
  BY <1>1 DEF At
<1>5. ReadersRead'
  BY <1>1 DEF TtyInv, ReadersRead, At
<1>6. /\ credit'["isem"] = credit["isem"] + 1
      /\ credit'["osem"] = credit["osem"] /\ semLine'["osem"] = semLine["osem"]
  BY <1>1, TtyTypes, NotifyEffect
<1>7. WaitLists'
  <2>1. WaitList(semLine'["isem"], credit'["isem"], At(Taking))
    <3>1. credit["isem"] \in Int /\ WaitList(semLine["isem"], credit["isem"], At(Taking))
      BY TtyTypes DEF TtyInv, WaitLists
    <3>2. WaitList(IF credit["isem"] < 0 THEN Tail(semLine["isem"]) ELSE semLine["isem"],
                   credit["isem"] + 1, At(Taking))
      BY <3>1, NotifyServes
    <3> QED  BY <1>1, <3>2, NotifyEffect
  <2>2. WaitList(semLine'["osem"], credit'["osem"], At(Putting))
    BY <1>6 DEF TtyInv, WaitLists
  <2> QED  BY <1>4, <2>1, <2>2 DEF WaitLists
<1>8. RoomBalance'
  BY <1>1, <1>4, <1>6 DEF TtyInv, RoomBalance
<1>9. InputBalance'
  <2> DEFINE k == credit["isem"]
             p == Cardinality(At(Taking))
             n == Cardinality(Reader)
             m == Len(ififo)
             q == Len(ififo')
             u == Count("isem")
  <2>1. /\ k \in Int /\ p \in Nat /\ n \in Nat /\ m \in Nat /\ q \in Nat /\ u \in Nat
        /\ IBuf \in Nat
    BY <1>2, TtyTypes, AtFinite, InputUnitsBounds
  <2>2. m <= k + p /\ k + p <= m + n
    BY DEF TtyInv, InputBalance
  <2>3. k + p <= u + n
    BY InputUnitsBounds
  <2>4. u < IBuf /\ (q = m + 1 \/ (q = m /\ m = IBuf))
    BY <1>1, <1>2
  <2> HIDE DEF k, p, n, m, q, u
  <2>5. q <= (k + 1) + p /\ (k + 1) + p <= q + n
    BY <2>1, <2>2, <2>3, <2>4
  <2>6. credit'["isem"] = k + 1 /\ Cardinality(At(Taking)') = p
    BY <1>4, <1>6 DEF k, p
  <2> QED  BY <2>5, <2>6 DEF InputBalance, q, n
<1> QED  BY <1>3, <1>5, <1>7, <1>8, <1>9 DEF TtyInv

-----------------------------------------------------------------------------
(* The fifos are empty, osem has a unit for every place.                    *)
LEMMA TtyInitInv == Init => TtyInv
<1> SUFFICES ASSUME Init
             PROVE  TtyInv
  OBVIOUS
<1>1. /\ credit = [s \in {"isem", "osem"} |-> IF s = "osem" THEN OBuf ELSE 0]
      /\ semLine = [s \in {"isem", "osem"} |-> <<>>]
  BY Zenon DEF Init, Sems!CreditInit
<1>2. line = [l \in {"console"} |-> <<>>]
  BY Zenon DEF Init, Console!LockInit
<1>3. credit["osem"] = OBuf /\ credit["isem"] = 0 /\ OBuf \in Nat /\ IBuf \in Nat
  BY <1>1, TtyAssumption
<1>4. TtyTypeOK
  <2>1. credit \in [{"isem", "osem"} -> Int]
    BY <1>1, <1>3
  <2>2. semLine \in [{"isem", "osem"} -> Seq(Task)] /\ line \in [{"console"} -> Seq(Task)]
    BY <1>1, <1>2
  <2>3. line["console"] \in Seq(Task) /\ \A s \in {"isem", "osem"} : semLine[s] \in Seq(Task)
    BY <2>2
  <2> QED  BY <1>3, <2>1, <2>2, <2>3 DEF Init, TtyTypeOK, TypeOK, Char, Writing
<1>5. At(Taking) = {} /\ At(Putting) = {} /\ At(Drained) = {} /\ ReadersRead
  BY DEF Init, At, Taking, Putting, Drained, ReadersRead
<1>6. WaitLists
  <2>1. \A P : WaitList(<<>>, 0, P) /\ WaitList(<<>>, OBuf, P)
    BY <1>3 DEF WaitList, IsInjective, Range
  <2>2. semLine["isem"] = <<>> /\ semLine["osem"] = <<>>
    BY <1>1
  <2> QED  BY <1>3, <2>1, <2>2 DEF WaitLists, WaitList
<1>7. Len(ififo) = 0 /\ Len(ofifo) = 0 /\ Cardinality({}) = 0
  BY FS_EmptySet DEF Init
<1>8. Cardinality(Reader) \in Nat
  BY TtyAssumption, FS_Subset, FS_CardinalityType DEF Task
<1>9. RoomBalance /\ InputBalance
  BY <1>3, <1>5, <1>7, <1>8 DEF RoomBalance, InputBalance
<1> QED  BY <1>4, <1>5, <1>6, <1>9 DEF TtyInv

(* Every step keeps the invariant.                                          *)
LEMMA TtyNextInv == TtyInv /\ [Next]_vars => TtyInv'
<1> SUFFICES ASSUME TtyInv, [Next]_vars
             PROVE  TtyInv'
  OBVIOUS
<1>1. CASE UNCHANGED vars
  BY <1>1 DEF vars, TtyInv, TtyTypeOK, TypeOK, ReadersRead, WaitLists, RoomBalance,
              InputBalance, At
<1>2. CASE \E c \in Char : Key(c)
  BY <1>2, KeyInv
<1>3. ASSUME NEW t \in Task, WriteStep(t)
      PROVE  TtyInv'
  BY <1>3, WriteWaitInv, PutInv, DrainGetInv, DrainNotifyInv, DrainEndInv DEF WriteStep
<1>4. ASSUME NEW r \in Reader, ReadStep(r) \/ ReadCall(r)
      PROVE  TtyInv'
  BY <1>4, ReadGetInv, ReadStoreInv, ReadWaitInv, ReadReturnInv DEF ReadStep
<1>5. CASE \E w \in Writer, c \in Char : WriteCall(w, c)
  BY <1>5, WriteCallInv
<1> QED  BY <1>1, <1>2, <1>3, <1>4, <1>5 DEF Next

(* The inductive invariant in every behaviour.                              *)
LEMMA TtySpecInv == Spec => []TtyInv
<1> QED  BY TtyInitInv, TtyNextInv, PTL DEF Spec

-----------------------------------------------------------------------------
(* Every place of the output fifo is free in osem, filled, or in the hands  *)
(* of one task (sem_wait of tty_write, tty_fifo_put, and the loop of        *)
(* console_write that gives the place back): no room is lost or invented.   *)
THEOREM SpecRoomConserved == Spec => []RoomConserved
<1>1. ASSUME TtyInv
      PROVE  RoomConserved
  <2>1. WaitList(semLine["osem"], credit["osem"], At(Putting)) /\ credit["osem"] \in Int
    BY <1>1, TtyTypes DEF TtyInv, WaitLists
  <2> DEFINE c == Count("osem")
             f == InFlight("osem", Putting)
             k == credit["osem"]
             p == Cardinality(At(Putting))
             d == Cardinality(At(Drained))
             n == Len(ofifo)
  <2>2. c + f = k + p /\ c \in Nat /\ f \in Nat
    BY <2>1, Units
  <2>3. k + n + p + d = OBuf /\ k \in Int /\ n \in Nat /\ p \in Nat /\ d \in Nat
    BY <1>1, TtyTypes, AtFinite DEF TtyInv, RoomBalance
  <2>4. Owing = d
    <3>1. At(Drained) = {t \in Task : pc[t] = "drained"}
      BY DEF At, Drained
    <3> QED  BY <3>1 DEF Owing
  <2>5. InFlight("osem", {"writeCr", "writeCh"}) = f
    BY DEF Putting
  <2> HIDE DEF c, f, k, p, d, n
  <2>6. c + n + f + d = OBuf
    BY <2>2, <2>3
  <2> QED  BY <2>4, <2>5, <2>6 DEF RoomConserved, c, n
<1> QED  BY <1>1, TtySpecInv, PTL

(* A character in the input fifo has a unit of isem for a reader to take it *)
(* with, and there are at most as many units without a character as there   *)
(* are readers (tty_in and tty_read).                                       *)
THEOREM SpecInputMatched == Spec => []InputMatched
<1>1. ASSUME TtyInv
      PROVE  InputMatched
  <2>1. InputUnits = credit["isem"] + Cardinality(At(Taking))
    BY <1>1, InputUnitsBounds
  <2> QED  BY <1>1, <2>1 DEF TtyInv, InputBalance, InputMatched
<1> QED  BY <1>1, TtySpecInv, PTL

(* tty_fifo_put in tty_write finds room whenever it is called, so tty_write *)
(* never gives up in the middle of a text, whatever other writers, echoing  *)
(* readers and the screen do between its sem_wait and its put.              *)
PutsFindRoom == [][\A t \in Task : WriteCr(t) \/ WriteCh(t) => HasRoom]_vars

(* PutsFindRoom in every behaviour.                                         *)
THEOREM SpecPutsFindRoom == Spec => PutsFindRoom
<1>1. TtyInv => \A t \in Task : WriteCr(t) \/ WriteCh(t) => HasRoom
  BY PassedHasRoom DEF WriteCr, WriteCh, Putting
<1> QED  BY <1>1, TtySpecInv, PTL DEF PutsFindRoom

=============================================================================
