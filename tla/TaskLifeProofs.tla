--------------------------- MODULE TaskLifeProofs ---------------------------
(* Proofs about TaskLife: every child always has a parent that can wait for  *)
(* it, and a wake-up of a waiting parent is lost in one way only, for a task *)
(* table of any size; and, about Selectors, every process is switched to    *)
(* through a descriptor of its own, for a GDT of any size.                  *)
EXTENDS Selectors, FiniteSetTheorems, TLAPS

-----------------------------------------------------------------------------
(* The inductive invariant.                                                 *)

LifeTypeOK == TypeOK /\ line \in [{"task_table"} -> Seq(Task)]

(* task_t.state says where a task is, and a loop index is at its first      *)
(* value outside the loops.                                                 *)
StateOfPlace ==
  \A t \in Task :
    /\ state[t] = "created" <=> pc[t] = "none"
    /\ state[t] = "zombie" <=> pc[t] = "gone"
    /\ state[t] = "waiting" => pc[t] = "waitBlocked"
    /\ pc[t] \notin {"forkAlloc", "waitScan", "exitScan"} => idx[t] = 1

FirstStays == pc[First] \notin {"none", "exitScan", "exitEnd", "gone"}

(* Until a fork clashes, the slot it builds its child in is not in use and  *)
(* its own.                                                                 *)
Forking == {"forkInit", "forkLink", "forkStart"}
Picks ==
  \A t \in Task :
    /\ pick[t] # NoTask <=> pc[t] \in Forking
    /\ ~ clashed /\ pick[t] # NoTask => state[pick[t]] = "created"
    /\ pc[t] = "forkStart" => parent[pick[t]] = t
PicksDiffer == \A t, u \in Task : pick[t] # NoTask /\ pick[t] = pick[u] => t = u

(* ParentAlive, of slots that are being built too.                          *)
Family ==
  \A s \in Slot :
    /\ state[s] # "created" => parent[s] # NoTask
    /\ parent[s] # NoTask => parent[s] \in Alive /\ pc[parent[s]] # "exitEnd"

(* An exiting task has given away the children it has passed.               *)
Adopted ==
  \A t \in Task : pc[t] = "exitScan" => \A s \in Slot : s < idx[t] => parent[s] # t

(* A zombie that its parent passed, or can no longer see, was missed.       *)
Passed(p, s) == pc[p] = "waitBlock" \/ (pc[p] = "waitScan" /\ s < idx[p])
Looked ==
  \A s \in Slot, p \in Task :
    state[s] = "zombie" /\ parent[s] = p /\ Passed(p, s) => p \in missed

Whereabouts == LifeTypeOK /\ StateOfPlace /\ FirstStays
Slots == Picks /\ (~ clashed => PicksDiffer)
LifeInv == Whereabouts /\ Slots /\ Family /\ Adopted /\ Looked /\ BlockedOnlyIfMissed

-----------------------------------------------------------------------------
(* Slots, tasks and the null pointer are apart; loop indices.               *)
LEMMA Ids ==
  /\ First \in Task /\ First \notin Slot /\ Slot \subseteq Task /\ Task = Slot \cup {First}
  /\ NoTask \notin Task /\ NSlot \in Nat
  /\ \A i \in 1 .. NSlot + 1 : i \in Slot \/ i = NSlot + 1
  /\ \A s \in Slot : s < NSlot + 1 /\ ~ (s < 1)
  /\ \A s, i \in Slot : s < i + 1 <=> s < i \/ s = i
BY SlotAssumption DEF First, Slot, Task, NoTask

(* The mutex stays a line of tasks.                                        *)
LEMMA LineTypes ==
  ASSUME line \in [{"task_table"} -> Seq(Task)]
  PROVE  /\ \A t \in Task : Join(t) => line' \in [{"task_table"} -> Seq(Task)]
         /\ Leave => line' \in [{"task_table"} -> Seq(Task)]
<1>1. ASSUME NEW t \in Task, Join(t) PROVE line' \in [{"task_table"} -> Seq(Task)]
  <2>1. line' = [line EXCEPT !["task_table"] = Append(@, t)]
    BY <1>1, Zenon DEF Join, Table!Enter
  <2> QED  BY <2>1
<1>2. ASSUME Leave PROVE line' \in [{"task_table"} -> Seq(Task)]
  <2>1. line' = [line EXCEPT !["task_table"] = Tail(@)] /\ line["task_table"] # <<>>
    BY <1>2, Zenon DEF Leave, Table!Leave
  <2> QED  BY <2>1
<1> QED  BY <1>1, <1>2

(* The types, one by one.                                                   *)
LEMMA LifeTypes ==
  ASSUME LifeInv
  PROVE  /\ named \in [Slot -> BOOLEAN]
         /\ parent \in [Slot -> Task \cup {NoTask}]
         /\ state \in [Task -> {"created", "ready", "waiting", "zombie"}]
         /\ pc \in [Task -> Places]
         /\ idx \in [Task -> 1 .. NSlot + 1]
         /\ pick \in [Task -> Slot \cup {NoTask}]
         /\ moved \in [Task -> BOOLEAN]
         /\ line \in [{"task_table"} -> Seq(Task)]
         /\ missed \subseteq Task /\ clashed \in BOOLEAN
BY DEF LifeInv, Whereabouts, LifeTypeOK, TypeOK

(* The types after a step, from those of the variables.                     *)
LEMMA TypesAfter ==
  ASSUME named' \in [Slot -> BOOLEAN],
         parent' \in [Slot -> Task \cup {NoTask}],
         state' \in [Task -> {"created", "ready", "waiting", "zombie"}],
         pc' \in [Task -> Places],
         idx' \in [Task -> 1 .. NSlot + 1],
         pick' \in [Task -> Slot \cup {NoTask}],
         moved' \in [Task -> BOOLEAN],
         line' \in [{"task_table"} -> Seq(Task)],
         missed' \subseteq Task, clashed' \in BOOLEAN
  PROVE  LifeTypeOK'
<1>1. line'["task_table"] \in Seq(Task)
  OBVIOUS
<1> QED  BY <1>1 DEF LifeTypeOK, TypeOK

(* Only the first task exists at first.                                     *)
LEMMA InitLife == Init => LifeInv
<1> SUFFICES ASSUME Init
             PROVE  LifeInv
  OBVIOUS
<1>1. line = [l \in {"task_table"} |-> <<>>]
  BY Zenon DEF Init, Table!LockInit
<1>2. LifeTypeOK
  <2>1. line \in [{"task_table"} -> Seq(Task)] /\ line["task_table"] \in Seq(Task)
    BY <1>1
  <2>2. pc \in [Task -> Places] /\ idx \in [Task -> 1 .. NSlot + 1]
    BY Ids DEF Init, Places
  <2> QED  BY <2>1, <2>2, Ids DEF Init, LifeTypeOK, TypeOK
<1>3. StateOfPlace /\ FirstStays
  BY Ids DEF Init, StateOfPlace, FirstStays
<1>4. Slots
  BY Ids DEF Init, Slots, Picks, PicksDiffer, Forking
<1>5. Family /\ Adopted /\ Looked /\ BlockedOnlyIfMissed
  BY Ids DEF Init, Family, Adopted, Looked, Passed, BlockedOnlyIfMissed
<1> QED  BY <1>2, <1>3, <1>4, <1>5 DEF LifeInv, Whereabouts

(* BlockedOnlyIfMissed only concerns zombies that are there already, when   *)
(* no task begins to wait and none that waits is forgotten.                 *)
LEMMA BlockedQuiet ==
  ASSUME LifeInv,
         \A s \in Slot : state'[s] = "zombie" => state[s] = "zombie" /\ parent'[s] = parent[s],
         \A p \in Task : state'[p] = "waiting" =>
           state[p] = "waiting" /\ (p \in missed => p \in missed'),
         \A u \in Slot : moved[u] /\ pc[u] \in {"exitScan", "exitEnd"} =>
           moved'[u] /\ pc'[u] \in {"exitScan", "exitEnd"}
  PROVE  BlockedOnlyIfMissed'
<1> SUFFICES ASSUME NEW s \in Slot, state'[s] = "zombie", state'[parent'[s]] = "waiting"
             PROVE  \/ parent'[s] \in missed'
                    \/ parent'[s] = First /\ \E u \in Slot :
                         moved'[u] /\ pc'[u] \in {"exitScan", "exitEnd"}
  BY DEF BlockedOnlyIfMissed
<1>1. state[s] = "zombie" /\ parent'[s] = parent[s]
  OBVIOUS
<1>2. parent[s] \in Task
  BY <1>1, LifeTypes DEF LifeInv, Family, Alive
<1>3. state[parent[s]] = "waiting"
  BY <1>1, <1>2
<1>4. \/ parent[s] \in missed
      \/ parent[s] = First /\ \E u \in Slot : moved[u] /\ pc[u] \in {"exitScan", "exitEnd"}
  BY <1>1, <1>3 DEF LifeInv, BlockedOnlyIfMissed
<1> QED  BY <1>1, <1>2, <1>3, <1>4

(* A task in sys_fork with a slot of its own.                               *)
LEMMA PickFacts ==
  ASSUME LifeInv, ~ clashed, NEW t \in Task, pc[t] \in Forking
  PROVE  /\ pick[t] \in Slot /\ pick[t] \in Task /\ pick[t] # NoTask
         /\ state[pick[t]] = "created" /\ pc[pick[t]] = "none" /\ idx[pick[t]] = 1
         /\ pick[t] # t /\ pick[t] # First /\ state[t] = "ready"
         /\ pc[t] = "forkStart" => parent[pick[t]] = t
         /\ \A u \in Task : pick[u] = pick[t] => u = t
<1>1. pick[t] \in Slot /\ pick[t] \in Task /\ pick[t] # NoTask /\ pick[t] # First
  BY LifeTypes, Ids DEF LifeInv, Slots, Picks
<1>2. state[pick[t]] = "created"
  BY <1>1 DEF LifeInv, Slots, Picks
<1>3. pc[pick[t]] = "none" /\ idx[pick[t]] = 1
  BY <1>1, <1>2 DEF LifeInv, Whereabouts, StateOfPlace
<1>4. state[t] = "ready" /\ pick[t] # t
  BY <1>3, LifeTypes DEF LifeInv, Whereabouts, StateOfPlace, Forking
<1>5. /\ pc[t] = "forkStart" => parent[pick[t]] = t
      /\ \A u \in Task : pick[u] = pick[t] => u = t
  BY <1>1 DEF LifeInv, Slots, Picks, PicksDiffer
<1> QED  BY <1>1, <1>2, <1>3, <1>4, <1>5

(* A fork that gets in line for the table changes no slot.                  *)
LEMMA ForkCallInv == ASSUME LifeInv, ~ clashed, NEW t \in Task, ForkCall(t) PROVE LifeInv'
<1> USE DEF ForkCall, Goto, Scanning
<1>1. LifeTypeOK'
  BY LifeTypes, LineTypes, TypesAfter, Ids DEF Places
<1>2. StateOfPlace' /\ FirstStays'
  BY LifeTypes, Ids DEF LifeInv, Whereabouts, StateOfPlace, FirstStays
<1>3. Slots'
  BY LifeTypes, Ids DEF LifeInv, Whereabouts, StateOfPlace, Slots, Picks, PicksDiffer, Forking
<1>4. Family'
  BY LifeTypes, Ids DEF LifeInv, Whereabouts, StateOfPlace, FirstStays, Slots, Picks, Family, Alive
<1>5. Adopted'
  BY LifeTypes, Ids DEF LifeInv, Adopted
<1>6. Looked'
  BY LifeTypes, Ids DEF LifeInv, Looked, Passed
<1>7. BlockedOnlyIfMissed'
  BY LifeTypes, Ids DEF LifeInv, BlockedOnlyIfMissed
<1> QED  BY <1>1, <1>2, <1>3, <1>4, <1>5, <1>6, <1>7 DEF LifeInv, Whereabouts

(* A slot with a name is passed.                                            *)
LEMMA AllocSkipInv == ASSUME LifeInv, ~ clashed, NEW t \in Task, AllocSkip(t) PROVE LifeInv'
<1> USE DEF AllocSkip, Goto, Scanning
<1>1. LifeTypeOK'
  BY LifeTypes, LineTypes, TypesAfter, Ids DEF Places
<1>2. StateOfPlace' /\ FirstStays'
  BY LifeTypes, Ids DEF LifeInv, Whereabouts, StateOfPlace, FirstStays
<1>3. Slots'
  BY LifeTypes, Ids DEF LifeInv, Whereabouts, StateOfPlace, Slots, Picks, PicksDiffer, Forking
<1>4. Family'
  BY LifeTypes, Ids DEF LifeInv, Whereabouts, StateOfPlace, FirstStays, Slots, Picks, Family, Alive
<1>5. Adopted'
  BY LifeTypes, Ids DEF LifeInv, Adopted
<1>6. Looked'
  BY LifeTypes, Ids DEF LifeInv, Looked, Passed
<1>7. BlockedOnlyIfMissed'
  BY LifeTypes, Ids DEF LifeInv, BlockedOnlyIfMissed
<1> QED  BY <1>1, <1>2, <1>3, <1>4, <1>5, <1>6, <1>7 DEF LifeInv, Whereabouts

(* Unless the fork clashes, the slot that is taken is no process and no     *)
(* other fork's.                                                            *)
LEMMA AllocTakeInv == ASSUME LifeInv, ~ clashed, NEW t \in Task, AllocTake(t) PROVE LifeInv'
<1> DEFINE s == idx[t]
<1>a. /\ s \in Slot /\ pc[t] = "forkAlloc" /\ pick' = [pick EXCEPT ![t] = s]
      /\ clashed' = (state[s] # "created" \/ \E u \in Task : pick[u] = s)
      /\ Leave /\ pc' = [pc EXCEPT ![t] = "forkInit"] /\ idx' = [idx EXCEPT ![t] = 1]
      /\ UNCHANGED <<named, parent, state, moved, missed>>
  BY DEF AllocTake, Goto, Scanning
<1> HIDE DEF s
<1>1. LifeTypeOK'
  <2>1. clashed' \in BOOLEAN
    BY <1>a, Zenon
  <2>2. pick' \in [Task -> Slot \cup {NoTask}] /\ idx' \in [Task -> 1 .. NSlot + 1]
    BY <1>a, LifeTypes, Ids
  <2>3. pc' \in [Task -> Places] /\ line' \in [{"task_table"} -> Seq(Task)]
    BY <1>a, LifeTypes, LineTypes DEF Places
  <2> QED  BY <1>a, <2>1, <2>2, <2>3, LifeTypes, TypesAfter
<1>2. StateOfPlace' /\ FirstStays'
  BY <1>a, LifeTypes, Ids DEF LifeInv, Whereabouts, StateOfPlace, FirstStays
<1>3. Slots'
  <2>1. ~ clashed' => state[s] = "created" /\ \A u \in Task : pick[u] # s
    BY <1>a
  <2>2. PicksDiffer /\ Picks
    BY DEF LifeInv, Slots
  <2>3. Picks'
    BY <1>a, <2>1, <2>2, LifeTypes, Ids DEF Picks, Forking
  <2>4. ~ clashed' => PicksDiffer'
    BY <1>a, <2>1, <2>2, LifeTypes DEF PicksDiffer
  <2> QED  BY <2>3, <2>4 DEF Slots
<1>4. Family'
  BY <1>a, LifeTypes, Ids DEF LifeInv, Family, Alive
<1>5. Adopted'
  BY <1>a, LifeTypes, Ids DEF LifeInv, Adopted
<1>6. Looked'
  BY <1>a, LifeTypes, Ids DEF LifeInv, Looked, Passed
<1>7. BlockedOnlyIfMissed'
  BY <1>a, LifeTypes, Ids DEF LifeInv, BlockedOnlyIfMissed
<1> QED  BY <1>1, <1>2, <1>3, <1>4, <1>5, <1>6, <1>7 DEF LifeInv, Whereabouts

(* A full table ends the fork.                                              *)
LEMMA AllocNoneInv == ASSUME LifeInv, ~ clashed, NEW t \in Task, AllocNone(t) PROVE LifeInv'
<1> USE DEF AllocNone, Goto, Scanning
<1>1. LifeTypeOK'
  BY LifeTypes, LineTypes, TypesAfter, Ids DEF Places
<1>2. StateOfPlace' /\ FirstStays'
  BY LifeTypes, Ids DEF LifeInv, Whereabouts, StateOfPlace, FirstStays
<1>3. Slots'
  BY LifeTypes, Ids DEF LifeInv, Whereabouts, StateOfPlace, Slots, Picks, PicksDiffer, Forking
<1>4. Family'
  BY LifeTypes, Ids DEF LifeInv, Whereabouts, StateOfPlace, FirstStays, Slots, Picks, Family, Alive
<1>5. Adopted'
  BY LifeTypes, Ids DEF LifeInv, Adopted
<1>6. Looked'
  BY LifeTypes, Ids DEF LifeInv, Looked, Passed
<1>7. BlockedOnlyIfMissed'
  BY LifeTypes, Ids DEF LifeInv, BlockedOnlyIfMissed
<1> QED  BY <1>1, <1>2, <1>3, <1>4, <1>5, <1>6, <1>7 DEF LifeInv, Whereabouts

(* A slot gets a name while it is being built, if its parent has one.       *)
LEMMA TaskInitInv == ASSUME LifeInv, ~ clashed, NEW t \in Task, TaskInit(t) PROVE LifeInv'
<1> USE DEF TaskInit, Goto, Scanning
<1>a. pc[t] \in Forking
  BY DEF Forking
<1>b. /\ pick[t] \in Slot /\ pick[t] \in Task /\ pick[t] # NoTask
      /\ state[pick[t]] = "created" /\ pc[pick[t]] = "none" /\ idx[pick[t]] = 1
      /\ pick[t] # t /\ pick[t] # First /\ state[t] = "ready"
  BY <1>a, PickFacts
<1>1. LifeTypeOK'
  <2>1. (t = First \/ named[t]) \in BOOLEAN
    BY Zenon
  <2>2. named' \in [Slot -> BOOLEAN]
    BY <1>b, <2>1, LifeTypes, Zenon
  <2>3. /\ parent' \in [Slot -> Task \cup {NoTask}] /\ pc' \in [Task -> Places]
        /\ state' \in [Task -> {"created", "ready", "waiting", "zombie"}]
    BY <1>b, LifeTypes DEF Places
  <2> QED  BY <2>2, <2>3, LifeTypes, TypesAfter
<1>c. state' = state
  BY <1>b, LifeTypes
<1>2. StateOfPlace' /\ FirstStays'
  BY <1>c, LifeTypes, Ids DEF LifeInv, Whereabouts, StateOfPlace, FirstStays
<1>3. Slots'
  BY LifeTypes, Ids DEF LifeInv, Whereabouts, StateOfPlace, Slots, Picks, PicksDiffer, Forking
<1>4. Family'
  BY LifeTypes, Ids DEF LifeInv, Whereabouts, StateOfPlace, FirstStays, Slots, Picks, Family, Alive
<1>5. Adopted'
  BY LifeTypes, Ids DEF LifeInv, Adopted
<1>6. Looked'
  BY LifeTypes, Ids DEF LifeInv, Looked, Passed
<1>7. BlockedOnlyIfMissed'
  BY <1>b, <1>c, BlockedQuiet, LifeTypes
<1> QED  BY <1>1, <1>2, <1>3, <1>4, <1>5, <1>6, <1>7 DEF LifeInv, Whereabouts

(* The child gets a parent that is running.                                 *)
LEMMA ForkLinkInv == ASSUME LifeInv, ~ clashed, NEW t \in Task, ForkLink(t) PROVE LifeInv'
<1> USE DEF ForkLink, Goto, Scanning
<1>a. pc[t] \in Forking
  BY DEF Forking
<1>b. /\ pick[t] \in Slot /\ pick[t] \in Task /\ pick[t] # NoTask
      /\ state[pick[t]] = "created" /\ pc[pick[t]] = "none" /\ idx[pick[t]] = 1
      /\ pick[t] # t /\ pick[t] # First /\ state[t] = "ready"
  BY <1>a, PickFacts
<1>1. LifeTypeOK'
  BY LifeTypes, LineTypes, TypesAfter, Ids DEF Places
<1>2. StateOfPlace' /\ FirstStays'
  BY LifeTypes, Ids DEF LifeInv, Whereabouts, StateOfPlace, FirstStays
<1>3. Slots'
  BY LifeTypes, Ids DEF LifeInv, Whereabouts, StateOfPlace, Slots, Picks, PicksDiffer, Forking
<1>4. Family'
  BY <1>b, LifeTypes, Ids DEF LifeInv, Family, Alive
<1>5. Adopted'
  BY LifeTypes, Ids DEF LifeInv, Adopted
<1>6. Looked'
  BY LifeTypes, Ids DEF LifeInv, Looked, Passed
<1>7. BlockedOnlyIfMissed'
  BY <1>b, BlockedQuiet, LifeTypes
<1> QED  BY <1>1, <1>2, <1>3, <1>4, <1>5, <1>6, <1>7 DEF LifeInv, Whereabouts

(* A child that starts has its parent and no longer a builder.              *)
LEMMA ForkStartInv == ASSUME LifeInv, ~ clashed, NEW t \in Task, ForkStart(t) PROVE LifeInv'
<1> USE DEF ForkStart, Goto, Scanning
<1>a. pc[t] \in Forking
  BY DEF Forking
<1>b. /\ pick[t] \in Slot /\ pick[t] \in Task /\ pick[t] # NoTask
      /\ state[pick[t]] = "created" /\ pc[pick[t]] = "none" /\ idx[pick[t]] = 1
      /\ pick[t] # t /\ pick[t] # First /\ state[t] = "ready"
  BY <1>a, PickFacts
<1>1. LifeTypeOK'
  BY LifeTypes, LineTypes, TypesAfter, Ids DEF Places
<1>2. StateOfPlace' /\ FirstStays'
  BY <1>b, LifeTypes, Ids DEF LifeInv, Whereabouts, StateOfPlace, FirstStays
<1>3. Slots'
  BY LifeTypes, Ids DEF LifeInv, Whereabouts, StateOfPlace, Slots, Picks, PicksDiffer, Forking
<1>4. Family'
  BY LifeTypes, Ids DEF LifeInv, Whereabouts, StateOfPlace, FirstStays, Slots, Picks, Family, Alive
<1>5. Adopted'
  BY LifeTypes, Ids DEF LifeInv, Adopted
<1>6. Looked'
  BY LifeTypes, Ids DEF LifeInv, Looked, Passed
<1>7. BlockedOnlyIfMissed'
  BY <1>b, BlockedQuiet, LifeTypes, Ids
<1> QED  BY <1>1, <1>2, <1>3, <1>4, <1>5, <1>6, <1>7 DEF LifeInv, Whereabouts

(* A name, or none, says nothing of a process.                              *)
LEMMA ExecNameInv == ASSUME LifeInv, ~ clashed, NEW t \in Task, ExecName(t) PROVE LifeInv'
<1>1. PICK name \in BOOLEAN : named' = [named EXCEPT ![t] = name]
  BY DEF ExecName
<1>2. UNCHANGED <<parent, state, pc, idx, pick, moved, line, missed, clashed>>
  BY DEF ExecName
<1>3. named' \in [Slot -> BOOLEAN]
  BY <1>1, LifeTypes, Zenon
<1>4. LifeTypeOK'
  BY <1>2, <1>3, LifeTypes, TypesAfter
<1>5. StateOfPlace' /\ FirstStays' /\ Slots' /\ Family' /\ Adopted'
  BY <1>2 DEF LifeInv, Whereabouts, StateOfPlace, FirstStays, Slots, Picks, PicksDiffer, Family,
     Alive, Adopted
<1>6. Looked' /\ BlockedOnlyIfMissed'
  BY <1>2 DEF LifeInv, Looked, Passed, BlockedOnlyIfMissed
<1> QED  BY <1>4, <1>5, <1>6 DEF LifeInv, Whereabouts

(* A search begins at the first slot, so nothing has been passed yet.       *)
LEMMA WaitCallInv == ASSUME LifeInv, ~ clashed, NEW t \in Task, WaitCall(t) PROVE LifeInv'
<1> USE DEF WaitCall, Goto, Scanning
<1>1. LifeTypeOK'
  BY LifeTypes, LineTypes, TypesAfter, Ids DEF Places
<1>2. StateOfPlace' /\ FirstStays'
  BY LifeTypes, Ids DEF LifeInv, Whereabouts, StateOfPlace, FirstStays
<1>3. Slots'
  BY LifeTypes, Ids DEF LifeInv, Whereabouts, StateOfPlace, Slots, Picks, PicksDiffer, Forking
<1>4. Family'
  BY LifeTypes, Ids DEF LifeInv, Whereabouts, StateOfPlace, FirstStays, Slots, Picks, Family, Alive
<1>5. Adopted'
  BY LifeTypes, Ids DEF LifeInv, Adopted
<1>6. Looked'
  <2>1. idx[t] = 1 /\ \A s \in Slot : ~ (s < 1)
    BY Ids DEF LifeInv, Whereabouts, StateOfPlace
  <2> QED  BY <2>1, LifeTypes DEF LifeInv, Looked, Passed
<1>7. BlockedOnlyIfMissed'
  <2>1. state[t] # "waiting" /\ pc'[t] = "waitScan" /\ pc[t] = "user"
    BY LifeTypes DEF LifeInv, Whereabouts, StateOfPlace
  <2>2. \A u \in Task : u # t => pc'[u] = pc[u]
    BY LifeTypes
  <2> QED  BY <2>1, <2>2, Ids, BlockedQuiet
<1> QED  BY <1>1, <1>2, <1>3, <1>4, <1>5, <1>6, <1>7 DEF LifeInv, Whereabouts

(* What a search passes is no zombie child.                                 *)
LEMMA WaitSkipInv == ASSUME LifeInv, ~ clashed, NEW t \in Task, WaitSkip(t) PROVE LifeInv'
<1> USE DEF WaitSkip, Goto, Scanning
<1>1. LifeTypeOK'
  BY LifeTypes, LineTypes, TypesAfter, Ids DEF Places
<1>2. StateOfPlace' /\ FirstStays'
  BY LifeTypes, Ids DEF LifeInv, Whereabouts, StateOfPlace, FirstStays
<1>3. Slots'
  BY LifeTypes, Ids DEF LifeInv, Whereabouts, StateOfPlace, Slots, Picks, PicksDiffer, Forking
<1>4. Family'
  BY LifeTypes, Ids DEF LifeInv, Whereabouts, StateOfPlace, FirstStays, Slots, Picks, Family, Alive
<1>5. Adopted'
  BY LifeTypes, Ids DEF LifeInv, Adopted
<1>6. Looked'
  BY LifeTypes, Ids DEF LifeInv, Looked, Passed
<1>7. BlockedOnlyIfMissed'
  BY LifeTypes, Ids DEF LifeInv, BlockedOnlyIfMissed
<1> QED  BY <1>1, <1>2, <1>3, <1>4, <1>5, <1>6, <1>7 DEF LifeInv, Whereabouts

(* A zombie that is cleared has no children of its own.                     *)
LEMMA WaitReapInv == ASSUME LifeInv, ~ clashed, NEW t \in Task, WaitReap(t) PROVE LifeInv'
<1> USE DEF WaitReap, Goto, Scanning
<1> DEFINE z == idx[t]
<1>a. /\ z \in Slot /\ z \in Task /\ state[z] = "zombie" /\ pc[z] = "gone" /\ z # t
      /\ parent[z] = t
  BY Ids DEF LifeInv, Whereabouts, StateOfPlace
<1>b. /\ named' = [named EXCEPT ![z] = FALSE]
      /\ parent' = [parent EXCEPT ![z] = NoTask]
      /\ state' = [state EXCEPT ![z] = "created"]
      /\ pc' = [pc EXCEPT ![t] = "user", ![z] = "none"]
      /\ idx' = [idx EXCEPT ![t] = 1]
      /\ Leave /\ UNCHANGED <<pick, moved, missed, clashed>>
  OBVIOUS
<1> HIDE DEF z
<1>1. LifeTypeOK'
  <2>1. named' \in [Slot -> BOOLEAN] /\ parent' \in [Slot -> Task \cup {NoTask}]
    BY <1>b, LifeTypes
  <2>2. /\ state' \in [Task -> {"created", "ready", "waiting", "zombie"}]
        /\ idx' \in [Task -> 1 .. NSlot + 1]
    BY <1>b, LifeTypes, Ids
  <2>3. pc' \in [Task -> Places]
    BY <1>b, LifeTypes DEF Places
  <2>4. line' \in [{"task_table"} -> Seq(Task)]
    BY <1>b, LifeTypes, LineTypes
  <2> QED  BY <1>b, <2>1, <2>2, <2>3, <2>4, LifeTypes, TypesAfter
<1>2. StateOfPlace' /\ FirstStays'
  BY LifeTypes, Ids DEF LifeInv, Whereabouts, StateOfPlace, FirstStays
<1>3. Slots'
  BY LifeTypes, Ids DEF LifeInv, Whereabouts, StateOfPlace, Slots, Picks, PicksDiffer, Forking
<1>4. Family'
  BY LifeTypes, Ids DEF LifeInv, Whereabouts, StateOfPlace, FirstStays, Slots, Picks, Family, Alive
<1>5. Adopted'
  BY LifeTypes, Ids DEF LifeInv, Adopted
<1>6. Looked'
  BY LifeTypes, Ids DEF LifeInv, Looked, Passed
<1>7. BlockedOnlyIfMissed'
  <2>1. \A s \in Slot : state'[s] = "zombie" => state[s] = "zombie" /\ parent'[s] = parent[s]
    BY <1>a, <1>b, LifeTypes, Ids
  <2>2. \A p \in Task : state'[p] = "waiting" => state[p] = "waiting" /\ (p \in missed => p \in missed')
    BY <1>a, <1>b, LifeTypes
  <2>3. \A u \in Slot : moved[u] /\ pc[u] \in {"exitScan", "exitEnd"} =>
          moved'[u] /\ pc'[u] \in {"exitScan", "exitEnd"}
    BY <1>a, <1>b, LifeTypes, Ids
  <2> QED  BY <2>1, <2>2, <2>3, BlockedQuiet
<1> QED  BY <1>1, <1>2, <1>3, <1>4, <1>5, <1>6, <1>7 DEF LifeInv, Whereabouts

(* A search that ended has passed every slot.                               *)
LEMMA WaitMissInv == ASSUME LifeInv, ~ clashed, NEW t \in Task, WaitMiss(t) PROVE LifeInv'
<1> USE DEF WaitMiss, Goto, Scanning
<1>1. LifeTypeOK'
  BY LifeTypes, LineTypes, TypesAfter, Ids DEF Places
<1>2. StateOfPlace' /\ FirstStays'
  BY LifeTypes, Ids DEF LifeInv, Whereabouts, StateOfPlace, FirstStays
<1>3. Slots'
  BY LifeTypes, Ids DEF LifeInv, Whereabouts, StateOfPlace, Slots, Picks, PicksDiffer, Forking
<1>4. Family'
  BY LifeTypes, Ids DEF LifeInv, Whereabouts, StateOfPlace, FirstStays, Slots, Picks, Family, Alive
<1>5. Adopted'
  BY LifeTypes, Ids DEF LifeInv, Adopted
<1>6. Looked'
  <2>1. \A s \in Slot : s < idx[t]
    BY Ids
  <2> QED  BY <2>1, LifeTypes DEF LifeInv, Looked, Passed
<1>7. BlockedOnlyIfMissed'
  BY LifeTypes, Ids DEF LifeInv, BlockedOnlyIfMissed
<1> QED  BY <1>1, <1>2, <1>3, <1>4, <1>5, <1>6, <1>7 DEF LifeInv, Whereabouts

(* Who blocks beside a zombie child was missed by it.                       *)
LEMMA WaitBlockInv == ASSUME LifeInv, ~ clashed, NEW t \in Task, WaitBlock(t) PROVE LifeInv'
<1> USE DEF WaitBlock, Goto, Scanning
<1>1. LifeTypeOK'
  BY LifeTypes, LineTypes, TypesAfter, Ids DEF Places
<1>2. StateOfPlace' /\ FirstStays'
  BY LifeTypes, Ids DEF LifeInv, Whereabouts, StateOfPlace, FirstStays
<1>3. Slots'
  BY LifeTypes, Ids DEF LifeInv, Whereabouts, StateOfPlace, Slots, Picks, PicksDiffer, Forking
<1>4. Family'
  BY LifeTypes, Ids DEF LifeInv, Whereabouts, StateOfPlace, FirstStays, Slots, Picks, Family, Alive
<1>5. Adopted'
  BY LifeTypes, Ids DEF LifeInv, Adopted
<1>6. Looked'
  BY LifeTypes, Ids DEF LifeInv, Looked, Passed
<1>7. BlockedOnlyIfMissed'
  <2> SUFFICES ASSUME NEW s \in Slot, state'[s] = "zombie", state'[parent'[s]] = "waiting"
               PROVE  \/ parent'[s] \in missed'
                      \/ parent'[s] = First /\ \E u \in Slot :
                           moved'[u] /\ pc'[u] \in {"exitScan", "exitEnd"}
    BY DEF BlockedOnlyIfMissed
  <2>1. state[s] = "zombie" /\ parent'[s] = parent[s] /\ missed' = missed /\ moved' = moved
    BY LifeTypes, Ids
  <2>2. parent[s] \in Task
    BY <2>1, LifeTypes DEF LifeInv, Family, Alive
  <2>3. CASE parent[s] = t
    BY <2>1, <2>3 DEF LifeInv, Looked, Passed
  <2>4. CASE parent[s] # t
    <3>1. state[parent[s]] = "waiting"
      BY <2>1, <2>2, <2>4, LifeTypes
    <3>2. \/ parent[s] \in missed
          \/ parent[s] = First /\ \E u \in Slot : moved[u] /\ pc[u] \in {"exitScan", "exitEnd"}
      BY <2>1, <3>1 DEF LifeInv, BlockedOnlyIfMissed
    <3>3. \A u \in Slot : pc[u] \in {"exitScan", "exitEnd"} => pc'[u] = pc[u]
      BY LifeTypes, Ids
    <3> QED  BY <2>1, <3>2, <3>3
  <2> QED  BY <2>3, <2>4
<1> QED  BY <1>1, <1>2, <1>3, <1>4, <1>5, <1>6, <1>7 DEF LifeInv, Whereabouts

(* As WaitCall.                                                             *)
LEMMA WaitAgainInv == ASSUME LifeInv, ~ clashed, NEW t \in Task, WaitAgain(t) PROVE LifeInv'
<1> USE DEF WaitAgain, Goto, Scanning
<1>1. LifeTypeOK'
  BY LifeTypes, LineTypes, TypesAfter, Ids DEF Places
<1>2. StateOfPlace' /\ FirstStays'
  BY LifeTypes, Ids DEF LifeInv, Whereabouts, StateOfPlace, FirstStays
<1>3. Slots'
  BY LifeTypes, Ids DEF LifeInv, Whereabouts, StateOfPlace, Slots, Picks, PicksDiffer, Forking
<1>4. Family'
  BY LifeTypes, Ids DEF LifeInv, Whereabouts, StateOfPlace, FirstStays, Slots, Picks, Family, Alive
<1>5. Adopted'
  BY LifeTypes, Ids DEF LifeInv, Adopted
<1>6. Looked'
  <2>1. idx[t] = 1 /\ \A s \in Slot : ~ (s < 1)
    BY Ids DEF LifeInv, Whereabouts, StateOfPlace
  <2> QED  BY <2>1, LifeTypes DEF LifeInv, Looked, Passed
<1>7. BlockedOnlyIfMissed'
  BY LifeTypes, Ids DEF LifeInv, BlockedOnlyIfMissed
<1> QED  BY <1>1, <1>2, <1>3, <1>4, <1>5, <1>6, <1>7 DEF LifeInv, Whereabouts

(* The loop over the children begins at the first slot.                     *)
LEMMA ExitCallInv == ASSUME LifeInv, ~ clashed, NEW t \in Task, ExitCall(t) PROVE LifeInv'
<1> USE DEF ExitCall, Goto, Scanning
<1>1. LifeTypeOK'
  BY LifeTypes, LineTypes, TypesAfter, Ids DEF Places
<1>2. StateOfPlace' /\ FirstStays'
  BY LifeTypes, Ids DEF LifeInv, Whereabouts, StateOfPlace, FirstStays
<1>3. Slots'
  BY LifeTypes, Ids DEF LifeInv, Whereabouts, StateOfPlace, Slots, Picks, PicksDiffer, Forking
<1>4. Family'
  BY LifeTypes, Ids DEF LifeInv, Whereabouts, StateOfPlace, FirstStays, Slots, Picks, Family, Alive
<1>5. Adopted'
  <2>1. idx[t] = 1 /\ \A s \in Slot : ~ (s < 1)
    BY Ids DEF LifeInv, Whereabouts, StateOfPlace
  <2> QED  BY <2>1, LifeTypes DEF LifeInv, Adopted
<1>6. Looked'
  BY LifeTypes, Ids DEF LifeInv, Looked, Passed
<1>7. BlockedOnlyIfMissed'
  BY LifeTypes, Ids DEF LifeInv, BlockedOnlyIfMissed
<1> QED  BY <1>1, <1>2, <1>3, <1>4, <1>5, <1>6, <1>7 DEF LifeInv, Whereabouts

(* A child that is given away goes to a task that stays, and marks a zombie. *)
LEMMA ExitAdoptInv == ASSUME LifeInv, ~ clashed, NEW t \in Task, ExitAdopt(t) PROVE LifeInv'
<1> USE DEF ExitAdopt, Goto, Scanning
<1> DEFINE c == idx[t]
<1>a. /\ c \in Slot /\ t # First /\ t \in Slot /\ pc[t] = "exitScan"
      /\ state[First] \in {"ready", "waiting"} /\ pc[First] # "exitEnd"
      /\ First \in Task /\ First # NoTask
  BY LifeTypes, Ids DEF LifeInv, Whereabouts, StateOfPlace, FirstStays
<1>b. \/ /\ parent[c] = t /\ parent' = [parent EXCEPT ![c] = First]
         /\ moved' = [moved EXCEPT ![t] = @ \/ state[c] = "zombie"]
         /\ missed' = missed \cup IF state[c] = "zombie" THEN Missing(First) ELSE {}
      \/ parent[c] # t /\ parent' = parent /\ moved' = moved /\ missed' = missed
  OBVIOUS
<1>c. /\ idx' = [idx EXCEPT ![t] = c + 1]
      /\ UNCHANGED <<named, state, pc, pick, line, clashed>>
  OBVIOUS
<1> HIDE DEF c
<1>d. parent' \in [Slot -> Task \cup {NoTask}] /\ \A s \in Slot : s # c => parent'[s] = parent[s]
  BY <1>a, <1>b, LifeTypes
<1>e. /\ moved' \in [Task -> BOOLEAN]
      /\ \A u \in Slot : moved[u] => moved'[u]
      /\ parent[c] = t /\ state[c] = "zombie" => moved'[t]
  <2>1. CASE moved' = moved /\ parent[c] # t
    BY <2>1, LifeTypes
  <2>2. CASE moved' = [moved EXCEPT ![t] = @ \/ state[c] = "zombie"]
    <3>1. \A u \in Task : moved'[u] = IF u = t THEN moved[t] \/ state[c] = "zombie" ELSE moved[u]
      BY <2>2, LifeTypes
    <3>2. moved' \in [Task -> BOOLEAN]
      BY <2>2, LifeTypes, Zenon
    <3> QED  BY <3>1, <3>2, <1>a, Ids
  <2> QED  BY <1>b, <2>1, <2>2
<1>f. missed \subseteq missed' /\ missed' \subseteq Task
  BY <1>a, <1>b, LifeTypes DEF Missing
<1>1. LifeTypeOK'
  <2>1. idx' \in [Task -> 1 .. NSlot + 1]
    <3>1. c + 1 \in 1 .. NSlot + 1
      BY <1>a, Ids DEF Slot
    <3> QED  BY <1>c, <3>1, LifeTypes
  <2> QED  BY <1>c, <1>d, <1>e, <1>f, <2>1, LifeTypes, TypesAfter
<1>2. StateOfPlace' /\ FirstStays'
  BY LifeTypes, Ids DEF LifeInv, Whereabouts, StateOfPlace, FirstStays
<1>3. Slots'
  BY LifeTypes, Ids DEF LifeInv, Whereabouts, StateOfPlace, Slots, Picks, PicksDiffer, Forking
<1>4. Family'
  BY <1>a, <1>b, <1>c, <1>d, LifeTypes, Ids DEF LifeInv, Family, Alive
<1>5. Adopted'
  <2> SUFFICES ASSUME NEW u \in Task, pc[u] = "exitScan", NEW s \in Slot, s < idx'[u]
               PROVE  parent'[s] # u
    BY <1>c DEF Adopted
  <2>1. u # First
    BY DEF LifeInv, Whereabouts, FirstStays
  <2>2. parent'[s] = parent[s] \/ parent'[s] = First
    BY <1>b, LifeTypes
  <2>3. CASE u = t /\ s = c
    BY <1>a, <1>b, <2>3, LifeTypes
  <2>4. CASE ~ (u = t /\ s = c)
    <3>1. s < idx[u]
      BY <1>a, <1>c, <2>4, LifeTypes, Ids DEF c
    <3> QED  BY <2>1, <2>2, <3>1 DEF LifeInv, Adopted
  <2> QED  BY <2>3, <2>4
<1>6. Looked'
  <2> SUFFICES ASSUME NEW s \in Slot, NEW p \in Task, state[s] = "zombie", parent'[s] = p,
                      Passed(p, s)'
               PROVE  p \in missed'
    BY <1>c DEF Looked
  <2>1. Passed(p, s)
    BY <1>a, <1>c, LifeTypes DEF Passed
  <2>2. CASE parent[s] = p
    BY <1>f, <2>1, <2>2 DEF LifeInv, Looked
  <2>3. CASE parent[s] # p
    <3>1. s = c /\ p = First /\ parent[c] = t
      BY <1>a, <1>b, <2>3, LifeTypes
    <3>2. Looking(First)
      BY <2>1, <3>1 DEF Passed, Looking
    <3> QED  BY <1>a, <1>b, <3>1, <3>2 DEF Missing
  <2> QED  BY <2>2, <2>3
<1>7. BlockedOnlyIfMissed'
  <2> SUFFICES ASSUME NEW s \in Slot, state[s] = "zombie", state[parent'[s]] = "waiting"
               PROVE  \/ parent'[s] \in missed'
                      \/ parent'[s] = First /\ \E u \in Slot :
                           moved'[u] /\ pc[u] \in {"exitScan", "exitEnd"}
    BY <1>c DEF BlockedOnlyIfMissed
  <2>1. CASE parent'[s] = parent[s]
    <3>1. \/ parent[s] \in missed
          \/ parent[s] = First /\ \E u \in Slot : moved[u] /\ pc[u] \in {"exitScan", "exitEnd"}
      BY <2>1 DEF LifeInv, BlockedOnlyIfMissed
    <3> QED  BY <1>e, <1>f, <2>1, <3>1
  <2>2. CASE parent'[s] # parent[s]
    <3>1. s = c /\ parent'[s] = First /\ parent[c] = t
      BY <1>a, <1>b, <2>2, LifeTypes
    <3> QED  BY <1>a, <1>e, <3>1
  <2> QED  BY <2>1, <2>2
<1> QED  BY <1>1, <1>2, <1>3, <1>4, <1>5, <1>6, <1>7 DEF LifeInv, Whereabouts

(* A task that has passed every slot has no children.                       *)
LEMMA ExitUnlockInv == ASSUME LifeInv, ~ clashed, NEW t \in Task, ExitUnlock(t) PROVE LifeInv'
<1> USE DEF ExitUnlock, Goto, Scanning
<1>1. LifeTypeOK'
  BY LifeTypes, LineTypes, TypesAfter, Ids DEF Places
<1>2. StateOfPlace' /\ FirstStays'
  BY LifeTypes, Ids DEF LifeInv, Whereabouts, StateOfPlace, FirstStays
<1>3. Slots'
  BY LifeTypes, Ids DEF LifeInv, Whereabouts, StateOfPlace, Slots, Picks, PicksDiffer, Forking
<1>4. Family'
  <2>1. \A s \in Slot : parent[s] # t
    BY Ids DEF LifeInv, Adopted
  <2> QED  BY <2>1, LifeTypes, Ids DEF LifeInv, Family, Alive
<1>5. Adopted'
  BY LifeTypes, Ids DEF LifeInv, Adopted
<1>6. Looked'
  BY LifeTypes, Ids DEF LifeInv, Looked, Passed
<1>7. BlockedOnlyIfMissed'
  BY LifeTypes, Ids DEF LifeInv, BlockedOnlyIfMissed
<1> QED  BY <1>1, <1>2, <1>3, <1>4, <1>5, <1>6, <1>7 DEF LifeInv, Whereabouts

(* A task that ends wakes its parent or is noticed to have missed it.       *)
LEMMA ExitEndInv == ASSUME LifeInv, ~ clashed, NEW t \in Task, ExitEnd(t) PROVE LifeInv'
<1> USE DEF ExitEnd, Goto
<1>a. /\ t # First /\ t \in Slot /\ state[t] = "ready"
      /\ parent[t] \in Task /\ parent[t] # NoTask /\ parent[t] # t
  BY LifeTypes, Ids DEF LifeInv, Whereabouts, StateOfPlace, FirstStays, Family, Alive
<1>b. /\ Woken(t) \subseteq Task /\ \A p \in Woken(t) : state[p] = "waiting"
      /\ t \notin Woken(t)
  BY <1>a, Ids DEF Woken
<1>c. \A u \in Task : state'[u] = IF u = t THEN "zombie"
                                  ELSE IF u \in Woken(t) THEN "ready" ELSE state[u]
  OBVIOUS
<1>d. /\ pc' = [pc EXCEPT ![t] = "gone"] /\ moved' = [moved EXCEPT ![t] = FALSE]
      /\ missed' = missed \cup Missing(parent[t])
      /\ UNCHANGED <<named, parent, idx, pick, line, clashed>>
  OBVIOUS
<1>e. \A u \in Task : state'[u] = "created" <=> state[u] = "created"
  BY <1>a, <1>b, <1>c
<1>f. missed \subseteq missed' /\ missed' \subseteq Task
  BY <1>a, <1>d, LifeTypes DEF Missing
<1>g. state' \in [Task -> {"created", "ready", "waiting", "zombie"}]
  <2>1. state' = [u \in Task |-> IF u = t THEN "zombie"
                                 ELSE IF u \in Woken(t) THEN "ready" ELSE state[u]]
    OBVIOUS
  <2> QED  BY <2>1, LifeTypes
<1> HIDE DEF ExitEnd
<1>h. pc[t] = "exitEnd"
  BY DEF ExitEnd
<1>1. LifeTypeOK'
  <2>1. pc' \in [Task -> Places] /\ moved' \in [Task -> BOOLEAN]
    BY <1>d, LifeTypes DEF Places
  <2> QED  BY <1>d, <1>f, <1>g, <2>1, LifeTypes, TypesAfter
<1>2. StateOfPlace' /\ FirstStays'
  <2>1. StateOfPlace'
    BY <1>a, <1>b, <1>c, <1>d, <1>h, LifeTypes DEF LifeInv, Whereabouts, StateOfPlace
  <2>2. FirstStays'
    BY <1>a, <1>d, LifeTypes, Ids DEF LifeInv, Whereabouts, FirstStays
  <2> QED  BY <2>1, <2>2
<1>3. Slots'
  <2>1. \A u \in Task : pick[u] \in Slot => pick[u] \in Task
    BY Ids
  <2>2. Picks'
    BY <1>d, <1>e, <1>h, <2>1, LifeTypes DEF LifeInv, Slots, Picks, Forking
  <2> QED  BY <1>d, <2>2 DEF LifeInv, Slots, PicksDiffer
<1>4. Family'
  <2> SUFFICES ASSUME NEW s \in Slot
               PROVE  /\ state'[s] # "created" => parent[s] # NoTask
                      /\ parent[s] # NoTask =>
                           parent[s] \in Task /\ state'[parent[s]] \in {"ready", "waiting"}
                           /\ pc'[parent[s]] # "exitEnd"
    BY <1>d DEF Family, Alive
  <2>1. /\ state[s] # "created" => parent[s] # NoTask
        /\ parent[s] # NoTask =>
             parent[s] \in Task /\ state[parent[s]] \in {"ready", "waiting"}
             /\ pc[parent[s]] # "exitEnd"
    BY DEF LifeInv, Family, Alive
  <2>2. parent[s] # t
    BY <1>h, <2>1, Ids
  <2> QED  BY <1>c, <1>d, <1>e, <2>1, <2>2, LifeTypes, Ids
<1>5. Adopted'
  BY <1>d, LifeTypes, Ids DEF LifeInv, Adopted
<1>6. Looked'
  <2> SUFFICES ASSUME NEW s \in Slot, NEW p \in Task, state'[s] = "zombie", parent[s] = p,
                      Passed(p, s)'
               PROVE  p \in missed'
    BY <1>d DEF Looked
  <2>1. Passed(p, s)
    BY <1>d, LifeTypes DEF Passed
  <2>2. CASE s = t
    <3>1. Looking(parent[t])
      BY <2>1, <2>2 DEF Passed, Looking
    <3> QED  BY <1>a, <1>d, <2>2, <3>1 DEF Missing
  <2>3. CASE s # t
    <3>1. state[s] = "zombie"
      BY <1>c, <2>3, Ids
    <3> QED  BY <1>f, <2>1, <3>1 DEF LifeInv, Looked
  <2> QED  BY <2>2, <2>3
<1>7. BlockedOnlyIfMissed'
  <2> SUFFICES ASSUME NEW s \in Slot, state'[s] = "zombie", state'[parent[s]] = "waiting"
               PROVE  \/ parent[s] \in missed'
                      \/ parent[s] = First /\ \E u \in Slot :
                           moved'[u] /\ pc'[u] \in {"exitScan", "exitEnd"}
    BY <1>d DEF BlockedOnlyIfMissed
  <2>1. parent[s] \in Task
    BY <1>a, <1>c, Ids DEF LifeInv, Family, Alive
  <2>2. state[parent[s]] = "waiting" /\ parent[s] \notin Woken(t)
    BY <1>c, <2>1
  <2>3. s # t
    BY <1>a, <2>2 DEF Woken
  <2>4. state[s] = "zombie"
    BY <1>c, <2>3, Ids
  <2>5. \/ parent[s] \in missed
        \/ parent[s] = First /\ \E u \in Slot : moved[u] /\ pc[u] \in {"exitScan", "exitEnd"}
    BY <2>2, <2>4 DEF LifeInv, BlockedOnlyIfMissed
  <2>6. CASE parent[s] \in missed
    BY <1>f, <2>6
  <2>7. CASE parent[s] = First /\ \E u \in Slot : moved[u] /\ pc[u] \in {"exitScan", "exitEnd"}
    <3>1. ~ moved[t]
      BY <2>2, <2>7, Ids DEF Woken
    <3>2. PICK u \in Slot : moved[u] /\ pc[u] \in {"exitScan", "exitEnd"}
      BY <2>7
    <3>3. moved'[u] /\ pc'[u] \in {"exitScan", "exitEnd"}
      BY <1>d, <3>1, <3>2, LifeTypes, Ids
    <3> QED  BY <2>7, <3>3
  <2> QED  BY <2>5, <2>6, <2>7
<1> QED  BY <1>1, <1>2, <1>3, <1>4, <1>5, <1>6, <1>7 DEF LifeInv, Whereabouts

(* Every step keeps the invariant.                                          *)
LEMMA NextLife == LifeInv /\ [Next]_vars => LifeInv'
<1> SUFFICES ASSUME LifeInv, [Next]_vars
             PROVE  LifeInv'
  OBVIOUS
<1>1. ASSUME ~ clashed, NEW t \in Task, Step(t) \/ Call(t)
      PROVE  LifeInv'
  BY <1>1, ForkCallInv, AllocSkipInv, AllocTakeInv, AllocNoneInv, ExecNameInv, TaskInitInv,
     ForkLinkInv, ForkStartInv, WaitCallInv,
     WaitSkipInv, WaitReapInv, WaitMissInv, WaitBlockInv, WaitAgainInv, ExitCallInv,
     ExitAdoptInv, ExitUnlockInv, ExitEndInv
  DEF Step, OtherStep, Call
<1>2. CASE UNCHANGED vars
  BY <1>2 DEF vars, LifeInv, Whereabouts, LifeTypeOK, TypeOK, StateOfPlace, FirstStays, Slots,
     Picks, PicksDiffer, Family, Alive, Adopted, Looked, Passed, BlockedOnlyIfMissed
<1> QED  BY <1>1, <1>2 DEF Next

(* The inductive invariant in every behaviour.                              *)
LEMMA SpecLife == Spec => []LifeInv
  BY InitLife, NextLife, PTL DEF Spec

-----------------------------------------------------------------------------
(* A live or dead child always has a living parent that has not yet given   *)
(* its children away.                                                       *)
THEOREM SpecParentAlive == Spec => []ParentAlive
<1>1. LifeInv => ParentAlive
  <2> SUFFICES ASSUME LifeInv, NEW s \in Slot
               PROVE  /\ state[s] \in {"ready", "waiting", "zombie"} =>
                           parent[s] # NoTask /\ parent[s] \in Alive
                      /\ parent[s] # NoTask => pc[parent[s]] # "exitEnd"
    BY DEF ParentAlive
  <2> QED  BY DEF LifeInv, Family
<1> QED  BY SpecLife, <1>1, PTL

(* A parent waits beside its zombie child only when that child exited while *)
(* the parent was between its search and its block, or for the moment until *)
(* the task that hands the zombie over wakes it.                            *)
THEOREM SpecBlockedOnlyIfMissed == Spec => []BlockedOnlyIfMissed
<1>1. LifeInv => BlockedOnlyIfMissed
  BY DEF LifeInv
<1> QED  BY SpecLife, <1>1, PTL

(* A child that is being built has a name if its parent has one.            *)
Named ==
  \A t \in Task :
    ~ clashed /\ pc[t] \in {"forkLink", "forkStart"} /\ ~ named[pick[t]] =>
      t # First /\ ~ named[t]

(* A slot without a name is free, another fork's that has not named it yet, *)
(* or that of a fork whose own name is gone.                                *)
LEMMA AllocTakeClash ==
  ASSUME LifeInv, ~ clashed, Named, NEW t \in Task, AllocTake(t)
  PROVE  Named' /\ ClashedOnlyIfUnnamed'
<1> DEFINE s == idx[t]
<1>1. /\ s \in Slot /\ pc[t] = "forkAlloc" /\ ~ named[s]
      /\ clashed' = (state[s] # "created" \/ \E u \in Task : pick[u] = s)
      /\ pick' = [pick EXCEPT ![t] = s] /\ pc' = [pc EXCEPT ![t] = "forkInit"]
      /\ named' = named /\ state' = state
  BY DEF AllocTake, Goto, Scanning
<1> HIDE DEF s
<1>2. \A u \in Task : u # t => pc'[u] = pc[u] /\ pick'[u] = pick[u]
  BY <1>1, LifeTypes
<1>3. pc'[t] = "forkInit" /\ pick'[t] = s /\ s # NoTask
  BY <1>1, LifeTypes, Ids
<1>4. Named'
  BY <1>1, <1>2, <1>3 DEF Named
<1>5. ClashedOnlyIfUnnamed'
  <2> SUFFICES ASSUME clashed'
               PROVE  \/ \E v, u \in Task : /\ v # u /\ pick'[v] # NoTask /\ pick'[v] = pick'[u]
                                            /\ pc'[v] = "forkInit" /\ pc'[u] = "forkInit"
                      \/ \E r \in Slot : state'[r] # "created" /\ ~ named'[r]
    BY DEF ClashedOnlyIfUnnamed
  <2>1. CASE state[s] # "created"
    BY <1>1, <2>1
  <2>2. ASSUME NEW u \in Task, pick[u] = s
        PROVE  \/ u # t /\ pc[u] = "forkInit"
               \/ u \in Slot /\ state[u] # "created" /\ ~ named[u]
    <3>1. pc[u] \in Forking /\ u # t
      BY <1>1, <1>3, <2>2 DEF LifeInv, Slots, Picks, Forking
    <3>2. CASE pc[u] = "forkInit"
      BY <3>1, <3>2
    <3>3. CASE pc[u] \in {"forkLink", "forkStart"}
      <4>1. u # First /\ ~ named[u]
        BY <1>1, <2>2, <3>3 DEF Named
      <4>2. u \in Slot /\ state[u] = "ready"
        BY <3>1, <4>1, PickFacts, Ids
      <4> QED  BY <4>1, <4>2
    <3> QED  BY <3>1, <3>2, <3>3 DEF Forking
  <2>3. CASE \E u \in Task : pick[u] = s
    <3>1. PICK u \in Task : pick[u] = s
      BY <2>3
    <3>2. CASE u # t /\ pc[u] = "forkInit"
      <4>1. pick'[u] = s /\ pc'[u] = "forkInit"
        BY <1>2, <3>1, <3>2
      <4> QED  BY <1>3, <3>2, <4>1
    <3>3. CASE u \in Slot /\ state[u] # "created" /\ ~ named[u]
      BY <1>1, <3>3
    <3> QED  BY <2>2, <3>1, <3>2, <3>3
  <2> QED  BY <1>1, <2>1, <2>3
<1> QED  BY <1>4, <1>5

(* A name that is written or cleared is no other fork's nor its child's.    *)
LEMMA NamedSteps ==
  ASSUME LifeInv, ~ clashed, Named, NEW t \in Task, TaskInit(t) \/ ExecName(t) \/ WaitReap(t)
  PROVE  Named' /\ clashed' = clashed
<1>1. ASSUME NEW u \in Task, pc[u] \in Forking
      PROVE  /\ pick[u] \in Slot /\ pc[pick[u]] = "none" /\ state[pick[u]] = "created"
             /\ state[u] = "ready" /\ \A v \in Task : pick[v] = pick[u] => v = u
  BY <1>1, PickFacts
<1>2. CASE TaskInit(t)
  <2>1. /\ pc[t] = "forkInit" /\ pc' = [pc EXCEPT ![t] = "forkLink"]
        /\ named' = [named EXCEPT ![pick[t]] = t = First \/ named[t]]
        /\ pick' = pick /\ clashed' = clashed
    BY <1>2 DEF TaskInit, Goto
  <2>2. /\ named'[pick[t]] = (t = First \/ named[t])
        /\ \A s \in Slot : s # pick[t] => named'[s] = named[s]
    BY <1>1, <2>1, LifeTypes, Zenon DEF Forking
  <2>3. ASSUME NEW u \in Task, pc'[u] \in {"forkLink", "forkStart"}, ~ named'[pick[u]]
        PROVE  u # First /\ ~ named'[u]
    <3>1. CASE u = t
      <4>1. t # First /\ ~ named[t]
        BY <2>2, <2>3, <3>1
      <4>2. t \in Slot /\ t # pick[t]
        BY <1>1, <2>1, <4>1, Ids DEF Forking
      <4> QED  BY <2>2, <3>1, <4>1, <4>2
    <3>2. CASE u # t
      <4>1. pc[u] \in {"forkLink", "forkStart"}
        BY <2>1, <2>3, <3>2, LifeTypes
      <4>2. pick[u] # pick[t] /\ pick[u] \in Slot /\ u # pick[t]
        BY <1>1, <2>1, <3>2, <4>1 DEF Forking
      <4>3. u # First /\ ~ named[u]
        BY <2>2, <2>3, <4>1, <4>2 DEF Named
      <4> QED  BY <2>2, <4>2, <4>3, Ids
    <3> QED  BY <3>1, <3>2
  <2> QED  BY <2>1, <2>3 DEF Named
<1>3. CASE ExecName(t)
  <2>1. /\ pc[t] = "user" /\ pc' = pc /\ pick' = pick /\ clashed' = clashed
        /\ \A s \in Slot : s # t => named'[s] = named[s]
    BY <1>3, LifeTypes DEF ExecName
  <2>2. ASSUME NEW u \in Task, pc[u] \in {"forkLink", "forkStart"}
        PROVE  u # t /\ pick[u] # t /\ pick[u] \in Slot
    BY <1>1, <2>1, <2>2 DEF Forking
  <2> QED  BY <2>1, <2>2, Ids DEF Named
<1>4. CASE WaitReap(t)
  <2> DEFINE z == idx[t]
  <2>1. /\ z \in Slot /\ state[z] = "zombie"
        /\ pc' = [pc EXCEPT ![t] = "user", ![z] = "none"]
        /\ named' = [named EXCEPT ![z] = FALSE] /\ pick' = pick /\ clashed' = clashed
    BY <1>4 DEF WaitReap, Scanning
  <2> HIDE DEF z
  <2>2. ASSUME NEW u \in Task, pc'[u] \in {"forkLink", "forkStart"}
        PROVE  /\ pc[u] \in {"forkLink", "forkStart"} /\ u # z /\ pick[u] # z
               /\ pick[u] \in Slot
    <3>1. pc[u] \in {"forkLink", "forkStart"}
      BY <2>1, <2>2, LifeTypes
    <3> QED  BY <1>1, <2>1, <3>1 DEF Forking
  <2>3. \A s \in Slot : s # z => named'[s] = named[s]
    BY <2>1, LifeTypes
  <2>4. ASSUME NEW u \in Task, pc'[u] \in {"forkLink", "forkStart"}, ~ named'[pick[u]]
        PROVE  u # First /\ ~ named'[u]
    <3>1. u # First /\ ~ named[u] /\ u # z
      BY <2>2, <2>3, <2>4 DEF Named
    <3> QED  BY <2>3, <3>1, Ids
  <2> QED  BY <2>1, <2>4 DEF Named
<1> QED  BY <1>2, <1>3, <1>4

(* No other step writes a name or finds a slot.                             *)
LEMMA NamedFrame ==
  ASSUME LifeInv, ~ clashed, Named, NEW t \in Task, ~ AllocTake(t), OtherStep(t) \/ Call(t),
         ~ ExecName(t)
  PROVE  Named' /\ clashed' = clashed
<1>1. /\ named' = named /\ clashed' = clashed
      /\ \A u \in Task : pc'[u] \in {"forkLink", "forkStart"} =>
           pc[u] \in {"forkLink", "forkStart"} /\ pick'[u] = pick[u]
  <2>1. CASE ForkLink(t)
    BY <2>1, LifeTypes DEF ForkLink, Goto
  <2>2. CASE ForkStart(t)
    <3>1. /\ pc' = [pc EXCEPT ![pick[t]] = "user", ![t] = "user"]
          /\ pick' = [pick EXCEPT ![t] = NoTask] /\ named' = named /\ clashed' = clashed
      BY <2>2 DEF ForkStart
    <3>2. \A u \in Task : pc'[u] # "user" => pc'[u] = pc[u] /\ pick'[u] = pick[u]
      BY <3>1, LifeTypes
    <3> QED  BY <3>1, <3>2
  <2>3. CASE AllocSkip(t) \/ AllocNone(t) \/ ForkCall(t)
    BY <2>3, LifeTypes DEF AllocSkip, AllocNone, ForkCall, Goto, Scanning
  <2>4. CASE WaitSkip(t) \/ WaitMiss(t) \/ WaitBlock(t) \/ WaitAgain(t) \/ WaitCall(t)
    BY <2>4, LifeTypes DEF WaitSkip, WaitMiss, WaitBlock, WaitAgain, WaitCall, Goto, Scanning
  <2>5. CASE ExitAdopt(t) \/ ExitUnlock(t) \/ ExitEnd(t) \/ ExitCall(t)
    BY <2>5, LifeTypes DEF ExitAdopt, ExitUnlock, ExitEnd, ExitCall, Goto, Scanning
  <2> QED  BY <2>1, <2>2, <2>3, <2>4, <2>5 DEF OtherStep, Call
<1> QED  BY <1>1 DEF Named

(* A fork is given a slot that is not free only beside another fork that    *)
(* has not named it either, or when a process has lost its name: the two    *)
(* windows of alloc_task and task_init (task_table_mutex does not cover the *)
(* name), and no third.                                                     *)
THEOREM SpecClashedOnlyIfUnnamed == Spec => []ClashedOnlyIfUnnamed
<1>1. Init => Named /\ ClashedOnlyIfUnnamed
  BY DEF Init, Named, ClashedOnlyIfUnnamed
<1>2. LifeInv /\ Named /\ ClashedOnlyIfUnnamed /\ [Next]_vars => (Named /\ ClashedOnlyIfUnnamed)'
  <2> SUFFICES ASSUME LifeInv, Named, ClashedOnlyIfUnnamed, [Next]_vars
               PROVE  Named' /\ ClashedOnlyIfUnnamed'
    OBVIOUS
  <2>1. CASE UNCHANGED vars
    BY <2>1 DEF vars, Named, ClashedOnlyIfUnnamed
  <2>2. ASSUME ~ clashed, NEW t \in Task, Step(t) \/ Call(t)
        PROVE  Named' /\ ClashedOnlyIfUnnamed'
    <3>1. CASE AllocTake(t)
      BY <2>2, <3>1, AllocTakeClash
    <3>2. CASE ~ AllocTake(t)
      <4>1. Named' /\ clashed' = clashed
        BY <2>2, <3>2, NamedSteps, NamedFrame DEF Step, Call
      <4> QED  BY <2>2, <4>1 DEF ClashedOnlyIfUnnamed
    <3> QED  BY <3>1, <3>2
  <2> QED  BY <2>1, <2>2 DEF Next
<1> QED  BY <1>1, <1>2, SpecLife, PTL DEF Spec

-----------------------------------------------------------------------------
(* The inductive invariant of Selectors, beside LifeInv.                    *)

SelTypeOK ==
  /\ tss \in [Sel -> Slot \cup {NoTask}]
  /\ selOf \in [Slot -> Sel \cup {NoSel}]
  /\ local \in [Task -> Sel \cup {NoSel}]
  /\ built \in [Task -> {"no", "found", "set", "failed"}]
  /\ reaped \in Nat /\ shared \subseteq Sel

(* A fork has a selector in hand between finding it and giving it away.     *)
InHand ==
  \A t \in Task :
    /\ local[t] # NoSel <=> built[t] \in {"found", "set"}
    /\ built[t] # "no" => pc[t] = "forkInit"

(* A selector that was not returned twice has one owner: a process, or the  *)
(* fork that has it in hand.                                                *)
OneOwner ==
  /\ \A t, u \in Task : t # u /\ local[t] = local[u] /\ local[t] # NoSel => local[t] \in shared
  /\ \A t \in Task, s \in Slot : selOf[s] = local[t] /\ selOf[s] # NoSel => selOf[s] \in shared
  /\ \A r, s \in Slot : r # s /\ selOf[r] = selOf[s] /\ selOf[s] # NoSel => selOf[s] \in shared

(* The descriptor of a selector points to the slot of its owner.            *)
PointsHome ==
  /\ \A s \in Slot : selOf[s] # NoSel => OwnTss(s)
  /\ \A t \in Task : built[t] = "set" => tss[local[t]] = pick[t] \/ local[t] \in shared

(* A slot that alloc_task may hand out has no selector to be overwritten:   *)
(* only a process or a child whose fork is about to start it has one.       *)
Linking(u, s) == pick[u] = s /\ pc[u] \in {"forkLink", "forkStart"}
NoneInFree ==
  ~ clashed => \A s \in Slot :
    selOf[s] # NoSel => state[s] # "created" \/ \E u \in Task : Linking(u, s)

LostByReaping == Cardinality(InUse \ Known) <= reaped

SelInv == LifeInv /\ SelTypeOK /\ InHand /\ OneOwner /\ PointsHome /\ NoneInFree /\ LostByReaping

-----------------------------------------------------------------------------
(* The parts of the invariant, and what a selector is not.                  *)
LEMMA SelTypes ==
  ASSUME SelInv
  PROVE  /\ SelTypeOK /\ LifeInv /\ NSel \in Nat /\ NoSel \notin Sel
         /\ pick \in [Task -> Slot \cup {NoTask}] /\ named \in [Slot -> BOOLEAN]
         /\ pc \in [Task -> Places] /\ clashed \in BOOLEAN
         /\ NoTask \notin Slot /\ Slot \subseteq Task
<1>1. NSel \in Nat /\ NoSel \notin Sel
  BY SelAssumption DEF NoSel, Sel
<1> QED  BY <1>1, Ids, LifeTypes DEF SelInv, LifeInv, Whereabouts, LifeTypeOK, TypeOK

(* Descriptors are finitely many.                                           *)
LEMMA FiniteSel == IsFiniteSet(Sel)
BY SelAssumption, FS_Interval DEF Sel

(* No descriptor is lost by a step after which whatever is lost was lost.   *)
LEMMA NoneLost ==
  ASSUME SelInv, reaped' = reaped, InUse' \ Known' \subseteq InUse \ Known
  PROVE  LostByReaping'
<1> DEFINE a == InUse \ Known
           b == InUse' \ Known'
<1>1. a \subseteq Sel
  BY DEF InUse
<1>2. IsFiniteSet(a)
  BY <1>1, FiniteSel, FS_Subset
<1>3. b \subseteq a /\ Cardinality(a) <= reaped /\ reaped \in Nat
  BY DEF SelInv, SelTypeOK, LostByReaping
<1>4. b = (InUse \ Known)'
  OBVIOUS
<1> HIDE DEF a, b
<1>5. Cardinality(a) \in Nat /\ Cardinality(b) \in Nat /\ Cardinality(b) <= Cardinality(a)
  BY <1>2, <1>3, FS_Subset, FS_CardinalityType
<1>6. Cardinality(b) <= reaped
  BY <1>3, <1>5
<1> QED  BY <1>4, <1>6 DEF LostByReaping

(* A fork that has not yet named its slot goes on building there, whatever  *)
(* the other calls do, and a slot in use stays in use.                      *)
LEMMA OtherFrame ==
  ASSUME LifeInv, ~ clashed, NEW t \in Task, OtherStep(t) \/ Call(t)
  PROVE  /\ \A u \in Task : pc[u] = "forkInit" => pc'[u] = "forkInit" /\ pick'[u] = pick[u]
         /\ \A s \in Slot : state[s] # "created" => state'[s] # "created"
         /\ \A u \in Task, s \in Slot :
              Linking(u, s) => Linking(u, s)' \/ state'[s] # "created"
<1> USE DEF Linking
<1>1. /\ pc \in [Task -> Places] /\ pick \in [Task -> Slot \cup {NoTask}]
      /\ state \in [Task -> {"created", "ready", "waiting", "zombie"}] /\ Slot \subseteq Task
  BY LifeTypes, Ids
<1>2. CASE AllocSkip(t) \/ AllocNone(t) \/ ExecName(t)
  BY <1>1, <1>2 DEF AllocSkip, AllocNone, ExecName, Scanning, Goto
<1>3. CASE AllocTake(t)
  <2>1. /\ pc[t] = "forkAlloc" /\ pick' = [pick EXCEPT ![t] = idx[t]] /\ state' = state
        /\ pc' = [pc EXCEPT ![t] = "forkInit"]
    BY <1>3 DEF AllocTake, Scanning, Goto
  <2> QED  BY <1>1, <2>1
<1>4. CASE ForkLink(t)
  BY <1>1, <1>4 DEF ForkLink, Goto
<1>5. CASE ForkStart(t)
  <2>1. pick[t] \in Task /\ pc[pick[t]] = "none" /\ pick[t] # t
    BY <1>5, PickFacts DEF ForkStart, Forking
  <2> QED  BY <1>1, <1>5, <2>1 DEF ForkStart
<1>6. CASE WaitSkip(t) \/ WaitMiss(t) \/ WaitBlock(t) \/ WaitAgain(t)
  BY <1>1, <1>6 DEF WaitSkip, WaitMiss, WaitBlock, WaitAgain, Scanning, Goto
<1>7. CASE ExitAdopt(t) \/ ExitUnlock(t)
  BY <1>1, <1>7 DEF ExitAdopt, ExitUnlock, Scanning, Goto
<1>8. CASE ExitEnd(t)
  BY <1>1, <1>8 DEF ExitEnd, Goto
<1>9. CASE ForkCall(t) \/ WaitCall(t) \/ ExitCall(t)
  BY <1>1, <1>9 DEF ForkCall, WaitCall, ExitCall, Goto
<1> QED  BY <1>2, <1>3, <1>4, <1>5, <1>6, <1>7, <1>8, <1>9 DEF OtherStep, Call

(* Initially the GDT is empty.                                              *)
LEMMA InitSel == SelInit => SelInv
<1> SUFFICES ASSUME SelInit
             PROVE  SelInv
  OBVIOUS
<1>1. LifeInv
  BY InitLife DEF SelInit
<1>2. SelTypeOK
  BY DEF SelInit, SelTypeOK
<1>3. InHand /\ OneOwner /\ PointsHome
  BY SelAssumption DEF SelInit, InHand, OneOwner, PointsHome
<1>4. NoneInFree
  BY DEF SelInit, NoneInFree
<1>5. InUse \ Known = {}
  BY DEF SelInit, InUse
<1>6. LostByReaping
  BY <1>5, FS_EmptySet DEF SelInit, LostByReaping
<1> QED  BY <1>1, <1>2, <1>3, <1>4, <1>6 DEF SelInv

(* What the steps of tss_init leave alone.                                  *)
LEMMA QuietLife ==
  ASSUME SelInv, UNCHANGED vars
  PROVE  LifeInv' /\ (UNCHANGED selOf => NoneInFree')
<1>1. LifeInv'
  BY NextLife DEF SelInv
<1> QED  BY <1>1 DEF vars, SelInv, NoneInFree, Linking

(* gdt_alloc_desc: a descriptor found free that belongs to a process was    *)
(* returned twice before, and one that another fork has in hand is now.     *)
LEMMA GdtAllocDescInv == ASSUME SelInv, NEW t \in Task, GdtAllocDesc(t) PROVE SelInv'
<1>1. PICK i \in Sel :
        /\ tss[i] = NoTask
        /\ local' = [local EXCEPT ![t] = i]
        /\ shared' = shared \cup (IF \E u \in Task : local[u] = i THEN {i} ELSE {})
  BY DEF GdtAllocDesc
<1>2. /\ pc[t] = "forkInit" /\ built[t] = "no" /\ built' = [built EXCEPT ![t] = "found"]
      /\ UNCHANGED <<vars, tss, selOf, reaped>>
  BY DEF GdtAllocDesc, Building
<1>3. LifeInv' /\ NoneInFree' /\ pc' = pc /\ pick' = pick
  BY <1>2, QuietLife DEF vars
<1>4. SelTypeOK'
  BY <1>1, <1>2, SelTypes DEF SelTypeOK
<1>5. InHand'
  BY <1>1, <1>2, <1>3, SelTypes DEF SelTypeOK, SelInv, InHand
<1>6. shared \subseteq shared' /\ \A u \in Task : local[u] = i => i \in shared'
  BY <1>1
<1>7. \A s \in Slot : selOf[s] = i => i \in shared
  BY <1>1, SelTypes DEF SelInv, PointsHome, OwnTss
<1>8. OneOwner'
  BY <1>1, <1>2, <1>6, <1>7, SelTypes DEF SelTypeOK, SelInv, OneOwner
<1>9. PointsHome'
  BY <1>1, <1>2, <1>3, <1>6, SelTypes DEF SelTypeOK, SelInv, PointsHome, OwnTss
<1>10. local[t] = NoSel
  BY <1>2, SelTypes DEF SelTypeOK, SelInv, InHand
<1>11. InUse' \ Known' \subseteq InUse \ Known
  <2>1. \A u \in Task : local'[u] = local[u] \/ (u = t /\ local[u] = NoSel)
    BY <1>1, <1>10, SelTypes DEF SelTypeOK
  <2> QED  BY <1>2, <2>1, SelTypes DEF InUse, Known
<1>12. LostByReaping'
  BY <1>2, <1>11, NoneLost
<1> QED  BY <1>3, <1>4, <1>5, <1>8, <1>9, <1>12 DEF SelInv

(* A full GDT leaves a fork without a selector.                             *)
LEMMA GdtFullInv == ASSUME SelInv, NEW t \in Task, GdtFull(t) PROVE SelInv'
<1>1. /\ pc[t] = "forkInit" /\ built[t] = "no" /\ built' = [built EXCEPT ![t] = "failed"]
      /\ UNCHANGED <<vars, tss, selOf, local, reaped, shared>>
  BY DEF GdtFull, Building
<1>2. LifeInv' /\ NoneInFree' /\ pc' = pc /\ pick' = pick
  BY <1>1, QuietLife DEF vars
<1>3. SelTypeOK'
  BY <1>1, SelTypes DEF SelTypeOK
<1>4. InHand'
  BY <1>1, <1>2, SelTypes DEF SelTypeOK, SelInv, InHand
<1>5. OneOwner' /\ PointsHome'
  BY <1>1, <1>2, SelTypes DEF SelTypeOK, SelInv, OneOwner, PointsHome, OwnTss
<1>6. LostByReaping'
  BY <1>1 DEF SelInv, LostByReaping, InUse, Known
<1> QED  BY <1>2, <1>3, <1>4, <1>5, <1>6 DEF SelInv

(* segment_desc_set and gdt_free_sel write a descriptor that is in hand: no *)
(* other owner can tell unless it was returned twice.                       *)
LEMMA WritingOwn ==
  ASSUME SelInv, NEW t \in Task, built[t] \in {"found", "set"}
  PROVE  /\ local[t] \in Sel
         /\ \A s \in Slot : selOf[s] = local[t] => selOf[s] \in shared
         /\ \A u \in Task : u # t /\ local[u] = local[t] => local[u] \in shared
<1>1. local[t] # NoSel
  BY DEF SelInv, InHand
<1> QED  BY <1>1, SelTypes DEF SelTypeOK, SelInv, OneOwner

(* segment_desc_set in tss_init.                                            *)
LEMMA SegmentDescSetInv == ASSUME SelInv, NEW t \in Task, SegmentDescSet(t) PROVE SelInv'
<1>1. /\ pc[t] = "forkInit" /\ built[t] = "found" /\ built' = [built EXCEPT ![t] = "set"]
      /\ tss' = [tss EXCEPT ![local[t]] = pick[t]]
      /\ UNCHANGED <<vars, selOf, local, reaped, shared>>
  BY DEF SegmentDescSet, Building
<1>2. LifeInv' /\ NoneInFree' /\ pc' = pc /\ pick' = pick
  BY <1>1, QuietLife DEF vars
<1>3. /\ local[t] \in Sel
      /\ \A s \in Slot : selOf[s] = local[t] => selOf[s] \in shared
      /\ \A u \in Task : u # t /\ local[u] = local[t] => local[u] \in shared
  BY <1>1, WritingOwn
<1>4. SelTypeOK'
  BY <1>1, <1>3, SelTypes DEF SelTypeOK
<1>5. InHand'
  BY <1>1, <1>2, SelTypes DEF SelTypeOK, SelInv, InHand
<1>6. OneOwner'
  BY <1>1 DEF SelInv, OneOwner
<1>7. \A i \in Sel : i # local[t] => tss'[i] = tss[i]
  BY <1>1, SelTypes DEF SelTypeOK
<1>8. PointsHome'
  <2>1. ASSUME NEW s \in Slot, selOf[s] # NoSel
        PROVE  tss'[selOf[s]] = s \/ selOf[s] \in shared
    BY <1>3, <1>7, <2>1, SelTypes DEF SelTypeOK, SelInv, PointsHome, OwnTss
  <2>2. ASSUME NEW u \in Task, built'[u] = "set"
        PROVE  tss'[local[u]] = pick[u] \/ local[u] \in shared
    <3>1. CASE u = t
      BY <1>1, <1>3, <3>1, SelTypes DEF SelTypeOK
    <3>2. CASE u # t
      <4>1. built[u] = "set" /\ local[u] \in Sel
        BY <1>1, <2>2, <3>2, WritingOwn, SelTypes DEF SelTypeOK
      <4>2. tss[local[u]] = pick[u] \/ local[u] \in shared
        BY <4>1 DEF SelInv, PointsHome
      <4> QED  BY <1>3, <1>7, <3>2, <4>1, <4>2
    <3> QED  BY <3>1, <3>2
  <2> QED  BY <1>1, <1>2, <2>1, <2>2 DEF PointsHome, OwnTss
<1>9. InUse' \ Known' \subseteq InUse \ Known
  BY <1>1, <1>7 DEF InUse, Known
<1>10. LostByReaping'
  BY <1>1, <1>9, NoneLost
<1> QED  BY <1>2, <1>4, <1>5, <1>6, <1>8, <1>10 DEF SelInv

(* tss_init_failed gives back the descriptor with the selector.             *)
LEMMA TssFailedInv == ASSUME SelInv, NEW t \in Task, TssFailed(t) PROVE SelInv'
<1>1. /\ pc[t] = "forkInit" /\ built[t] = "set" /\ built' = [built EXCEPT ![t] = "failed"]
      /\ tss' = [tss EXCEPT ![local[t]] = NoTask]
      /\ local' = [local EXCEPT ![t] = NoSel]
      /\ UNCHANGED <<vars, selOf, reaped, shared>>
  BY DEF TssFailed, Building
<1>2. LifeInv' /\ NoneInFree' /\ pc' = pc /\ pick' = pick
  BY <1>1, QuietLife DEF vars
<1>3. /\ local[t] \in Sel
      /\ \A s \in Slot : selOf[s] = local[t] => selOf[s] \in shared
      /\ \A u \in Task : u # t /\ local[u] = local[t] => local[u] \in shared
  BY <1>1, WritingOwn
<1>4. SelTypeOK'
  BY <1>1, <1>3, SelTypes DEF SelTypeOK
<1>5. InHand'
  BY <1>1, <1>2, SelTypes DEF SelTypeOK, SelInv, InHand
<1>6. \A u \in Task : local'[u] = IF u = t THEN NoSel ELSE local[u]
  BY <1>1, SelTypes DEF SelTypeOK
<1>7. OneOwner'
  BY <1>1, <1>6 DEF SelInv, OneOwner
<1>8. /\ \A i \in Sel : i # local[t] => tss'[i] = tss[i]
      /\ tss'[local[t]] = NoTask
  BY <1>1, <1>3, SelTypes DEF SelTypeOK
<1>9. PointsHome'
  <2>1. ASSUME NEW s \in Slot, selOf[s] # NoSel
        PROVE  tss'[selOf[s]] = s \/ selOf[s] \in shared
    BY <1>3, <1>8, <2>1, SelTypes DEF SelTypeOK, SelInv, PointsHome, OwnTss
  <2>2. ASSUME NEW u \in Task, built'[u] = "set"
        PROVE  tss'[local'[u]] = pick[u] \/ local'[u] \in shared
    <3>1. built[u] = "set" /\ u # t /\ local'[u] = local[u]
      BY <1>1, <1>6, <2>2, SelTypes DEF SelTypeOK
    <3>2. tss[local[u]] = pick[u] \/ local[u] \in shared
      BY <3>1 DEF SelInv, PointsHome
    <3>3. local[u] \in Sel
      BY <3>1, WritingOwn
    <3> QED  BY <1>3, <1>8, <3>1, <3>2, <3>3
  <2> QED  BY <1>1, <1>2, <2>1, <2>2 DEF PointsHome, OwnTss
<1>10. InUse' \ Known' \subseteq InUse \ Known
  BY <1>1, <1>6, <1>8 DEF InUse, Known
<1>11. LostByReaping'
  BY <1>1, <1>10, NoneLost
<1> QED  BY <1>2, <1>4, <1>5, <1>7, <1>9, <1>11 DEF SelInv

(* The selector goes from the fork to its child, whose slot had none.       *)
LEMMA TaskNamedInv == ASSUME SelInv, ~ clashed, NEW t \in Task, TaskNamed(t) PROVE SelInv'
<1> DEFINE c == pick[t]
<1>1. /\ TaskInit(t) /\ built[t] \in {"set", "failed"} /\ built' = [built EXCEPT ![t] = "no"]
      /\ selOf' = [selOf EXCEPT ![c] = local[t]]
      /\ local' = [local EXCEPT ![t] = NoSel]
      /\ UNCHANGED <<tss, reaped, shared>>
  BY DEF TaskNamed
<1>2. /\ pc[t] = "forkInit" /\ state' = [state EXCEPT ![c] = "created"]
      /\ pc' = [pc EXCEPT ![t] = "forkLink"] /\ pick' = pick /\ clashed' = clashed
  BY <1>1 DEF TaskInit, Goto
<1>3. LifeInv'
  BY <1>1, SelTypes, TaskInitInv
<1>4. c \in Slot /\ selOf[c] = NoSel /\ state[c] = "created"
  <2>1. c \in Slot /\ state[c] = "created" /\ \A u \in Task : pick[u] = c => u = t
    BY <1>2, SelTypes, PickFacts DEF Forking
  <2>2. \A u \in Task : ~ Linking(u, c)
    BY <1>2, <2>1 DEF Linking
  <2> QED  BY <2>1, <2>2 DEF SelInv, NoneInFree
<1> HIDE DEF c
<1>5. SelTypeOK'
  BY <1>1, <1>4, SelTypes DEF SelTypeOK
<1>6. InHand'
  BY <1>1, <1>2, SelTypes DEF SelTypeOK, SelInv, InHand
<1>7. /\ \A u \in Task : local'[u] = IF u = t THEN NoSel ELSE local[u]
      /\ \A s \in Slot : selOf'[s] = IF s = c THEN local[t] ELSE selOf[s]
  BY <1>1, SelTypes DEF SelTypeOK
<1>8. OneOwner'
  BY <1>1, <1>7, SelTypes DEF SelInv, OneOwner
<1>9. PointsHome'
  <2>1. ASSUME NEW s \in Slot, selOf'[s] # NoSel
        PROVE  tss[selOf'[s]] = s \/ selOf'[s] \in shared
    <3>1. CASE s = c
      <4>1. built[t] = "set" /\ selOf'[s] = local[t]
        BY <1>1, <1>7, <2>1, <3>1 DEF SelInv, InHand
      <4> QED  BY <3>1, <4>1 DEF SelInv, PointsHome, c
    <3>2. CASE s # c
      BY <1>7, <2>1, <3>2 DEF SelInv, PointsHome, OwnTss
    <3> QED  BY <3>1, <3>2
  <2>2. ASSUME NEW u \in Task, built'[u] = "set"
        PROVE  tss[local'[u]] = pick[u] \/ local'[u] \in shared
    <3>1. built[u] = "set" /\ u # t
      BY <1>1, <2>2, SelTypes DEF SelTypeOK
    <3> QED  BY <1>7, <3>1 DEF SelInv, PointsHome
  <2> QED  BY <1>1, <1>2, <2>1, <2>2 DEF PointsHome, OwnTss
<1>10. NoneInFree'
  <2> SUFFICES ASSUME NEW s \in Slot, selOf'[s] # NoSel
               PROVE  state'[s] # "created" \/ \E u \in Task : Linking(u, s)'
    BY DEF NoneInFree
  <2>1. CASE s = c
    BY <1>2, <2>1, SelTypes DEF Linking, c
  <2>2. CASE s # c
    <3>1. state'[s] = state[s] /\ selOf[s] # NoSel
      BY <1>2, <1>7, <2>2, SelTypes
    <3>2. \A u \in Task : Linking(u, s) => Linking(u, s)'
      BY <1>2, SelTypes DEF Linking
    <3> QED  BY <3>1, <3>2 DEF SelInv, NoneInFree
  <2> QED  BY <2>1, <2>2
<1>11. InUse' \ Known' \subseteq InUse \ Known
  <2>1. \A i \in Sel : (\E s \in Slot : selOf[s] = i) => \E s \in Slot : selOf'[s] = i
    BY <1>4, <1>7, SelTypes
  <2>2. \A i \in Sel : (\E u \in Task : local[u] = i) =>
          (\E u \in Task : local'[u] = i) \/ (\E s \in Slot : selOf'[s] = i)
    BY <1>4, <1>7
  <2> QED  BY <1>1, <2>1, <2>2 DEF InUse, Known
<1>12. LostByReaping'
  BY <1>1, <1>11, NoneLost
<1> QED  BY <1>3, <1>5, <1>6, <1>8, <1>9, <1>10, <1>12 DEF SelInv

(* sys_wait clears a slot: one descriptor at most is lost with it.          *)
LEMMA ReapInv == ASSUME SelInv, ~ clashed, NEW t \in Task, Reap(t) PROVE SelInv'
<1> DEFINE z == idx[t]
<1>1. /\ WaitReap(t)
      /\ reaped' = reaped + (IF selOf[z] = NoSel THEN 0 ELSE 1)
      /\ selOf' = [selOf EXCEPT ![z] = NoSel]
      /\ UNCHANGED <<tss, local, built, shared>>
  BY DEF Reap
<1>2. /\ z \in Slot /\ pc[t] = "waitScan" /\ state[z] = "zombie"
      /\ state' = [state EXCEPT ![z] = "created"]
      /\ pc' = [pc EXCEPT ![t] = "user", ![z] = "none"]
      /\ pick' = pick /\ clashed' = clashed
  BY <1>1 DEF WaitReap, Scanning
<1>3. LifeInv'
  BY <1>1, SelTypes, WaitReapInv
<1>4. pc[z] = "gone"
  BY <1>2, SelTypes DEF LifeInv, Whereabouts, StateOfPlace
<1> HIDE DEF z
<1>5. SelTypeOK'
  <2>1. reaped' \in Nat
    BY <1>1, SelTypes DEF SelTypeOK
  <2>2. selOf' \in [Slot -> Sel \cup {NoSel}]
    BY <1>1, SelTypes DEF SelTypeOK
  <2> QED  BY <1>1, <2>1, <2>2, SelTypes DEF SelTypeOK
<1>6. \A u \in Task : pc'[u] = "forkInit" <=> pc[u] = "forkInit"
  BY <1>2, <1>4, SelTypes
<1>7. InHand'
  BY <1>1, <1>6 DEF SelInv, InHand
<1>8. \A s \in Slot : selOf'[s] = IF s = z THEN NoSel ELSE selOf[s]
  BY <1>1, SelTypes DEF SelTypeOK
<1>9. OneOwner'
  BY <1>1, <1>8 DEF SelInv, OneOwner
<1>10. PointsHome'
  BY <1>1, <1>2, <1>8 DEF SelInv, PointsHome, OwnTss
<1>11. NoneInFree'
  <2> SUFFICES ASSUME NEW s \in Slot, selOf'[s] # NoSel
               PROVE  state'[s] # "created" \/ \E u \in Task : Linking(u, s)'
    BY DEF NoneInFree
  <2>1. s # z /\ state'[s] = state[s] /\ selOf[s] # NoSel
    BY <1>2, <1>8, SelTypes
  <2>2. \A u \in Task : Linking(u, s) => Linking(u, s)'
    BY <1>2, <1>4, SelTypes DEF Linking
  <2> QED  BY <2>1, <2>2 DEF SelInv, NoneInFree
<1>12. LostByReaping'
  <2> DEFINE a == InUse \ Known
             b == InUse' \ Known'
  <2>1. IsFiniteSet(a) /\ Cardinality(a) \in Nat /\ Cardinality(a) <= reaped /\ reaped \in Nat
    <3>1. a \subseteq Sel
      BY DEF InUse
    <3> QED  BY <3>1, FiniteSel, FS_Subset, FS_CardinalityType, SelTypes
             DEF SelInv, SelTypeOK, LostByReaping
  <2>2. b \subseteq a \cup {selOf[z]}
    BY <1>1, <1>8 DEF InUse, Known
  <2>3. selOf[z] = NoSel => b \subseteq a
    <3>1. b \subseteq Sel
      BY DEF InUse
    <3> QED  BY <2>2, <3>1, SelTypes
  <2>4. b = (InUse \ Known)'
    OBVIOUS
  <2> HIDE DEF a, b
  <2>5. IsFiniteSet(a \cup {selOf[z]}) /\ Cardinality(a \cup {selOf[z]}) <= Cardinality(a) + 1
    <3> DEFINE v == selOf[z]
    <3> HIDE DEF v
    <3>1. /\ IsFiniteSet(a \cup {v})
          /\ Cardinality(a \cup {v}) = IF v \in a THEN Cardinality(a) ELSE Cardinality(a) + 1
      BY <2>1, FS_AddElement
    <3>2. Cardinality(a \cup {v}) <= Cardinality(a) + 1
      BY <2>1, <3>1
    <3> QED  BY <3>1, <3>2 DEF v
  <2>6. CASE selOf[z] = NoSel
    <3>1. Cardinality(b) <= Cardinality(a) /\ Cardinality(b) \in Nat
      BY <2>1, <2>3, <2>6, FS_Subset, FS_CardinalityType
    <3> QED  BY <1>1, <2>1, <2>4, <2>6, <3>1 DEF LostByReaping
  <2>7. CASE selOf[z] # NoSel
    <3>1. /\ Cardinality(b) <= Cardinality(a \cup {selOf[z]}) /\ Cardinality(b) \in Nat
          /\ Cardinality(a \cup {selOf[z]}) \in Nat
      BY <2>2, <2>5, FS_Subset, FS_CardinalityType
    <3>2. Cardinality(b) <= reaped + 1
      BY <2>1, <2>5, <3>1
    <3> QED  BY <1>1, <2>4, <2>7, <3>2 DEF LostByReaping
  <2> QED  BY <2>6, <2>7
<1> QED  BY <1>3, <1>5, <1>7, <1>9, <1>10, <1>11, <1>12 DEF SelInv

(* The rest of fork, wait and exit knows nothing of the GDT.                *)
LEMMA OtherSelInv ==
  ASSUME SelInv, ~ clashed, NEW t \in Task, UNCHANGED selVars, OtherStep(t) \/ Call(t)
  PROVE  SelInv'
<1>1. LifeInv'
  <2>1. [Next]_vars
    BY DEF Next, Step
  <2> QED  BY <2>1, SelTypes, NextLife
<1>2. /\ \A u \in Task : pc[u] = "forkInit" => pc'[u] = "forkInit" /\ pick'[u] = pick[u]
      /\ \A s \in Slot : state[s] # "created" => state'[s] # "created"
      /\ \A u \in Task, s \in Slot : Linking(u, s) => Linking(u, s)' \/ state'[s] # "created"
  BY SelTypes, OtherFrame
<1>3. UNCHANGED <<tss, selOf, local, built, reaped, shared>>
  BY DEF selVars
<1>4. SelTypeOK' /\ OneOwner' /\ LostByReaping'
  BY <1>3 DEF SelInv, SelTypeOK, OneOwner, LostByReaping, InUse, Known
<1>5. InHand'
  BY <1>2, <1>3 DEF SelInv, InHand
<1>6. PointsHome'
  BY <1>2, <1>3 DEF SelInv, PointsHome, OwnTss, InHand
<1>7. NoneInFree'
  BY <1>2, <1>3 DEF SelInv, NoneInFree
<1> QED  BY <1>1, <1>4, <1>5, <1>6, <1>7 DEF SelInv

(* Every step keeps the invariant.                                          *)
LEMMA NextSel == SelInv /\ [SelNext]_lifeVars => SelInv'
<1> SUFFICES ASSUME SelInv, [SelNext]_lifeVars
             PROVE  SelInv'
  OBVIOUS
<1>1. CASE UNCHANGED lifeVars
  <2>1. UNCHANGED vars /\ UNCHANGED <<tss, selOf, local, built, reaped, shared>>
    BY <1>1 DEF lifeVars, selVars
  <2>2. LifeInv' /\ NoneInFree' /\ pc' = pc /\ pick' = pick
    BY <2>1, QuietLife DEF vars
  <2>3. SelTypeOK' /\ OneOwner' /\ LostByReaping' /\ InHand' /\ PointsHome'
    BY <2>1, <2>2
    DEF SelInv, SelTypeOK, OneOwner, LostByReaping, InUse, Known, InHand, PointsHome, OwnTss
  <2> QED  BY <2>2, <2>3 DEF SelInv
<1>2. CASE SelNext
  <2>1. ~ clashed
    BY <1>2 DEF SelNext, Wrecked
  <2>2. PICK t \in Task : SelStep(t) \/ (Call(t) /\ UNCHANGED selVars)
    BY <1>2 DEF SelNext
  <2> QED  BY <2>1, <2>2, GdtAllocDescInv, GdtFullInv, SegmentDescSetInv, TssFailedInv,
             TaskNamedInv, ReapInv, OtherSelInv DEF SelStep
<1> QED  BY <1>1, <1>2

(* Every process that can run is switched to through a descriptor that      *)
(* points to its own slot, unless two forks found it free at once, and no   *)
(* descriptor is lost except with a process that is reaped (tss_init and    *)
(* sys_wait of core/task.c, gdt_alloc_desc and gdt_free_sel of cpu/cpu.c).  *)
THEOREM SpecDescriptorsExact == SelSpec => []DescriptorsExact
<1>1. SelInv => DescriptorsExact
  BY DEF SelInv, PointsHome, LostByReaping, DescriptorsExact
<1> QED  BY <1>1, InitSel, NextSel, PTL DEF SelSpec

=============================================================================
