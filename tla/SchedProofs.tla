---------------------------- MODULE SchedProofs ----------------------------
(* Proofs about Sched: the conjunction of its five state invariants is      *)
(* inductive, for any set of tasks, any time slice and any longest sleep.   *)
(* Then about SchedClock: every clock interrupt is counted exactly once for *)
(* every sleeper, however long the scan that counts it stays on the stack   *)
(* of a preempted task.  Then about LinkedList, which Sched's sequences     *)
(* stand for: the pointers of a list spell the sequence its calls built,    *)
(* whatever the number of nodes and lists.  Last about Ipc: a task that is  *)
(* blocked is in exactly one place of exactly one wait list, and mutexes    *)
(* and semaphores keep the promises of QueueLock and CreditSem.             *)
EXTENDS SchedClock, Ipc, SequenceTheorems, FiniteSetTheorems, LinkedList, TLAPS

-----------------------------------------------------------------------------
(* Lists without repetition. *)

(* Removing the node of t from a list keeps the others, in order. *)
LEMMA UnlinkProperties ==
  ASSUME NEW S, NEW s \in Seq(S), IsInjective(s), NEW t \in Range(s)
  PROVE  /\ Unlink(s, t) \in Seq(S)
         /\ IsInjective(Unlink(s, t))
         /\ Range(Unlink(s, t)) = Range(s) \ {t}
         /\ Len(Unlink(s, t)) = Len(s) - 1
<1> DEFINE i == CHOOSE j \in DOMAIN s : s[j] = t
           u == [j \in 1 .. Len(s) - 1 |-> IF j < i THEN s[j] ELSE s[j + 1]]
<1>1. i \in 1 .. Len(s) /\ s[i] = t
  BY DEF Range
<1>2. Unlink(s, t) = u
  BY DEF Unlink
<1>3. DOMAIN s = 1 .. Len(s) /\ Len(s) \in Nat /\ \A j \in 1 .. Len(s) : s[j] \in S
  OBVIOUS
<1> HIDE DEF i
<1>4. u \in Seq(S) /\ Len(u) = Len(s) - 1 /\ DOMAIN u = 1 .. Len(s) - 1
  <2>1. \A j \in 1 .. Len(s) - 1 : (IF j < i THEN s[j] ELSE s[j + 1]) \in S
    BY <1>1, <1>3
  <2>2. u \in [1 .. Len(s) - 1 -> S] /\ Len(s) - 1 \in Nat
    BY <2>1, <1>1, <1>3
  <2> QED  BY <2>2
<1>5. IsInjective(u)
  <2> SUFFICES ASSUME NEW a \in 1 .. Len(s) - 1, NEW b \in 1 .. Len(s) - 1, u[a] = u[b]
               PROVE  a = b
    BY <1>4 DEF IsInjective
  <2> QED  BY <1>1, <1>3 DEF IsInjective
<1>6. Range(u) = Range(s) \ {t}
  <2>1. ASSUME NEW a \in 1 .. Len(s) - 1
        PROVE  u[a] \in Range(s) \ {t}
    BY <1>1, <1>3 DEF IsInjective, Range
  <2>2. ASSUME NEW x \in Range(s) \ {t}
        PROVE  x \in Range(u)
    <3>1. PICK j \in 1 .. Len(s) : s[j] = x
      BY <1>3 DEF Range
    <3>2. CASE j < i
      <4>1. j \in 1 .. Len(s) - 1 /\ u[j] = x
        BY <3>1, <3>2, <1>1, <1>3
      <4> QED  BY <4>1, <1>4 DEF Range
    <3>3. CASE j > i
      <4>1. j - 1 \in 1 .. Len(s) - 1 /\ u[j - 1] = x
        BY <3>1, <3>3, <1>1, <1>3
      <4> QED  BY <4>1, <1>4 DEF Range
    <3>4. j # i
      BY <3>1, <1>1, <2>2
    <3> QED  BY <3>2, <3>3, <3>4, <1>1, <3>1
  <2> QED  BY <2>1, <2>2, <1>4 DEF Range
<1> QED  BY <1>2, <1>4, <1>5, <1>6

(* Appending what is not in the list. *)
LEMMA EnqueueProperties ==
  ASSUME NEW S, NEW s \in Seq(S), NEW t \in S
  PROVE  /\ Enqueue(s, t) \in Seq(S)
         /\ Len(Enqueue(s, t)) = Len(s) + 1
         /\ Range(Enqueue(s, t)) = Range(s) \cup {t}
         /\ IsInjective(s) /\ t \notin Range(s) => IsInjective(Enqueue(s, t))
         /\ s # <<>> => Head(Enqueue(s, t)) = Head(s)
         /\ Enqueue(s, t) # <<>>
         /\ s = <<>> => Head(Enqueue(s, t)) = t
<1> DEFINE e == Append(s, t)
<1>1. /\ e \in Seq(S) /\ Len(e) = Len(s) + 1
      /\ \A i \in 1 .. Len(s) : e[i] = s[i]
      /\ e[Len(s) + 1] = t
      /\ DOMAIN e = 1 .. Len(s) + 1 /\ DOMAIN s = 1 .. Len(s) /\ Len(s) \in Nat
  OBVIOUS
<1>2. Range(e) = Range(s) \cup {t}
  <2>1. ASSUME NEW i \in DOMAIN e PROVE e[i] \in Range(s) \cup {t}
    BY <1>1 DEF Range
  <2>2. Range(s) \subseteq Range(e)
    BY <1>1 DEF Range
  <2>3. t \in Range(e)
    BY <1>1 DEF Range
  <2> QED  BY <2>1, <2>2, <2>3 DEF Range
<1>3. ASSUME IsInjective(s), t \notin Range(s) PROVE IsInjective(e)
  BY <1>1, <1>3 DEF IsInjective, Range
<1>4. e # <<>> /\ (s = <<>> => Head(e) = t) /\ (s # <<>> => Head(e) = Head(s))
  BY <1>1
<1> QED  BY <1>1, <1>2, <1>3, <1>4 DEF Enqueue

(* The head of a non-empty list is in it. *)
LEMMA HeadInRange ==
  ASSUME NEW S, NEW s \in Seq(S), s # <<>>
  PROVE  Head(s) \in S /\ Head(s) \in Range(s)
  BY DEF Range


(* Appending one or two waiting tasks, as sys_exit does before it unlinks    *)
(* the running task.                                                        *)
LEMMA WakesProperties ==
  ASSUME NEW S, NEW s \in Seq(S), IsInjective(s),
         NEW w \in Seq(S), IsInjective(w), Range(s) \cap Range(w) = {}
  PROVE  /\ s \o w \in Seq(S)
         /\ IsInjective(s \o w)
         /\ Range(s \o w) = Range(s) \cup Range(w)
<1> DEFINE c == s \o w
<1>1. /\ c \in Seq(S) /\ Len(c) = Len(s) + Len(w) /\ DOMAIN c = 1 .. Len(s) + Len(w)
      /\ DOMAIN s = 1 .. Len(s) /\ DOMAIN w = 1 .. Len(w) /\ Len(s) \in Nat /\ Len(w) \in Nat
      /\ \A i \in 1 .. Len(s) : c[i] = s[i]
      /\ \A i \in 1 .. Len(w) : c[Len(s) + i] = w[i]
      /\ \A i \in Len(s) + 1 .. Len(s) + Len(w) : c[i] = w[i - Len(s)]
  OBVIOUS
<1>2. Range(c) = Range(s) \cup Range(w)
  <2>1. Range(s) \subseteq Range(c)
    BY <1>1 DEF Range
  <2>2. Range(w) \subseteq Range(c)
    <3> SUFFICES ASSUME NEW i \in 1 .. Len(w) PROVE w[i] \in Range(c)
      BY <1>1 DEF Range
    <3>1. Len(s) + i \in DOMAIN c /\ c[Len(s) + i] = w[i]
      BY <1>1
    <3> QED  BY <3>1 DEF Range
  <2>3. ASSUME NEW i \in DOMAIN c PROVE c[i] \in Range(s) \cup Range(w)
    <3>1. CASE i \in 1 .. Len(s)
      BY <1>1, <3>1 DEF Range
    <3>2. CASE i \in Len(s) + 1 .. Len(s) + Len(w)
      <4>1. i - Len(s) \in DOMAIN w /\ c[i] = w[i - Len(s)]
        BY <1>1, <3>2
      <4> QED  BY <4>1 DEF Range
    <3> QED  BY <1>1, <3>1, <3>2
  <2> QED  BY <2>1, <2>2, <2>3 DEF Range
<1>3. IsInjective(c)
  <2> SUFFICES ASSUME NEW a \in DOMAIN c, NEW b \in DOMAIN c, c[a] = c[b], a < b
               PROVE  FALSE
    BY <1>1 DEF IsInjective
  <2>1. CASE b <= Len(s)
    BY <1>1, <2>1 DEF IsInjective
  <2>2. CASE a > Len(s)
    <3>1. /\ a - Len(s) \in DOMAIN w /\ b - Len(s) \in DOMAIN w
          /\ w[a - Len(s)] = w[b - Len(s)] /\ a - Len(s) # b - Len(s)
      BY <1>1, <2>2
    <3> QED  BY <3>1 DEF IsInjective
  <2>3. CASE a <= Len(s) /\ b > Len(s)
    <3>1. /\ a \in DOMAIN s /\ b - Len(s) \in DOMAIN w
          /\ c[a] = s[a] /\ c[b] = w[b - Len(s)]
      BY <1>1, <2>3
    <3>2. s[a] \in Range(s) /\ w[b - Len(s)] \in Range(w)
      BY <3>1 DEF Range
    <3> QED  BY <3>1, <3>2
  <2> QED  BY <2>1, <2>2, <2>3, <1>1
<1> QED  BY <1>1, <1>2, <1>3

-----------------------------------------------------------------------------
(* OnePlace and StateAgrees task by task, with the run lists as sets.       *)
Placed(R, S, B, st, tk) ==
  /\ R \subseteq Task /\ S \subseteq Task /\ B \subseteq Task
  /\ st \in [AllTask -> TaskState]
  /\ tk \in [Task -> 0 .. MaxSleep]
  /\ \A t \in Task :
       /\ ~ (t \in R /\ t \in S)
       /\ ~ (t \in B /\ (t \in R \/ t \in S))
       /\ (t \in R \/ t \in S \/ t \in B) <=> st[t] \notin {"created", "zombie"}
       /\ st[t] = "sleep" <=> t \in S
       /\ tk[t] > 0 <=> t \in S
       /\ st[t] = "waiting" => t \in B
       /\ t \in R => st[t] \in {"ready", "running"}

IInv == TypeOK /\ CurrIsHead /\ OnePlace /\ StateAgrees /\ TailsAreReady

(* The invariant says of every task which list it is in.                    *)
LEMMA InvPlaced ==
  ASSUME IInv
  PROVE  Placed(Range(ready), Range(sleeping), blocked, state, sleepTicks)
<1>1. Range(ready) \subseteq Task /\ Range(sleeping) \subseteq Task
  BY DEF IInv, TypeOK, Range
<1>2. ASSUME NEW t \in Task
      PROVE  (t \in Range(ready) \/ t \in Range(sleeping) \/ t \in blocked)
                <=> state[t] \notin {"created", "zombie"}
  BY DEF IInv, OnePlace, Dormant
<1> QED  BY <1>1, <1>2 DEF IInv, TypeOK, OnePlace, StateAgrees, Placed

(* Marking the next task as running moves nobody to another list.           *)
LEMMA RunningPlaced ==
  ASSUME NEW R, NEW S, NEW B, NEW st, NEW tk, Placed(R, S, B, st, tk),
         NEW n \in R \cup {Idle}
  PROVE  Placed(R, S, B, [st EXCEPT ![n] = "running"], tk)
  BY TaskAssumption DEF Placed, AllTask, TaskState

(* What a dispatch establishes, whichever task it comes to.                 *)
LEMMA DispatchProperties ==
  ASSUME NEW rdy \in Seq(Task), NEW st, NEW frozen, NEW on \in {0, 1},
         NEW S, NEW B, NEW tk,
         Placed(Range(rdy), S, B, st, tk),
         tail \subseteq Range(rdy) \ {curr}, frozen \subseteq Range(rdy),
         Dispatch(rdy, st, frozen, on)
  PROVE  /\ ready' = rdy
         /\ Placed(Range(rdy), S, B, state', tk)
         /\ curr' \in AllTask
         /\ curr' # Idle => rdy # <<>> /\ Head(rdy) = curr'
         /\ curr' = Idle => rdy = <<>>
         /\ tail' \subseteq Range(rdy) \ {curr'}
         /\ cursor' \in {0, 1}
<1>1. ready' = rdy /\ curr' = NextRun(rdy) /\ cursor' \in {0, 1}
  BY DEF Dispatch, DispatchSwitch
<1>2. NextRun(rdy) \in Range(rdy) \cup {Idle}
  BY HeadInRange DEF NextRun
<1>3. /\ NextRun(rdy) \in AllTask
      /\ NextRun(rdy) # Idle => rdy # <<>> /\ Head(rdy) = NextRun(rdy)
      /\ NextRun(rdy) = Idle => rdy = <<>>
  BY TaskAssumption, HeadInRange DEF NextRun, AllTask
<1>4. Placed(Range(rdy), S, B, state', tk)
  <2>1. Placed(Range(rdy), S, B, [st EXCEPT ![NextRun(rdy)] = "running"], tk)
    BY <1>2, RunningPlaced
  <2> QED  BY <2>1 DEF Dispatch, DispatchSwitch
<1>5. tail' \subseteq Range(rdy) \ {curr'}
  BY DEF Dispatch, DispatchSwitch
<1> QED  BY <1>1, <1>3, <1>4, <1>5

-----------------------------------------------------------------------------
(* The parts of the invariant that the steps reestablish, put together.     *)
LEMMA InvFromParts ==
  ASSUME /\ ready' \in Seq(Task) /\ IsInjective(ready')
         /\ sleeping' \in Seq(Task) /\ IsInjective(sleeping')
         /\ Placed(Range(ready'), Range(sleeping'), blocked', state', sleepTicks')
         /\ curr' \in AllTask /\ slice' \in [AllTask -> 1 .. TimeSlice]
         /\ curr' # Idle => ready' # <<>> /\ Head(ready') = curr'
         /\ curr' = Idle /\ cursor' = 0 => ready' = <<>>
         /\ tail' \subseteq Range(ready') \ {curr'}
         /\ cursor' \in 0 .. Len(sleeping') + 1
  PROVE  IInv'
<1>1. Range(ready') \subseteq Task
  BY DEF Range
<1>2. TypeOK'
  BY <1>1 DEF TypeOK, Placed
<1>3. OnePlace'
  BY DEF OnePlace, Dormant, Placed
<1>4. StateAgrees'
  BY <1>1 DEF StateAgrees, Placed
<1> QED  BY <1>2, <1>3, <1>4 DEF IInv, CurrIsHead, TailsAreReady

(* The same for the steps that end in a dispatch.                           *)
LEMMA DispatchInv ==
  ASSUME IInv,
         NEW rdy \in Seq(Task), NEW st, NEW frozen, NEW on \in {0, 1},
         IsInjective(rdy),
         sleeping' \in Seq(Task), IsInjective(sleeping'),
         Placed(Range(rdy), Range(sleeping'), blocked', st, sleepTicks'),
         slice' \in [AllTask -> 1 .. TimeSlice],
         tail \subseteq Range(rdy) \ {curr}, frozen \subseteq Range(rdy),
         Dispatch(rdy, st, frozen, on)
  PROVE  IInv'
<1>1. /\ ready' = rdy
      /\ Placed(Range(rdy), Range(sleeping'), blocked', state', sleepTicks')
      /\ curr' \in AllTask
      /\ curr' # Idle => rdy # <<>> /\ Head(rdy) = curr'
      /\ curr' = Idle => rdy = <<>>
      /\ tail' \subseteq Range(rdy) \ {curr'}
      /\ cursor' \in {0, 1}
  BY DispatchProperties
<1>2. cursor' \in 0 .. Len(sleeping') + 1
  BY <1>1
<1> QED  BY <1>1, <1>2, InvFromParts

(* What the invariant says of the running task in a system call.            *)
LEMMA InTaskProperties ==
  ASSUME IInv, InTask
  PROVE  /\ curr \in Task /\ curr \in Range(ready)
         /\ curr \notin Range(sleeping) /\ curr \notin blocked
         /\ Unlink(ready, curr) \in Seq(Task)
         /\ IsInjective(Unlink(ready, curr))
         /\ Range(Unlink(ready, curr)) = Range(ready) \ {curr}
         /\ tail \subseteq Range(ready) \ {curr}
<1>1. curr \in Task /\ ready \in Seq(Task) /\ ready # <<>> /\ Head(ready) = curr
  BY TaskAssumption DEF IInv, TypeOK, CurrIsHead, InTask
<1>2. curr \in Range(ready)
  BY <1>1, HeadInRange
<1>3. IsInjective(ready)
  BY DEF IInv, OnePlace
<1> QED  BY <1>1, <1>2, <1>3, UnlinkProperties DEF IInv, OnePlace, TailsAreReady

-----------------------------------------------------------------------------
(* The first task runs alone.                                               *)
LEMMA InitInv == Init => IInv
<1> SUFFICES ASSUME Init PROVE IInv
  OBVIOUS
<1>1. ready \in Seq(Task) /\ sleeping \in Seq(Task)
  BY TaskAssumption DEF Init
<1>2. Range(ready) = {First} /\ Range(sleeping) = {} /\ Len(sleeping) = 0
  BY DEF Init, Range
<1>3. IsInjective(ready) /\ IsInjective(sleeping)
  BY DEF Init, IsInjective
<1>4. TypeOK
  BY <1>1, TaskAssumption, SliceAssumption DEF Init, TypeOK, AllTask, TaskState
<1>5. CurrIsHead
  BY TaskAssumption DEF Init, CurrIsHead
<1>6. OnePlace /\ StateAgrees
  BY <1>2, <1>3, TaskAssumption DEF Init, OnePlace, Dormant, StateAgrees, AllTask
<1>7. TailsAreReady
  BY <1>2 DEF Init, TailsAreReady
<1> QED  BY <1>4, <1>5, <1>6, <1>7 DEF IInv

(* The running task moves to the end of the ready list, as the clock        *)
(* handler and sys_sched_yield do.                                          *)
LEMMA RotatedProperties ==
  ASSUME IInv, cursor = 0
  PROVE  /\ Rotated \in Seq(Task) /\ IsInjective(Rotated)
         /\ Range(Rotated) = Range(ready)
         /\ Placed(Range(ready), Range(sleeping), blocked, RotatedState, sleepTicks)
<1>1. ready \in Seq(Task) /\ IsInjective(ready)
  BY DEF IInv, TypeOK, OnePlace
<1>2. Placed(Range(ready), Range(sleeping), blocked, state, sleepTicks)
  BY InvPlaced
<1>3. CASE curr = Idle
  BY <1>1, <1>2, <1>3 DEF Rotated, RotatedState
<1>4. CASE curr # Idle
  <2>1. InTask
    BY <1>4 DEF IInv, TypeOK, AllTask, InTask
  <2>2. /\ curr \in Task /\ curr \in Range(ready)
        /\ Unlink(ready, curr) \in Seq(Task) /\ IsInjective(Unlink(ready, curr))
        /\ Range(Unlink(ready, curr)) = Range(ready) \ {curr}
    BY <2>1, InTaskProperties
  <2>3. /\ Enqueue(Unlink(ready, curr), curr) \in Seq(Task)
        /\ IsInjective(Enqueue(Unlink(ready, curr), curr))
        /\ Range(Enqueue(Unlink(ready, curr), curr)) = Range(ready)
    <3> DEFINE u == Unlink(ready, curr)
    <3>1. u \in Seq(Task) /\ IsInjective(u) /\ curr \in Task /\ curr \notin Range(u)
      BY <2>2
    <3>2. Range(u) \cup {curr} = Range(ready)
      BY <2>2
    <3> HIDE DEF u
    <3>3. /\ Enqueue(u, curr) \in Seq(Task) /\ IsInjective(Enqueue(u, curr))
          /\ Range(Enqueue(u, curr)) = Range(u) \cup {curr}
      BY <3>1, EnqueueProperties
    <3> QED  BY <3>2, <3>3 DEF u
  <2>4. Placed(Range(ready), Range(sleeping), blocked, [state EXCEPT ![curr] = "ready"], sleepTicks)
    BY <1>2, <2>2 DEF Placed, AllTask, TaskState
  <2> QED  BY <1>4, <2>3, <2>4 DEF Rotated, RotatedState
<1> QED  BY <1>3, <1>4

(* The tasks sys_exit wakes wait for a child, and the ready list when it has  *)
(* linked them and unlinked itself.                                         *)
LEMMA ExitProperties ==
  ASSUME IInv, InTask, NEW w \in ExitWakes
  PROVE  /\ Range(w) \subseteq Waiting /\ Range(w) \subseteq blocked
         /\ Unlink(ready \o w, curr) \in Seq(Task)
         /\ IsInjective(Unlink(ready \o w, curr))
         /\ Range(Unlink(ready \o w, curr)) = (Range(ready) \cup Range(w)) \ {curr}
<1>1. w \in Seq(Task) /\ IsInjective(w) /\ Range(w) \subseteq Waiting
  <2>1. CASE w = <<>>
    BY <2>1 DEF IsInjective, Range
  <2>2. ASSUME NEW p \in Waiting, w = <<p>>
        PROVE  w \in Seq(Task) /\ IsInjective(w) /\ Range(w) \subseteq Waiting
    BY <2>2 DEF IsInjective, Range, Waiting
  <2>3. ASSUME NEW f \in Waiting \cap {First}, NEW p \in Waiting \ {First}, w = <<f, p>>
        PROVE  w \in Seq(Task) /\ IsInjective(w) /\ Range(w) \subseteq Waiting
    <3>1. DOMAIN w = {1, 2} /\ w[1] = f /\ w[2] = p /\ f # p
      BY <2>3
    <3>2. f \in Task /\ p \in Task
      BY DEF Waiting
    <3>3. w \in Seq(Task)
      BY <2>3, <3>2
    <3> QED  BY <3>1, <3>3 DEF IsInjective, Range
  <2> QED  BY <2>1, <2>2, <2>3 DEF ExitWakes
<1>2. Range(w) \subseteq blocked /\ Range(ready) \cap Range(w) = {}
  BY <1>1, InvPlaced DEF Waiting, Placed
<1>3. ready \in Seq(Task) /\ IsInjective(ready) /\ curr \in Range(ready)
  BY InTaskProperties DEF IInv, TypeOK, OnePlace
<1>4. /\ ready \o w \in Seq(Task) /\ IsInjective(ready \o w)
      /\ Range(ready \o w) = Range(ready) \cup Range(w)
  BY <1>1, <1>2, <1>3, WakesProperties
<1> DEFINE c == ready \o w
<1>5. c \in Seq(Task) /\ IsInjective(c) /\ curr \in Range(c)
  BY <1>3, <1>4
<1> HIDE DEF c
<1>6. /\ Unlink(c, curr) \in Seq(Task) /\ IsInjective(Unlink(c, curr))
      /\ Range(Unlink(c, curr)) = Range(c) \ {curr}
  BY <1>5, UnlinkProperties
<1> QED  BY <1>1, <1>2, <1>4, <1>6 DEF c

(* Every step keeps the invariant.                                          *)
LEMMA NextInv == IInv /\ [Next]_schedVars => IInv'
<1> SUFFICES ASSUME IInv, [Next]_schedVars
             PROVE  IInv'
  OBVIOUS
<1> USE TaskAssumption, SliceAssumption
<1>a. /\ ready \in Seq(Task) /\ sleeping \in Seq(Task)
      /\ IsInjective(ready) /\ IsInjective(sleeping)
      /\ slice \in [AllTask -> 1 .. TimeSlice] /\ curr \in AllTask
      /\ tail \subseteq Range(ready) \ {curr}
      /\ cursor \in 0 .. Len(sleeping) + 1 /\ Len(sleeping) \in Nat
  BY DEF IInv, TypeOK, OnePlace, TailsAreReady
<1>b. Placed(Range(ready), Range(sleeping), blocked, state, sleepTicks)
  BY InvPlaced
<1>c. /\ curr # Idle => ready # <<>> /\ Head(ready) = curr
      /\ curr = Idle /\ cursor = 0 => ready = <<>>
  BY DEF IInv, CurrIsHead
<1>1. CASE TickCount
  <2>1. slice' \in [AllTask -> 1 .. TimeSlice]
    BY <1>1, <1>a DEF TickCount
  <2>2. cursor' \in 0 .. Len(sleeping') + 1 /\ cursor' # 0
    BY <1>1, <1>a DEF TickCount
  <2> QED  BY <1>1, <1>a, <1>b, <1>c, <2>1, <2>2, InvFromParts DEF TickCount
<1>2. CASE TickExpire
  <2>1. slice' \in [AllTask -> 1 .. TimeSlice]
    BY <1>2, <1>a DEF TickExpire
  <2>2. /\ Rotated \in Seq(Task) /\ IsInjective(Rotated) /\ Range(Rotated) = Range(ready)
        /\ Placed(Range(ready), Range(sleeping), blocked, RotatedState, sleepTicks)
    BY <1>2, RotatedProperties DEF TickExpire
  <2>3. CASE curr # Idle
    <3>1. {curr} \subseteq Range(Rotated)
      BY <1>a, <1>c, <2>2, <2>3, HeadInRange
    <3> QED  BY <1>2, <1>a, <2>1, <2>2, <3>1, DispatchInv DEF TickExpire
  <2>4. CASE curr = Idle
    <3>1. ready = <<>> /\ Rotated = <<>> /\ RotatedState = state
      BY <1>2, <1>c, <2>4 DEF TickExpire, Rotated, RotatedState
    <3>2. ready' = <<>> /\ state' = state /\ cursor' = 1 /\ curr' = curr /\ tail' = tail
      BY <1>2, <2>4, <3>1 DEF TickExpire, Dispatch, DispatchSwitch, NextRun
    <3>3. cursor' \in 0 .. Len(sleeping') + 1 /\ cursor' # 0
      BY <1>2, <1>a, <3>2 DEF TickExpire
    <3> QED  BY <1>2, <1>a, <1>b, <2>1, <2>4, <3>1, <3>2, <3>3, InvFromParts DEF TickExpire
  <2> QED  BY <2>3, <2>4
<1>3. CASE ScanWake
  <2> DEFINE t == sleeping[cursor]
  <2>1. t \in Range(sleeping) /\ t \in Task /\ t \notin Range(ready) /\ cursor # 0
    BY <1>3, <1>a, <1>b DEF ScanWake, Range, Placed
  <2> HIDE DEF t
  <2>2. /\ Unlink(sleeping, t) \in Seq(Task) /\ IsInjective(Unlink(sleeping, t))
        /\ Range(Unlink(sleeping, t)) = Range(sleeping) \ {t}
        /\ Len(Unlink(sleeping, t)) = Len(sleeping) - 1
    BY <1>a, <2>1, UnlinkProperties
  <2>3. /\ Enqueue(ready, t) \in Seq(Task) /\ IsInjective(Enqueue(ready, t))
        /\ Range(Enqueue(ready, t)) = Range(ready) \cup {t}
        /\ ready # <<>> => Head(Enqueue(ready, t)) = Head(ready)
        /\ Enqueue(ready, t) # <<>>
    BY <1>a, <2>1, EnqueueProperties
  <2>4. Placed(Range(ready) \cup {t}, Range(sleeping) \ {t}, blocked,
               [state EXCEPT ![t] = "ready"], [sleepTicks EXCEPT ![t] = 0])
    BY <1>b, <2>1 DEF Placed, AllTask, TaskState
  <2>5. cursor' \in 0 .. Len(sleeping') + 1 /\ cursor' # 0
    BY <1>3, <1>a, <2>1, <2>2 DEF ScanWake, t
  <2>6. /\ ready' = Enqueue(ready, t) /\ sleeping' = Unlink(sleeping, t)
        /\ state' = [state EXCEPT ![t] = "ready"]
        /\ sleepTicks' = [sleepTicks EXCEPT ![t] = 0]
        /\ UNCHANGED <<blocked, curr, slice, tail>>
    BY <1>3 DEF ScanWake, t
  <2> QED  BY <1>a, <1>c, <2>2, <2>3, <2>4, <2>5, <2>6, InvFromParts
<1>4. CASE ScanCount
  <2> DEFINE t == sleeping[cursor]
  <2>1. t \in Range(sleeping) /\ t \in Task /\ sleepTicks[t] > 1
    BY <1>4, <1>a DEF ScanCount, Range
  <2>2. Placed(Range(ready), Range(sleeping), blocked, state, [sleepTicks EXCEPT ![t] = @ - 1])
    BY <1>b, <2>1 DEF Placed
  <2>3. cursor' \in 0 .. Len(sleeping') + 1 /\ cursor' # 0
    BY <1>4, <1>a DEF ScanCount
  <2> QED  BY <1>4, <1>a, <1>c, <2>2, <2>3, InvFromParts DEF ScanCount
<1>5. CASE ScanEnd
  BY <1>5, <1>a, <1>b, DispatchInv DEF ScanEnd
<1>6. CASE Yield
  <2>1. /\ Rotated \in Seq(Task) /\ IsInjective(Rotated) /\ Range(Rotated) = Range(ready)
        /\ Placed(Range(ready), Range(sleeping), blocked, RotatedState, sleepTicks)
    BY <1>6, RotatedProperties DEF Yield, InTask
  <2> QED  BY <1>6, <1>a, <2>1, DispatchInv DEF Yield
<1>d. ASSUME InTask
      PROVE  /\ curr \in Task /\ curr \in Range(ready)
             /\ curr \notin Range(sleeping) /\ curr \notin blocked
             /\ Unlink(ready, curr) \in Seq(Task)
             /\ IsInjective(Unlink(ready, curr))
             /\ Range(Unlink(ready, curr)) = Range(ready) \ {curr}
             /\ tail \subseteq Range(Unlink(ready, curr)) \ {curr}
  BY <1>d, InTaskProperties
<1>7. CASE Block
  <2>1. InTask
    BY <1>7 DEF Block
  <2>2. Placed(Range(ready) \ {curr}, Range(sleeping), blocked \cup {curr}, state, sleepTicks)
    BY <1>b, <1>d, <2>1 DEF Placed
  <2>3. /\ blocked' = blocked \cup {curr} /\ sleeping' = sleeping
        /\ slice' = slice /\ sleepTicks' = sleepTicks
        /\ Dispatch(Unlink(ready, curr), state, {}, 0)
    BY <1>7 DEF Block
  <2> DEFINE rdy == Unlink(ready, curr)
  <2>4. Placed(Range(rdy), Range(sleeping'), blocked', state, sleepTicks')
    BY <1>d, <2>1, <2>2, <2>3
  <2>5. rdy \in Seq(Task) /\ IsInjective(rdy) /\ tail \subseteq Range(rdy) \ {curr}
    BY <1>d, <2>1
  <2>6. /\ sleeping' \in Seq(Task) /\ IsInjective(sleeping')
        /\ slice' \in [AllTask -> 1 .. TimeSlice]
        /\ Dispatch(rdy, state, {}, 0)
    BY <1>a, <2>3
  <2> HIDE DEF rdy
  <2> QED  BY <2>4, <2>5, <2>6, DispatchInv
<1>8. CASE BlockWaiting
  <2> DEFINE st == [state EXCEPT ![curr] = "waiting"]
  <2>1. InTask
    BY <1>8 DEF BlockWaiting
  <2>2. Placed(Range(ready) \ {curr}, Range(sleeping), blocked \cup {curr}, st, sleepTicks)
    BY <1>b, <1>d, <2>1 DEF Placed, AllTask, TaskState
  <2>3. /\ blocked' = blocked \cup {curr} /\ sleeping' = sleeping
        /\ slice' = slice /\ sleepTicks' = sleepTicks
        /\ Dispatch(Unlink(ready, curr), st, {}, 0)
    BY <1>8 DEF BlockWaiting
  <2> HIDE DEF st
  <2> DEFINE rdy == Unlink(ready, curr)
  <2>4. Placed(Range(rdy), Range(sleeping'), blocked', st, sleepTicks')
    BY <1>d, <2>1, <2>2, <2>3
  <2>5. rdy \in Seq(Task) /\ IsInjective(rdy) /\ tail \subseteq Range(rdy) \ {curr}
    BY <1>d, <2>1
  <2>6. /\ sleeping' \in Seq(Task) /\ IsInjective(sleeping')
        /\ slice' \in [AllTask -> 1 .. TimeSlice]
        /\ Dispatch(rdy, st, {}, 0)
    BY <1>a, <2>3
  <2> HIDE DEF rdy
  <2> QED  BY <2>4, <2>5, <2>6, DispatchInv
<1>9. ASSUME NEW n \in 1 .. MaxSleep, Sleep(n)
      PROVE  IInv'
  <2> DEFINE st == [state EXCEPT ![curr] = "sleep"]
             tk == [sleepTicks EXCEPT ![curr] = n]
  <2>1. InTask
    BY <1>9 DEF Sleep
  <2>2. curr \in Task /\ curr \notin Range(sleeping)
    BY <1>d, <2>1
  <2>3. /\ Enqueue(sleeping, curr) \in Seq(Task) /\ IsInjective(Enqueue(sleeping, curr))
        /\ Range(Enqueue(sleeping, curr)) = Range(sleeping) \cup {curr}
    BY <1>a, <2>2, EnqueueProperties
  <2>4. Placed(Range(ready) \ {curr}, Range(sleeping) \cup {curr}, blocked, st, tk)
    BY <1>b, <1>d, <2>1 DEF Placed, AllTask, TaskState
  <2>5. /\ sleeping' = Enqueue(sleeping, curr) /\ blocked' = blocked /\ slice' = slice
        /\ sleepTicks' = tk
        /\ Dispatch(Unlink(ready, curr), st, {}, 0)
    BY <1>9 DEF Sleep
  <2> HIDE DEF st, tk
  <2>6. Placed(Range(Unlink(ready, curr)), Range(sleeping'), blocked', st, sleepTicks')
    BY <1>d, <2>1, <2>3, <2>4, <2>5
  <2> QED  BY <1>a, <1>d, <2>1, <2>3, <2>5, <2>6, DispatchInv
<1>10. ASSUME NEW t \in Task, Wake(t)
       PROVE  IInv'
  <2>1. t \in blocked /\ t \notin Range(ready) /\ state[t] # "waiting"
    BY <1>10, <1>b DEF Wake, Placed
  <2>2. /\ Enqueue(ready, t) \in Seq(Task) /\ IsInjective(Enqueue(ready, t))
        /\ Range(Enqueue(ready, t)) = Range(ready) \cup {t}
    BY <1>a, <2>1, EnqueueProperties
  <2> DEFINE st == [state EXCEPT ![t] = "ready"]
  <2>3. Placed(Range(ready) \cup {t}, Range(sleeping), blocked \ {t}, st, sleepTicks)
    BY <1>b, <2>1 DEF Placed, AllTask, TaskState
  <2>4. tail \subseteq Range(Enqueue(ready, t)) \ {curr}
    BY <1>a, <2>2
  <2>5. /\ blocked' = blocked \ {t} /\ sleeping' = sleeping
        /\ slice' = slice /\ sleepTicks' = sleepTicks
        /\ Dispatch(Enqueue(ready, t), st, {}, 0)
    BY <1>10 DEF Wake
  <2> HIDE DEF st
  <2> DEFINE rdy == Enqueue(ready, t)
  <2>6. Placed(Range(rdy), Range(sleeping'), blocked', st, sleepTicks')
    BY <2>2, <2>3, <2>5
  <2>7. /\ sleeping' \in Seq(Task) /\ IsInjective(sleeping')
        /\ slice' \in [AllTask -> 1 .. TimeSlice]
        /\ rdy \in Seq(Task) /\ IsInjective(rdy) /\ tail \subseteq Range(rdy) \ {curr}
        /\ Dispatch(rdy, st, {}, 0)
    BY <1>a, <2>2, <2>4, <2>5
  <2> HIDE DEF rdy
  <2> QED  BY <2>6, <2>7, DispatchInv
<1>11. ASSUME NEW t \in Task, Start(t)
       PROVE  IInv'
  <2>1. curr # Idle /\ cursor = 0 /\ state[t] = "created"
    BY <1>11 DEF Start, InTask
  <2>2. t \notin Range(ready) /\ t \notin Range(sleeping)
    BY <1>b, <2>1 DEF Placed
  <2>3. /\ Enqueue(ready, t) \in Seq(Task) /\ IsInjective(Enqueue(ready, t))
        /\ Range(Enqueue(ready, t)) = Range(ready) \cup {t}
        /\ ready # <<>> => Head(Enqueue(ready, t)) = Head(ready)
        /\ Enqueue(ready, t) # <<>>
    BY <1>a, <2>2, EnqueueProperties
  <2>4. Placed(Range(ready) \cup {t}, Range(sleeping), blocked,
               [state EXCEPT ![t] = "ready"], [sleepTicks EXCEPT ![t] = 0])
    BY <1>b, <2>1, <2>2 DEF Placed, AllTask, TaskState
  <2>5. slice' \in [AllTask -> 1 .. TimeSlice]
    BY <1>11, <1>a DEF Start, AllTask
  <2> QED  BY <1>11, <1>a, <1>c, <2>1, <2>3, <2>4, <2>5, InvFromParts DEF Start
<1>12. ASSUME NEW t \in Task, Reap(t)
       PROVE  IInv'
  <2>1. Placed(Range(ready), Range(sleeping), blocked, [state EXCEPT ![t] = "created"], sleepTicks)
    BY <1>12, <1>b DEF Reap, Placed, AllTask, TaskState
  <2> QED  BY <1>12, <1>a, <1>c, <2>1, InvFromParts DEF Reap
<1>13. ASSUME NEW w \in ExitWakes, Exit(w)
       PROVE  IInv'
  <2> DEFINE st == [t \in AllTask |-> CASE t = curr -> "zombie"
                                        [] t \in Range(w) -> "ready"
                                        [] OTHER -> state[t]]
  <2>1. InTask /\ curr \in Task /\ curr \in Range(ready)
    BY <1>13, InTaskProperties DEF Exit
  <2>2. Range(w) \subseteq Waiting /\ Range(w) \subseteq blocked
    BY <2>1, ExitProperties
  <2>3. Range(w) \subseteq blocked /\ Range(ready) \cap Range(w) = {}
    BY <1>b, <2>2 DEF Placed
  <2>5. /\ Unlink(ready \o w, curr) \in Seq(Task) /\ IsInjective(Unlink(ready \o w, curr))
        /\ Range(Unlink(ready \o w, curr)) = (Range(ready) \cup Range(w)) \ {curr}
    BY <2>1, ExitProperties
  <2>6. Placed((Range(ready) \cup Range(w)) \ {curr}, Range(sleeping), blocked \ Range(w),
               st, sleepTicks)
    BY <1>b, <2>1, <2>3 DEF Placed, AllTask, TaskState
  <2>7. tail \subseteq Range(Unlink(ready \o w, curr)) \ {curr}
    BY <1>a, <2>5
  <2>8. /\ blocked' = blocked \ Range(w) /\ sleeping' = sleeping
        /\ slice' = slice /\ sleepTicks' = sleepTicks
        /\ Dispatch(Unlink(ready \o w, curr), st, {}, 0)
    BY <1>13 DEF Exit
  <2> HIDE DEF st
  <2> DEFINE rdy == Unlink(ready \o w, curr)
  <2>9. Placed(Range(rdy), Range(sleeping'), blocked', st, sleepTicks')
    BY <2>5, <2>6, <2>8
  <2>10. /\ sleeping' \in Seq(Task) /\ IsInjective(sleeping')
         /\ slice' \in [AllTask -> 1 .. TimeSlice]
         /\ rdy \in Seq(Task) /\ IsInjective(rdy) /\ tail \subseteq Range(rdy) \ {curr}
         /\ Dispatch(rdy, st, {}, 0)
    BY <1>a, <2>5, <2>7, <2>8
  <2> HIDE DEF rdy
  <2> QED  BY <2>9, <2>10, DispatchInv
<1>14. CASE UNCHANGED schedVars
  BY <1>14, <1>a, <1>b, <1>c, InvFromParts DEF schedVars
<1> QED
  BY <1>1, <1>2, <1>3, <1>4, <1>5, <1>6, <1>7, <1>8, <1>9, <1>10, <1>11, <1>12, <1>13, <1>14
  DEF Next

-----------------------------------------------------------------------------
(* The inductive invariant in every behaviour.                              *)
LEMMA SpecInv == Spec => []IInv
  BY InitInv, NextInv, PTL DEF Spec

(* The run lists, states and counters keep their types in every behaviour.  *)
THEOREM SpecTypeOK == Spec => []TypeOK
<1>1. IInv => TypeOK
  BY DEF IInv
<1> QED  BY SpecInv, <1>1, PTL

(* The running task is always the head of the ready list.                   *)
THEOREM SpecCurrIsHead == Spec => []CurrIsHead
<1>1. IInv => CurrIsHead
  BY DEF IInv
<1> QED  BY SpecInv, <1>1, PTL

(* No task is ever linked twice, and no live task is ever in no list.       *)
THEOREM SpecOnePlace == Spec => []OnePlace
<1>1. IInv => OnePlace
  BY DEF IInv
<1> QED  BY SpecInv, <1>1, PTL

(* task_t.state and sleep_ticks always agree with the list of the task.     *)
THEOREM SpecStateAgrees == Spec => []StateAgrees
<1>1. IInv => StateAgrees
  BY DEF IInv
<1> QED  BY SpecInv, <1>1, PTL

(* A task frozen inside the clock handler is always ready to go on with it. *)
THEOREM SpecTailsAreReady == Spec => []TailsAreReady
<1>1. IInv => TailsAreReady
  BY DEF IInv
<1> QED  BY SpecInv, <1>1, PTL

-----------------------------------------------------------------------------
(* A scan of the list s at position c will still come to t.                 *)
Ahead(s, c, t) == \E i \in DOMAIN s : s[i] = t /\ 0 < c /\ c <= i

(* A scan at the first node comes to all of them, one that has ended or not *)
(* begun to none.                                                           *)
LEMMA AheadAtEnds ==
  ASSUME NEW S, NEW s \in Seq(S), NEW t \in Range(s)
  PROVE  Ahead(s, 1, t) /\ ~ Ahead(s, 0, t) /\ ~ Ahead(s, Len(s) + 1, t)
<1>1. DOMAIN s = 1 .. Len(s) /\ Len(s) \in Nat
  OBVIOUS
<1>2. PICK j \in 1 .. Len(s) : s[j] = t
  BY <1>1 DEF Range
<1>3. Ahead(s, 1, t)
  BY <1>1, <1>2 DEF Ahead
<1> QED  BY <1>1, <1>3 DEF Ahead

(* Counting the node at the position moves the scan past it and no other.   *)
LEMMA AheadCount ==
  ASSUME NEW S, NEW s \in Seq(S), IsInjective(s), NEW c \in DOMAIN s, NEW t \in Range(s)
  PROVE  /\ Ahead(s, c, s[c]) /\ ~ Ahead(s, c + 1, s[c])
         /\ t # s[c] => (Ahead(s, c + 1, t) <=> Ahead(s, c, t))
<1>1. DOMAIN s = 1 .. Len(s) /\ Len(s) \in Nat
  OBVIOUS
<1>2. \A i, j \in 1 .. Len(s) : s[i] = s[j] => i = j
  BY <1>1 DEF IsInjective
<1>3. Ahead(s, c, s[c])
  BY <1>1 DEF Ahead
<1>4. ~ Ahead(s, c + 1, s[c])
  BY <1>1, <1>2 DEF Ahead
<1>5. ASSUME t # s[c] PROVE Ahead(s, c + 1, t) <=> Ahead(s, c, t)
  <2>1. \A i \in 1 .. Len(s) : s[i] = t => (c + 1 <= i <=> c <= i)
    BY <1>1, <1>5
  <2> QED  BY <1>1, <2>1 DEF Ahead
<1> QED  BY <1>3, <1>4, <1>5

(* Removing the node at the position leaves the scan before the same nodes. *)
LEMMA AheadRemove ==
  ASSUME NEW S, NEW s \in Seq(S), IsInjective(s), NEW c \in DOMAIN s,
         NEW t \in Range(s), t # s[c]
  PROVE  Ahead(Unlink(s, s[c]), c, t) <=> Ahead(s, c, t)
<1> DEFINE k == CHOOSE j \in DOMAIN s : s[j] = s[c]
           u == [j \in 1 .. Len(s) - 1 |-> IF j < k THEN s[j] ELSE s[j + 1]]
<1>1. DOMAIN s = 1 .. Len(s) /\ Len(s) \in Nat
  OBVIOUS
<1>2. \A i, j \in 1 .. Len(s) : s[i] = s[j] => i = j
  BY <1>1 DEF IsInjective
<1>3. k = c
  BY <1>1, <1>2
<1>4. Unlink(s, s[c]) = u
  BY DEF Unlink
<1>5. DOMAIN u = 1 .. Len(s) - 1
      /\ \A j \in 1 .. Len(s) - 1 : u[j] = IF j < c THEN s[j] ELSE s[j + 1]
  BY <1>3
<1> HIDE DEF k, u
<1>6. ASSUME Ahead(u, c, t) PROVE Ahead(s, c, t)
  <2>1. PICK i \in 1 .. Len(s) - 1 : u[i] = t /\ c <= i
    BY <1>5, <1>6 DEF Ahead
  <2>2. i + 1 \in 1 .. Len(s) /\ s[i + 1] = t /\ c <= i + 1
    BY <1>1, <1>5, <2>1
  <2> QED  BY <1>1, <2>2 DEF Ahead
<1>7. ASSUME Ahead(s, c, t) PROVE Ahead(u, c, t)
  <2>1. PICK i \in 1 .. Len(s) : s[i] = t /\ c <= i /\ 0 < c
    BY <1>1, <1>7 DEF Ahead
  <2>2. i # c
    BY <2>1
  <2>3. i - 1 \in 1 .. Len(s) - 1 /\ c <= i - 1 /\ u[i - 1] = s[(i - 1) + 1]
    BY <1>1, <1>5, <2>1, <2>2
  <2>4. u[i - 1] = t
    BY <2>1, <2>3
  <2> QED  BY <1>5, <2>1, <2>3, <2>4 DEF Ahead
<1> QED  BY <1>4, <1>6, <1>7

-----------------------------------------------------------------------------
(* Only tasks of the ready list can be frozen in the clock handler, so they *)
(* can be counted.                                                          *)
LEMMA TailFinite ==
  ASSUME IInv
  PROVE  IsFiniteSet(tail) /\ Cardinality(tail) \in Nat
<1>1. ready \in Seq(Task) /\ tail \subseteq Range(ready)
  BY DEF IInv, TypeOK, TailsAreReady
<1>2. DOMAIN ready = 1 .. Len(ready) /\ Len(ready) \in Nat
  BY <1>1
<1>3. IsFiniteSet(DOMAIN ready)
  BY <1>2, FS_Interval
<1>4. ready \in Surjection(DOMAIN ready, Range(ready))
  BY <1>1, <1>2 DEF Range, Surjection
<1>5. IsFiniteSet(Range(ready))
  BY <1>3, <1>4, FS_Surjection
<1>6. IsFiniteSet(tail)
  BY <1>1, <1>5, FS_Subset
<1> QED  BY <1>6, FS_CardinalityType

(* A dispatch neither loses nor invents a scan: the handler of the task     *)
(* that is switched out is frozen, that of the task switched to begins.     *)
LEMMA DispatchScans ==
  ASSUME NEW rdy, NEW st, NEW on \in {0, 1}, IsFiniteSet(tail), Cardinality(tail) \in Nat,
         NEW frozen, frozen = (IF on = 1 THEN {curr} ELSE {}), curr \notin tail,
         Dispatch(rdy, st, frozen, on)
  PROVE  /\ cursor' \in {0, 1} /\ Cardinality(tail') \in Nat
         /\ Cardinality(tail') + cursor' = Cardinality(tail) + on
<1> DEFINE n == NextRun(rdy)
<1>1. CASE n = curr
  <2>1. cursor' = on /\ tail' = tail
    BY <1>1 DEF Dispatch, DispatchSwitch
  <2> QED  BY <2>1
<1>2. CASE n # curr
  <2>1. /\ cursor' = IF n \in tail THEN 1 ELSE 0
        /\ tail' = (tail \cup frozen) \ {n}
    BY <1>2 DEF Dispatch, DispatchSwitch
  <2> HIDE DEF n
  <2>2. IsFiniteSet(tail \cup frozen) /\ Cardinality(tail \cup frozen) = Cardinality(tail) + on
    <3>1. CASE on = 0
      <4>1. tail \cup frozen = tail
        BY <3>1
      <4> QED  BY <3>1, <4>1
    <3>2. CASE on = 1
      <4>1. tail \cup frozen = tail \cup {curr}
        BY <3>2
      <4>2. IsFiniteSet(tail \cup {curr}) /\ Cardinality(tail \cup {curr}) = Cardinality(tail) + 1
        BY FS_AddElement
      <4>3. IsFiniteSet(tail \cup frozen) /\ Cardinality(tail \cup frozen) = Cardinality(tail) + 1
        BY <4>1, <4>2
      <4> QED  BY <3>2, <4>3
    <3> QED  BY <3>1, <3>2
  <2>3. n \in tail \cup frozen <=> n \in tail
    BY <1>2
  <2>4. CASE n \in tail
    <3>1. /\ IsFiniteSet((tail \cup frozen) \ {n})
          /\ Cardinality((tail \cup frozen) \ {n}) = Cardinality(tail \cup frozen) - 1
      BY <2>2, <2>3, <2>4, FS_RemoveElement
    <3>2. Cardinality(tail) + on \in Nat /\ Cardinality(tail \cup frozen) \in Nat
      BY <2>2, FS_CardinalityType
    <3> QED  BY <2>1, <2>2, <2>4, <3>1, <3>2, FS_CardinalityType
  <2>5. CASE n \notin tail
    <3>1. (tail \cup frozen) \ {n} = tail \cup frozen
      BY <2>3, <2>5
    <3> QED  BY <2>1, <2>2, <2>5, <3>1
  <2> QED  BY <2>4, <2>5
<1> QED  BY <1>1, <1>2

-----------------------------------------------------------------------------
(* The accounting needs the scheduler's invariant: who sleeps is not linked *)
(* elsewhere, and the frozen handlers belong to ready tasks.                *)
ClockTyped ==
  /\ asked \in [Task -> Nat]
  /\ elapsed \in [Task -> Nat]
  /\ owed \in [Task -> Nat]

ClockInv == IInv /\ ClockTyped /\ SleepAccounting

(* The scans that have still to come to a sleeper, one by one.              *)
Coming(s, c, n, t) == n + IF Ahead(s, c, t) THEN 1 ELSE 0

(* What the invariant says of one sleeper.                                  *)
LEMMA ClockFacts ==
  ASSUME ClockInv
  PROVE  /\ sleeping \in Seq(Task) /\ IsInjective(sleeping)
         /\ DOMAIN sleeping = 1 .. Len(sleeping) /\ Len(sleeping) \in Nat
         /\ Range(sleeping) \subseteq Task
         /\ cursor \in Nat /\ curr \notin tail
         /\ IsFiniteSet(tail) /\ Cardinality(tail) \in Nat
         /\ sleepTicks \in [Task -> 0 .. MaxSleep]
         /\ \A t \in Range(sleeping) :
              sleepTicks[t] + elapsed[t] + owed[t]
                = asked[t] + Coming(sleeping, cursor, Cardinality(tail), t)
<1>1. IInv
  BY DEF ClockInv
<1>2. /\ sleeping \in Seq(Task) /\ IsInjective(sleeping)
      /\ cursor \in Nat /\ curr \notin tail
      /\ sleepTicks \in [Task -> 0 .. MaxSleep]
  BY <1>1 DEF IInv, TypeOK, OnePlace, TailsAreReady
<1>3. DOMAIN sleeping = 1 .. Len(sleeping) /\ Len(sleeping) \in Nat
      /\ Range(sleeping) \subseteq Task
  BY <1>2 DEF Range
<1> QED
  BY <1>1, <1>2, <1>3, TailFinite
  DEF ClockInv, SleepAccounting, Outstanding, Coming, Ahead

(* The accounting after a step, from what the step leaves to each sleeper.  *)
LEMMA AccountingAfter ==
  ASSUME \A t \in Range(sleeping') :
           sleepTicks'[t] + elapsed'[t] + owed'[t]
             = asked'[t] + Coming(sleeping', cursor', Cardinality(tail'), t)
  PROVE  SleepAccounting'
BY DEF SleepAccounting, Outstanding, Coming, Ahead

(* A dispatch from outside the clock handler leaves every sleeper as many   *)
(* scans as it had: those of the frozen handlers.                           *)
LEMMA QuietDispatch ==
  ASSUME ClockInv, cursor = 0, NEW rdy, NEW st, Dispatch(rdy, st, {}, 0)
  PROVE  \A t \in Range(sleeping) :
           /\ Coming(sleeping, cursor, Cardinality(tail), t) = Cardinality(tail)
           /\ Coming(sleeping, cursor', Cardinality(tail'), t) = Cardinality(tail)
<1>1. /\ IsFiniteSet(tail) /\ Cardinality(tail) \in Nat /\ curr \notin tail
      /\ sleeping \in Seq(Task)
  BY ClockFacts
<1>a. 0 \in {0, 1} /\ {} = (IF 0 = 1 THEN {curr} ELSE {})
  OBVIOUS
<1>2. /\ cursor' \in {0, 1} /\ Cardinality(tail') \in Nat
      /\ Cardinality(tail') + cursor' = Cardinality(tail) + 0
  BY <1>1, <1>a, DispatchScans
<1>3. TAKE t \in Range(sleeping)
<1>4. Ahead(sleeping, 1, t) /\ ~ Ahead(sleeping, 0, t)
  BY <1>1, AheadAtEnds
<1> QED  BY <1>1, <1>2, <1>4 DEF Coming

-----------------------------------------------------------------------------
(* A step from outside the clock handler that leaves the sleepers and their *)
(* history alone keeps the accounting.                                      *)
LEMMA QuietStep ==
  ASSUME ClockInv, cursor = 0, NEW rdy, NEW st, Dispatch(rdy, st, {}, 0),
         sleeping' = sleeping, sleepTicks' = sleepTicks, UNCHANGED clockVars
  PROVE  SleepAccounting'
<1>1. \A t \in Range(sleeping) :
        sleepTicks[t] + elapsed[t] + owed[t]
          = asked[t] + Coming(sleeping, cursor, Cardinality(tail), t)
  BY ClockFacts
<1>2. \A t \in Range(sleeping) :
        /\ Coming(sleeping, cursor, Cardinality(tail), t) = Cardinality(tail)
        /\ Coming(sleeping, cursor', Cardinality(tail'), t) = Cardinality(tail)
  BY QuietDispatch
<1>3. \A t \in Range(sleeping') :
        sleepTicks'[t] + elapsed'[t] + owed'[t]
          = asked'[t] + Coming(sleeping', cursor', Cardinality(tail'), t)
  BY <1>1, <1>2 DEF clockVars
<1> QED  BY <1>3, AccountingAfter

(* An interrupt owes every sleeper one scan, and adds one: its own, or, when *)
(* its task is switched out, the one frozen with it.                        *)
LEMMA InterruptAccounting ==
  ASSUME ClockInv, Interrupt
  PROVE  SleepAccounting'
<1>1. /\ sleeping \in Seq(Task) /\ Range(sleeping) \subseteq Task
      /\ IsFiniteSet(tail) /\ Cardinality(tail) \in Nat /\ curr \notin tail
      /\ sleepTicks \in [Task -> 0 .. MaxSleep] /\ MaxSleep \in Nat
  BY ClockFacts, SliceAssumption
<1>2. asked \in [Task -> Nat] /\ elapsed \in [Task -> Nat] /\ owed \in [Task -> Nat]
  BY DEF ClockInv, ClockTyped
<1>3. cursor = 0 /\ sleeping' = sleeping /\ sleepTicks' = sleepTicks
  BY DEF Interrupt, TickCount, TickExpire
<1>4. /\ cursor' \in {0, 1} /\ Cardinality(tail') \in Nat
      /\ Cardinality(tail') + cursor' = Cardinality(tail) + 1
  <2>1. CASE TickCount
    BY <1>1, <2>1 DEF TickCount
  <2>2. CASE TickExpire
    <3>1. Dispatch(Rotated, RotatedState, {curr}, 1)
      BY <2>2 DEF TickExpire
    <3>2. 1 \in {0, 1} /\ {curr} = (IF 1 = 1 THEN {curr} ELSE {})
      OBVIOUS
    <3> QED  BY <1>1, <3>1, <3>2, DispatchScans
  <2> QED  BY <2>1, <2>2 DEF Interrupt
<1>5. SUFFICES ASSUME NEW t \in Range(sleeping)
               PROVE  sleepTicks'[t] + elapsed'[t] + owed'[t]
                        = asked'[t] + Coming(sleeping', cursor', Cardinality(tail'), t)
  BY <1>3, AccountingAfter
<1>6. elapsed'[t] = elapsed[t] + 1 /\ owed'[t] = owed[t] /\ asked'[t] = asked[t]
  BY <1>1 DEF Interrupt
<1>7. Ahead(sleeping, 1, t) /\ ~ Ahead(sleeping, 0, t)
  BY <1>1, AheadAtEnds
<1>8. Coming(sleeping, cursor, Cardinality(tail), t) = Cardinality(tail)
  BY <1>1, <1>3, <1>7 DEF Coming
<1>9. Coming(sleeping', cursor', Cardinality(tail'), t) = Cardinality(tail) + 1
  BY <1>1, <1>3, <1>4, <1>7 DEF Coming
<1>10. sleepTicks[t] + elapsed[t] + owed[t]
         = asked[t] + Coming(sleeping, cursor, Cardinality(tail), t)
  BY ClockFacts
<1>11. /\ t \in Task /\ sleepTicks[t] \in Nat /\ elapsed[t] \in Nat
       /\ owed[t] \in Nat /\ asked[t] \in Nat
  BY <1>1, <1>2
<1>12. sleepTicks[t] + elapsed[t] + owed[t] = asked[t] + Cardinality(tail)
  BY <1>8, <1>10
<1>13. sleepTicks'[t] + elapsed'[t] + owed'[t] = sleepTicks[t] + (elapsed[t] + 1) + owed[t]
  BY <1>3, <1>6
<1>14. asked'[t] + Coming(sleeping', cursor', Cardinality(tail'), t)
         = asked[t] + (Cardinality(tail) + 1)
  BY <1>6, <1>9
<1>15. sleepTicks[t] + (elapsed[t] + 1) + owed[t] = asked[t] + (Cardinality(tail) + 1)
  <2> DEFINE a == sleepTicks[t]  b == elapsed[t]  c == owed[t]
             d == asked[t]       e == Cardinality(tail)
  <2>1. a \in Nat /\ b \in Nat /\ c \in Nat /\ d \in Nat /\ e \in Nat
    BY <1>1, <1>11
  <2>2. a + b + c = d + e
    BY <1>12
  <2> HIDE DEF a, b, c, d, e
  <2>3. a + (b + 1) + c = d + (e + 1)
    BY <2>1, <2>2
  <2> QED  BY <2>3 DEF a, b, c, d, e
<1> QED  BY <1>13, <1>14, <1>15

(* The scan counts the sleeper at its position and passes it.               *)
LEMMA ScanCountAccounting ==
  ASSUME ClockInv, ScanCount, UNCHANGED clockVars
  PROVE  SleepAccounting'
<1>1. /\ sleeping \in Seq(Task) /\ IsInjective(sleeping) /\ Range(sleeping) \subseteq Task
      /\ Cardinality(tail) \in Nat
      /\ sleepTicks \in [Task -> 0 .. MaxSleep] /\ MaxSleep \in Nat
  BY ClockFacts, SliceAssumption
<1>2. asked \in [Task -> Nat] /\ elapsed \in [Task -> Nat] /\ owed \in [Task -> Nat]
  BY DEF ClockInv, ClockTyped
<1>3. /\ cursor \in DOMAIN sleeping /\ cursor' = cursor + 1
      /\ sleepTicks' = [sleepTicks EXCEPT ![sleeping[cursor]] = @ - 1]
      /\ sleeping' = sleeping /\ tail' = tail
      /\ asked' = asked /\ elapsed' = elapsed /\ owed' = owed
  BY DEF ScanCount, clockVars
<1>4. SUFFICES ASSUME NEW t \in Range(sleeping)
               PROVE  sleepTicks'[t] + elapsed'[t] + owed'[t]
                        = asked'[t] + Coming(sleeping', cursor', Cardinality(tail'), t)
  BY <1>3, AccountingAfter
<1>5. /\ Ahead(sleeping, cursor, sleeping[cursor])
      /\ ~ Ahead(sleeping, cursor + 1, sleeping[cursor])
      /\ t # sleeping[cursor] => (Ahead(sleeping, cursor + 1, t) <=> Ahead(sleeping, cursor, t))
  BY <1>1, <1>3, AheadCount
<1>6. sleepTicks[t] + elapsed[t] + owed[t]
        = asked[t] + Coming(sleeping, cursor, Cardinality(tail), t)
  BY ClockFacts
<1>7. /\ t \in Task /\ sleepTicks[t] \in Nat /\ elapsed[t] \in Nat
      /\ owed[t] \in Nat /\ asked[t] \in Nat
  BY <1>1, <1>2
<1>8. CASE t = sleeping[cursor]
  <2>1. Coming(sleeping, cursor, Cardinality(tail), t) = Cardinality(tail) + 1
    BY <1>5, <1>8 DEF Coming
  <2>2. Coming(sleeping', cursor', Cardinality(tail'), t) = Cardinality(tail)
    BY <1>1, <1>3, <1>5, <1>8 DEF Coming
  <2>3. sleepTicks'[t] = sleepTicks[t] - 1
    BY <1>1, <1>3, <1>7, <1>8
  <2>4. sleepTicks[t] + elapsed[t] + owed[t] = asked[t] + (Cardinality(tail) + 1)
    BY <1>6, <2>1
  <2>5. (sleepTicks[t] - 1) + elapsed[t] + owed[t] = asked[t] + Cardinality(tail)
    <3> DEFINE a == sleepTicks[t]  b == elapsed[t]  c == owed[t]
               d == asked[t]       e == Cardinality(tail)
    <3>1. a \in Nat /\ b \in Nat /\ c \in Nat /\ d \in Nat /\ e \in Nat
      BY <1>1, <1>7
    <3>2. a + b + c = d + (e + 1)
      BY <2>4
    <3> HIDE DEF a, b, c, d, e
    <3>3. (a - 1) + b + c = d + e
      BY <3>1, <3>2
    <3> QED  BY <3>3 DEF a, b, c, d, e
  <2> QED  BY <1>3, <2>2, <2>3, <2>5
<1>9. CASE t # sleeping[cursor]
  <2>1. Coming(sleeping', cursor', Cardinality(tail'), t)
          = Coming(sleeping, cursor, Cardinality(tail), t)
    BY <1>3, <1>5, <1>9 DEF Coming
  <2>2. sleepTicks'[t] = sleepTicks[t]
    BY <1>1, <1>3, <1>7, <1>9
  <2> QED  BY <1>3, <1>6, <2>1, <2>2
<1> QED  BY <1>8, <1>9

(* Waking a sleeper takes it out of the accounting and moves nobody else    *)
(* past the scan: its position is now that of the next node.                *)
LEMMA ScanWakeAccounting ==
  ASSUME ClockInv, ClockWake
  PROVE  SleepAccounting'
<1>1. /\ sleeping \in Seq(Task) /\ IsInjective(sleeping) /\ Range(sleeping) \subseteq Task
      /\ sleepTicks \in [Task -> 0 .. MaxSleep]
  BY ClockFacts
<1>2. asked \in [Task -> Nat] /\ elapsed \in [Task -> Nat] /\ owed \in [Task -> Nat]
  BY DEF ClockInv, ClockTyped
<1>3. cursor \in DOMAIN sleeping /\ sleeping[cursor] \in Range(sleeping)
  BY DEF ClockWake, ScanWake, Range
<1>4. /\ sleeping' = Unlink(sleeping, sleeping[cursor])
      /\ cursor' = cursor /\ tail' = tail
      /\ sleepTicks' = [sleepTicks EXCEPT ![sleeping[cursor]] = 0]
      /\ asked' = [asked EXCEPT ![sleeping[cursor]] = 0]
      /\ elapsed' = [elapsed EXCEPT ![sleeping[cursor]] = 0]
      /\ owed' = [owed EXCEPT ![sleeping[cursor]] = 0]
  BY DEF ClockWake, ScanWake
<1>5. Range(sleeping') = Range(sleeping) \ {sleeping[cursor]}
  BY <1>1, <1>3, <1>4, UnlinkProperties
<1>6. SUFFICES ASSUME NEW t \in Range(sleeping), t # sleeping[cursor]
               PROVE  sleepTicks'[t] + elapsed'[t] + owed'[t]
                        = asked'[t] + Coming(sleeping', cursor', Cardinality(tail'), t)
  BY <1>5, AccountingAfter
<1>7. Ahead(sleeping', cursor', t) <=> Ahead(sleeping, cursor, t)
  BY <1>1, <1>3, <1>4, <1>6, AheadRemove
<1>8. Coming(sleeping', cursor', Cardinality(tail'), t)
        = Coming(sleeping, cursor, Cardinality(tail), t)
  BY <1>4, <1>7 DEF Coming
<1>9. /\ sleepTicks'[t] = sleepTicks[t] /\ elapsed'[t] = elapsed[t]
      /\ owed'[t] = owed[t] /\ asked'[t] = asked[t]
  BY <1>1, <1>2, <1>4, <1>6
<1>10. sleepTicks[t] + elapsed[t] + owed[t]
         = asked[t] + Coming(sleeping, cursor, Cardinality(tail), t)
  BY ClockFacts
<1> QED  BY <1>8, <1>9, <1>10

(* A scan that has passed the last node owes nobody anything; its dispatch  *)
(* may start another one, which was frozen until now.                       *)
LEMMA ScanEndAccounting ==
  ASSUME ClockInv, ScanEnd, UNCHANGED clockVars
  PROVE  SleepAccounting'
<1>1. /\ sleeping \in Seq(Task) /\ IsFiniteSet(tail) /\ Cardinality(tail) \in Nat
      /\ curr \notin tail
  BY ClockFacts
<1>2. /\ cursor = Len(sleeping) + 1 /\ Dispatch(ready, state, {}, 0)
      /\ sleeping' = sleeping /\ sleepTicks' = sleepTicks
      /\ asked' = asked /\ elapsed' = elapsed /\ owed' = owed
  BY DEF ScanEnd, clockVars
<1>3. 0 \in {0, 1} /\ {} = (IF 0 = 1 THEN {curr} ELSE {})
  OBVIOUS
<1>4. /\ cursor' \in {0, 1} /\ Cardinality(tail') \in Nat
      /\ Cardinality(tail') + cursor' = Cardinality(tail) + 0
  BY <1>1, <1>2, <1>3, DispatchScans
<1>5. SUFFICES ASSUME NEW t \in Range(sleeping)
               PROVE  Coming(sleeping', cursor', Cardinality(tail'), t)
                        = Coming(sleeping, cursor, Cardinality(tail), t)
  BY <1>2, ClockFacts, AccountingAfter
<1>6. Ahead(sleeping, 1, t) /\ ~ Ahead(sleeping, 0, t) /\ ~ Ahead(sleeping, Len(sleeping) + 1, t)
  BY <1>1, AheadAtEnds
<1> QED  BY <1>1, <1>2, <1>4, <1>6 DEF Coming

(* A new sleeper is given the ticks of the frozen handlers, and its dispatch *)
(* gives the others what QuietDispatch says.                                *)
LEMMA ClockSleepAccounting ==
  ASSUME ClockInv, NEW n \in 1 .. MaxSleep, ClockSleep(n)
  PROVE  SleepAccounting'
<1>1. /\ sleeping \in Seq(Task) /\ IsInjective(sleeping) /\ Range(sleeping) \subseteq Task
      /\ sleepTicks \in [Task -> 0 .. MaxSleep]
      /\ IsFiniteSet(tail) /\ Cardinality(tail) \in Nat /\ curr \notin tail
  BY ClockFacts
<1>2. asked \in [Task -> Nat] /\ elapsed \in [Task -> Nat] /\ owed \in [Task -> Nat]
  BY DEF ClockInv, ClockTyped
<1>3. InTask /\ IInv
  BY DEF ClockSleep, Sleep, ClockInv
<1>4. cursor = 0 /\ curr \in Task /\ curr \notin Range(sleeping)
  BY <1>3, InTaskProperties DEF InTask
<1>5. /\ sleeping' = Enqueue(sleeping, curr)
      /\ sleepTicks' = [sleepTicks EXCEPT ![curr] = n]
      /\ asked' = [asked EXCEPT ![curr] = n]
      /\ elapsed' = [elapsed EXCEPT ![curr] = 0]
      /\ owed' = [owed EXCEPT ![curr] = Cardinality(tail)]
      /\ Dispatch(Unlink(ready, curr), [state EXCEPT ![curr] = "sleep"], {}, 0)
  BY DEF ClockSleep, Sleep
<1>6. /\ sleeping' \in Seq(Task)
      /\ Range(sleeping') = Range(sleeping) \cup {curr}
  <2>1. /\ Enqueue(sleeping, curr) \in Seq(Task)
        /\ Range(Enqueue(sleeping, curr)) = Range(sleeping) \cup {curr}
    BY <1>1, <1>4, EnqueueProperties
  <2> QED  BY <1>5, <2>1
<1>7. 0 \in {0, 1} /\ {} = (IF 0 = 1 THEN {curr} ELSE {})
  OBVIOUS
<1>8. /\ cursor' \in {0, 1} /\ Cardinality(tail') \in Nat
      /\ Cardinality(tail') + cursor' = Cardinality(tail) + 0
  BY <1>1, <1>5, <1>7, DispatchScans
<1>9. SUFFICES ASSUME NEW t \in Range(sleeping) \cup {curr}
               PROVE  sleepTicks'[t] + elapsed'[t] + owed'[t]
                        = asked'[t] + Coming(sleeping', cursor', Cardinality(tail'), t)
  BY <1>6, AccountingAfter
<1>10. Coming(sleeping', cursor', Cardinality(tail'), t) = Cardinality(tail)
  <2>1. t \in Range(sleeping')
    BY <1>6
  <2> DEFINE s == sleeping'
  <2>2. s \in Seq(Task) /\ t \in Range(s)
    BY <1>6, <2>1
  <2> HIDE DEF s
  <2>3. Ahead(s, 1, t) /\ ~ Ahead(s, 0, t)
    BY <2>2, AheadAtEnds
  <2>4. Ahead(sleeping', 1, t) /\ ~ Ahead(sleeping', 0, t)
    BY <2>3 DEF s
  <2> QED  BY <1>1, <1>8, <2>4 DEF Coming
<1>11. CASE t = curr
  <2>1. sleepTicks'[t] = n /\ asked'[t] = n /\ elapsed'[t] = 0 /\ owed'[t] = Cardinality(tail)
    BY <1>1, <1>2, <1>4, <1>5, <1>11
  <2> QED  BY <1>1, <1>10, <2>1
<1>12. CASE t # curr
  <2>1. t \in Range(sleeping)
    BY <1>12
  <2>2. /\ sleepTicks'[t] = sleepTicks[t] /\ asked'[t] = asked[t]
        /\ elapsed'[t] = elapsed[t] /\ owed'[t] = owed[t]
    BY <1>1, <1>2, <1>5, <1>12, <2>1
  <2>3. sleepTicks[t] + elapsed[t] + owed[t]
          = asked[t] + Coming(sleeping, cursor, Cardinality(tail), t)
    BY <2>1, ClockFacts
  <2>4. ~ Ahead(sleeping, 0, t)
    BY <1>1, <2>1, AheadAtEnds
  <2>5. Coming(sleeping, cursor, Cardinality(tail), t) = Cardinality(tail)
    BY <1>1, <1>4, <2>4 DEF Coming
  <2> QED  BY <1>10, <2>2, <2>3, <2>5
<1> QED  BY <1>11, <1>12

-----------------------------------------------------------------------------
(* Nobody sleeps at first.                                                  *)
LEMMA ClockInitInv == ClockInit => ClockInv
<1> SUFFICES ASSUME ClockInit
             PROVE  ClockInv
  OBVIOUS
<1>1. IInv
  BY InitInv DEF ClockInit
<1>2. ClockTyped
  BY DEF ClockInit, ClockTyped
<1>3. Range(sleeping) = {}
  BY DEF ClockInit, Init, Range
<1> QED  BY <1>1, <1>2, <1>3 DEF ClockInv, SleepAccounting

(* Every step of the clocked system is one of the scheduler.                *)
LEMMA ClockStepIsStep == [ClockNext]_allVars => [Next]_schedVars
BY DEF ClockNext, ClockHandler, Interrupt, ClockSleep, ClockWake, Next, allVars, schedVars

(* Every step keeps the invariant.                                          *)
LEMMA ClockNextInv == ClockInv /\ [ClockNext]_allVars => ClockInv'
<1> SUFFICES ASSUME ClockInv, [ClockNext]_allVars
             PROVE  ClockInv'
  OBVIOUS
<1>1. IInv'
  <2>1. IInv
    BY DEF ClockInv
  <2> QED  BY <2>1, ClockStepIsStep, NextInv
<1>2. /\ asked \in [Task -> Nat] /\ elapsed \in [Task -> Nat] /\ owed \in [Task -> Nat]
      /\ Cardinality(tail) \in Nat
  BY ClockFacts DEF ClockInv, ClockTyped
<1>3. CASE Interrupt
  <2>1. ClockTyped'
    BY <1>2, <1>3 DEF Interrupt, ClockTyped
  <2> QED  BY <1>1, <1>3, <2>1, InterruptAccounting DEF ClockInv
<1>4. CASE ClockWake
  <2>1. ClockTyped'
    BY <1>2, <1>4 DEF ClockWake, ClockTyped
  <2> QED  BY <1>1, <1>4, <2>1, ScanWakeAccounting DEF ClockInv
<1>a. ASSUME UNCHANGED clockVars PROVE ClockTyped'
  BY <1>2, <1>a DEF clockVars, ClockTyped
<1>5. CASE ScanCount /\ UNCHANGED clockVars
  BY <1>1, <1>5, <1>a, ScanCountAccounting DEF ClockInv
<1>6. CASE ScanEnd /\ UNCHANGED clockVars
  BY <1>1, <1>6, <1>a, ScanEndAccounting DEF ClockInv
<1>7. ASSUME NEW n \in 1 .. MaxSleep, ClockSleep(n)
      PROVE  ClockInv'
  <2> DEFINE c == Cardinality(tail)
  <2>a. c \in Nat /\ n \in Nat
    BY <1>2
  <2>b. /\ asked' = [asked EXCEPT ![curr] = n]
        /\ elapsed' = [elapsed EXCEPT ![curr] = 0]
        /\ owed' = [owed EXCEPT ![curr] = c]
    BY <1>7 DEF ClockSleep
  <2> HIDE DEF c
  <2>1. ClockTyped'
    BY <1>2, <2>a, <2>b DEF ClockTyped
  <2> QED  BY <1>1, <1>7, <2>1, ClockSleepAccounting DEF ClockInv
<1>b. ASSUME cursor = 0, NEW rdy, NEW st, Dispatch(rdy, st, {}, 0),
             sleeping' = sleeping, sleepTicks' = sleepTicks, UNCHANGED clockVars
      PROVE  ClockInv'
  BY <1>1, <1>a, <1>b, QuietStep DEF ClockInv
<1>8. CASE Yield /\ UNCHANGED clockVars
  BY <1>8, <1>b DEF Yield, InTask
<1>9. CASE Block /\ UNCHANGED clockVars
  BY <1>9, <1>b DEF Block, InTask
<1>10. CASE BlockWaiting /\ UNCHANGED clockVars
  BY <1>10, <1>b DEF BlockWaiting, InTask
<1>11. ASSUME NEW t \in Task, Wake(t), UNCHANGED clockVars
       PROVE  ClockInv'
  BY <1>11, <1>b DEF Wake
<1>12. ASSUME NEW w \in ExitWakes, Exit(w), UNCHANGED clockVars
       PROVE  ClockInv'
  BY <1>12, <1>b DEF Exit, InTask
<1>c. ASSUME sleeping' = sleeping, cursor' = cursor, tail' = tail, UNCHANGED clockVars,
             \A t \in Range(sleeping) : sleepTicks'[t] = sleepTicks[t]
      PROVE  ClockInv'
  <2>1. SleepAccounting'
    BY <1>c, ClockFacts, AccountingAfter DEF clockVars
  <2> QED  BY <1>1, <1>a, <1>c, <2>1 DEF ClockInv
<1>13. ASSUME NEW t \in Task, Start(t), UNCHANGED clockVars
       PROVE  ClockInv'
  <2>1. t \notin Range(sleeping)
    BY <1>13 DEF ClockInv, IInv, StateAgrees, Start
  <2>2. \A u \in Range(sleeping) : sleepTicks'[u] = sleepTicks[u]
    BY <1>13, <2>1, ClockFacts DEF Start
  <2> QED  BY <1>13, <1>c, <2>2 DEF Start
<1>14. ASSUME NEW t \in Task, Reap(t), UNCHANGED clockVars
       PROVE  ClockInv'
  BY <1>14, <1>c DEF Reap
<1>15. CASE UNCHANGED allVars
  BY <1>15, <1>c DEF allVars, schedVars
<1> QED
  BY <1>3, <1>4, <1>5, <1>6, <1>7, <1>8, <1>9, <1>10, <1>11, <1>12, <1>13, <1>14, <1>15
  DEF ClockNext, ClockHandler

(* The inductive invariant in every behaviour.                              *)
LEMMA ClockSpecInv == ClockSpec => []ClockInv
  BY ClockInitInv, ClockNextInv, PTL DEF ClockSpec

(* Every clock interrupt is counted exactly once for every sleeper, and the *)
(* only ticks a sleeper is given for nothing are those of the handlers that *)
(* were frozen when it went to sleep.                                       *)
THEOREM SpecSleepAccounting == ClockSpec => []SleepAccounting
<1>1. ClockInv => SleepAccounting
  BY DEF ClockInv
<1> QED  BY ClockSpecInv, <1>1, PTL

-----------------------------------------------------------------------------
(* The lists of tools/list.c.                                               *)

ListTypeOK ==
  /\ first \in [List -> Node \cup {Null}] /\ last \in [List -> Node \cup {Null}]
  /\ list_count \in [List -> Int]
  /\ next \in [Node -> Node \cup {Null}] /\ prev \in [Node -> Node \cup {Null}]

(* The inductive invariant. *)
ListInv == ListTypeOK /\ NodesOnce /\ PointersSpellItems

(* What the four operations make of a sequence, element by element. *)
LEMMA PutFirst ==
  ASSUME NEW s \in Seq(Node), NEW n \in Node
  PROVE  /\ <<n>> \o s \in Seq(Node)
         /\ Len(<<n>> \o s) = Len(s) + 1
         /\ (<<n>> \o s)[1] = n
         /\ \A i \in 2 .. Len(s) + 1 : (<<n>> \o s)[i] = s[i - 1]
  OBVIOUS

(* list_insert_last puts a new node behind the others.                      *)
LEMMA PutLast ==
  ASSUME NEW s \in Seq(Node), NEW n \in Node
  PROVE  /\ Append(s, n) \in Seq(Node)
         /\ Len(Append(s, n)) = Len(s) + 1
         /\ Append(s, n)[Len(s) + 1] = n
         /\ \A i \in 1 .. Len(s) : Append(s, n)[i] = s[i]
  OBVIOUS

(* list_remove_first takes the first node.                                  *)
LEMMA TakeFirst ==
  ASSUME NEW s \in Seq(Node), Len(s) > 0
  PROVE  /\ Tail(s) \in Seq(Node)
         /\ Len(Tail(s)) = Len(s) - 1
         /\ \A i \in 1 .. Len(s) - 1 : Tail(s)[i] = s[i + 1]
  OBVIOUS

(* list_remove takes any node of the list.                                  *)
LEMMA TakeAny ==
  ASSUME NEW s \in Seq(Node), NEW i \in DOMAIN s
  PROVE  /\ Without(s, i) \in Seq(Node)
         /\ Len(Without(s, i)) = Len(s) - 1
         /\ \A j \in 1 .. Len(s) - 1 : Without(s, i)[j] = IF j < i THEN s[j] ELSE s[j + 1]
  <1>1. Len(s) \in Nat /\ DOMAIN s = 1 .. Len(s) /\ Len(s) > 0
    BY LenProperties
  <1>2. Without(s, i) \in [1 .. Len(s) - 1 -> Node]
    BY <1>1, ElementOfSeq DEF Without
  <1>3. Len(s) - 1 \in Nat
    BY <1>1
  <1>4. Without(s, i) \in Seq(Node) /\ Len(Without(s, i)) = Len(s) - 1
    BY <1>2, <1>3
  <1> QED  BY <1>4 DEF Without

-----------------------------------------------------------------------------
(* A list whose fields and nodes are left alone is still spelled. *)
LEMMA KeptList ==
  ASSUME NEW k \in List, Spelled(k), items'[k] = items[k],
         first'[k] = first[k], last'[k] = last[k], list_count'[k] = list_count[k],
         \A i \in DOMAIN items[k] : /\ next'[items[k][i]] = next[items[k][i]]
                                    /\ prev'[items[k][i]] = prev[items[k][i]]
  PROVE  Spelled(k)'
  BY DEF Spelled, At

(* A node that is in no list is inserted in front. *)
LEMMA InsertFirstInv ==
  ASSUME ListInv, NEW l \in List, NEW n \in Node, ListInsertFirst(l, n)
  PROVE  ListInv'
  <1> DEFINE s == items[l]
             t == <<n>> \o s
  <1>1. /\ \A k \in List : items[k] \in Seq(Node) /\ Len(items[k]) \in Nat /\ DOMAIN items[k] = 1 .. Len(items[k])
        /\ \A k \in List : \A i \in 1 .. Len(items[k]) : items[k][i] \in Node /\ items[k][i] # n
    BY DEF ListInv, NodesOnce, ListInsertFirst, Free, Held
  <1>2. /\ t \in Seq(Node) /\ Len(t) = Len(s) + 1 /\ DOMAIN t = 1 .. Len(s) + 1
        /\ t[1] = n /\ \A i \in 2 .. Len(s) + 1 : t[i] = s[i - 1]
    BY <1>1, PutFirst
  <1>3. items' = [items EXCEPT ![l] = t] /\ items'[l] = t /\ \A k \in List \ {l} : items'[k] = items[k]
    BY DEF ListInv, NodesOnce, ListInsertFirst
  <1>4. Spelled(l) /\ (ListIsEmpty(l) <=> Len(s) = 0) /\ (~ ListIsEmpty(l) => first[l] = s[1])
    BY <1>1, NullAssumption DEF ListInv, PointersSpellItems, Spelled, At, ListIsEmpty
  <1>5. /\ list_count[l] = Len(s) /\ last[l] = At(s, Len(s))
         /\ \A i \in 1 .. Len(s) : next[s[i]] = At(s, i + 1) /\ prev[s[i]] = At(s, i - 1)
    BY <1>1, <1>4 DEF Spelled
  <1> HIDE DEF t
  <1>6. ListTypeOK'
    BY <1>4 DEF ListInv, ListTypeOK, ListInsertFirst
  <1>7. NodesOnce'
    <2>1. items' \in [List -> Seq(Node)]
      BY <1>2, <1>3 DEF ListInv, NodesOnce
    <2>2. ASSUME NEW k \in List \ {l}, NEW a \in DOMAIN t, NEW b \in DOMAIN items[k]
          PROVE  t[a] # items[k][b]
      <3>1. CASE a = 1
        BY <1>1, <1>2, <3>1
      <3>2. CASE a # 1
        <4>1. a - 1 \in DOMAIN s /\ t[a] = s[a - 1]
          BY <1>1, <1>2, <3>2
        <4> QED  BY <4>1 DEF ListInv, NodesOnce
      <3> QED  BY <3>1, <3>2
    <2>3. ASSUME NEW j \in List, NEW k \in List, NEW a \in DOMAIN items'[j], NEW b \in DOMAIN items'[k],
                 items'[j][a] = items'[k][b]
          PROVE  j = k /\ a = b
      <3>1. CASE j = l /\ k = l
        <4>1. a \in 1 .. Len(s) + 1 /\ b \in 1 .. Len(s) + 1 /\ t[a] = t[b]
          BY <1>2, <1>3, <2>3, <3>1
        <4>2. ASSUME NEW c \in 2 .. Len(s) + 1
              PROVE  t[c] = s[c - 1] /\ c - 1 \in 1 .. Len(s) /\ t[c] # n
          BY <1>1, <1>2
        <4>3. CASE a = 1 \/ b = 1
          BY <1>1, <1>2, <4>1, <4>2, <4>3, <3>1
        <4>4. CASE a # 1 /\ b # 1
          <5>1. s[a - 1] = s[b - 1] /\ a - 1 \in DOMAIN s /\ b - 1 \in DOMAIN s
            BY <1>1, <4>1, <4>2, <4>4
          <5> QED  BY <3>1, <4>1, <5>1 DEF ListInv, NodesOnce
        <4> QED  BY <4>3, <4>4
      <3>2. CASE j = l /\ k # l
        BY <1>3, <2>3, <2>2, <3>2
      <3>3. CASE j # l /\ k = l
        BY <1>3, <2>3, <2>2, <3>3
      <3>4. CASE j # l /\ k # l
        BY <1>3, <2>3, <3>4 DEF ListInv, NodesOnce
      <3> QED  BY <3>1, <3>2, <3>3, <3>4
    <2> QED  BY <2>1, <2>3 DEF NodesOnce
  <1>8. Spelled(l)'
    <2>1. list_count'[l] = Len(t) /\ first'[l] = t[1] /\ last'[l] = t[Len(t)]
      <3>1. list_count'[l] = Len(t) /\ first'[l] = t[1]
        BY <1>2, <1>5 DEF ListInv, ListTypeOK, ListInsertFirst
      <3>2. CASE Len(s) = 0
        <4>1. Len(t) = 1 /\ last'[l] = n
          BY <1>2, <1>4, <3>2 DEF ListInv, ListTypeOK, ListInsertFirst
        <4> QED  BY <1>2, <3>1, <4>1
      <3>3. CASE Len(s) # 0
        <4>1. Len(s) + 1 \in 2 .. Len(s) + 1 /\ (Len(s) + 1) - 1 = Len(s) /\ Len(s) \in 1 .. Len(s)
          BY <1>1, <3>3
        <4>2. last'[l] = s[Len(s)]
          BY <1>1, <1>4, <1>5, <3>3, <4>1 DEF ListInv, ListTypeOK, ListInsertFirst, At
        <4> QED  BY <1>2, <3>1, <4>1, <4>2
      <3> QED  BY <3>1, <3>2, <3>3
    <2>2. next'[n] = At(t, 2) /\ prev'[n] = Null
      BY <1>1, <1>2, <1>4 DEF ListInv, ListTypeOK, ListInsertFirst, Spelled, At
    <2>3. ASSUME NEW i \in 2 .. Len(s) + 1
          PROVE  next'[t[i]] = At(t, i + 1) /\ prev'[t[i]] = At(t, i - 1)
      <3>1. i - 1 \in 1 .. Len(s) /\ t[i] = s[i - 1] /\ t[i] \in Node /\ t[i] # n
        BY <1>1, <1>2
      <3>2. next'[t[i]] = At(t, i + 1)
        <4>1. next[s[i - 1]] = At(s, (i - 1) + 1) /\ (i - 1) + 1 = i
          BY <1>5, <3>1
        <4>2. At(t, i + 1) = At(s, i)
          <5>1. CASE i = Len(s) + 1
            BY <1>1, <1>2, <5>1 DEF At
          <5>2. CASE i # Len(s) + 1
            <6>1. i \in 1 .. Len(s) /\ i + 1 \in 2 .. Len(s) + 1 /\ (i + 1) - 1 = i
              BY <1>1, <5>2
            <6> QED  BY <1>1, <1>2, <6>1 DEF At
          <5> QED  BY <5>1, <5>2
        <4> QED  BY <3>1, <4>1, <4>2 DEF ListInsertFirst, ListInv, ListTypeOK
      <3>3. prev'[t[i]] = t[i - 1]
        <4>1. CASE i = 2
          BY <1>1, <1>2, <1>4, <3>1, <4>1 DEF ListInsertFirst
        <4>2. CASE i # 2
          <5>1. i - 2 \in 1 .. Len(s) /\ i - 1 \in 2 .. Len(s) + 1
            BY <1>1, <4>2
          <5>2. t[i] # first[l]
            BY <1>1, <1>4, <3>1, <5>1 DEF ListInv, NodesOnce
          <5>3. prev[s[i - 1]] = At(s, i - 2) /\ At(s, i - 2) = s[i - 2]
            <6>1. prev[s[i - 1]] = At(s, (i - 1) - 1) /\ (i - 1) - 1 = i - 2
              BY <1>5, <3>1
            <6> QED  BY <1>1, <5>1, <6>1 DEF At
          <5>4. t[i - 1] = s[i - 2]
            BY <1>2, <5>1
          <5> QED  BY <3>1, <5>2, <5>3, <5>4 DEF ListInsertFirst
        <4> QED  BY <4>1, <4>2
      <3>4. At(t, i - 1) = t[i - 1]
        BY <1>1, <1>2 DEF At
      <3> QED  BY <3>2, <3>3, <3>4
    <2>4. 1 \in DOMAIN t /\ Len(t) \in DOMAIN t /\ At(t, 0) = Null
      BY <1>1, <1>2 DEF At
    <2>5. list_count'[l] = Len(t) /\ first'[l] = At(t, 1) /\ last'[l] = At(t, Len(t))
      BY <2>1, <2>4 DEF At
    <2>6. ASSUME NEW i \in DOMAIN t
          PROVE  next'[t[i]] = At(t, i + 1) /\ prev'[t[i]] = At(t, i - 1)
      <3>1. CASE i = 1
        BY <1>2, <2>2, <2>4, <3>1
      <3>2. CASE i # 1
        <4>1. i \in 2 .. Len(s) + 1
          BY <1>1, <1>2, <3>2
        <4> QED  BY <2>3, <4>1
      <3> QED  BY <3>1, <3>2
    <2> QED  BY <1>3, <2>5, <2>6 DEF Spelled
  <1>9. ASSUME NEW k \in List, k # l
        PROVE  Spelled(k)'
    <2>1. \A i \in DOMAIN items[k] : items[k][i] # n /\ (~ ListIsEmpty(l) => items[k][i] # first[l])
      BY <1>1, <1>4, <1>9 DEF ListInv, NodesOnce
    <2>2. \A i \in DOMAIN items[k] : /\ next'[items[k][i]] = next[items[k][i]]
                                     /\ prev'[items[k][i]] = prev[items[k][i]]
      BY <1>1, <2>1 DEF ListInv, ListTypeOK, ListInsertFirst
    <2>3. first'[k] = first[k] /\ last'[k] = last[k] /\ list_count'[k] = list_count[k] /\ items'[k] = items[k]
      BY <1>3, <1>9 DEF ListInv, ListTypeOK, ListInsertFirst
    <2>4. Spelled(k)
      BY DEF ListInv, PointersSpellItems
    <2> QED  BY <2>2, <2>3, <2>4, KeptList
  <1>10. ASSUME NEW m \in Node, Free(m)'
        PROVE  next'[m] = Null /\ prev'[m] = Null
    <2>1. m # n
      BY <1>1, <1>2, <1>3, <1>10 DEF Free, Held
    <2>2. Free(m)
      <3>1. ASSUME NEW k \in List, NEW i \in DOMAIN items[k], items[k][i] = m
            PROVE  FALSE
        <4>1. CASE k = l
          <5>1. i + 1 \in 2 .. Len(s) + 1 /\ t[i + 1] = m
            BY <1>1, <1>2, <3>1, <4>1
          <5> QED  BY <1>2, <1>3, <1>10, <5>1 DEF Free, Held
        <4>2. CASE k # l
          BY <1>3, <1>10, <3>1, <4>2 DEF Free, Held
        <4> QED  BY <4>1, <4>2
      <3> QED  BY <3>1 DEF Free, Held
    <2>3. ~ ListIsEmpty(l) => m # first[l]
      BY <1>1, <1>4, <2>2 DEF Free, Held
    <2> QED  BY <2>1, <2>2, <2>3 DEF ListInv, ListTypeOK, PointersSpellItems, ListInsertFirst
  <1> QED  BY <1>6, <1>7, <1>8, <1>9, <1>10 DEF ListInv, PointersSpellItems

(* ... and behind the others. *)
LEMMA InsertLastInv ==
  ASSUME ListInv, NEW l \in List, NEW n \in Node, ListInsertLast(l, n)
  PROVE  ListInv'
  <1> DEFINE s == items[l]
             t == Append(s, n)
  <1>1. /\ \A k \in List : items[k] \in Seq(Node) /\ Len(items[k]) \in Nat /\ DOMAIN items[k] = 1 .. Len(items[k])
        /\ \A k \in List : \A i \in 1 .. Len(items[k]) : items[k][i] \in Node /\ items[k][i] # n
    BY DEF ListInv, NodesOnce, ListInsertLast, Free, Held
  <1>2. /\ t \in Seq(Node) /\ Len(t) = Len(s) + 1 /\ DOMAIN t = 1 .. Len(s) + 1
        /\ t[Len(s) + 1] = n /\ \A i \in 1 .. Len(s) : t[i] = s[i]
    BY <1>1, PutLast
  <1>3. items' = [items EXCEPT ![l] = t] /\ items'[l] = t /\ \A k \in List \ {l} : items'[k] = items[k]
    BY DEF ListInv, NodesOnce, ListInsertLast
  <1>4. Spelled(l) /\ (ListIsEmpty(l) <=> Len(s) = 0) /\ (~ ListIsEmpty(l) => last[l] = s[Len(s)] /\ first[l] = s[1])
    <2>1. Spelled(l) /\ list_count[l] = Len(s) /\ last[l] = At(s, Len(s)) /\ first[l] = At(s, 1)
      BY DEF ListInv, PointersSpellItems, Spelled
    <2>2. Len(s) # 0 => At(s, Len(s)) = s[Len(s)] /\ At(s, 1) = s[1]
      BY <1>1 DEF At
    <2> QED  BY <1>1, <2>1, <2>2 DEF ListIsEmpty
  <1>5. /\ list_count[l] = Len(s) /\ last[l] = At(s, Len(s))
        /\ \A i \in 1 .. Len(s) : next[s[i]] = At(s, i + 1) /\ prev[s[i]] = At(s, i - 1)
    BY <1>1, <1>4 DEF Spelled
  <1> HIDE DEF t
  <1>6. ListTypeOK'
    BY <1>4 DEF ListInv, ListTypeOK, ListInsertLast
  <1>7. NodesOnce'
    <2>1. items' \in [List -> Seq(Node)]
      BY <1>2, <1>3 DEF ListInv, NodesOnce
    <2>2. ASSUME NEW k \in List \ {l}, NEW a \in DOMAIN t, NEW b \in DOMAIN items[k]
          PROVE  t[a] # items[k][b]
      <3>1. CASE a = Len(s) + 1
        BY <1>1, <1>2, <3>1
      <3>2. CASE a # Len(s) + 1
        <4>1. a \in DOMAIN s /\ t[a] = s[a]
          BY <1>1, <1>2, <3>2
        <4> QED  BY <4>1 DEF ListInv, NodesOnce
      <3> QED  BY <3>1, <3>2
    <2>3. ASSUME NEW j \in List, NEW k \in List, NEW a \in DOMAIN items'[j], NEW b \in DOMAIN items'[k],
                 items'[j][a] = items'[k][b]
          PROVE  j = k /\ a = b
      <3>1. CASE j = l /\ k = l
        <4>1. a \in 1 .. Len(s) + 1 /\ b \in 1 .. Len(s) + 1 /\ t[a] = t[b]
          BY <1>2, <1>3, <2>3, <3>1
        <4>2. CASE a = Len(s) + 1 \/ b = Len(s) + 1
          BY <1>1, <1>2, <4>1, <4>2, <3>1
        <4>3. CASE a # Len(s) + 1 /\ b # Len(s) + 1
          <5>1. s[a] = s[b] /\ a \in DOMAIN s /\ b \in DOMAIN s
            BY <1>1, <1>2, <4>1, <4>3
          <5> QED  BY <3>1, <5>1 DEF ListInv, NodesOnce
        <4> QED  BY <4>2, <4>3
      <3>2. CASE j = l /\ k # l
        BY <1>3, <2>3, <2>2, <3>2
      <3>3. CASE j # l /\ k = l
        BY <1>3, <2>3, <2>2, <3>3
      <3>4. CASE j # l /\ k # l
        BY <1>3, <2>3, <3>4 DEF ListInv, NodesOnce
      <3> QED  BY <3>1, <3>2, <3>3, <3>4
    <2> QED  BY <2>1, <2>3 DEF NodesOnce
  <1>8. Spelled(l)'
    <2>1. list_count'[l] = Len(t) /\ first'[l] = t[1] /\ last'[l] = t[Len(t)]
      <3>1. list_count'[l] = Len(t) /\ last'[l] = t[Len(t)]
        BY <1>2, <1>5 DEF ListInv, ListTypeOK, ListInsertLast
      <3>2. CASE Len(s) = 0
        BY <1>2, <1>4, <3>1, <3>2 DEF ListInv, ListTypeOK, ListInsertLast
      <3>3. CASE Len(s) # 0
        <4>1. 1 \in 1 .. Len(s)
          BY <1>1, <3>3
        <4>2. first'[l] = s[1]
          BY <1>4, <3>3 DEF ListInv, ListTypeOK, ListInsertLast
        <4> QED  BY <1>2, <3>1, <4>1, <4>2
      <3> QED  BY <3>1, <3>2, <3>3
    <2>2. next'[n] = Null /\ prev'[n] = At(t, Len(s))
      <3>1. At(t, Len(s)) = At(s, Len(s))
        BY <1>1, <1>2 DEF At
      <3> QED  BY <1>5, <3>1 DEF ListInv, ListTypeOK, ListInsertLast
    <2>3. ASSUME NEW i \in 1 .. Len(s)
          PROVE  next'[t[i]] = t[i + 1] /\ prev'[t[i]] = At(t, i - 1)
      <3>1. t[i] = s[i] /\ t[i] \in Node /\ t[i] # n
        BY <1>1, <1>2
      <3>2. prev'[t[i]] = At(t, i - 1)
        <4>1. prev[s[i]] = At(s, i - 1)
          BY <1>5
        <4>2. At(t, i - 1) = At(s, i - 1)
          BY <1>1, <1>2 DEF At
        <4> QED  BY <3>1, <4>1, <4>2 DEF ListInsertLast, ListInv, ListTypeOK
      <3>3. next'[t[i]] = t[i + 1]
        <4>1. CASE i = Len(s)
          BY <1>1, <1>2, <1>4, <3>1, <4>1 DEF ListInsertLast
        <4>2. CASE i # Len(s)
          <5>1. i + 1 \in 1 .. Len(s) /\ Len(s) \in 1 .. Len(s)
            BY <1>1, <4>2
          <5>2. t[i] # last[l]
            BY <1>1, <1>4, <3>1, <4>2, <5>1 DEF ListInv, NodesOnce
          <5>3. next[s[i]] = At(s, i + 1) /\ At(s, i + 1) = s[i + 1]
            BY <1>1, <1>5, <5>1 DEF At
          <5>4. t[i + 1] = s[i + 1]
            BY <1>2, <5>1
          <5> QED  BY <3>1, <5>2, <5>3, <5>4 DEF ListInsertLast
        <4> QED  BY <4>1, <4>2
      <3> QED  BY <3>2, <3>3
    <2>4. 1 \in DOMAIN t /\ Len(t) \in DOMAIN t /\ At(t, (Len(s) + 1) + 1) = Null
      BY <1>1, <1>2 DEF At
    <2>5. list_count'[l] = Len(t) /\ first'[l] = At(t, 1) /\ last'[l] = At(t, Len(t))
      BY <2>1, <2>4 DEF At
    <2>6. ASSUME NEW i \in DOMAIN t
          PROVE  next'[t[i]] = At(t, i + 1) /\ prev'[t[i]] = At(t, i - 1)
      <3>1. CASE i = Len(s) + 1
        <4>1. i - 1 = Len(s)
          BY <1>1, <3>1
        <4> QED  BY <1>2, <2>2, <2>4, <3>1, <4>1
      <3>2. CASE i # Len(s) + 1
        <4>1. i \in 1 .. Len(s) /\ i + 1 \in DOMAIN t
          BY <1>1, <1>2, <3>2
        <4>2. At(t, i + 1) = t[i + 1]
          BY <4>1 DEF At
        <4> QED  BY <2>3, <4>1, <4>2
      <3> QED  BY <3>1, <3>2
    <2> QED  BY <1>3, <2>5, <2>6 DEF Spelled
  <1>9. ASSUME NEW k \in List, k # l
        PROVE  Spelled(k)'
    <2>1. \A i \in DOMAIN items[k] : items[k][i] # n /\ (~ ListIsEmpty(l) => items[k][i] # last[l])
      BY <1>1, <1>4, <1>9 DEF ListInv, NodesOnce
    <2>2. \A i \in DOMAIN items[k] : /\ next'[items[k][i]] = next[items[k][i]]
                                     /\ prev'[items[k][i]] = prev[items[k][i]]
      BY <1>1, <2>1 DEF ListInv, ListTypeOK, ListInsertLast
    <2>3. first'[k] = first[k] /\ last'[k] = last[k] /\ list_count'[k] = list_count[k] /\ items'[k] = items[k]
      BY <1>3, <1>9 DEF ListInv, ListTypeOK, ListInsertLast
    <2>4. Spelled(k)
      BY DEF ListInv, PointersSpellItems
    <2> QED  BY <2>2, <2>3, <2>4, KeptList
  <1>10. ASSUME NEW m \in Node, Free(m)'
        PROVE  next'[m] = Null /\ prev'[m] = Null
    <2>1. m # n
      BY <1>1, <1>2, <1>3, <1>10 DEF Free, Held
    <2>2. Free(m)
      <3>1. ASSUME NEW k \in List, NEW i \in DOMAIN items[k], items[k][i] = m
            PROVE  FALSE
        <4>1. CASE k = l
          <5>1. i \in 1 .. Len(s) + 1 /\ t[i] = m
            BY <1>1, <1>2, <3>1, <4>1
          <5> QED  BY <1>2, <1>3, <1>10, <5>1 DEF Free, Held
        <4>2. CASE k # l
          BY <1>3, <1>10, <3>1, <4>2 DEF Free, Held
        <4> QED  BY <4>1, <4>2
      <3> QED  BY <3>1 DEF Free, Held
    <2>3. ~ ListIsEmpty(l) => m # last[l]
      BY <1>1, <1>4, <2>2 DEF Free, Held
    <2> QED  BY <2>1, <2>2, <2>3 DEF ListInv, ListTypeOK, PointersSpellItems, ListInsertLast
  <1> QED  BY <1>6, <1>7, <1>8, <1>9, <1>10 DEF ListInv, PointersSpellItems

(* A node is taken out from wherever it is in its list. *)
LEMMA RemoveInv ==
  ASSUME ListInv, NEW l \in List, NEW i \in DOMAIN items[l], ListRemove(l, i)
  PROVE  ListInv'
  <1> DEFINE s == items[l]
             n == s[i]
             t == Without(s, i)
  <1>1. /\ \A k \in List : items[k] \in Seq(Node) /\ Len(items[k]) \in Nat /\ DOMAIN items[k] = 1 .. Len(items[k])
        /\ \A k \in List : \A a \in 1 .. Len(items[k]) : items[k][a] \in Node
        /\ i \in 1 .. Len(s) /\ n \in Node
    BY DEF ListInv, NodesOnce
  <1>2. /\ t \in Seq(Node) /\ Len(t) = Len(s) - 1 /\ DOMAIN t = 1 .. Len(s) - 1
        /\ \A c \in 1 .. Len(s) - 1 : t[c] = IF c < i THEN s[c] ELSE s[c + 1]
    <2>1. /\ Without(s, i) \in Seq(Node) /\ Len(Without(s, i)) = Len(s) - 1
          /\ \A c \in 1 .. Len(s) - 1 : Without(s, i)[c] = IF c < i THEN s[c] ELSE s[c + 1]
      BY <1>1, TakeAny
    <2> QED  BY <1>1, <2>1
  <1>3. items' = [items EXCEPT ![l] = t] /\ items'[l] = t /\ \A k \in List \ {l} : items'[k] = items[k]
    BY DEF ListInv, NodesOnce, ListRemove
  <1>4. /\ first[l] = At(s, 1) /\ list_count[l] = Len(s) /\ last[l] = At(s, Len(s))
        /\ \A c \in 1 .. Len(s) : next[s[c]] = At(s, c + 1) /\ prev[s[c]] = At(s, c - 1)
    BY <1>1 DEF ListInv, PointersSpellItems, Spelled
  <1>5. next[n] = At(s, i + 1) /\ prev[n] = At(s, i - 1)
    BY <1>1, <1>4
  <1>6. /\ \A a \in 1 .. Len(s), c \in Int : s[a] = At(s, c) => a = c
        /\ \A a \in 1 .. Len(s) : s[a] = At(s, a)
    BY <1>1, NullAssumption DEF ListInv, NodesOnce, At
  <1>7. \A c \in Int : At(t, c) = IF c < i THEN At(s, c) ELSE At(s, c + 1)
    <2> TAKE c \in Int
    <2>1. CASE c \in 1 .. Len(s) - 1
      BY <1>1, <1>2, <2>1 DEF At
    <2>2. CASE c \notin 1 .. Len(s) - 1
      BY <1>1, <1>2, <2>2 DEF At
    <2> QED  BY <2>1, <2>2
  <1> HIDE DEF t
  <1>8. ListTypeOK'
    BY <1>1 DEF ListInv, ListTypeOK, ListRemove, Unlinked
  <1>9. NodesOnce'
    <2>1. items' \in [List -> Seq(Node)]
      BY <1>2, <1>3 DEF ListInv, NodesOnce
    <2>2. ASSUME NEW c \in 1 .. Len(s) - 1
          PROVE  \E d \in 1 .. Len(s) : t[c] = s[d] /\ d = IF c < i THEN c ELSE c + 1
      BY <1>1, <1>2
    <2>3. ASSUME NEW j \in List, NEW k \in List, NEW a \in DOMAIN items'[j], NEW b \in DOMAIN items'[k],
                 items'[j][a] = items'[k][b]
          PROVE  j = k /\ a = b
      <3>1. CASE j = l /\ k = l
        <4>1. a \in 1 .. Len(s) - 1 /\ b \in 1 .. Len(s) - 1 /\ t[a] = t[b]
          BY <1>2, <1>3, <2>3, <3>1
        <4>2. PICK d \in 1 .. Len(s) : t[a] = s[d] /\ d = IF a < i THEN a ELSE a + 1
          BY <2>2, <4>1
        <4>3. PICK e \in 1 .. Len(s) : t[b] = s[e] /\ e = IF b < i THEN b ELSE b + 1
          BY <2>2, <4>1
        <4>4. d = e
          <5>1. s[d] = At(s, e)
            BY <1>6, <4>1, <4>2, <4>3
          <5> QED  BY <1>1, <1>6, <5>1
        <4> QED  BY <1>1, <3>1, <4>1, <4>2, <4>3, <4>4
      <3>2. CASE j = l /\ k # l
        BY <1>1, <1>2, <1>3, <2>2, <2>3, <3>2 DEF ListInv, NodesOnce
      <3>3. CASE j # l /\ k = l
        BY <1>1, <1>2, <1>3, <2>2, <2>3, <3>3 DEF ListInv, NodesOnce
      <3>4. CASE j # l /\ k # l
        BY <1>3, <2>3, <3>4 DEF ListInv, NodesOnce
      <3> QED  BY <3>1, <3>2, <3>3, <3>4
    <2> QED  BY <2>1, <2>3 DEF NodesOnce
  <1>10. Spelled(l)'
    <2>1. list_count'[l] = Len(t)
      BY <1>2, <1>4 DEF ListInv, ListTypeOK, ListRemove
    <2>2. first'[l] = At(t, 1)
      <3>1. first'[l] = IF n = At(s, 1) THEN At(s, i + 1) ELSE At(s, 1)
        BY <1>4, <1>5 DEF ListInv, ListTypeOK, ListRemove
      <3>2. n = At(s, 1) <=> i = 1
        BY <1>1, <1>6 DEF At
      <3> QED  BY <1>1, <1>7, <3>1, <3>2
    <2>3. last'[l] = At(t, Len(t))
      <3>1. last'[l] = IF n = At(s, Len(s)) THEN At(s, i - 1) ELSE At(s, Len(s))
        BY <1>4, <1>5 DEF ListInv, ListTypeOK, ListRemove
      <3>2. n = At(s, Len(s)) <=> i = Len(s)
        BY <1>1, <1>6 DEF At
      <3> QED  BY <1>1, <1>2, <1>7, <3>1, <3>2
    <2>4. ASSUME NEW c \in 1 .. Len(s), c # i
          PROVE  /\ next'[s[c]] = IF c = i - 1 THEN At(s, i + 1) ELSE At(s, c + 1)
                 /\ prev'[s[c]] = IF c = i + 1 THEN At(s, i - 1) ELSE At(s, c - 1)
      <3>1. s[c] \in Node /\ s[c] # n /\ next[s[c]] = At(s, c + 1) /\ prev[s[c]] = At(s, c - 1)
        BY <1>1, <1>4, <2>4 DEF ListInv, NodesOnce
      <3>2. (s[c] = prev[n] <=> c = i - 1) /\ (s[c] = next[n] <=> c = i + 1)
        <4>1. i - 1 \in Int /\ i + 1 \in Int /\ s[c] = At(s, c)
          BY <1>1, <1>6
        <4> QED  BY <1>5, <1>6, <4>1
      <3> QED  BY <1>5, <3>1, <3>2 DEF ListRemove, Unlinked
    <2>5. ASSUME NEW c \in 1 .. Len(s) - 1
          PROVE  next'[t[c]] = At(t, c + 1) /\ prev'[t[c]] = At(t, c - 1)
      <3>1. CASE c < i
        <4>1. c \in 1 .. Len(s) /\ c # i /\ t[c] = s[c]
          BY <1>1, <1>2, <3>1
        <4>2. At(t, c + 1) = IF c = i - 1 THEN At(s, i + 1) ELSE At(s, c + 1)
          <5>1. At(t, c + 1) = IF c + 1 < i THEN At(s, c + 1) ELSE At(s, (c + 1) + 1)
            BY <1>7
          <5>2. c + 1 < i <=> c # i - 1
            BY <1>1, <3>1
          <5>3. c = i - 1 => (c + 1) + 1 = i + 1
            BY <1>1
          <5> QED  BY <5>1, <5>2, <5>3
        <4>3. At(t, c - 1) = At(s, c - 1) /\ c # i + 1
          <5>1. c - 1 \in Int /\ c - 1 < i /\ c # i + 1
            BY <1>1, <3>1
          <5> QED  BY <1>7, <5>1
        <4> QED  BY <2>4, <4>1, <4>2, <4>3
      <3>2. CASE ~ (c < i)
        <4>1. c + 1 \in 1 .. Len(s) /\ c + 1 # i /\ t[c] = s[c + 1] /\ c + 1 # i - 1
          BY <1>1, <1>2, <3>2
        <4>2. At(t, c + 1) = At(s, (c + 1) + 1)
          BY <1>1, <1>7, <3>2
        <4>3. At(t, c - 1) = IF c + 1 = i + 1 THEN At(s, i - 1) ELSE At(s, (c + 1) - 1)
          <5>1. At(t, c - 1) = IF c - 1 < i THEN At(s, c - 1) ELSE At(s, (c - 1) + 1)
            BY <1>7
          <5>2. (c - 1 < i <=> c + 1 = i + 1) /\ (c - 1) + 1 = (c + 1) - 1
            BY <1>1, <3>2
          <5>3. c + 1 = i + 1 => c - 1 = i - 1
            BY <1>1
          <5> QED  BY <5>1, <5>2, <5>3
        <4> QED  BY <2>4, <4>1, <4>2, <4>3
      <3> QED  BY <3>1, <3>2
    <2> QED  BY <1>2, <1>3, <2>1, <2>2, <2>3, <2>5 DEF Spelled
  <1>11. ASSUME NEW k \in List, k # l
         PROVE  Spelled(k)'
    <2>1. \A a \in DOMAIN items[k] : items[k][a] # n /\ items[k][a] # next[n] /\ items[k][a] # prev[n]
      BY <1>1, <1>5, <1>11, NullAssumption DEF ListInv, NodesOnce, At
    <2>2. \A a \in DOMAIN items[k] : /\ next'[items[k][a]] = next[items[k][a]]
                                     /\ prev'[items[k][a]] = prev[items[k][a]]
      BY <1>1, <2>1 DEF ListRemove, Unlinked
    <2>3. first'[k] = first[k] /\ last'[k] = last[k] /\ list_count'[k] = list_count[k] /\ items'[k] = items[k]
      BY <1>3, <1>11 DEF ListInv, ListTypeOK, ListRemove
    <2>4. Spelled(k)
      BY DEF ListInv, PointersSpellItems
    <2> QED  BY <2>2, <2>3, <2>4, KeptList
  <1>12. ASSUME NEW m \in Node, Free(m)'
         PROVE  next'[m] = Null /\ prev'[m] = Null
    <2>1. CASE m = n
      BY <1>1, <2>1 DEF ListRemove, Unlinked
    <2>2. CASE m # n
      <3>1. ASSUME NEW c \in 1 .. Len(s), s[c] = m
            PROVE  FALSE
        <4>1. c # i
          BY <2>2, <3>1
        <4>2. \E d \in DOMAIN t : t[d] = m
          <5>1. CASE c < i
            <6>1. c \in 1 .. Len(s) - 1
              BY <1>1, <5>1
            <6> QED  BY <1>2, <3>1, <5>1, <6>1
          <5>2. CASE c > i
            <6>1. c - 1 \in 1 .. Len(s) - 1 /\ ~ (c - 1 < i) /\ (c - 1) + 1 = c
              BY <1>1, <5>2
            <6> QED  BY <1>2, <3>1, <6>1
          <5> QED  BY <1>1, <4>1, <5>1, <5>2
        <4> QED  BY <1>3, <1>12, <4>2 DEF Free, Held
      <3>2. Free(m)
        BY <1>1, <1>3, <1>12, <3>1 DEF Free, Held
      <3>3. m # next[n] /\ m # prev[n]
        BY <1>1, <1>5, <3>1, NullAssumption DEF At
      <3> QED  BY <2>2, <3>2, <3>3 DEF ListInv, PointersSpellItems, ListRemove, Unlinked
    <2> QED  BY <2>1, <2>2
  <1> QED  BY <1>8, <1>9, <1>10, <1>11, <1>12 DEF ListInv, PointersSpellItems

(* Taking the first node is taking the node at position 1. *)
LEMMA RemoveFirstIsRemove ==
  ASSUME ListInv, NEW l \in List, ListRemoveFirst(l)
  PROVE  1 \in DOMAIN items[l] /\ ListRemove(l, 1)
  <1> DEFINE s == items[l]
             n == s[1]
  <1>1. s \in Seq(Node) /\ Len(s) \in Nat /\ DOMAIN s = 1 .. Len(s) /\ \A c \in 1 .. Len(s) : s[c] \in Node
    BY DEF ListInv, NodesOnce
  <1>2. list_count[l] = Len(s) /\ first[l] = At(s, 1) /\ last[l] = At(s, Len(s))
    BY DEF ListInv, PointersSpellItems, Spelled
  <1>3. 1 \in 1 .. Len(s) /\ Len(s) \in 1 .. Len(s)
    BY <1>1, <1>2 DEF ListRemoveFirst, ListIsEmpty
  <1>4. first[l] = n /\ last[l] = s[Len(s)] /\ n \in Node
    BY <1>1, <1>2, <1>3 DEF At
  <1>5. next[n] = At(s, 2) /\ prev[n] = Null
    <2>1. next[n] = At(s, 1 + 1) /\ prev[n] = At(s, 1 - 1)
      BY <1>1, <1>3 DEF ListInv, PointersSpellItems, Spelled
    <2>2. At(s, 1 - 1) = Null
      BY <1>1 DEF At
    <2> QED  BY <2>1, <2>2
  <1>6. next[n] = Null <=> n = last[l]
    <2>1. At(s, 2) = Null <=> Len(s) = 1
      <3>1. CASE Len(s) = 1
        BY <1>1, <3>1 DEF At
      <3>2. CASE Len(s) # 1
        <4>1. 2 \in DOMAIN s
          <5>1. \A k \in Nat : 1 \in 1 .. k /\ k # 1 => 2 \in 1 .. k
            OBVIOUS
          <5> HIDE DEF s
          <5> QED  BY <1>1, <1>3, <3>2, <5>1
        <4>2. At(s, 2) \in Node
          BY <1>1, <4>1 DEF At
        <4> QED  BY <3>2, <4>2, NullAssumption
      <3> QED  BY <3>1, <3>2
    <2>2. n = s[Len(s)] <=> Len(s) = 1
      BY <1>1, <1>3 DEF ListInv, NodesOnce
    <2> QED  BY <1>4, <1>5, <2>1, <2>2
  <1>7. first' = [first EXCEPT ![l] = IF n = @ THEN next[n] ELSE @]
    BY <1>4 DEF ListRemoveFirst
  <1>8. last' = [last EXCEPT ![l] = IF n = @ THEN prev[n] ELSE @]
    BY <1>4, <1>5, <1>6 DEF ListRemoveFirst
  <1>9. Unlinked(n)
    <2>1. \A m \in Node : m # prev[n]
      BY <1>5, NullAssumption
    <2>2. next' = [m \in Node |-> IF m = n THEN Null ELSE IF m = prev[n] THEN next[n] ELSE next[m]]
      BY <1>4, <2>1 DEF ListRemoveFirst, ListInv, ListTypeOK
    <2>3. prev' = [m \in Node |-> IF m = n THEN Null ELSE IF m = next[n] THEN prev[n] ELSE prev[m]]
      BY <1>4, <1>5 DEF ListRemoveFirst
    <2> QED  BY <2>2, <2>3 DEF Unlinked
  <1>10. Tail(s) = Without(s, 1)
    <2>1. /\ Tail(s) \in Seq(Node) /\ Without(s, 1) \in Seq(Node) /\ Len(Tail(s)) = Len(Without(s, 1))
          /\ \A c \in 1 .. Len(s) - 1 : Tail(s)[c] = Without(s, 1)[c]
      BY <1>1, <1>3, TakeFirst, TakeAny
    <2>2. Len(Tail(s)) = Len(s) - 1
      BY <1>1, <1>3, TakeFirst
    <2> QED  BY <2>1, <2>2, SeqEqual
  <1> QED  BY <1>1, <1>3, <1>7, <1>8, <1>9, <1>10 DEF ListRemoveFirst, ListRemove

-----------------------------------------------------------------------------
(* All lists are empty at first.                                            *)
LEMMA ListInitInv == ListInit => ListInv
  BY DEF ListInit, ListInv, ListTypeOK, NodesOnce, PointersSpellItems, Spelled, At

(* Every step keeps the invariant.                                          *)
LEMMA ListStepInv == ListInv /\ [ListNext]_listVars => ListInv'
  <1> SUFFICES ASSUME ListInv, [ListNext]_listVars
               PROVE  ListInv'
    OBVIOUS
  <1>1. ASSUME NEW l \in List, NEW n \in Node, ListInsertFirst(l, n)
        PROVE  ListInv'
    BY <1>1, InsertFirstInv
  <1>2. ASSUME NEW l \in List, NEW n \in Node, ListInsertLast(l, n)
        PROVE  ListInv'
    BY <1>2, InsertLastInv
  <1>3. ASSUME NEW l \in List, ListRemoveFirst(l)
        PROVE  ListInv'
    BY <1>3, RemoveFirstIsRemove, RemoveInv
  <1>4. ASSUME NEW l \in List, NEW i \in 1 .. Len(items[l]), ListRemove(l, i)
        PROVE  ListInv'
    BY <1>4, RemoveInv DEF ListRemove
  <1>5. CASE UNCHANGED listVars
    BY <1>5 DEF listVars, ListInv, ListTypeOK, NodesOnce, PointersSpellItems, Spelled, At, Free, Held
  <1> QED  BY <1>1, <1>2, <1>3, <1>4, <1>5 DEF ListNext

(* Whatever nodes are moved between however many lists, in whatever order   *)
(* and from whatever position, a list read from either end is the sequence  *)
(* its calls built (tools/list.c): the sequences of the other modules stand *)
(* for it.                                                                  *)
THEOREM ListsAreSequences == ListSpec => []PointersSpellItems
  <1>1. ListInv => PointersSpellItems
    BY DEF ListInv
  <1> QED  BY <1>1, ListInitInv, ListStepInv, PTL DEF ListSpec

-----------------------------------------------------------------------------
(* Mutexes and semaphores.                                                  *)

(* Taking the head of a list without repetition removes that one member.    *)
LEMMA TailProperties ==
  ASSUME NEW S, NEW s \in Seq(S), s # <<>>, IsInjective(s)
  PROVE  /\ Tail(s) \in Seq(S)
         /\ IsInjective(Tail(s))
         /\ Range(Tail(s)) = Range(s) \ {Head(s)}
<1> DEFINE u == Tail(s)
<1>1. /\ DOMAIN s = 1 .. Len(s) /\ Len(s) \in Nat \ {0}
      /\ u \in Seq(S) /\ Len(u) = Len(s) - 1 /\ DOMAIN u = 1 .. Len(s) - 1
      /\ \A i \in 1 .. Len(s) - 1 : u[i] = s[i + 1]
      /\ Head(s) = s[1]
  OBVIOUS
<1> HIDE DEF u
<1>2. IsInjective(u)
  <2> SUFFICES ASSUME NEW a \in 1 .. Len(s) - 1, NEW b \in 1 .. Len(s) - 1, u[a] = u[b]
               PROVE  a = b
    BY <1>1 DEF IsInjective
  <2>1. s[a + 1] = s[b + 1] /\ a + 1 \in DOMAIN s /\ b + 1 \in DOMAIN s
    BY <1>1
  <2>2. a + 1 = b + 1
    BY <2>1 DEF IsInjective
  <2> QED  BY <2>2
<1>3. ASSUME NEW i \in DOMAIN u PROVE u[i] \in Range(s) \ {Head(s)}
  <2>1. i + 1 \in DOMAIN s /\ 1 \in DOMAIN s /\ i + 1 # 1 /\ u[i] = s[i + 1]
    BY <1>1
  <2> QED  BY <1>1, <2>1 DEF IsInjective, Range
<1>4. ASSUME NEW x \in Range(s) \ {Head(s)} PROVE x \in Range(u)
  <2>1. PICK j \in 1 .. Len(s) : s[j] = x
    BY <1>1 DEF Range
  <2>2. j - 1 \in DOMAIN u /\ u[j - 1] = x
    BY <1>1, <2>1
  <2> QED  BY <2>2 DEF Range
<1>5. Range(u) = Range(s) \ {Head(s)}
  BY <1>3, <1>4 DEF Range
<1> QED  BY <1>1, <1>2, <1>5 DEF u

-----------------------------------------------------------------------------
(* The wait lists as one function Q, and the tasks P that are blocked on    *)
(* any of them: each in one place of one list.                              *)
Primitive == Mutex \cup Sem
Parked == blocked \ Waiting

Partitioned(Q, P) ==
  /\ Q \in [Primitive -> Seq(Task)]
  /\ \A t : t \in P <=> \E q \in Primitive : t \in Range(Q[q])
  /\ \A q \in Primitive : IsInjective(Q[q])
  /\ \A q, r \in Primitive : q # r => Range(Q[q]) \cap Range(Q[r]) = {}

(* A task that runs queues up at the end of one list.                       *)
LEMMA JoinPartitioned ==
  ASSUME NEW Q, NEW P, Partitioned(Q, P),
         NEW q \in Primitive, NEW t \in Task, t \notin P
  PROVE  Partitioned([Q EXCEPT ![q] = Enqueue(@, t)], P \cup {t})
<1> DEFINE e == Enqueue(Q[q], t)
           J == [Q EXCEPT ![q] = e]
<1>1. Q[q] \in Seq(Task) /\ IsInjective(Q[q]) /\ t \notin Range(Q[q])
  BY DEF Partitioned
<1>2. e \in Seq(Task) /\ IsInjective(e) /\ Range(e) = Range(Q[q]) \cup {t}
  BY <1>1, EnqueueProperties
<1> HIDE DEF e
<1>3. J \in [Primitive -> Seq(Task)] /\ J[q] = e /\ \A r \in Primitive \ {q} : J[r] = Q[r]
  BY <1>2 DEF Partitioned
<1> HIDE DEF J
<1>4. \A u : u \in P \cup {t} <=> \E r \in Primitive : u \in Range(J[r])
  BY <1>2, <1>3 DEF Partitioned
<1>5. \A r \in Primitive : IsInjective(J[r])
  BY <1>2, <1>3 DEF Partitioned
<1>6. \A r \in Primitive : t \notin Range(Q[r])
  BY DEF Partitioned
<1>7. ASSUME NEW r \in Primitive, NEW u \in Primitive, r # u
      PROVE  Range(J[r]) \cap Range(J[u]) = {}
  <2>1. Range(Q[r]) \cap Range(Q[u]) = {}
    BY <1>7 DEF Partitioned
  <2>2. ASSUME NEW x \in Primitive
        PROVE  Range(J[x]) = IF x = q THEN Range(Q[x]) \cup {t} ELSE Range(Q[x])
    BY <1>2, <1>3
  <2> QED  BY <1>6, <1>7, <2>1, <2>2
<1>8. Partitioned(J, P \cup {t})
  BY <1>3, <1>4, <1>5, <1>7 DEF Partitioned
<1> QED  BY <1>8 DEF J, e

(* The first waiter of a list is let out of it.                             *)
LEMMA ServePartitioned ==
  ASSUME NEW Q, NEW P, Partitioned(Q, P), NEW q \in Primitive, Q[q] # <<>>
  PROVE  /\ Head(Q[q]) \in P
         /\ Partitioned([Q EXCEPT ![q] = Tail(@)], P \ {Head(Q[q])})
<1> DEFINE e == Tail(Q[q])
           t == Head(Q[q])
           J == [Q EXCEPT ![q] = e]
<1>1. Q[q] \in Seq(Task) /\ IsInjective(Q[q])
  BY DEF Partitioned
<1>2. e \in Seq(Task) /\ IsInjective(e) /\ Range(e) = Range(Q[q]) \ {t}
  BY <1>1, TailProperties
<1>3. t \in Range(Q[q])
  BY <1>1, HeadInRange
<1> HIDE DEF e, t
<1>4. J \in [Primitive -> Seq(Task)] /\ J[q] = e /\ \A r \in Primitive \ {q} : J[r] = Q[r]
  BY <1>2 DEF Partitioned
<1> HIDE DEF J
<1>5. \A r \in Primitive : r # q => t \notin Range(Q[r])
  BY <1>3 DEF Partitioned
<1>6. \A u : u \in P \ {t} <=> \E r \in Primitive : u \in Range(J[r])
  <2>1. \A r \in Primitive : Range(J[r]) = Range(Q[r]) \ {t}
    BY <1>2, <1>4, <1>5
  <2>2. \A u : u \in P <=> \E r \in Primitive : u \in Range(Q[r])
    BY DEF Partitioned
  <2> QED  BY <2>1, <2>2
<1>7. \A r \in Primitive : IsInjective(J[r])
  BY <1>2, <1>4 DEF Partitioned
<1>8. ASSUME NEW r \in Primitive, NEW u \in Primitive, r # u
      PROVE  Range(J[r]) \cap Range(J[u]) = {}
  <2>1. Range(Q[r]) \cap Range(Q[u]) = {}
    BY <1>8 DEF Partitioned
  <2>2. ASSUME NEW x \in Primitive
        PROVE  Range(J[x]) \subseteq Range(Q[x])
    BY <1>2, <1>4
  <2> QED  BY <2>1, <2>2
<1>9. Partitioned(J, P \ {t})
  BY <1>4, <1>6, <1>7, <1>8 DEF Partitioned
<1>10. t \in P
  BY <1>3 DEF Partitioned
<1> QED  BY <1>9, <1>10 DEF J, e, t

-----------------------------------------------------------------------------
(* What the steps of the scheduler do to the blocked tasks.  A dispatch      *)
(* makes a ready task run, so nobody begins or ends to wait for a child.    *)
LEMMA DispatchWaiting ==
  ASSUME NEW rdy \in Seq(Task), NEW st, NEW frozen, NEW on,
         st \in [AllTask -> TaskState], \A t \in Range(rdy) : st[t] # "waiting",
         Dispatch(rdy, st, frozen, on)
  PROVE  \A t \in Task : state'[t] = "waiting" <=> st[t] = "waiting"
<1>1. CASE state' = st
  BY <1>1
<1>2. CASE state' = [st EXCEPT ![NextRun(rdy)] = "running"]
  <2>1. NextRun(rdy) \in Range(rdy) \cup {Idle}
    BY HeadInRange DEF NextRun
  <2> QED  BY <1>2, <2>1, TaskAssumption DEF AllTask
<1> QED  BY <1>1, <1>2 DEF Dispatch, DispatchSwitch

(* Tasks of the run lists are not in the waiting state.                     *)
LEMMA ReadyNotWaiting ==
  ASSUME IInv
  PROVE  /\ ready \in Seq(Task) /\ state \in [AllTask -> TaskState]
         /\ \A t \in Range(ready) : t \in Task /\ state[t] # "waiting" /\ t \notin blocked
         /\ \A t \in Range(sleeping) : t \in Task /\ state[t] # "waiting"
         /\ blocked \subseteq Task /\ Waiting \subseteq blocked
<1>1. Placed(Range(ready), Range(sleeping), blocked, state, sleepTicks)
  BY InvPlaced
<1>2. ready \in Seq(Task)
  BY DEF IInv, TypeOK
<1>3. \A t \in Range(ready) : t \in Task /\ state[t] # "waiting" /\ t \notin blocked
  BY <1>1 DEF Placed
<1>4. \A t \in Range(sleeping) : t \in Task /\ state[t] # "waiting"
  BY <1>1 DEF Placed
<1> QED  BY <1>1, <1>2, <1>3, <1>4 DEF Placed, Waiting

(* The clock handler blocks nobody and wakes nobody who is blocked.         *)
LEMMA HandlerParked ==
  ASSUME IInv, Handler
  PROVE  Parked' = Parked
<1>a. /\ ready \in Seq(Task) /\ state \in [AllTask -> TaskState]
      /\ \A t \in Range(ready) : t \in Task /\ state[t] # "waiting"
      /\ \A t \in Range(sleeping) : t \in Task /\ state[t] # "waiting"
  BY ReadyNotWaiting
<1>b. blocked' = blocked
  BY DEF Handler, TickCount, TickExpire, ScanWake, ScanCount, ScanEnd
<1>c. SUFFICES \A t \in Task : state'[t] = "waiting" <=> state[t] = "waiting"
  BY <1>b DEF Parked, Waiting
<1>1. CASE TickCount \/ ScanCount
  BY <1>1 DEF TickCount, ScanCount
<1>2. CASE TickExpire
  <2>1. /\ Rotated \in Seq(Task) /\ Range(Rotated) = Range(ready)
        /\ Placed(Range(ready), Range(sleeping), blocked, RotatedState, sleepTicks)
    BY <1>2, RotatedProperties DEF TickExpire
  <2>2. /\ RotatedState \in [AllTask -> TaskState]
        /\ \A t \in Range(Rotated) : RotatedState[t] # "waiting"
    BY <2>1 DEF Placed
  <2>3. \A t \in Task : state'[t] = "waiting" <=> RotatedState[t] = "waiting"
    BY <1>2, <2>1, <2>2, DispatchWaiting DEF TickExpire
  <2>4. curr # Idle => curr \in Range(ready)
    BY <1>a, HeadInRange DEF IInv, CurrIsHead
  <2>5. \A t \in Task : RotatedState[t] = "waiting" <=> state[t] = "waiting"
    BY <1>a, <2>4 DEF RotatedState
  <2> QED  BY <2>3, <2>5
<1>3. CASE ScanWake
  <2>1. sleeping[cursor] \in Range(sleeping)
    BY <1>3 DEF ScanWake, Range
  <2> QED  BY <1>3, <1>a, <2>1 DEF ScanWake, AllTask
<1>4. CASE ScanEnd
  BY <1>4, <1>a, DispatchWaiting DEF ScanEnd
<1> QED  BY <1>1, <1>2, <1>3, <1>4 DEF Handler

(* mutex_lock and sem_wait park the running task.                           *)
LEMMA BlockParked ==
  ASSUME IInv, Block
  PROVE  curr \in Task /\ curr \notin Parked /\ Parked' = Parked \cup {curr}
<1>1. /\ curr \in Task /\ curr \in Range(ready) /\ curr \notin blocked
      /\ Unlink(ready, curr) \in Seq(Task)
      /\ Range(Unlink(ready, curr)) = Range(ready) \ {curr}
  BY InTaskProperties DEF Block
<1>2. /\ state \in [AllTask -> TaskState]
      /\ \A t \in Range(ready) : state[t] # "waiting"
  BY ReadyNotWaiting
<1> DEFINE u == Unlink(ready, curr)
<1>3. u \in Seq(Task) /\ \A t \in Range(u) : state[t] # "waiting"
  BY <1>1, <1>2
<1>4. Dispatch(u, state, {}, 0) /\ blocked' = blocked \cup {curr}
  BY DEF Block
<1> HIDE DEF u
<1>5. \A t \in Task : state'[t] = "waiting" <=> state[t] = "waiting"
  BY <1>2, <1>3, <1>4, DispatchWaiting
<1> QED  BY <1>1, <1>2, <1>4, <1>5 DEF Parked, Waiting

(* mutex_unlock and sem_notify take a task out of the parked ones.          *)
LEMMA WakeParked ==
  ASSUME IInv, NEW t, Wake(t)
  PROVE  t \in Parked /\ Parked' = Parked \ {t}
<1>1. t \in Task /\ t \in blocked /\ state[t] # "waiting"
  BY ReadyNotWaiting DEF Wake
<1>2. /\ ready \in Seq(Task) /\ state \in [AllTask -> TaskState]
      /\ \A u \in Range(ready) : state[u] # "waiting"
  BY ReadyNotWaiting
<1> DEFINE e == Enqueue(ready, t)
           st == [state EXCEPT ![t] = "ready"]
<1>3. e \in Seq(Task) /\ Range(e) = Range(ready) \cup {t}
  BY <1>1, <1>2, EnqueueProperties
<1>4. st \in [AllTask -> TaskState]
  BY <1>1, <1>2 DEF AllTask, TaskState
<1>5. \A u \in Range(e) : st[u] # "waiting"
  BY <1>1, <1>2, <1>3, <1>4 DEF AllTask
<1>6. Dispatch(e, st, {}, 0) /\ blocked' = blocked \ {t}
  BY DEF Wake
<1>7. \A u \in Task : st[u] = "waiting" <=> state[u] = "waiting"
  BY <1>1, <1>2 DEF AllTask
<1> HIDE DEF e, st
<1>8. \A u \in Task : state'[u] = "waiting" <=> st[u] = "waiting"
  BY <1>3, <1>4, <1>5, <1>6, DispatchWaiting
<1> QED  BY <1>1, <1>6, <1>7, <1>8 DEF Parked, Waiting

(* What else a task does leaves the tasks in the wait lists where they are. *)
LEMMA TaskStepParked ==
  ASSUME IInv, TaskStep
  PROVE  Parked' = Parked
<1>a. /\ ready \in Seq(Task) /\ state \in [AllTask -> TaskState]
      /\ \A t \in Range(ready) : t \in Task /\ state[t] # "waiting"
      /\ blocked \subseteq Task
  BY ReadyNotWaiting
<1>b. ASSUME InTask
      PROVE  /\ curr \in Task /\ curr \in Range(ready) /\ curr \notin blocked
             /\ Unlink(ready, curr) \in Seq(Task)
             /\ Range(Unlink(ready, curr)) = Range(ready) \ {curr}
  BY <1>b, InTaskProperties
<1> DEFINE u == Unlink(ready, curr)
<1>1. CASE Yield
  <2>1. /\ Rotated \in Seq(Task) /\ Range(Rotated) = Range(ready)
        /\ Placed(Range(ready), Range(sleeping), blocked, RotatedState, sleepTicks)
    BY <1>1, RotatedProperties DEF Yield, InTask
  <2>2. /\ RotatedState \in [AllTask -> TaskState]
        /\ \A t \in Range(Rotated) : RotatedState[t] # "waiting"
    BY <2>1 DEF Placed
  <2>3. \A t \in Task : state'[t] = "waiting" <=> RotatedState[t] = "waiting"
    BY <1>1, <2>1, <2>2, DispatchWaiting DEF Yield
  <2>4. \A t \in Task : RotatedState[t] = "waiting" <=> state[t] = "waiting"
    BY <1>1, <1>a, <1>b DEF RotatedState, Yield
  <2> QED  BY <1>1, <2>3, <2>4 DEF Yield, Parked, Waiting
<1>2. CASE BlockWaiting
  <2> DEFINE st == [state EXCEPT ![curr] = "waiting"]
  <2>1. curr \in Task /\ curr \notin blocked /\ u \in Seq(Task) /\ Range(u) = Range(ready) \ {curr}
    BY <1>2, <1>b DEF BlockWaiting
  <2>2. st \in [AllTask -> TaskState] /\ \A t \in Range(u) : st[t] # "waiting"
    BY <1>a, <2>1 DEF AllTask, TaskState
  <2>3. Dispatch(u, st, {}, 0) /\ blocked' = blocked \cup {curr}
    BY <1>2 DEF BlockWaiting
  <2>4. \A t \in Task : st[t] = "waiting" <=> (state[t] = "waiting" \/ t = curr)
    BY <1>a, <2>1 DEF AllTask
  <2> HIDE DEF u, st
  <2>5. \A t \in Task : state'[t] = "waiting" <=> st[t] = "waiting"
    BY <2>1, <2>2, <2>3, DispatchWaiting
  <2> QED  BY <1>a, <2>1, <2>3, <2>4, <2>5 DEF Parked, Waiting
<1>3. ASSUME NEW n \in 1 .. MaxSleep, Sleep(n)
      PROVE  Parked' = Parked
  <2> DEFINE st == [state EXCEPT ![curr] = "sleep"]
  <2>1. curr \in Task /\ curr \in Range(ready) /\ u \in Seq(Task) /\ Range(u) = Range(ready) \ {curr}
    BY <1>3, <1>b DEF Sleep
  <2>2. st \in [AllTask -> TaskState] /\ \A t \in Range(u) : st[t] # "waiting"
    BY <1>a, <2>1 DEF AllTask, TaskState
  <2>3. Dispatch(u, st, {}, 0) /\ blocked' = blocked
    BY <1>3 DEF Sleep
  <2>4. \A t \in Task : st[t] = "waiting" <=> state[t] = "waiting"
    BY <1>a, <2>1 DEF AllTask
  <2> HIDE DEF u, st
  <2>5. \A t \in Task : state'[t] = "waiting" <=> st[t] = "waiting"
    BY <2>1, <2>2, <2>3, DispatchWaiting
  <2> QED  BY <2>3, <2>4, <2>5 DEF Parked, Waiting
<1>4. ASSUME NEW w \in ExitWakes, Exit(w)
      PROVE  Parked' = Parked
  <2> DEFINE st == [t \in AllTask |-> CASE t = curr -> "zombie"
                                        [] t \in Range(w) -> "ready"
                                        [] OTHER -> state[t]]
             v == Unlink(ready \o w, curr)
  <2>1. curr \in Task /\ curr \in Range(ready) /\ curr \notin blocked
    BY <1>4, <1>b DEF Exit
  <2>2. /\ Range(w) \subseteq Waiting /\ v \in Seq(Task)
        /\ Range(v) = (Range(ready) \cup Range(w)) \ {curr}
    BY <1>4, ExitProperties DEF Exit
  <2>3. st \in [AllTask -> TaskState]
    BY <1>a DEF TaskState
  <2>4. \A t \in Task : st[t] = "waiting" <=> (state[t] = "waiting" /\ t \notin Range(w))
    BY <1>a, <2>1 DEF AllTask
  <2>5. \A t \in Range(v) : st[t] # "waiting"
    BY <1>a, <2>2, <2>4 DEF Waiting
  <2>6. Dispatch(v, st, {}, 0) /\ blocked' = blocked \ Range(w)
    BY <1>4 DEF Exit
  <2> HIDE DEF v, st
  <2>7. \A t \in Task : state'[t] = "waiting" <=> st[t] = "waiting"
    BY <2>2, <2>3, <2>5, <2>6, DispatchWaiting
  <2> QED  BY <1>a, <2>2, <2>4, <2>6, <2>7 DEF Parked, Waiting
<1>5. ASSUME NEW t \in Task, Start(t) \/ Reap(t)
      PROVE  Parked' = Parked
  BY <1>5, <1>a DEF Start, Reap, Parked, Waiting, AllTask
<1> QED  BY <1>1, <1>2, <1>3, <1>4, <1>5 DEF TaskStep

-----------------------------------------------------------------------------
(* A mutex without an owner is not locked and nobody waits for it; nobody   *)
(* waits at a semaphore with a positive count.                              *)
LockShape ==
  \A m \in Mutex :
    /\ owner[m] = NoTask <=> depth[m] = 0
    /\ owner[m] = NoTask => lockq[m] = <<>>
SemShape == \A s \in Sem : count[s] > 0 => semq[s] = <<>>

IpcInv ==
  /\ IInv
  /\ IpcTypeOK
  /\ Partitioned(Queues, Parked)
  /\ LockShape
  /\ SemShape

(* Nobody waits and no lock is held at first.                               *)
LEMMA IpcInitInv == IpcInit => IpcInv
<1> SUFFICES ASSUME IpcInit PROVE IpcInv
  OBVIOUS
<1> USE NoTaskAssumption, BoundAssumption DEF IpcInit
<1>1. IInv
  BY InitInv
<1>2. IpcTypeOK
  BY DEF IpcTypeOK
<1>3. LockShape /\ SemShape
  BY DEF LockShape, SemShape
<1>4. Queues = [q \in Primitive |-> <<>>]
  BY DEF Queues, Primitive
<1>5. Parked = {}
  BY DEF Init, Parked
<1>6. Partitioned(Queues, Parked)
  <2>1. <<>> \in Seq(Task) /\ IsInjective(<<>>) /\ Range(<<>>) = {}
    BY DEF IsInjective, Range
  <2>2. \A q \in Primitive : Queues[q] = <<>>
    BY <1>4
  <2> QED  BY <1>4, <1>5, <2>1, <2>2 DEF Partitioned
<1> QED  BY <1>1, <1>2, <1>3, <1>6 DEF IpcInv

(* What each operation does to the wait lists, as a function.               *)
LEMMA QueuesChange ==
  ASSUME IpcTypeOK
  PROVE  /\ Queues \in [Primitive -> Seq(Task)]
         /\ UNCHANGED <<lockq, semq>> => Queues' = Queues
         /\ \A m \in Mutex : \A e : semq' = semq /\ lockq' = [lockq EXCEPT ![m] = e] =>
              Queues[m] = lockq[m] /\ Queues' = [Queues EXCEPT ![m] = e]
         /\ \A s \in Sem : \A e : lockq' = lockq /\ semq' = [semq EXCEPT ![s] = e] =>
              Queues[s] = semq[s] /\ Queues' = [Queues EXCEPT ![s] = e]
<1> USE NoTaskAssumption DEF IpcTypeOK, Queues, Primitive
<1>1. Queues \in [Primitive -> Seq(Task)]
  OBVIOUS
<1>2. UNCHANGED <<lockq, semq>> => Queues' = Queues
  OBVIOUS
<1>3. ASSUME NEW m \in Mutex, NEW e, UNCHANGED semq, lockq' = [lockq EXCEPT ![m] = e]
      PROVE  Queues[m] = lockq[m] /\ Queues' = [Queues EXCEPT ![m] = e]
  <2>1. \A q \in Primitive : Queues'[q] = IF q = m THEN e ELSE Queues[q]
    BY <1>3
  <2> QED  BY <1>3, <2>1
<1>4. ASSUME NEW s \in Sem, NEW e, UNCHANGED lockq, semq' = [semq EXCEPT ![s] = e]
      PROVE  Queues[s] = semq[s] /\ Queues' = [Queues EXCEPT ![s] = e]
  <2>1. \A q \in Primitive : Queues'[q] = IF q = s THEN e ELSE Queues[q]
    BY <1>4
  <2> QED  BY <1>4, <2>1
<1> QED  BY <1>1, <1>2, <1>3, <1>4

(* Every operation keeps the scheduler's invariant and each blocked task in *)
(* its one place.                                                           *)
LEMMA IpcPlaces ==
  ASSUME IpcInv, IpcNext
  PROVE  IInv' /\ Partitioned(Queues, Parked)'
<1>a. IInv /\ IpcTypeOK /\ Partitioned(Queues, Parked)
  BY DEF IpcInv
<1>1. CASE (Handler \/ TaskStep) /\ UNCHANGED <<mutexVars, semVars>>
  <2>1. Next
    BY <1>1 DEF Handler, TaskStep, Next
  <2>2. Parked' = Parked /\ Queues' = Queues
    BY <1>a, <1>1, HandlerParked, TaskStepParked, QueuesChange DEF mutexVars, semVars
  <2> QED  BY <1>a, <2>1, <2>2, NextInv
<1>2. CASE UNCHANGED <<schedVars, lockq, semq>>
  <2>1. Parked' = Parked /\ Queues' = Queues
    BY <1>a, <1>2, QueuesChange DEF schedVars, Parked, Waiting
  <2> QED  BY <1>a, <1>2, <2>1, NextInv
<1>3. ASSUME NEW q \in Primitive, Block, Queues' = [Queues EXCEPT ![q] = Enqueue(Queues[q], curr)]
      PROVE  IInv' /\ Partitioned(Queues, Parked)'
  <2>1. IInv'
    BY <1>a, <1>3, NextInv DEF Next
  <2>2. curr \in Task /\ curr \notin Parked /\ Parked' = Parked \cup {curr}
    BY <1>a, <1>3, BlockParked
  <2> QED  BY <1>a, <1>3, <2>1, <2>2, JoinPartitioned
<1>4. ASSUME NEW q \in Primitive, Queues[q] # <<>>, Wake(Head(Queues[q])),
             Queues' = [Queues EXCEPT ![q] = Tail(Queues[q])]
      PROVE  IInv' /\ Partitioned(Queues, Parked)'
  <2> DEFINE t == Head(Queues[q])
  <2>1. t \in Parked /\ Parked' = Parked \ {t}
    BY <1>a, <1>4, WakeParked
  <2>2. t \in Task
    BY <1>a, <2>1, ReadyNotWaiting DEF Parked
  <2>3. IInv'
    BY <1>a, <1>4, <2>2, NextInv DEF Next
  <2>4. Partitioned(Queues', Parked \ {t})
    BY <1>a, <1>4, ServePartitioned
  <2> QED  BY <2>1, <2>3, <2>4
<1>5. ASSUME NEW m \in Mutex, MutexLock(m) \/ MutexUnlock(m)
      PROVE  IInv' /\ Partitioned(Queues, Parked)'
  <2>1. CASE LockFree(m) \/ LockAgain(m) \/ UnlockInner(m) \/ UnlockFree(m)
    BY <1>2, <2>1 DEF LockFree, LockAgain, UnlockInner, UnlockFree, semVars
  <2>2. CASE LockBusy(m)
    <3>1. Block /\ semq' = semq /\ lockq' = [lockq EXCEPT ![m] = Enqueue(lockq[m], curr)]
      BY <2>2 DEF LockBusy, semVars
    <3>2. m \in Primitive /\ Queues[m] = lockq[m]
          /\ Queues' = [Queues EXCEPT ![m] = Enqueue(lockq[m], curr)]
      BY <1>a, <3>1, QueuesChange DEF Primitive
    <3> QED  BY <1>3, <3>1, <3>2
  <2>3. CASE HandOver(m)
    <3>1. /\ lockq[m] # <<>> /\ Wake(Head(lockq[m]))
          /\ semq' = semq /\ lockq' = [lockq EXCEPT ![m] = Tail(lockq[m])]
      BY <2>3 DEF HandOver, semVars
    <3>2. m \in Primitive /\ Queues[m] = lockq[m]
          /\ Queues' = [Queues EXCEPT ![m] = Tail(lockq[m])]
      BY <1>a, <3>1, QueuesChange DEF Primitive
    <3> QED  BY <1>4, <3>1, <3>2
  <2> QED  BY <1>5, <2>1, <2>2, <2>3 DEF MutexLock, MutexUnlock
<1>6. ASSUME NEW s \in Sem, SemWait(s) \/ SemNotify(s)
      PROVE  IInv' /\ Partitioned(Queues, Parked)'
  <2>1. CASE SemPass(s) \/ SemRaise(s)
    BY <1>2, <2>1 DEF SemPass, SemRaise, mutexVars
  <2>2. CASE SemBlock(s)
    <3>1. Block /\ lockq' = lockq /\ semq' = [semq EXCEPT ![s] = Enqueue(semq[s], curr)]
      BY <2>2 DEF SemBlock, mutexVars
    <3>2. s \in Primitive /\ Queues[s] = semq[s]
          /\ Queues' = [Queues EXCEPT ![s] = Enqueue(semq[s], curr)]
      BY <1>a, <3>1, QueuesChange DEF Primitive
    <3> QED  BY <1>3, <3>1, <3>2
  <2>3. CASE SemWake(s)
    <3>1. /\ semq[s] # <<>> /\ Wake(Head(semq[s]))
          /\ lockq' = lockq /\ semq' = [semq EXCEPT ![s] = Tail(semq[s])]
      BY <2>3 DEF SemWake, mutexVars
    <3>2. s \in Primitive /\ Queues[s] = semq[s]
          /\ Queues' = [Queues EXCEPT ![s] = Tail(semq[s])]
      BY <1>a, <3>1, QueuesChange DEF Primitive
    <3> QED  BY <1>4, <3>1, <3>2
  <2> QED  BY <1>6, <2>1, <2>2, <2>3 DEF SemWait, SemNotify
<1> QED  BY <1>1, <1>5, <1>6 DEF IpcNext

(* What each operation does to one mutex: the five variables of the locks,  *)
(* with the facts the invariant gives of the running task.                  *)
LEMMA MutexTypes ==
  ASSUME IpcInv, NEW m \in Mutex, MutexLock(m) \/ MutexUnlock(m)
  PROVE  IpcTypeOK' /\ LockShape' /\ SemShape'
<1>a. /\ owner \in [Mutex -> Task \cup {NoTask}] /\ depth \in [Mutex -> 0 .. MaxDepth]
      /\ lockq \in [Mutex -> Seq(Task)] /\ count \in [Sem -> 0 .. MaxCount]
      /\ semq \in [Sem -> Seq(Task)] /\ MaxDepth \in Nat \ {0}
  BY BoundAssumption DEF IpcInv, IpcTypeOK
<1>b. count' = count /\ semq' = semq
  BY DEF MutexLock, MutexUnlock, LockFree, LockAgain, LockBusy, UnlockInner, UnlockFree,
         HandOver, semVars
<1>c. SemShape'
  BY <1>b DEF IpcInv, SemShape
<1>d. /\ owner[m] = NoTask <=> depth[m] = 0
      /\ owner[m] = NoTask => lockq[m] = <<>>
  BY DEF IpcInv, LockShape
<1>e. ASSUME NEW o \in Task \cup {NoTask}, NEW d \in 0 .. MaxDepth, NEW q \in Seq(Task),
             owner' = [owner EXCEPT ![m] = o], depth' = [depth EXCEPT ![m] = d],
             lockq' = [lockq EXCEPT ![m] = q],
             o = NoTask <=> d = 0, o = NoTask => q = <<>>
      PROVE  IpcTypeOK' /\ LockShape'
  <2>1. IpcTypeOK'
    BY <1>a, <1>b, <1>e DEF IpcTypeOK
  <2>2. ASSUME NEW r \in Mutex
        PROVE  (owner'[r] = NoTask <=> depth'[r] = 0) /\ (owner'[r] = NoTask => lockq'[r] = <<>>)
    <3>1. CASE r = m
      BY <1>a, <1>e, <3>1
    <3>2. CASE r # m
      BY <1>a, <1>e, <3>2 DEF IpcInv, LockShape
    <3> QED  BY <3>1, <3>2
  <2> QED  BY <2>1, <2>2 DEF LockShape
<1>1. CASE LockFree(m)
  <2>1. /\ curr \in Task /\ curr # NoTask /\ 1 \in 0 .. MaxDepth
        /\ lockq' = [lockq EXCEPT ![m] = lockq[m]] /\ lockq[m] \in Seq(Task)
    BY <1>1, <1>a, NoTaskAssumption DEF LockFree, InTask
  <2>2. owner' = [owner EXCEPT ![m] = curr] /\ depth' = [depth EXCEPT ![m] = 1]
    BY <1>1 DEF LockFree
  <2>3. (curr = NoTask <=> 1 = 0) /\ (curr = NoTask => lockq[m] = <<>>)
    BY <2>1
  <2> QED  BY <1>c, <1>e, <2>1, <2>2, <2>3
<1>2. CASE LockAgain(m)
  <2>1. /\ owner[m] \in Task \cup {NoTask} /\ owner[m] # NoTask
        /\ depth[m] + 1 \in 0 .. MaxDepth /\ depth[m] + 1 # 0
        /\ owner' = [owner EXCEPT ![m] = owner[m]]
        /\ lockq' = [lockq EXCEPT ![m] = lockq[m]] /\ lockq[m] \in Seq(Task)
    BY <1>2, <1>a, NoTaskAssumption DEF LockAgain, InTask
  <2> QED  BY <1>2, <1>c, <1>e, <2>1 DEF LockAgain
<1>3. CASE LockBusy(m)
  <2>1. curr \in Task /\ lockq' = [lockq EXCEPT ![m] = Enqueue(lockq[m], curr)]
        /\ owner' = [owner EXCEPT ![m] = owner[m]] /\ depth' = [depth EXCEPT ![m] = depth[m]]
    BY <1>3, <1>a DEF LockBusy, Block, InTask
  <2>2. /\ Enqueue(lockq[m], curr) \in Seq(Task)
        /\ owner[m] \in Task \cup {NoTask} /\ depth[m] \in 0 .. MaxDepth
    BY <1>a, <2>1 DEF Enqueue
  <2>3. depth[m] # 0
    BY <1>3, <1>a DEF LockBusy
  <2> QED  BY <1>c, <1>d, <1>e, <2>1, <2>2, <2>3
<1>4. CASE UnlockInner(m)
  <2>1. /\ owner[m] \in Task \cup {NoTask} /\ owner[m] # NoTask
        /\ depth[m] - 1 \in 0 .. MaxDepth /\ depth[m] - 1 # 0
        /\ owner' = [owner EXCEPT ![m] = owner[m]]
        /\ lockq' = [lockq EXCEPT ![m] = lockq[m]] /\ lockq[m] \in Seq(Task)
    BY <1>4, <1>a, NoTaskAssumption DEF UnlockInner, InTask
  <2> QED  BY <1>4, <1>c, <1>e, <2>1 DEF UnlockInner
<1>5. CASE UnlockFree(m)
  <2>1. /\ lockq' = [lockq EXCEPT ![m] = lockq[m]] /\ lockq[m] \in Seq(Task)
        /\ lockq[m] = <<>> /\ 0 \in 0 .. MaxDepth
    BY <1>5, <1>a DEF UnlockFree
  <2> QED  BY <1>5, <1>c, <1>e, <2>1 DEF UnlockFree
<1>6. CASE HandOver(m)
  <2>1. /\ lockq[m] \in Seq(Task) /\ lockq[m] # <<>>
        /\ owner' = [owner EXCEPT ![m] = Head(lockq[m])]
        /\ lockq' = [lockq EXCEPT ![m] = Tail(lockq[m])]
        /\ depth' = [depth EXCEPT ![m] = depth[m]]
    BY <1>6, <1>a DEF HandOver
  <2>2. Head(lockq[m]) \in Task /\ Tail(lockq[m]) \in Seq(Task)
    BY <2>1
  <2>3. depth[m] # 0 /\ depth[m] \in 0 .. MaxDepth /\ Head(lockq[m]) # NoTask
    BY <1>6, <1>a, <2>2, NoTaskAssumption DEF HandOver
  <2> QED  BY <1>c, <1>e, <2>1, <2>2, <2>3
<1> QED  BY <1>1, <1>2, <1>3, <1>4, <1>5, <1>6 DEF MutexLock, MutexUnlock

(* The same for one semaphore.                                              *)
LEMMA SemTypes ==
  ASSUME IpcInv, NEW s \in Sem, SemWait(s) \/ SemNotify(s)
  PROVE  IpcTypeOK' /\ LockShape' /\ SemShape'
<1>a. /\ owner \in [Mutex -> Task \cup {NoTask}] /\ depth \in [Mutex -> 0 .. MaxDepth]
      /\ lockq \in [Mutex -> Seq(Task)] /\ count \in [Sem -> 0 .. MaxCount]
      /\ semq \in [Sem -> Seq(Task)] /\ MaxCount \in Nat
  BY BoundAssumption DEF IpcInv, IpcTypeOK
<1>b. owner' = owner /\ depth' = depth /\ lockq' = lockq
  BY DEF SemWait, SemNotify, SemPass, SemBlock, SemWake, SemRaise, mutexVars
<1>c. LockShape'
  BY <1>b DEF IpcInv, LockShape
<1>d. count[s] > 0 => semq[s] = <<>>
  BY DEF IpcInv, SemShape
<1>e. ASSUME NEW c \in 0 .. MaxCount, NEW q \in Seq(Task),
             count' = [count EXCEPT ![s] = c], semq' = [semq EXCEPT ![s] = q],
             c > 0 => q = <<>>
      PROVE  IpcTypeOK' /\ SemShape'
  <2>1. IpcTypeOK'
    BY <1>a, <1>b, <1>e DEF IpcTypeOK
  <2>2. ASSUME NEW r \in Sem PROVE count'[r] > 0 => semq'[r] = <<>>
    <3>1. CASE r = s
      BY <1>a, <1>e, <3>1
    <3>2. CASE r # s
      BY <1>a, <1>e, <3>2 DEF IpcInv, SemShape
    <3> QED  BY <3>1, <3>2
  <2> QED  BY <2>1, <2>2 DEF SemShape
<1>1. CASE SemPass(s)
  <2>1. /\ count[s] - 1 \in 0 .. MaxCount /\ semq[s] = <<>> /\ semq[s] \in Seq(Task)
        /\ semq' = [semq EXCEPT ![s] = semq[s]]
    BY <1>1, <1>a, <1>d DEF SemPass
  <2> QED  BY <1>1, <1>c, <1>e, <2>1 DEF SemPass
<1>2. CASE SemBlock(s)
  <2>1. /\ curr \in Task /\ count[s] = 0 /\ 0 \in 0 .. MaxCount
        /\ semq' = [semq EXCEPT ![s] = Enqueue(semq[s], curr)]
        /\ count' = [count EXCEPT ![s] = 0]
    BY <1>2, <1>a DEF SemBlock, Block, InTask
  <2>2. Enqueue(semq[s], curr) \in Seq(Task) /\ ~ (0 > 0)
    BY <1>a, <2>1 DEF Enqueue
  <2> QED  BY <1>c, <1>e, <2>1, <2>2
<1>3. CASE SemWake(s)
  <2>1. /\ semq[s] \in Seq(Task) /\ semq[s] # <<>> /\ count[s] \in 0 .. MaxCount
        /\ semq' = [semq EXCEPT ![s] = Tail(semq[s])]
        /\ count' = [count EXCEPT ![s] = count[s]]
    BY <1>3, <1>a DEF SemWake
  <2>2. Tail(semq[s]) \in Seq(Task) /\ ~ (count[s] > 0)
    BY <1>d, <2>1
  <2> QED  BY <1>c, <1>e, <2>1, <2>2
<1>4. CASE SemRaise(s)
  <2>1. /\ count[s] + 1 \in 0 .. MaxCount /\ semq[s] = <<>> /\ semq[s] \in Seq(Task)
        /\ semq' = [semq EXCEPT ![s] = semq[s]]
    BY <1>4, <1>a DEF SemRaise
  <2> QED  BY <1>4, <1>c, <1>e, <2>1 DEF SemRaise
<1> QED  BY <1>1, <1>2, <1>3, <1>4 DEF SemWait, SemNotify

(* Every step keeps the invariant.                                          *)
LEMMA IpcNextInv == IpcInv /\ [IpcNext]_ipcVars => IpcInv'
<1> SUFFICES ASSUME IpcInv, [IpcNext]_ipcVars PROVE IpcInv'
  OBVIOUS
<1>1. CASE IpcNext
  <2>1. IInv' /\ Partitioned(Queues, Parked)'
    BY <1>1, IpcPlaces
  <2>2. CASE UNCHANGED <<mutexVars, semVars>>
    <3>1. IpcTypeOK' /\ LockShape' /\ SemShape'
      BY <2>2 DEF mutexVars, semVars, IpcInv, IpcTypeOK, LockShape, SemShape
    <3> QED  BY <2>1, <3>1 DEF IpcInv
  <2>3. IpcTypeOK' /\ LockShape' /\ SemShape' => IpcInv'
    BY <2>1 DEF IpcInv
  <2> QED  BY <1>1, <2>2, <2>3, MutexTypes, SemTypes DEF IpcNext
<1>2. CASE UNCHANGED ipcVars
  <2>1. UNCHANGED schedVars /\ UNCHANGED <<owner, depth, lockq, count, semq>>
    BY <1>2 DEF ipcVars, mutexVars, semVars
  <2>2. IInv'
    BY <2>1, NextInv DEF IpcInv
  <2>3. Parked' = Parked /\ Queues' = Queues
    BY <2>1, QueuesChange DEF IpcInv, schedVars, Parked, Waiting
  <2>4. IpcTypeOK' /\ LockShape' /\ SemShape'
    BY <2>1 DEF IpcInv, IpcTypeOK, LockShape, SemShape
  <2> QED  BY <2>2, <2>3, <2>4 DEF IpcInv
<1> QED  BY <1>1, <1>2

(* The inductive invariant in every behaviour.                              *)
LEMMA IpcSpecInv == IpcSpec => []IpcInv
  BY IpcInitInv, IpcNextInv, PTL DEF IpcSpec

(* The mutexes and semaphores keep their types in every behaviour.          *)
THEOREM IpcSpecTypeOK == IpcSpec => []IpcTypeOK
<1>1. IpcInv => IpcTypeOK
  BY DEF IpcInv
<1> QED  BY IpcSpecInv, <1>1, PTL

(* A task that mutex_lock, sem_wait or sys_wait blocked is in exactly one   *)
(* place where something will make it ready again, and nobody else is.      *)
THEOREM SpecBlockedIsQueued == IpcSpec => []BlockedIsQueued
<1>1. IpcInv => BlockedIsQueued
  <2> SUFFICES ASSUME IpcInv PROVE BlockedIsQueued
    OBVIOUS
  <2>1. Waiting \subseteq blocked
    BY ReadyNotWaiting DEF IpcInv
  <2>2. Partitioned(Queues, Parked)
    BY DEF IpcInv
  <2>3. \A q \in Primitive : Range(Queues[q]) \subseteq Parked
    BY <2>2 DEF Partitioned
  <2>4. Parked = UNION {Range(Queues[q]) : q \in Primitive}
    BY <2>2 DEF Partitioned
  <2>5. blocked = Waiting \cup Parked /\ Parked \cap Waiting = {}
    BY <2>1 DEF Parked
  <2>6. blocked = Waiting \cup UNION {Range(Queues[q]) : q \in Mutex \cup Sem}
    BY <2>4, <2>5 DEF Primitive
  <2>7. ASSUME NEW q \in Mutex \cup Sem
        PROVE  /\ IsInjective(Queues[q])
               /\ Range(Queues[q]) \cap Waiting = {}
               /\ \A r \in (Mutex \cup Sem) \ {q} : Range(Queues[q]) \cap Range(Queues[r]) = {}
    BY <2>2, <2>3, <2>5 DEF Partitioned, Primitive
  <2> QED  BY <2>6, <2>7 DEF BlockedIsQueued
<1> QED  BY IpcSpecInv, <1>1, PTL

-----------------------------------------------------------------------------
(* The line at a mutex: its owner and those who wait behind it.             *)
LineAt(m) == IF owner[m] = NoTask THEN <<>> ELSE <<owner[m]>> \o lockq[m]
Lines == [m \in Mutex |-> LineAt(m)]

(* The members of a line, leaving it at its front, and joining it at its    *)
(* end.                                                                     *)
LEMMA LineProperties ==
  ASSUME NEW S, NEW o \in S, NEW q \in Seq(S)
  PROVE  /\ Range(<<o>> \o q) = {o} \cup Range(q)
         /\ Tail(<<o>> \o q) = q /\ <<o>> \o q # <<>>
         /\ \A t \in S : <<o>> \o Append(q, t) = Append(<<o>> \o q, t)
<1> DEFINE c == <<o>> \o q
<1>1. /\ c \in Seq(S) /\ Len(c) = 1 + Len(q) /\ Len(q) \in Nat /\ c[1] = o
      /\ DOMAIN c = 1 .. 1 + Len(q) /\ DOMAIN q = 1 .. Len(q)
      /\ \A i \in 1 .. Len(q) : c[i + 1] = q[i]
  OBVIOUS
<1>2. \A t \in S : <<o>> \o Append(q, t) = Append(c, t)
  OBVIOUS
<1>3. Tail(c) = q /\ c # <<>>
  OBVIOUS
<1> HIDE DEF c
<1>4. Range(c) = {o} \cup Range(q)
  <2>1. ASSUME NEW i \in DOMAIN c PROVE c[i] \in {o} \cup Range(q)
    <3>1. CASE i = 1
      BY <1>1, <3>1
    <3>2. CASE i # 1
      <4>1. i - 1 \in 1 .. Len(q) /\ c[i] = q[i - 1]
        BY <1>1, <3>2
      <4> QED  BY <1>1, <4>1 DEF Range
    <3> QED  BY <3>1, <3>2
  <2>2. ASSUME NEW i \in DOMAIN q PROVE q[i] \in Range(c)
    <3>1. i + 1 \in DOMAIN c /\ c[i + 1] = q[i]
      BY <1>1
    <3> QED  BY <3>1 DEF Range
  <2>3. o \in Range(c)
    BY <1>1 DEF Range
  <2> QED  BY <2>1, <2>2, <2>3 DEF Range
<1> QED  BY <1>2, <1>3, <1>4 DEF c

(* The actions of the abstract lock, in terms of Lines.                     *)
LEMMA LockActions ==
  /\ QLock!LockInit <=> Lines = [m \in Mutex |-> <<>>]
  /\ \A t, m : QLock!Enter(t, m) <=>
       t \notin Range(Lines[m]) /\ Lines' = [Lines EXCEPT ![m] = Append(Lines[m], t)]
  /\ \A m : QLock!Leave(m) <=>
       Lines[m] # <<>> /\ Lines' = [Lines EXCEPT ![m] = Tail(Lines[m])]
<1>1. QLock!LockInit <=> Lines = [m \in Mutex |-> <<>>]
  BY DEF QLock!LockInit, Lines, LineAt
<1>2. ASSUME NEW t, NEW m
      PROVE  QLock!Enter(t, m) <=>
               t \notin Range(Lines[m]) /\ Lines' = [Lines EXCEPT ![m] = Append(Lines[m], t)]
  BY Zenon DEF QLock!Enter, QLock!Range, Range, Lines, LineAt
<1>3. ASSUME NEW m
      PROVE  QLock!Leave(m) <=>
               Lines[m] # <<>> /\ Lines' = [Lines EXCEPT ![m] = Tail(Lines[m])]
  BY Zenon DEF QLock!Leave, Lines, LineAt
<1> QED  BY <1>1, <1>2, <1>3

(* A step of a mutex is a step of the abstract lock, or leaves its line.    *)
LEMMA LineStep ==
  ASSUME IpcInv, NEW m \in Mutex, MutexLock(m) \/ MutexUnlock(m)
  PROVE  QLock!LockNext \/ Lines' = Lines
<1>a. /\ owner \in [Mutex -> Task \cup {NoTask}] /\ lockq \in [Mutex -> Seq(Task)]
      /\ owner[m] = NoTask <=> depth[m] = 0
      /\ owner[m] = NoTask => lockq[m] = <<>>
  BY DEF IpcInv, IpcTypeOK, LockShape
<1>b. Lines[m] = LineAt(m)
  BY DEF Lines
<1>c. ASSUME NEW o, NEW q, owner' = [owner EXCEPT ![m] = o], lockq' = [lockq EXCEPT ![m] = q]
      PROVE  Lines' = [Lines EXCEPT ![m] = IF o = NoTask THEN <<>> ELSE <<o>> \o q]
  BY <1>a, <1>c DEF Lines, LineAt
<1>d. ASSUME NEW t \in Task, t \notin Range(LineAt(m)), Lines' = [Lines EXCEPT ![m] = Append(LineAt(m), t)]
      PROVE  QLock!LockNext
  BY <1>b, <1>d, LockActions DEF QLock!LockNext
<1>e. ASSUME LineAt(m) # <<>>, Lines' = [Lines EXCEPT ![m] = Tail(LineAt(m))]
      PROVE  QLock!LockNext
  BY <1>b, <1>e, LockActions DEF QLock!LockNext
<1>1. CASE LockFree(m)
  <2>1. curr \in Task /\ curr # NoTask /\ owner' = [owner EXCEPT ![m] = curr]
        /\ lockq' = [lockq EXCEPT ![m] = lockq[m]]
    BY <1>1, <1>a, NoTaskAssumption DEF LockFree, InTask
  <2>2. owner[m] = NoTask /\ lockq[m] = <<>> /\ LineAt(m) = <<>>
    BY <1>1, <1>a DEF LockFree, LineAt
  <2>3. Lines' = [Lines EXCEPT ![m] = <<curr>> \o lockq[m]]
    BY <1>c, <2>1
  <2>4. <<curr>> \o lockq[m] = Append(LineAt(m), curr)
    BY <2>1, <2>2
  <2>5. curr \notin Range(LineAt(m))
    BY <2>2 DEF Range
  <2> QED  BY <1>d, <2>1, <2>3, <2>4, <2>5
<1>2. CASE LockAgain(m) \/ UnlockInner(m)
  BY <1>2 DEF LockAgain, UnlockInner, Lines, LineAt
<1>3. CASE LockBusy(m)
  <2>1. /\ curr \in Task /\ owner[m] \in Task /\ owner[m] # NoTask /\ owner[m] # curr
        /\ owner' = [owner EXCEPT ![m] = owner[m]]
        /\ lockq' = [lockq EXCEPT ![m] = Append(lockq[m], curr)]
        /\ lockq[m] \in Seq(Task)
    BY <1>3, <1>a DEF LockBusy, Block, InTask, Enqueue
  <2>2. Lines' = [Lines EXCEPT ![m] = <<owner[m]>> \o Append(lockq[m], curr)]
    BY <1>c, <2>1
  <2>3. LineAt(m) = <<owner[m]>> \o lockq[m]
    BY <2>1 DEF LineAt
  <2>4. /\ <<owner[m]>> \o Append(lockq[m], curr) = Append(<<owner[m]>> \o lockq[m], curr)
        /\ Range(<<owner[m]>> \o lockq[m]) = {owner[m]} \cup Range(lockq[m])
    <3> DEFINE o == owner[m]
               q == lockq[m]
    <3>1. o \in Task /\ q \in Seq(Task) /\ curr \in Task
      BY <2>1
    <3> HIDE DEF o, q
    <3>2. <<o>> \o Append(q, curr) = Append(<<o>> \o q, curr)
      BY <3>1, LineProperties
    <3>3. Range(<<o>> \o q) = {o} \cup Range(q)
      BY <3>1, LineProperties
    <3> QED  BY <3>2, <3>3 DEF o, q
  <2>5. curr \notin Range(lockq[m])
    <3>1. curr \notin Parked
      BY <1>3, BlockParked DEF LockBusy, IpcInv
    <3>2. m \in Primitive /\ Queues[m] = lockq[m]
      BY DEF Primitive, Queues
    <3> QED  BY <3>1, <3>2 DEF IpcInv, Partitioned
  <2> QED  BY <1>d, <2>1, <2>2, <2>3, <2>4, <2>5
<1>4. CASE UnlockFree(m)
  <2>1. /\ owner[m] \in Task /\ owner[m] # NoTask /\ lockq[m] = <<>>
        /\ owner' = [owner EXCEPT ![m] = NoTask]
        /\ lockq' = [lockq EXCEPT ![m] = lockq[m]]
    BY <1>4, <1>a, NoTaskAssumption DEF UnlockFree, InTask
  <2>2. Lines' = [Lines EXCEPT ![m] = <<>>]
    BY <1>c, <2>1
  <2>3. LineAt(m) = <<owner[m]>> \o <<>>
    BY <2>1 DEF LineAt
  <2>4. LineAt(m) # <<>> /\ Tail(LineAt(m)) = <<>>
    BY <2>1, <2>3
  <2> QED  BY <1>e, <2>2, <2>4
<1>5. CASE HandOver(m)
  <2>1. /\ owner[m] \in Task /\ owner[m] # NoTask
        /\ lockq[m] \in Seq(Task) /\ lockq[m] # <<>>
        /\ owner' = [owner EXCEPT ![m] = Head(lockq[m])]
        /\ lockq' = [lockq EXCEPT ![m] = Tail(lockq[m])]
    BY <1>5, <1>a, NoTaskAssumption DEF HandOver, InTask
  <2>2. Head(lockq[m]) \in Task /\ Head(lockq[m]) # NoTask
    BY <2>1, NoTaskAssumption
  <2>3. Lines' = [Lines EXCEPT ![m] = <<Head(lockq[m])>> \o Tail(lockq[m])]
    BY <1>c, <2>1, <2>2
  <2>4. LineAt(m) = <<owner[m]>> \o lockq[m]
    BY <2>1 DEF LineAt
  <2>5. /\ LineAt(m) # <<>> /\ Tail(LineAt(m)) = lockq[m]
        /\ <<Head(lockq[m])>> \o Tail(lockq[m]) = lockq[m]
    BY <2>1, <2>2, <2>4, LineProperties
  <2> QED  BY <1>e, <2>3, <2>5
<1> QED  BY <1>1, <1>2, <1>3, <1>4, <1>5 DEF MutexLock, MutexUnlock

(* Every mutex keeps the promise of QueueLock: the tasks that called        *)
(* mutex_lock own it one after the other, in the order they came, and none  *)
(* slips in between an unlock and the waiter it woke.                       *)
THEOREM SpecLocksAreQueues == IpcSpec => LocksAreQueues
<1>1. IpcInit => QLock!LockInit
  BY LockActions DEF IpcInit, Lines, LineAt
<1>2. IpcInv /\ [IpcNext]_ipcVars => QLock!LockNext \/ Lines' = Lines
  <2> SUFFICES ASSUME IpcInv, [IpcNext]_ipcVars PROVE QLock!LockNext \/ Lines' = Lines
    OBVIOUS
  <2>1. CASE UNCHANGED <<owner, lockq>>
    BY <2>1 DEF Lines, LineAt
  <2>2. ASSUME NEW s \in Sem, SemWait(s) \/ SemNotify(s)
        PROVE  UNCHANGED <<owner, lockq>>
    BY <2>2 DEF SemWait, SemNotify, SemPass, SemBlock, SemWake, SemRaise, mutexVars
  <2> QED  BY <2>1, <2>2, LineStep DEF IpcNext, ipcVars, mutexVars
<1>3. IpcInv /\ [IpcNext]_ipcVars => [QLock!LockNext]_Lines
  BY <1>2
<1>4. [QLock!LockNext]_Lines => [QLock!LockNext]_([m \in Mutex |-> IF owner[m] = NoTask THEN <<>> ELSE <<owner[m]>> \o lockq[m]])
  BY Zenon DEF Lines, LineAt
<1> QED  BY IpcSpecInv, <1>1, <1>3, <1>4, PTL DEF IpcSpec, LocksAreQueues, QLock!LockSpec

-----------------------------------------------------------------------------
(* The credit of a semaphore: its count less the tasks that wait.           *)
Credits == [s \in Sem |-> count[s] - Len(semq[s])]

(* The actions of the abstract semaphore, in terms of Credits.              *)
LEMMA CreditActions ==
  /\ Credit!CreditInit <=> Credits = InitCount /\ semq = [s \in Sem |-> <<>>]
  /\ \A t, s : Credit!Wait(t, s) <=>
       /\ t \notin Range(semq[s])
       /\ Credits' = [Credits EXCEPT ![s] = Credits[s] - 1]
       /\ semq' = [semq EXCEPT ![s] = IF Credits[s] > 0 THEN semq[s] ELSE Append(semq[s], t)]
  /\ \A s : Credit!Notify(s) <=>
       /\ Credits' = [Credits EXCEPT ![s] = Credits[s] + 1]
       /\ semq' = [semq EXCEPT ![s] = IF Credits[s] < 0 THEN Tail(semq[s]) ELSE semq[s]]
<1>1. Credit!CreditInit <=> Credits = InitCount /\ semq = [s \in Sem |-> <<>>]
  BY DEF Credit!CreditInit, Credits
<1>2. ASSUME NEW t, NEW s
      PROVE  Credit!Wait(t, s) <=>
               /\ t \notin Range(semq[s])
               /\ Credits' = [Credits EXCEPT ![s] = Credits[s] - 1]
               /\ semq' = [semq EXCEPT ![s] = IF Credits[s] > 0 THEN semq[s] ELSE Append(semq[s], t)]
  BY Zenon DEF Credit!Wait, Credit!Range, Range, Credits
<1>3. ASSUME NEW s
      PROVE  Credit!Notify(s) <=>
               /\ Credits' = [Credits EXCEPT ![s] = Credits[s] + 1]
               /\ semq' = [semq EXCEPT ![s] = IF Credits[s] < 0 THEN Tail(semq[s]) ELSE semq[s]]
  BY Zenon DEF Credit!Notify, Credits
<1> QED  BY <1>1, <1>2, <1>3

(* Every operation of a semaphore is one of the abstract semaphore.         *)
LEMMA CreditStep ==
  ASSUME IpcInv, NEW s \in Sem, SemWait(s) \/ SemNotify(s)
  PROVE  Credit!CreditNext
<1>a. /\ count \in [Sem -> 0 .. MaxCount] /\ semq \in [Sem -> Seq(Task)] /\ MaxCount \in Nat
      /\ count[s] > 0 => semq[s] = <<>>
  BY BoundAssumption DEF IpcInv, IpcTypeOK, SemShape
<1>b. /\ Credits[s] = count[s] - Len(semq[s])
      /\ count[s] \in Nat /\ semq[s] \in Seq(Task) /\ Len(semq[s]) \in Nat
  BY <1>a DEF Credits
<1>c. ASSUME NEW c \in 0 .. MaxCount + 1, NEW q \in Seq(Task),
             count' = [count EXCEPT ![s] = c], semq' = [semq EXCEPT ![s] = q]
      PROVE  Credits' = [Credits EXCEPT ![s] = c - Len(q)]
  BY <1>a, <1>c DEF Credits
<1>d. ASSUME InTask PROVE curr \in Task /\ curr \notin Range(semq[s])
  <2>1. curr \in Task /\ curr \notin blocked
    BY <1>d, InTaskProperties DEF IpcInv
  <2>2. s \in Primitive /\ Queues[s] = semq[s]
    BY NoTaskAssumption DEF Primitive, Queues
  <2>3. Range(semq[s]) \subseteq Parked
    BY <2>2 DEF IpcInv, Partitioned
  <2> QED  BY <2>1, <2>3 DEF Parked
<1>1. CASE SemPass(s)
  <2>1. /\ count[s] > 0 /\ count[s] - 1 \in 0 .. MaxCount + 1
        /\ semq[s] = <<>> /\ Len(semq[s]) = 0
        /\ count' = [count EXCEPT ![s] = count[s] - 1]
        /\ semq' = [semq EXCEPT ![s] = semq[s]]
    BY <1>1, <1>a, <1>b DEF SemPass
  <2>2. Credits' = [Credits EXCEPT ![s] = (count[s] - 1) - Len(semq[s])]
    BY <1>b, <1>c, <2>1
  <2>3. Credits[s] > 0 /\ (count[s] - 1) - Len(semq[s]) = Credits[s] - 1
    BY <1>b, <2>1
  <2>4. Credit!Wait(curr, s)
    BY <1>1, <1>d, <2>1, <2>2, <2>3, CreditActions DEF SemPass
  <2> QED  BY <1>1, <1>d, <2>4 DEF Credit!CreditNext, SemPass
<1>2. CASE SemBlock(s)
  <2>1. /\ InTask /\ count[s] = 0 /\ 0 \in 0 .. MaxCount + 1
        /\ count' = [count EXCEPT ![s] = 0]
        /\ semq' = [semq EXCEPT ![s] = Append(semq[s], curr)]
    BY <1>2, <1>a DEF SemBlock, Block, Enqueue
  <2>2. /\ Append(semq[s], curr) \in Seq(Task)
        /\ Len(Append(semq[s], curr)) = Len(semq[s]) + 1
    BY <1>b, <1>d, <2>1
  <2>3. Credits' = [Credits EXCEPT ![s] = 0 - Len(Append(semq[s], curr))]
    BY <1>c, <2>1, <2>2
  <2>4. ~ (Credits[s] > 0) /\ 0 - Len(Append(semq[s], curr)) = Credits[s] - 1
    BY <1>b, <2>1, <2>2
  <2>5. Credit!Wait(curr, s)
    BY <1>d, <2>1, <2>3, <2>4, CreditActions
  <2> QED  BY <1>d, <2>1, <2>5 DEF Credit!CreditNext
<1>3. CASE SemWake(s)
  <2>1. /\ semq[s] # <<>> /\ count[s] = 0 /\ 0 \in 0 .. MaxCount + 1
        /\ count' = [count EXCEPT ![s] = 0]
        /\ semq' = [semq EXCEPT ![s] = Tail(semq[s])]
    BY <1>3, <1>a, <1>b DEF SemWake
  <2>2. /\ Tail(semq[s]) \in Seq(Task) /\ Len(semq[s]) > 0
        /\ Len(Tail(semq[s])) = Len(semq[s]) - 1
    BY <1>b, <2>1
  <2>3. Credits' = [Credits EXCEPT ![s] = 0 - Len(Tail(semq[s]))]
    BY <1>c, <2>1, <2>2
  <2>4. Credits[s] < 0 /\ 0 - Len(Tail(semq[s])) = Credits[s] + 1
    BY <1>b, <2>1, <2>2
  <2>5. Credit!Notify(s)
    BY <2>1, <2>3, <2>4, CreditActions
  <2> QED  BY <2>5 DEF Credit!CreditNext
<1>4. CASE SemRaise(s)
  <2>1. /\ count[s] + 1 \in 0 .. MaxCount + 1
        /\ semq[s] = <<>> /\ Len(semq[s]) = 0
        /\ count' = [count EXCEPT ![s] = count[s] + 1]
        /\ semq' = [semq EXCEPT ![s] = semq[s]]
    BY <1>4, <1>a, <1>b DEF SemRaise
  <2>2. Credits' = [Credits EXCEPT ![s] = (count[s] + 1) - Len(semq[s])]
    BY <1>b, <1>c, <2>1
  <2>3. ~ (Credits[s] < 0) /\ (count[s] + 1) - Len(semq[s]) = Credits[s] + 1
    BY <1>b, <2>1
  <2>4. Credit!Notify(s)
    BY <2>1, <2>2, <2>3, CreditActions
  <2> QED  BY <2>4 DEF Credit!CreditNext
<1> QED  BY <1>1, <1>2, <1>3, <1>4 DEF SemWait, SemNotify

(* Every semaphore keeps the promise of CreditSem: each sem_notify is worth *)
(* one sem_wait, none is lost or counted twice, no task waits while the     *)
(* count is positive, and tasks pass in the order they came.                *)
THEOREM SpecSemsAreCredits == IpcSpec => SemsAreCredits
<1>1. IpcInit => Credit!CreditInit
  <2> SUFFICES ASSUME IpcInit PROVE Credit!CreditInit
    OBVIOUS
  <2>1. Credits = InitCount
    BY BoundAssumption DEF IpcInit, Credits
  <2> QED  BY <2>1, CreditActions DEF IpcInit
<1>2. IpcInv /\ [IpcNext]_ipcVars => [Credit!CreditNext]_<<Credits, semq>>
  <2> SUFFICES ASSUME IpcInv, [IpcNext]_ipcVars, ~ Credit!CreditNext
               PROVE  UNCHANGED <<Credits, semq>>
    OBVIOUS
  <2>1. CASE UNCHANGED <<count, semq>>
    BY <2>1 DEF Credits
  <2>2. ASSUME NEW m \in Mutex, MutexLock(m) \/ MutexUnlock(m)
        PROVE  UNCHANGED <<count, semq>>
    BY <2>2 DEF MutexLock, MutexUnlock, LockFree, LockAgain, LockBusy, UnlockInner, UnlockFree,
                HandOver, semVars
  <2> QED  BY <2>1, <2>2, CreditStep DEF IpcNext, ipcVars, semVars
<1>3. [Credit!CreditNext]_<<Credits, semq>> =>
        [Credit!CreditNext]_<<[s \in Sem |-> count[s] - Len(semq[s])], semq>>
  BY Zenon DEF Credits
<1> QED  BY IpcSpecInv, <1>1, <1>2, <1>3, PTL DEF IpcSpec, SemsAreCredits, Credit!CreditSpec

=============================================================================
