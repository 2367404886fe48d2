----------------------------- MODULE SchedClock -----------------------------
(***************************************************************************)
(* Sched with the history of every sleep: how many ticks were asked for,    *)
(* how many clock interrupts came since, and how many tick handlers were    *)
(* already frozen on the stacks of preempted tasks when the sleep began.    *)
(* Those frozen handlers count the new sleeper's ticks too, although their  *)
(* interrupts came before it went to sleep.                                 *)
(***************************************************************************)
EXTENDS Sched

VARIABLES
  asked,    \* ticks asked for by the last sys_sleep of each task
  elapsed,  \* clock interrupts since that call, while the task sleeps
  owed      \* Cardinality(tail) when that call was made

clockVars == <<asked, elapsed, owed>>
allVars == <<schedVars, clockVars>>

ClockInit ==
  /\ Init
  /\ asked = [t \in Task |-> 0]
  /\ elapsed = [t \in Task |-> 0]
  /\ owed = [t \in Task |-> 0]

(* do_handler_time: one more interrupt for every sleeper. *)
Interrupt ==
  /\ TickCount \/ TickExpire
  /\ elapsed' = [t \in Task |-> elapsed[t] + IF t \in Range(sleeping) THEN 1 ELSE 0]
  /\ UNCHANGED <<asked, owed>>

ClockSleep(n) ==
  /\ Sleep(n)
  /\ asked' = [asked EXCEPT ![curr] = n]
  /\ elapsed' = [elapsed EXCEPT ![curr] = 0]
  /\ owed' = [owed EXCEPT ![curr] = Cardinality(tail)]

(* The history of a sleep is forgotten with it. *)
ClockWake ==
  /\ ScanWake
  /\ asked' = [asked EXCEPT ![sleeping[cursor]] = 0]
  /\ elapsed' = [elapsed EXCEPT ![sleeping[cursor]] = 0]
  /\ owed' = [owed EXCEPT ![sleeping[cursor]] = 0]

ClockHandler ==
  \/ Interrupt
  \/ ClockWake
  \/ (ScanCount \/ ScanEnd) /\ UNCHANGED clockVars

ClockNext ==
  \/ ClockHandler
  \/ \E n \in 1 .. MaxSleep : ClockSleep(n)
  \/ /\ \/ Yield \/ Block \/ BlockWaiting
        \/ \E t \in Task : Wake(t) \/ Start(t) \/ Reap(t)
        \/ \E w \in ExitWakes : Exit(w)
     /\ UNCHANGED clockVars

ClockSpec == ClockInit /\ [][ClockNext]_allVars

(* As FairSpec of Sched. *)
FairClockSpec == ClockSpec /\ WF_allVars(ClockHandler)

-----------------------------------------------------------------------------
(* Scans that will still count a tick of the sleeper: one per frozen        *)
(* handler, and the running one when it has not passed its node.            *)
Outstanding(t) ==
  Cardinality(tail)
    + IF \E i \in DOMAIN sleeping : sleeping[i] = t /\ 0 < cursor /\ cursor <= i
        THEN 1 ELSE 0

(* Every clock interrupt decrements every sleeper exactly once, however     *)
(* long its scan was left on a stack, and the only ticks a sleeper is given *)
(* for nothing are those frozen when it went to sleep.                      *)
SleepAccounting ==
  \A t \in Range(sleeping) :
    sleepTicks[t] + elapsed[t] + owed[t] = asked[t] + Outstanding(t)

=============================================================================
