---------------------------- MODULE SchedProofs ----------------------------
(***************************************************************************)
(* Proofs about Sched, for every number of tasks, time slice and ring size. *)
(* The invariants of Sched are not inductive one by one: that a woken       *)
(* reader finds input needs that no other task reads, which needs that only *)
(* one user task is runnable, which needs that sys_exec's caller is blocked *)
(* and sys_exit wakes nobody but it.  IInv conjoins them.                   *)
(***************************************************************************)
EXTENDS Sched, TLAPS

----------------------------------------------------------------------------
(* Lemmas about the queues *)

\* No task is in the queue twice.
Inj(q) == \A i, j \in DOMAIN q : q[i] = q[j] => i = j

\* q is a queue of exactly the tasks in S, each once.
IsQueue(q, S) == q \in Seq(Task) /\ Inj(q) /\ Range(q) = S

\* task_add_to_queue puts a task that is not queued yet behind the others.
LEMMA AddToQueueLemma ==
    ASSUME NEW q, NEW S, IsQueue(q, S), NEW t \in Task, t \notin S
    PROVE  IsQueue(AddToQueue(q, t), S \cup {t}) /\ AddToQueue(q, t) # <<>>
<1> DEFINE r == Append(q, t)
<1>1. q \in Seq(Task) /\ r \in Seq(Task) /\ Len(r) = Len(q) + 1 /\ Len(q) \in Nat
  BY DEF IsQueue
<1>2. \A i \in 1 .. Len(q) : r[i] = q[i]
  BY <1>1
<1>3. r[Len(q) + 1] = t
  BY <1>1
<1>4. AddToQueue(q, t) = r
  BY DEF AddToQueue, IsQueue
<1>5. DOMAIN r = 1 .. Len(q) + 1 /\ DOMAIN q = 1 .. Len(q)
  BY <1>1
<1>6. Range(r) = S \cup {t}
  <2>1. Range(q) = S
    BY DEF IsQueue
  <2>2. ASSUME NEW x \in Range(r) PROVE x \in S \cup {t}
    <3>1. PICK i \in 1 .. Len(q) + 1 : r[i] = x
      BY <1>5 DEF Range
    <3>2. CASE i \in 1 .. Len(q)
      BY <3>1, <3>2, <1>2, <1>5, <2>1 DEF Range
    <3>3. CASE i = Len(q) + 1
      BY <3>1, <3>3, <1>3
    <3> QED BY <3>2, <3>3, <1>1
  <2>3. ASSUME NEW x \in S PROVE x \in Range(r)
    <3>1. PICK i \in 1 .. Len(q) : q[i] = x
      BY <1>5, <2>1 DEF Range
    <3>2. r[i] = x /\ i \in 1 .. Len(q) + 1
      BY <3>1, <1>1, <1>2
    <3> QED BY <3>2, <1>5 DEF Range
  <2>4. t \in Range(r)
    BY <1>1, <1>3, <1>5 DEF Range
  <2> QED BY <2>2, <2>3, <2>4
<1>7. Inj(r)
  <2> SUFFICES ASSUME NEW i \in 1 .. Len(q) + 1, NEW j \in 1 .. Len(q) + 1, r[i] = r[j]
               PROVE  i = j
    BY <1>5 DEF Inj
  <2>1. \A k \in 1 .. Len(q) : q[k] # t
    BY <1>5 DEF IsQueue, Range
  <2>2. \A k, l \in 1 .. Len(q) : q[k] = q[l] => k = l
    BY <1>5 DEF IsQueue, Inj
  <2> QED BY <1>1, <1>2, <1>3, <2>1, <2>2
<1>8. r # <<>>
  BY <1>1
<1> QED BY <1>1, <1>4, <1>6, <1>7, <1>8 DEF IsQueue

\* Taking the head leaves the other tasks queued, each once.
LEMMA TailLemma ==
    ASSUME NEW q, NEW S, IsQueue(q, S), q # <<>>
    PROVE  Head(q) \in S /\ IsQueue(Tail(q), S \ {Head(q)})
<1>1. q \in Seq(Task) /\ Len(q) \in Nat /\ Len(q) > 0 /\ Head(q) = q[1]
  BY DEF IsQueue
<1>2. Tail(q) \in Seq(Task) /\ Len(Tail(q)) = Len(q) - 1
      /\ \A i \in 1 .. Len(q) - 1 : Tail(q)[i] = q[i + 1]
  BY <1>1
<1>3. DOMAIN q = 1 .. Len(q) /\ DOMAIN Tail(q) = 1 .. Len(q) - 1
  BY <1>1, <1>2
<1>4. Range(q) = S /\ \A k, l \in 1 .. Len(q) : q[k] = q[l] => k = l
  BY <1>3 DEF IsQueue, Inj
<1>5. Head(q) \in S
  BY <1>1, <1>3, <1>4 DEF Range
<1>6. Inj(Tail(q))
  <2> SUFFICES ASSUME NEW i \in 1 .. Len(q) - 1, NEW j \in 1 .. Len(q) - 1,
                      Tail(q)[i] = Tail(q)[j]
               PROVE  i = j
    BY <1>3 DEF Inj
  <2>1. q[i + 1] = q[j + 1]
    BY <1>2
  <2> QED BY <1>1, <1>4, <2>1
<1>7. Range(Tail(q)) = S \ {Head(q)}
  <2>1. ASSUME NEW x \in Range(Tail(q)) PROVE x \in S \ {Head(q)}
    <3>1. PICK i \in 1 .. Len(q) - 1 : Tail(q)[i] = x
      BY <1>3 DEF Range
    <3>2. q[i + 1] = x /\ i + 1 \in 1 .. Len(q) /\ i + 1 # 1
      BY <3>1, <1>1, <1>2
    <3> QED BY <3>2, <1>1, <1>3, <1>4 DEF Range
  <2>2. ASSUME NEW x \in S \ {Head(q)} PROVE x \in Range(Tail(q))
    <3>1. PICK i \in 1 .. Len(q) : q[i] = x
      BY <1>3, <1>4 DEF Range
    <3>2. i # 1 /\ i - 1 \in 1 .. Len(q) - 1
      BY <3>1, <1>1
    <3>3. Tail(q)[i - 1] = x
      BY <3>1, <3>2, <1>1, <1>2
    <3> QED BY <3>2, <3>3, <1>3 DEF Range
  <2> QED BY <2>1, <2>2
<1> QED BY <1>2, <1>5, <1>6, <1>7 DEF IsQueue

\* A queue of at most one task has length 0 or 1.
LEMMA ShortQueueLemma ==
    ASSUME NEW q, NEW S, IsQueue(q, S), \A s, t \in S : s = t
    PROVE  Len(q) \in {0, 1}
<1>1. q \in Seq(Task) /\ Len(q) \in Nat /\ DOMAIN q = 1 .. Len(q)
  BY DEF IsQueue
<1>2. ASSUME Len(q) > 1 PROVE FALSE
  <2>1. 1 \in DOMAIN q /\ 2 \in DOMAIN q
    BY <1>1, <1>2
  <2>2. q[1] \in S /\ q[2] \in S
    BY <2>1 DEF IsQueue, Range
  <2> QED BY <2>1, <2>2 DEF IsQueue, Inj
<1> QED BY <1>1, <1>2

\* task_wakeup appends the waiters to the ready queue.  Only one task can wait
\* (OneForeground), so the loop runs at most once.
LEMMA WokenLemma ==
    ASSUME NEW rd, NEW R, NEW wq, NEW W, IsQueue(rd, R), IsQueue(wq, W),
           R \cap W = {}, \A s, t \in W : s = t
    PROVE  IsQueue(Woken(rd, wq), R \cup W)
<1> DEFINE body(f, n) == IF n = 0 THEN rd ELSE AddToQueue(f[n - 1], wq[n])
           moved == CHOOSE f : f = [n \in 0 .. Len(wq) |-> body(f, n)]
           g == [n \in 0 .. Len(wq) |-> IF n = 0 THEN rd ELSE AddToQueue(rd, wq[n])]
<1>1. Len(wq) \in {0, 1}
  BY ShortQueueLemma
<1>2. g = [n \in 0 .. Len(wq) |-> body(g, n)]
  <2>1. \A n \in 0 .. Len(wq) : g[n] = body(g, n)
    BY <1>1
  <2> QED BY <2>1
<1>3. moved = [n \in 0 .. Len(wq) |-> body(moved, n)]
  BY <1>2
<1>4. Woken(rd, wq) = moved[Len(wq)]
  BY DEF Woken
<1> HIDE DEF moved
<1>5. moved[0] = rd
  BY <1>1, <1>3
<1>6. CASE Len(wq) = 0
  <2>1. W = {}
    BY <1>6 DEF IsQueue, Range
  <2> QED BY <1>4, <1>5, <1>6, <2>1
<1>7. CASE Len(wq) = 1
  <2>1. DOMAIN wq = {1}
    BY <1>7 DEF IsQueue
  <2>2. W = {wq[1]} /\ wq[1] \in Task
    BY <2>1, <1>7 DEF IsQueue, Range
  <2>3. moved[1] = AddToQueue(rd, wq[1])
    BY <1>3, <1>5, <1>7
  <2>4. wq[1] \notin R
    BY <2>2
  <2> QED BY <1>4, <1>7, <2>2, <2>3, <2>4, AddToQueueLemma
<1> QED BY <1>1, <1>6, <1>7

\* The invariant on the queues, in the form the lemmas use.
LEMMA QueuesLemma ==
    ASSUME IInv
    PROVE  /\ IsQueue(ready, {t \in Task : state[t] = "READY"})
           /\ IsQueue(waitq, {t \in Task : state[t] = "WAIT"})
           /\ current \in Task
           /\ \A t \in Task : state[t] = "RUNNING" <=> t = current
BY DEF IInv, TypeOK, QueuesMatchStates, Holds, IsQueue, Inj

\* If a user task has the CPU, the ready queue is not empty.
LEMMA ReadyLemma ==
    ASSUME IInv, current # Idle
    PROVE  ready # <<>> /\ state[Idle] = "READY"
<1>1. Idle \in Task /\ state[Idle] = "READY"
  BY QueuesLemma DEF IInv, IdleCanRun, Task
<1>2. Idle \in Range(ready)
  BY <1>1, QueuesLemma DEF IsQueue
<1>3. ready # <<>>
  BY <1>2 DEF Range
<1> QED BY <1>1, <1>3

\* What the callers of schedule() establish: st and rd agree, the current task
\* is not ready, nobody else runs, and there is somebody to switch to.
CanSwitch(st, rd) ==
    /\ current \in Task
    /\ st \in [Task -> TaskState]
    /\ IsQueue(rd, {t \in Task : st[t] = "READY"})
    /\ IsQueue(waitq, {t \in Task : st[t] = "WAIT" /\ t # current})
    /\ \A t \in Task : st[t] = "RUNNING" => t = current
    /\ st[current] # "READY"
    /\ rd # <<>>

\* What schedule() then does: the CPU goes to a ready task, the previous one is
\* queued if it was running or waits for the keyboard, all others stay.
Switched(st) ==
    /\ current' \in Task
    /\ current' # current
    /\ st[current'] = "READY"
    /\ state' \in [Task -> TaskState]
    /\ \A t \in Task : state'[t] = IF t = current' THEN "RUNNING"
                                   ELSE IF st[t] = "RUNNING" THEN "READY"
                                   ELSE st[t]
    /\ ready' \in Seq(Task) /\ waitq' \in Seq(Task)
    /\ QueuesMatchStates'

\* schedule(), called with consistent queues and a task ready, leaves them
\* consistent, and gives the CPU to a task that was ready.
LEMMA ScheduleLemma ==
    ASSUME NEW st, NEW rd, CanSwitch(st, rd), Schedule(st, rd)
    PROVE  Switched(st)
<1> DEFINE R == {t \in Task : st[t] = "READY"}
           W == {t \in Task : st[t] = "WAIT" /\ t # current}
           prev == current
           nxt == Head(rd)
<1>1. nxt \in R /\ IsQueue(Tail(rd), R \ {nxt})
  BY TailLemma DEF CanSwitch
<1>2. current' = nxt
      /\ ready' = (IF st[prev] = "RUNNING" THEN AddToQueue(Tail(rd), prev) ELSE Tail(rd))
      /\ waitq' = (IF st[prev] = "WAIT" THEN AddToQueue(waitq, prev) ELSE waitq)
      /\ state' = [st EXCEPT ![prev] = IF @ = "RUNNING" THEN "READY" ELSE @,
                             ![nxt]  = "RUNNING"]
  BY DEF Schedule, Switch, CanSwitch
<1>3. current' \in Task /\ current' # current /\ st[current'] = "READY"
  BY <1>1, <1>2 DEF CanSwitch
<1>4. state' \in [Task -> TaskState]
  BY <1>1, <1>2 DEF CanSwitch, TaskState
<1>5. \A t \in Task : state'[t] = IF t = current' THEN "RUNNING"
                                  ELSE IF st[t] = "RUNNING" THEN "READY"
                                  ELSE st[t]
  BY <1>2, <1>3 DEF CanSwitch
<1>6. IsQueue(ready', {t \in Task : state'[t] = "READY"})
  <2>1. CASE st[prev] = "RUNNING"
    <3>1. prev \notin R \ {nxt}
      BY <2>1
    <3>2. IsQueue(ready', (R \ {nxt}) \cup {prev})
      BY <1>1, <1>2, <2>1, <3>1, AddToQueueLemma DEF CanSwitch
    <3>3. (R \ {nxt}) \cup {prev} = {t \in Task : state'[t] = "READY"}
      BY <1>2, <1>3, <1>5, <2>1 DEF CanSwitch
    <3> QED BY <3>2, <3>3
  <2>2. CASE st[prev] # "RUNNING"
    <3>1. R \ {nxt} = {t \in Task : state'[t] = "READY"}
      BY <1>2, <1>3, <1>5, <2>2 DEF CanSwitch
    <3> QED BY <1>1, <1>2, <2>2, <3>1
  <2> QED BY <2>1, <2>2
<1>7. IsQueue(waitq', {t \in Task : state'[t] = "WAIT"})
  <2>1. CASE st[prev] = "WAIT"
    <3>1. IsQueue(waitq', W \cup {prev})
      BY <1>2, <2>1, AddToQueueLemma DEF CanSwitch
    <3>2. W \cup {prev} = {t \in Task : state'[t] = "WAIT"}
      BY <1>2, <1>3, <1>5, <2>1 DEF CanSwitch
    <3> QED BY <3>1, <3>2
  <2>2. CASE st[prev] # "WAIT"
    <3>1. W = {t \in Task : state'[t] = "WAIT"}
      BY <1>2, <1>3, <1>5, <2>2 DEF CanSwitch
    <3> QED BY <1>2, <2>2, <3>1 DEF CanSwitch
  <2> QED BY <2>1, <2>2
<1>8. \A t \in Task : state'[t] = "RUNNING" <=> t = current'
  BY <1>3, <1>5
<1>9. QueuesMatchStates'
  BY <1>6, <1>7, <1>8 DEF QueuesMatchStates, Holds, IsQueue, Inj
<1> QED BY <1>3, <1>4, <1>5, <1>6, <1>7, <1>9 DEF Switched, IsQueue

----------------------------------------------------------------------------
(* The invariant is inductive, and what each step does to the states *)

\* Outside S, states change only among those of a runnable task.
Quiet(S) ==
    \A t \in Task \ S : state'[t] = state[t] \/ (Runnable(t) /\ Runnable(t)')

\* Boot (task_init, and the shell if it was loaded) establishes the invariant.
LEMMA InitInv == Init => IInv
<1> SUFFICES ASSUME Init PROVE IInv
  OBVIOUS
<1> USE SchedAssumption DEF Init
<1>1. TypeOK
  <2>1. 1 \in Task /\ Idle \in Task
    BY DEF Task, User
  <2>2. ready \in Seq(Task) /\ waitq \in Seq(Task)
    BY <2>1
  <2>3. state \in [Task -> TaskState] /\ at \in [Task -> Place] /\ current \in Task
    BY <2>1 DEF TaskState, Place
  <2>4. parent \in [Task -> Task \cup {NULL}] /\ ticksLeft \in [Task -> 1 .. TimeSlice]
    OBVIOUS
  <2>5. nextPid \in 1 .. MaxTasks + 1 /\ avail \in 0 .. RingCap
    OBVIOUS
  <2>6. halted \in BOOLEAN
    OBVIOUS
  <2> QED BY <2>2, <2>3, <2>4, <2>5, <2>6 DEF TypeOK
<1>2. QueuesMatchStates
  BY DEF QueuesMatchStates, Holds, Range, Task, Idle, User
<1>3. IdleCanRun /\ OneForeground /\ NoLostWakeup
  BY DEF IdleCanRun, OneForeground, NoLostWakeup, Runnable, Task, Idle, User
<1>4. ForegroundChain /\ ExitWakesParent /\ Contexts
  BY DEF ForegroundChain, ExitWakesParent, Contexts, Runnable, Dead, Task, Idle, User, NULL
<1> QED BY <1>1, <1>2, <1>3, <1>4 DEF IInv

\* The timer interrupt only swaps RUNNING and READY.
LEMMA TickInv == IInv /\ Tick => IInv' /\ Quiet({}) /\ UNCHANGED nextPid
<1> SUFFICES ASSUME IInv, Tick PROVE IInv' /\ Quiet({}) /\ UNCHANGED nextPid
  OBVIOUS
<1> USE SchedAssumption
<1>1. UNCHANGED <<parent, at, nextPid, avail, halted>>
  BY DEF Tick, TickWith
<1>2. ticksLeft' \in [Task -> 1 .. TimeSlice]
  <2>1. current \in Task /\ ticksLeft \in [Task -> 1 .. TimeSlice]
    BY DEF IInv, TypeOK
  <2>2. CASE TimeUp
    BY <2>1, <2>2 DEF Tick, TickWith
  <2>3. CASE ~TimeUp
    <3>1. ticksLeft[current] - 1 \in 1 .. TimeSlice
      BY <2>1, <2>3 DEF TimeUp
    <3>2. ticksLeft' = [ticksLeft EXCEPT ![current] = ticksLeft[current] - 1]
      BY <2>3 DEF Tick, TickWith
    <3> QED BY <2>1, <3>1, <3>2
  <2> QED BY <2>2, <2>3
<1>3. CASE UNCHANGED <<current, state, ready, waitq>>
  BY <1>1, <1>2, <1>3 DEF IInv, TypeOK, QueuesMatchStates, Holds, IdleCanRun, OneForeground,
     NoLostWakeup, ForegroundChain, ExitWakesParent, Contexts, Runnable, Dead, Quiet
<1>4. CASE Schedule(state, ready) /\ ready # <<>>
  <2>1. CanSwitch(state, ready)
    <3>1. {t \in Task : state[t] = "WAIT" /\ t # current} = {t \in Task : state[t] = "WAIT"}
      BY QueuesLemma
    <3> QED BY <1>4, <3>1, QueuesLemma DEF CanSwitch, IInv, TypeOK
  <2>2. Switched(state)
    BY <1>4, <2>1, ScheduleLemma
  <2>3. TypeOK'
    BY <1>1, <1>2, <2>2 DEF Switched, IInv, TypeOK
  <2>4. InterruptsOn /\ state[current] = "RUNNING" /\ current \in Task
    BY QueuesLemma DEF Tick, TickWith
  <2>5. \A t \in Task : \/ state'[t] = state[t]
                        \/ state[t] \in {"RUNNING", "READY"} /\ state'[t] \in {"RUNNING", "READY"}
    BY <2>2 DEF Switched
  <2>6. at[current'] # "exit"
    BY <2>2 DEF Switched, IInv, Contexts
  <2>7. IdleCanRun'
    BY <1>1, <2>5, <2>6 DEF IInv, IdleCanRun, Task
  <2>8. OneForeground'
    BY <2>5 DEF IInv, OneForeground, Runnable, Task
  <2>9. NoLostWakeup'
    BY <1>1, <2>5 DEF IInv, NoLostWakeup
  <2>10. ForegroundChain'
    BY <1>1, <2>5 DEF IInv, ForegroundChain, Runnable, Dead, Task
  <2>11. ExitWakesParent'
    BY <1>1, <2>5 DEF IInv, ExitWakesParent, Task
  <2>12. Contexts'
    BY <1>1, <2>5 DEF IInv, Contexts, Task
  <2>13. Quiet({})
    BY <2>5 DEF Quiet, Runnable
  <2> QED BY <1>1, <2>2, <2>3, <2>7, <2>8, <2>9, <2>10, <2>11, <2>12, <2>13 DEF IInv, Switched
<1>5. CASE Schedule(state, ready) /\ ready = <<>>
  <2>1. state[current] # "WAIT"
    BY QueuesLemma
  <2>2. UNCHANGED <<current, state, ready, waitq>>
    BY <1>5, <2>1 DEF Schedule, Switch
  <2> QED BY <1>3, <2>2
<1> QED BY <1>3, <1>4, <1>5 DEF Tick, TickWith

\* The keyboard interrupt turns WAIT into READY, with input in the ring.
LEMMA KeyboardInv ==
    ASSUME IInv, NEW n \in 1 .. RingCap + 1, KeyboardWake(n)
    PROVE  IInv' /\ Quiet({}) /\ UNCHANGED nextPid
<1> USE SchedAssumption
<1> DEFINE W == {t \in Task : state[t] = "WAIT"}
<1>1. UNCHANGED <<current, parent, ticksLeft, at, nextPid, halted>>
  BY DEF KeyboardWake, Enqueued, Wakeup, MoveWaiters
<1>2. avail' \in 1 .. RingCap
  BY DEF KeyboardWake, Enqueued, IInv, TypeOK
<1>3. Range(waitq) = W
  BY QueuesLemma DEF IsQueue
<1>4. \A t \in Task : state'[t] = IF state[t] = "WAIT" THEN "READY" ELSE state[t]
  BY <1>3 DEF KeyboardWake, Wakeup, MoveWaiters
<1>5. state' \in [Task -> TaskState]
  BY DEF KeyboardWake, Wakeup, MoveWaiters, IInv, TypeOK, TaskState
<1>6. \A s, t \in W : s = t
  BY DEF IInv, NoLostWakeup, IdleCanRun, OneForeground, Runnable, Task
<1>7. IsQueue(ready', {t \in Task : state'[t] = "READY"})
  <2>1. IsQueue(ready', {t \in Task : state[t] = "READY"} \cup W)
    <3>1. {t \in Task : state[t] = "READY"} \cap W = {}
      OBVIOUS
    <3> QED BY <1>6, <3>1, QueuesLemma, WokenLemma DEF KeyboardWake, Wakeup, MoveWaiters
  <2>2. {t \in Task : state[t] = "READY"} \cup W = {t \in Task : state'[t] = "READY"}
    BY <1>4
  <2> QED BY <2>1, <2>2
<1>8. IsQueue(waitq', {t \in Task : state'[t] = "WAIT"})
  <2>1. waitq' = <<>>
    BY DEF KeyboardWake, Wakeup, MoveWaiters
  <2>2. {t \in Task : state'[t] = "WAIT"} = {}
    BY <1>4
  <2> QED BY <2>1, <2>2 DEF IsQueue, Inj, Range
<1>9. QueuesMatchStates'
  <2>1. \A t \in Task : state'[t] = "RUNNING" <=> t = current'
    BY <1>1, <1>4, QueuesLemma
  <2> QED BY <1>7, <1>8, <2>1 DEF QueuesMatchStates, Holds, IsQueue, Inj
<1>10. TypeOK'
  BY <1>1, <1>2, <1>5, <1>7, <1>8 DEF IInv, TypeOK, IsQueue
<1>11. IdleCanRun'
  BY <1>1, <1>4 DEF IInv, IdleCanRun, Task
<1>12. OneForeground'
  BY <1>4 DEF IInv, OneForeground, Runnable, Task
<1>13. NoLostWakeup'
  BY <1>2, <1>4 DEF NoLostWakeup
<1>14. ForegroundChain'
  BY <1>1, <1>4 DEF IInv, ForegroundChain, Runnable, Dead, Task
<1>15. ExitWakesParent'
  BY <1>1, <1>4 DEF IInv, ExitWakesParent, Task
<1>16. Contexts'
  BY <1>1, <1>4 DEF IInv, Contexts, Task
<1>17. Quiet({})
  BY <1>4 DEF Quiet, Runnable
<1> QED BY <1>1, <1>9, <1>10, <1>11, <1>12, <1>13, <1>14, <1>15, <1>16, <1>17 DEF IInv

\* sys_read takes bytes: no other task is inside sys_read.
LEMMA SysReadTakeInv ==
    ASSUME IInv, NEW k \in 0 .. RingCap, SysReadTake(k)
    PROVE  IInv' /\ Quiet({}) /\ UNCHANGED nextPid
<1> USE SchedAssumption
<1>1. UNCHANGED <<current, state, parent, ticksLeft, ready, waitq, nextPid, halted>>
      /\ avail > 0 /\ avail' = avail - k /\ k <= avail
      /\ at' = [at EXCEPT ![current] = "run"]
  BY DEF SysReadTake
<1>2. TypeOK'
  <2>1. avail' \in 0 .. RingCap
    BY <1>1 DEF IInv, TypeOK
  <2>2. at' \in [Task -> Place]
    BY <1>1 DEF IInv, TypeOK, Place
  <2> QED BY <1>1, <2>1, <2>2 DEF IInv, TypeOK
<1>3. QueuesMatchStates'
  BY <1>1 DEF IInv, QueuesMatchStates, Holds
<1>4. current \in User /\ state[current] = "RUNNING" /\ Idle \in Task
  BY QueuesLemma DEF SysReadTake, UserMode, InRead, IInv, IdleCanRun, Task
<1>5. IdleCanRun'
  BY <1>1, <1>4 DEF IInv, TypeOK, IdleCanRun
<1>6. \A t \in Task : t # current => at'[t] = at[t] /\ at[t] # "read" /\ state[t] # "WAIT"
  <2> SUFFICES ASSUME NEW t \in Task, t # current
               PROVE  at'[t] = at[t] /\ at[t] # "read" /\ state[t] # "WAIT"
    OBVIOUS
  <2>1. CASE t = Idle
    BY <1>1, <2>1 DEF IInv, TypeOK, IdleCanRun
  <2>2. CASE t \in User
    BY <1>1, <1>4, <2>2 DEF IInv, TypeOK, OneForeground, Runnable, Contexts
  <2> QED BY <2>1, <2>2 DEF Task
<1>7. at'[current] = "run"
  BY <1>1, <1>4 DEF IInv, TypeOK, Task
<1>8. NoLostWakeup'
  BY <1>1, <1>4, <1>6, <1>7 DEF NoLostWakeup
<1>9. OneForeground' /\ ForegroundChain'
  BY <1>1 DEF IInv, OneForeground, ForegroundChain, Runnable, Dead
<1>10. ExitWakesParent'
  BY <1>1, <1>4, <1>6 DEF IInv, ExitWakesParent, Task
<1>11. Contexts'
  BY <1>1, <1>4, <1>6, <1>7 DEF IInv, Contexts, Task
<1> QED BY <1>1, <1>2, <1>3, <1>5, <1>8, <1>9, <1>10, <1>11 DEF IInv, Quiet

\* ping() and the end of the machine move the current task's context only.
LEMMA StayInv ==
    IInv /\ (SysPing \/ PingReturn \/ Halt) => IInv' /\ Quiet({}) /\ UNCHANGED nextPid
<1> SUFFICES ASSUME IInv, SysPing \/ PingReturn \/ Halt
             PROVE  IInv' /\ Quiet({}) /\ UNCHANGED nextPid
  OBVIOUS
<1> USE SchedAssumption
<1>1. UNCHANGED <<current, state, parent, ticksLeft, ready, waitq, nextPid, avail>>
  BY DEF SysPing, PingReturn, Halt
<1>2. halted' \in BOOLEAN
  BY DEF SysPing, PingReturn, Halt, IInv, TypeOK
<1>3. current \in User /\ state[current] = "RUNNING" /\ Idle \in Task /\ current # Idle
      /\ at \in [Task -> Place]
  BY QueuesLemma DEF SysPing, PingReturn, Halt, UserMode, InRead, IInv, TypeOK, IdleCanRun,
     Task, User, Idle
<1>4. at' \in [Task -> Place] /\ \A t \in Task : t # current => at'[t] = at[t]
  BY <1>3 DEF SysPing, PingReturn, Halt, Place
<1>5. at'[current] = at[current] \/ (at[current] \in {"run", "ping"} /\ at'[current] \in {"run", "ping"})
  BY <1>3 DEF SysPing, PingReturn, Halt, UserMode, Task
<1>6. TypeOK'
  BY <1>1, <1>2, <1>4 DEF IInv, TypeOK
<1>7. QueuesMatchStates' /\ OneForeground' /\ ForegroundChain'
  BY <1>1 DEF IInv, QueuesMatchStates, Holds, OneForeground, ForegroundChain, Runnable, Dead
<1>8. IdleCanRun'
  BY <1>1, <1>3, <1>4, <1>5 DEF IInv, IdleCanRun
<1>9. NoLostWakeup'
  BY <1>1, <1>3, <1>4, <1>5 DEF IInv, NoLostWakeup
<1>10. ExitWakesParent'
  BY <1>1, <1>3, <1>4, <1>5 DEF IInv, ExitWakesParent, Task
<1>11. Contexts'
  BY <1>1, <1>3, <1>4, <1>5 DEF IInv, Contexts, Task
<1> QED BY <1>1, <1>6, <1>7, <1>8, <1>9, <1>10, <1>11 DEF IInv, Quiet

\* A user task that gives up the CPU in state s: the facts every such step uses.
LEMMA GiveUpLemma ==
    ASSUME IInv, UserMode, NEW s \in {"WAIT", "ZOMBIE"},
           Schedule([state EXCEPT ![current] = s], ready)
    PROVE  /\ Switched([state EXCEPT ![current] = s])
           /\ current \in User /\ current # Idle /\ state[current] = "RUNNING"
           /\ state'[current] = s
           /\ \A t \in Task : t # current =>
                \/ state'[t] = state[t]
                \/ state[t] = "READY" /\ state'[t] = "RUNNING"
<1> DEFINE st == [state EXCEPT ![current] = s]
<1>1. current \in User /\ current # Idle /\ state[current] = "RUNNING"
  BY QueuesLemma DEF UserMode, Task
<1>2. st \in [Task -> TaskState] /\ st[current] = s
      /\ \A t \in Task : t # current => st[t] = state[t]
  BY <1>1 DEF IInv, TypeOK, TaskState, Task
<1>3. CanSwitch(st, ready)
  <2>1. {t \in Task : st[t] = "READY"} = {t \in Task : state[t] = "READY"}
    BY <1>1, <1>2
  <2>2. {t \in Task : st[t] = "WAIT" /\ t # current} = {t \in Task : state[t] = "WAIT"}
    BY <1>1, <1>2
  <2>3. \A t \in Task : st[t] = "RUNNING" => t = current
    BY <1>2, QueuesLemma
  <2> QED BY <1>1, <1>2, <2>1, <2>2, <2>3, QueuesLemma, ReadyLemma DEF CanSwitch
<1>4. Switched(st)
  BY <1>3, ScheduleLemma
<1>5. current # current' /\ state'[current] = s
  BY <1>1, <1>2, <1>4 DEF Switched, Task
<1>6. \A t \in Task : t # current =>
                \/ state'[t] = state[t]
                \/ state[t] = "READY" /\ state'[t] = "RUNNING"
  BY <1>2, <1>4, QueuesLemma DEF Switched
<1> QED BY <1>1, <1>4, <1>5, <1>6

\* sys_read blocks: only from user mode, since a task woken inside sys_read
\* finds input.
LEMMA SysReadBlockInv == IInv /\ SysReadBlock => IInv' /\ Quiet({}) /\ UNCHANGED nextPid
<1> SUFFICES ASSUME IInv, SysReadBlock PROVE IInv' /\ Quiet({}) /\ UNCHANGED nextPid
  OBVIOUS
<1> USE SchedAssumption
<1>1. UNCHANGED <<parent, ticksLeft, nextPid, avail, halted>> /\ avail = 0
      /\ at' = [at EXCEPT ![current] = "read"]
      /\ Schedule([state EXCEPT ![current] = "WAIT"], ready)
  BY DEF SysReadBlock
<1>2. UserMode
  BY <1>1, QueuesLemma DEF SysReadBlock, InRead, IInv, NoLostWakeup
<1>3. /\ Switched([state EXCEPT ![current] = "WAIT"])
      /\ current \in User /\ current # Idle /\ state[current] = "RUNNING"
      /\ state'[current] = "WAIT"
      /\ \A t \in Task : t # current =>
           \/ state'[t] = state[t]
           \/ state[t] = "READY" /\ state'[t] = "RUNNING"
  BY <1>1, <1>2, GiveUpLemma
<1>4. at' \in [Task -> Place] /\ at'[current] = "read"
      /\ \A t \in Task : t # current => at'[t] = at[t]
  BY <1>1, <1>3 DEF IInv, TypeOK, Place, Task
<1>5. TypeOK'
  BY <1>1, <1>3, <1>4 DEF IInv, TypeOK, Switched
<1>6. current' # current /\ state'[current'] = "RUNNING" /\ current' \in Task
  BY <1>3 DEF Switched
<1>7. IdleCanRun'
  <2>1. at[current'] # "exit"
    BY <1>3, <1>6 DEF IInv, Contexts
  <2> QED BY <1>3, <1>4, <1>6, <2>1 DEF IInv, IdleCanRun, Task
<1>8. OneForeground'
  BY <1>3 DEF IInv, OneForeground, Runnable, Task
<1>9. NoLostWakeup'
  <2>1. \A t \in Task : t # current => at[t] # "read"
    BY <1>3 DEF IInv, Contexts, IdleCanRun, OneForeground, Runnable, Task
  <2>2. \A t \in Task : t # current => state[t] # "WAIT"
    BY <1>3 DEF IInv, IdleCanRun, OneForeground, Runnable, Task
  <2> QED BY <1>1, <1>3, <1>4, <2>1, <2>2 DEF NoLostWakeup
<1>10. ForegroundChain'
  BY <1>1, <1>3 DEF IInv, ForegroundChain, Runnable, Dead, Task
<1>11. ExitWakesParent'
  BY <1>1, <1>3, <1>4 DEF IInv, ExitWakesParent, Task
<1>12. Contexts'
  BY <1>1, <1>3, <1>4 DEF IInv, Contexts, Task
<1>13. Quiet({})
  BY <1>3 DEF Quiet, Runnable
<1> QED BY <1>1, <1>3, <1>5, <1>7, <1>8, <1>9, <1>10, <1>11, <1>12, <1>13 DEF IInv, Switched

\* A page fault kills the foreground task; its parent, if any, stays blocked
\* but has a child that did not leave through sys_exit.
LEMMA PageFaultKillInv ==
    IInv /\ PageFaultKill =>
      IInv' /\ UserMode /\ Quiet({current}) /\ state'[current] = "ZOMBIE" /\ UNCHANGED nextPid
<1> SUFFICES ASSUME IInv, PageFaultKill
             PROVE  IInv' /\ UserMode /\ Quiet({current}) /\ state'[current] = "ZOMBIE" /\ UNCHANGED nextPid
  OBVIOUS
<1> USE SchedAssumption
<1>1. UNCHANGED <<parent, ticksLeft, at, nextPid, avail, halted>> /\ UserMode
      /\ Schedule([state EXCEPT ![current] = "ZOMBIE"], ready)
  BY DEF PageFaultKill
<1>2. /\ Switched([state EXCEPT ![current] = "ZOMBIE"])
      /\ current \in User /\ current # Idle /\ state[current] = "RUNNING"
      /\ state'[current] = "ZOMBIE"
      /\ \A t \in Task : t # current =>
           \/ state'[t] = state[t]
           \/ state[t] = "READY" /\ state'[t] = "RUNNING"
  BY <1>1, GiveUpLemma
<1>3. at[current] = "run"
  BY <1>1 DEF UserMode
<1>4. TypeOK'
  BY <1>1, <1>2 DEF IInv, TypeOK, Switched
<1>5. current' # current /\ state'[current'] = "RUNNING" /\ current' \in Task
  BY <1>2 DEF Switched
<1>6. IdleCanRun'
  <2>1. at[current'] # "exit"
    BY <1>2, <1>5 DEF IInv, Contexts
  <2> QED BY <1>1, <1>2, <1>5, <2>1 DEF IInv, IdleCanRun, Task
<1>7. OneForeground'
  BY <1>2 DEF IInv, OneForeground, Runnable, Task
<1>8. NoLostWakeup'
  BY <1>1, <1>2, <1>3 DEF IInv, NoLostWakeup
<1>9. ForegroundChain'
  BY <1>1, <1>2 DEF IInv, ForegroundChain, Runnable, Dead, Task
<1>10. ExitWakesParent'
  BY <1>1, <1>2, <1>3 DEF IInv, ExitWakesParent, Task
<1>11. Contexts'
  BY <1>1, <1>2, <1>3 DEF IInv, Contexts, Task
<1>12. Quiet({current})
  BY <1>2 DEF Quiet, Runnable
<1> QED BY <1>1, <1>2, <1>4, <1>6, <1>7, <1>8, <1>9, <1>10, <1>11, <1>12 DEF IInv, Switched

\* sys_exit hands the foreground to the parent, or to nobody.
LEMMA SysExitInv ==
    IInv /\ SysExit =>
      /\ IInv' /\ UserMode /\ UNCHANGED nextPid
      /\ Quiet({current, parent[current]}) /\ state'[current] = "ZOMBIE"
      /\ parent[current] # NULL => state[parent[current]] = "WAITING"
                             /\ state'[parent[current]] \in {"RUNNING", "READY", "WAIT"}
<1> SUFFICES ASSUME IInv, SysExit
             PROVE  /\ IInv' /\ UserMode /\ UNCHANGED nextPid
                    /\ Quiet({current, parent[current]}) /\ state'[current] = "ZOMBIE"
                    /\ parent[current] # NULL => state[parent[current]] = "WAITING"
                             /\ state'[parent[current]] \in {"RUNNING", "READY", "WAIT"}
  OBVIOUS
<1> USE SchedAssumption
<1> DEFINE p == parent[current]
<1>1. UNCHANGED <<parent, ticksLeft, nextPid, avail, halted>> /\ UserMode
      /\ at' = [at EXCEPT ![current] = "exit"]
  BY DEF SysExit, Exit
<1>2. current \in User /\ current # Idle /\ state[current] = "RUNNING" /\ at[current] = "run"
  BY <1>1, QueuesLemma DEF UserMode, Task
<1>3. at' \in [Task -> Place] /\ at'[current] = "exit"
      /\ \A t \in Task : t # current => at'[t] = at[t]
  BY <1>1, <1>2 DEF IInv, TypeOK, Place, Task
<1>4. p # NULL => ParentBlocked /\ p \in User /\ p < current
  BY <1>2 DEF IInv, ForegroundChain, Dead, ParentBlocked
<1>5. CASE p = NULL
  <2>1. Schedule([state EXCEPT ![current] = "ZOMBIE"], ready)
    BY <1>5 DEF SysExit, Exit, ParentBlocked
  <2>2. /\ Switched([state EXCEPT ![current] = "ZOMBIE"])
        /\ state'[current] = "ZOMBIE"
        /\ \A t \in Task : t # current =>
             \/ state'[t] = state[t]
             \/ state[t] = "READY" /\ state'[t] = "RUNNING"
    BY <1>1, <2>1, GiveUpLemma
  <2>3. TypeOK'
    BY <1>1, <1>3, <2>2 DEF IInv, TypeOK, Switched
  <2>4. IdleCanRun'
    <3>1. current' # current /\ at[current'] # "exit" /\ current' \in Task
      BY <1>2, <2>2 DEF Switched, IInv, Contexts
    <3> QED BY <1>2, <1>3, <2>2, <3>1 DEF IInv, IdleCanRun, Task
  <2>5. OneForeground'
    BY <1>2, <2>2 DEF IInv, OneForeground, Runnable, Task
  <2>6. NoLostWakeup'
    BY <1>1, <1>2, <1>3, <2>2 DEF IInv, NoLostWakeup
  <2>7. ForegroundChain'
    BY <1>1, <1>2, <2>2 DEF IInv, ForegroundChain, Runnable, Dead, Task
  <2>8. ExitWakesParent'
    <3> SUFFICES ASSUME NEW q \in Task, state'[q] = "WAITING"
                 PROVE  \E c \in User : /\ parent'[c] = q
                                        /\ state'[c] # "NONE"
                                        /\ state'[c] = "ZOMBIE" => at'[c] # "exit"
      BY DEF ExitWakesParent
    <3>1. state[q] = "WAITING" /\ q # NULL
      BY <1>2, <2>2 DEF Task, User, Idle, NULL
    <3>2. PICK c \in User : /\ parent[c] = q
                            /\ state[c] # "NONE"
                            /\ state[c] = "ZOMBIE" => at[c] # "exit"
      BY <3>1 DEF IInv, ExitWakesParent
    <3>3. c # current /\ c \in Task
      BY <1>5, <3>1, <3>2 DEF Task
    <3> QED BY <1>1, <1>3, <2>2, <3>2, <3>3
  <2>9. Contexts'
    BY <1>1, <1>2, <1>3, <2>2 DEF IInv, Contexts, Task
  <2>10. Quiet({current, p})
    BY <2>2 DEF Quiet, Runnable
  <2> QED BY <1>1, <1>5, <2>2, <2>3, <2>4, <2>5, <2>6, <2>7, <2>8, <2>9, <2>10 DEF IInv, Switched
<1>6. CASE p # NULL
  <2> DEFINE st == [[state EXCEPT ![p] = "READY"] EXCEPT ![current] = "ZOMBIE"]
             rd == AddToQueue(ready, p)
  <2>1. p \in User /\ p < current /\ p # current /\ p \in Task /\ state[p] = "WAITING"
        /\ ParentBlocked
    BY <1>2, <1>4, <1>6 DEF ParentBlocked, User, Task
  <2>2. Schedule(st, rd)
    BY <2>1 DEF SysExit, Exit
  <2>3. st \in [Task -> TaskState] /\ st[current] = "ZOMBIE" /\ st[p] = "READY"
        /\ \A t \in Task : t # current /\ t # p => st[t] = state[t]
    BY <1>2, <2>1 DEF IInv, TypeOK, TaskState, Task
  <2>4. CanSwitch(st, rd)
    <3>1. IsQueue(rd, {t \in Task : state[t] = "READY"} \cup {p}) /\ rd # <<>>
      BY <2>1, AddToQueueLemma, QueuesLemma
    <3>2. {t \in Task : state[t] = "READY"} \cup {p} = {t \in Task : st[t] = "READY"}
      BY <1>2, <2>1, <2>3
    <3>3. {t \in Task : st[t] = "WAIT" /\ t # current} = {t \in Task : state[t] = "WAIT"}
      BY <1>2, <2>1, <2>3
    <3>4. \A t \in Task : st[t] = "RUNNING" => t = current
      BY <2>3, QueuesLemma
    <3> QED BY <2>3, <3>1, <3>2, <3>3, <3>4, QueuesLemma DEF CanSwitch
  <2>5. Switched(st)
    BY <2>2, <2>4, ScheduleLemma
  <2>6. /\ state'[current] = "ZOMBIE"
        /\ state'[p] \in {"READY", "RUNNING"}
        /\ \A t \in Task : t # current /\ t # p =>
             \/ state'[t] = state[t]
             \/ state[t] = "READY" /\ state'[t] = "RUNNING"
    BY <1>2, <2>1, <2>3, <2>5, QueuesLemma DEF Switched, Task
  <2>7. TypeOK'
    BY <1>1, <1>3, <2>5 DEF IInv, TypeOK, Switched
  <2>8. IdleCanRun'
    <3>1. current' # current /\ at[current'] # "exit" /\ current' \in Task
      <4>1. current' \in Task /\ current' # current /\ state[current'] # "ZOMBIE"
        BY <2>1, <2>3, <2>5 DEF Switched
      <4> QED BY <4>1 DEF IInv, Contexts
    <3>2. p # Idle /\ Idle \in Task
      BY <2>1 DEF User, Idle, Task
    <3> QED BY <1>2, <1>3, <2>6, <3>1, <3>2 DEF IInv, IdleCanRun
  <2>9. \A t \in User : t # p => ~(state'[t] \in {"RUNNING", "READY", "WAIT"})
    BY <1>2, <2>6 DEF IInv, OneForeground, Runnable, Task
  <2>10. OneForeground'
    BY <2>9 DEF OneForeground, Runnable
  <2>11. NoLostWakeup'
    <3>1. at[p] # "read"
      BY <2>1 DEF IInv, Contexts
    <3> QED BY <1>1, <1>2, <1>3, <2>1, <2>6, <3>1 DEF IInv, NoLostWakeup
  <2>12. ForegroundChain'
    <3> SUFFICES ASSUME NEW c \in User, ~Dead(c)'
                 PROVE  /\ parent[c] # NULL => parent[c] \in User /\ parent[c] < c
                                               /\ state'[parent[c]] = "WAITING"
                        /\ \A q \in User : ~Dead(q)' /\ q < c =>
                             parent[c] # NULL /\ q <= parent[c]
                        /\ Runnable(c)' => \A q \in User : ~Dead(q)' => q <= c
      BY <1>1 DEF ForegroundChain
    <3>1. \A q \in User : ~Dead(q)' => q # current /\ ~Dead(q)
      BY <1>2, <2>1, <2>6 DEF Dead, Task
    <3>2. \A q \in User : ~Dead(q)' => q <= p
      BY <1>2, <3>1, <2>1 DEF IInv, ForegroundChain, Runnable, Dead, User
    <3>3. parent[c] # NULL => parent[c] \in User /\ parent[c] < c /\ state[parent[c]] = "WAITING"
      BY <3>1 DEF IInv, ForegroundChain
    <3>4. parent[c] # NULL => state'[parent[c]] = "WAITING"
      <4>1. parent[c] # NULL => parent[c] # p /\ parent[c] # current /\ parent[c] \in Task
        BY <3>2, <3>3, <1>2, <2>1 DEF User, Task
      <4> QED BY <2>6, <3>3, <4>1
    <3>5. \A q \in User : ~Dead(q)' /\ q < c => parent[c] # NULL /\ q <= parent[c]
      BY <3>1 DEF IInv, ForegroundChain
    <3>6. Runnable(c)' => c = p
      BY <2>9 DEF Runnable
    <3> QED BY <3>2, <3>3, <3>4, <3>5, <3>6
  <2>13. ExitWakesParent'
    <3> SUFFICES ASSUME NEW q \in Task, state'[q] = "WAITING"
                 PROVE  \E c \in User : /\ parent'[c] = q
                                        /\ state'[c] # "NONE"
                                        /\ state'[c] = "ZOMBIE" => at'[c] # "exit"
      BY DEF ExitWakesParent
    <3>1. state[q] = "WAITING" /\ q # p
      BY <1>2, <2>1, <2>6
    <3>2. PICK c \in User : /\ parent[c] = q
                            /\ state[c] # "NONE"
                            /\ state[c] = "ZOMBIE" => at[c] # "exit"
      BY <3>1 DEF IInv, ExitWakesParent
    <3>3. c # current /\ c \in Task
      BY <3>1, <3>2 DEF Task
    <3> QED BY <1>1, <1>3, <2>1, <2>6, <3>2, <3>3
  <2>14. Contexts'
    BY <1>1, <1>2, <1>3, <2>1, <2>6 DEF IInv, Contexts, Task
  <2>15. Quiet({current, p}) /\ state'[p] \in {"RUNNING", "READY", "WAIT"}
    BY <2>6 DEF Quiet, Runnable
  <2> QED BY <1>1, <2>1, <2>5, <2>6, <2>7, <2>8, <2>10, <2>11, <2>12, <2>13, <2>14, <2>15
          DEF IInv, Switched
<1> QED BY <1>5, <1>6

\* sys_exec puts a new task on top of the chain.
LEMMA SysExecInv ==
    IInv /\ SysExec =>
      /\ IInv' /\ UserMode /\ nextPid \in User /\ nextPid' = nextPid + 1
      /\ Quiet({current, nextPid}) /\ state'[current] = "WAITING"
      /\ Dead(nextPid) /\ state'[nextPid] \in {"RUNNING", "READY", "WAIT"}
<1> SUFFICES ASSUME IInv, SysExec
             PROVE  /\ IInv' /\ UserMode /\ nextPid \in User /\ nextPid' = nextPid + 1
                    /\ Quiet({current, nextPid}) /\ state'[current] = "WAITING"
                    /\ Dead(nextPid) /\ state'[nextPid] \in {"RUNNING", "READY", "WAIT"}
  OBVIOUS
<1> USE SchedAssumption
<1> DEFINE child == nextPid
           st == [state EXCEPT ![child] = "READY", ![current] = "WAITING"]
           rd == AddToQueue(ready, child)
<1>1. UNCHANGED <<avail, halted>> /\ UserMode /\ nextPid' = nextPid + 1
      /\ parent' = [parent EXCEPT ![child] = current]
      /\ ticksLeft' = [ticksLeft EXCEPT ![child] = TimeSlice]
      /\ at' = [at EXCEPT ![child] = "run"]
      /\ Schedule(st, rd)
  BY DEF SysExec, Exec
<1>2. child \in User /\ child \in Nat /\ nextPid' \in 1 .. MaxTasks + 1
  BY <1>1 DEF SysExec, Exec, IInv, TypeOK, User
<1>3. current \in User /\ current # Idle /\ state[current] = "RUNNING" /\ at[current] = "run"
  BY <1>1, QueuesLemma DEF UserMode, Task
<1>4. state[child] = "NONE" /\ current # child /\ child \in Task /\ child # Idle
      /\ current \in Task
  BY <1>2, <1>3 DEF IInv, Contexts, Task, User, Idle
<1>5. \A t \in User : state[t] # "NONE" => t < child
  BY <1>2 DEF IInv, Contexts, User
<1>6. /\ at' \in [Task -> Place] /\ at'[child] = "run"
      /\ \A t \in Task : t # child => at'[t] = at[t]
      /\ parent' \in [Task -> Task \cup {NULL}] /\ parent'[child] = current
      /\ \A t \in Task : t # child => parent'[t] = parent[t]
      /\ ticksLeft' \in [Task -> 1 .. TimeSlice]
  BY <1>1, <1>4 DEF IInv, TypeOK, Place
<1>7. st \in [Task -> TaskState] /\ st[current] = "WAITING" /\ st[child] = "READY"
      /\ \A t \in Task : t # current /\ t # child => st[t] = state[t]
  BY <1>4 DEF IInv, TypeOK, TaskState
<1>8. CanSwitch(st, rd)
  <2>1. IsQueue(rd, {t \in Task : state[t] = "READY"} \cup {child}) /\ rd # <<>>
    BY <1>4, AddToQueueLemma, QueuesLemma
  <2>2. {t \in Task : state[t] = "READY"} \cup {child} = {t \in Task : st[t] = "READY"}
    BY <1>3, <1>4, <1>7
  <2>3. {t \in Task : st[t] = "WAIT" /\ t # current} = {t \in Task : state[t] = "WAIT"}
    BY <1>3, <1>4, <1>7
  <2>4. \A t \in Task : st[t] = "RUNNING" => t = current
    BY <1>7, QueuesLemma
  <2> QED BY <1>4, <1>7, <2>1, <2>2, <2>3, <2>4, QueuesLemma DEF CanSwitch
<1>9. Switched(st)
  BY <1>1, <1>8, ScheduleLemma
<1>10. /\ state'[current] = "WAITING"
       /\ state'[child] \in {"READY", "RUNNING"}
       /\ \A t \in Task : t # current /\ t # child =>
            \/ state'[t] = state[t]
            \/ state[t] = "READY" /\ state'[t] = "RUNNING"
  BY <1>4, <1>7, <1>9, QueuesLemma DEF Switched
<1>11. TypeOK'
  BY <1>1, <1>2, <1>6, <1>9 DEF IInv, TypeOK, Switched
<1>12. IdleCanRun'
  <2>1. at'[current'] # "exit"
    <3>1. current' \in Task /\ current' # current
      BY <1>9 DEF Switched
    <3>2. CASE current' = child
      BY <1>6, <3>2
    <3>3. CASE current' # child
      <4>1. state[current'] # "ZOMBIE"
        BY <1>7, <1>9, <3>1, <3>3 DEF Switched
      <4> QED BY <1>6, <3>1, <3>3, <4>1 DEF IInv, Contexts
    <3> QED BY <3>2, <3>3
  <2> QED BY <1>3, <1>4, <1>6, <1>10, <2>1 DEF IInv, IdleCanRun, Task
<1>13. \A t \in User : t # child => ~(state'[t] \in {"RUNNING", "READY", "WAIT"})
  BY <1>3, <1>10 DEF IInv, OneForeground, Runnable, Task
<1>14. OneForeground'
  BY <1>13 DEF OneForeground, Runnable
<1>15. NoLostWakeup'
  BY <1>1, <1>3, <1>4, <1>6, <1>10 DEF IInv, NoLostWakeup
<1>16. ForegroundChain'
  <2> SUFFICES ASSUME NEW c \in User, ~Dead(c)'
               PROVE  /\ parent'[c] # NULL => parent'[c] \in User /\ parent'[c] < c
                                              /\ state'[parent'[c]] = "WAITING"
                      /\ \A q \in User : ~Dead(q)' /\ q < c =>
                           parent'[c] # NULL /\ q <= parent'[c]
                      /\ Runnable(c)' => \A q \in User : ~Dead(q)' => q <= c
    BY DEF ForegroundChain
  <2>1. \A q \in User : ~Dead(q)' /\ q # child => ~Dead(q)
    BY <1>3, <1>10 DEF Dead, Task
  <2>2. \A q \in User : ~Dead(q)' => q <= child
    BY <1>2, <1>5, <2>1 DEF Dead, User
  <2>3. \A q \in User : ~Dead(q)' /\ q # child => q <= current
    BY <1>3, <2>1 DEF IInv, ForegroundChain, Runnable, Dead
  <2>4. CASE c = child
    <3>1. parent'[c] = current /\ current < c /\ current # NULL
      BY <1>3, <1>5, <1>6, <2>4 DEF User, NULL
    <3> QED BY <1>3, <1>10, <2>2, <2>3, <2>4, <3>1 DEF User
  <2>5. CASE c # child
    <3>1. ~Dead(c) /\ parent'[c] = parent[c] /\ c < child /\ ~Runnable(c)'
      BY <1>5, <1>6, <1>13, <2>1, <2>5 DEF Dead, Task, Runnable
    <3>2. parent[c] # NULL => parent[c] \in User /\ parent[c] < c /\ state[parent[c]] = "WAITING"
      BY <3>1 DEF IInv, ForegroundChain
    <3>3. parent[c] # NULL => state'[parent[c]] = "WAITING"
      BY <1>3, <1>4, <1>10, <3>2 DEF Task
    <3>4. \A q \in User : ~Dead(q)' /\ q < c => parent[c] # NULL /\ q <= parent[c]
      BY <2>1, <3>1, <1>2 DEF IInv, ForegroundChain, User
    <3> QED BY <3>1, <3>2, <3>3, <3>4
  <2> QED BY <2>4, <2>5
<1>17. ExitWakesParent'
  <2> SUFFICES ASSUME NEW q \in Task, state'[q] = "WAITING"
               PROVE  \E c \in User : /\ parent'[c] = q
                                      /\ state'[c] # "NONE"
                                      /\ state'[c] = "ZOMBIE" => at'[c] # "exit"
    BY DEF ExitWakesParent
  <2>1. CASE q = current
    BY <1>2, <1>6, <1>10, <2>1
  <2>2. CASE q # current
    <3>1. state[q] = "WAITING"
      BY <1>10, <2>2
    <3>2. PICK c \in User : /\ parent[c] = q
                            /\ state[c] # "NONE"
                            /\ state[c] = "ZOMBIE" => at[c] # "exit"
      BY <3>1 DEF IInv, ExitWakesParent
    <3>3. c # child /\ c \in Task
      BY <1>4, <3>2 DEF Task
    <3>4. state'[c] # "NONE" /\ (state'[c] = "ZOMBIE" => state[c] = "ZOMBIE")
      BY <1>10, <3>2, <3>3
    <3> QED BY <1>6, <3>2, <3>3, <3>4
  <2> QED BY <2>1, <2>2
<1>18. Contexts'
  <2>1. \A t \in Task : at'[t] = "read" => state'[t] \in {"WAIT", "READY", "RUNNING"}
    BY <1>3, <1>6, <1>10 DEF IInv, Contexts
  <2>2. \A t \in Task : at'[t] = "exit" => state'[t] = "ZOMBIE"
    BY <1>3, <1>6, <1>10 DEF IInv, Contexts
  <2>3. \A t \in User : state'[t] = "NONE" <=> t >= nextPid'
    <3>1. \A t \in User : t \in Nat /\ t \in Task
      BY DEF User, Task
    <3>2. \A t \in User : state'[t] = "NONE" <=> t # child /\ state[t] = "NONE"
      BY <1>3, <1>4, <1>10, <3>1
    <3> QED BY <1>1, <1>2, <3>1, <3>2 DEF IInv, Contexts
  <2>4. \A t \in User : state'[t] = "NONE" => parent'[t] = NULL
    BY <1>4, <1>6, <1>10 DEF IInv, Contexts, Task
  <2> QED BY <2>1, <2>2, <2>3, <2>4 DEF Contexts
<1>19. Quiet({current, child}) /\ Dead(child)
  BY <1>4, <1>10 DEF Quiet, Runnable, Dead
<1> QED BY <1>1, <1>2, <1>9, <1>10, <1>11, <1>12, <1>14, <1>15, <1>16, <1>17, <1>18, <1>19
        DEF IInv, Switched

\* Every interrupt and system call preserves the invariant.
LEMMA NextInv == IInv /\ [Next]_vars => IInv'
<1> SUFFICES ASSUME IInv, [Next]_vars PROVE IInv'
  OBVIOUS
<1>1. CASE Tick
  BY <1>1, TickInv
<1>2. ASSUME NEW n \in 1 .. RingCap + 1, KeyboardWake(n) PROVE IInv'
  BY <1>2, KeyboardInv
<1>3. CASE SysExit
  BY <1>3, SysExitInv
<1>4. CASE SysExec
  BY <1>4, SysExecInv
<1>5. CASE SysReadBlock
  BY <1>5, SysReadBlockInv
<1>6. ASSUME NEW k \in 0 .. RingCap, SysReadTake(k) PROVE IInv'
  BY <1>6, SysReadTakeInv
<1>7. CASE SysPing \/ PingReturn \/ Halt
  BY <1>7, StayInv
<1>8. CASE PageFaultKill
  BY <1>8, PageFaultKillInv
<1>9. CASE UNCHANGED vars
  BY <1>9 DEF vars, IInv, TypeOK, QueuesMatchStates, Holds, IdleCanRun, OneForeground,
     NoLostWakeup, ForegroundChain, ExitWakesParent, Contexts, Runnable, Dead
<1> QED BY <1>1, <1>2, <1>3, <1>4, <1>5, <1>6, <1>7, <1>8, <1>9 DEF Next

\* The inductive invariant holds in every reachable state, for every number of
\* tasks, length of the time slice and size of the ring.
THEOREM Invariance == Spec => []IInv
BY InitInv, NextInv, PTL DEF Spec

----------------------------------------------------------------------------
(* The theorems a reader should know *)

\* Every variable of the scheduler keeps its type: pids, states, queues of
\* tasks, a time slice between 1 and DEFAULT_TIME_SLICE.
THEOREM TypeCorrect == Spec => []TypeOK
BY Invariance, PTL DEF IInv

\* ready_queue and wait_queue hold exactly the READY and the WAIT tasks, each
\* once, and exactly current_task is RUNNING, however the actions interleave.
THEOREM QueuesCorrect == Spec => []QueuesMatchStates
BY Invariance, PTL DEF IInv

\* schedule() always finds a task for a user task that gives up the CPU, and
\* sys_exit does not return.
THEOREM IdleAlwaysThere == Spec => []IdleCanRun
BY Invariance, PTL DEF IInv

\* One user program at a time is runnable.
THEOREM SingleForeground == Spec => []OneForeground
BY Invariance, PTL DEF IInv

\* No reader sleeps while the keyboard ring holds a byte, and no woken reader
\* finds it empty.
THEOREM WakeupsAreNotLost == Spec => []NoLostWakeup
BY Invariance, PTL DEF IInv

\* The programs that have not ended form one chain of execs.
THEOREM ChainOfExecs == Spec => []ForegroundChain
BY Invariance, PTL DEF IInv

\* A parent blocked in sys_exec has a child that did not leave by sys_exit.
THEOREM ExitAlwaysWakes == Spec => []ExitWakesParent
BY Invariance, PTL DEF IInv

\* What one step does to the states: nothing but swapping runnable states, or
\* a kill, an exit or an exec by the current task.
Killed ==
    UserMode /\ Quiet({current}) /\ state'[current] = "ZOMBIE" /\ UNCHANGED nextPid

Exited ==
    /\ UserMode /\ UNCHANGED nextPid
    /\ Quiet({current, parent[current]}) /\ state'[current] = "ZOMBIE"
    /\ parent[current] # NULL => state[parent[current]] = "WAITING"
                                 /\ state'[parent[current]] \in {"RUNNING", "READY", "WAIT"}

Executed ==
    /\ UserMode /\ nextPid \in User /\ nextPid' = nextPid + 1
    /\ Quiet({current, nextPid}) /\ state'[current] = "WAITING"
    /\ Dead(nextPid) /\ state'[nextPid] \in {"RUNNING", "READY", "WAIT"}

\* These are all the effects there are.
LEMMA StepEffect ==
    IInv /\ [Next]_vars =>
      (Quiet({}) /\ UNCHANGED nextPid) \/ Killed \/ Exited \/ Executed
<1> SUFFICES ASSUME IInv, [Next]_vars
             PROVE  (Quiet({}) /\ UNCHANGED nextPid) \/ Killed \/ Exited \/ Executed
  OBVIOUS
<1>1. CASE Tick
  BY <1>1, TickInv
<1>2. ASSUME NEW n \in 1 .. RingCap + 1, KeyboardWake(n)
      PROVE  Quiet({}) /\ UNCHANGED nextPid
  BY <1>2, KeyboardInv
<1>3. CASE SysExit
  BY <1>3, SysExitInv DEF Exited
<1>4. CASE SysExec
  BY <1>4, SysExecInv DEF Executed
<1>5. CASE SysReadBlock
  BY <1>5, SysReadBlockInv
<1>6. ASSUME NEW k \in 0 .. RingCap, SysReadTake(k)
      PROVE  Quiet({}) /\ UNCHANGED nextPid
  BY <1>6, SysReadTakeInv
<1>7. CASE SysPing \/ PingReturn \/ Halt
  BY <1>7, StayInv
<1>8. CASE PageFaultKill
  BY <1>8, PageFaultKillInv DEF Killed
<1>9. CASE UNCHANGED vars
  BY <1>9 DEF vars, Quiet
<1> QED BY <1>1, <1>2, <1>3, <1>4, <1>5, <1>6, <1>7, <1>8, <1>9 DEF Next

\* The facts about the current task in user mode that the effects rest on.
LEMMA CurrentLemma ==
    ASSUME IInv, UserMode
    PROVE  /\ current \in User /\ current \in Task /\ state[current] = "RUNNING"
           /\ \A t \in User : Runnable(t) => t = current
           /\ \A q \in User : ~Dead(q) => q <= current
           /\ \A q \in User : ~Dead(q) /\ q # current =>
                parent[current] # NULL /\ q <= parent[current]
           /\ parent[current] # NULL =>
                parent[current] \in User /\ parent[current] < current
<1>1. current \in User /\ current \in Task /\ state[current] = "RUNNING"
  BY QueuesLemma DEF UserMode, Task
<1>2. \A t \in User : Runnable(t) => t = current
  BY <1>1 DEF IInv, OneForeground, Runnable
<1>3. ~Dead(current) /\ Runnable(current)
  BY <1>1 DEF Dead, Runnable
<1>4. \A q \in User : ~Dead(q) => q <= current
  BY <1>1, <1>3 DEF IInv, ForegroundChain
<1>5. \A q \in User : ~Dead(q) /\ q # current =>
        parent[current] # NULL /\ q <= parent[current]
  BY <1>1, <1>3, <1>4 DEF IInv, ForegroundChain, User
<1>6. parent[current] # NULL => parent[current] \in User /\ parent[current] < current
  BY <1>1, <1>3 DEF IInv, ForegroundChain
<1> QED BY <1>1, <1>2, <1>4, <1>5, <1>6

\* sys_exec returns only when the caller's own, only child that is left exits,
\* and zombies stay zombies.
THEOREM ExecReturns == Spec => ExecReturnsOnChildExit
<1> DEFINE Step(t) ==
        /\ state[t] = "WAITING" /\ state'[t] # "WAITING" =>
             /\ parent[current] = t
             /\ \A c \in User : parent[c] = t => state'[c] = "ZOMBIE"
        /\ state[t] = "ZOMBIE" => state'[t] = "ZOMBIE"
<1>1. ASSUME IInv, [Next]_vars, NEW t \in Task PROVE Step(t)
  <2> USE <1>1
  <2>1. CASE Quiet({})
    BY <2>1 DEF Quiet, Runnable
  <2>2. CASE Killed
    BY <2>2, CurrentLemma DEF Killed, Quiet, Runnable
  <2>3. CASE Executed
    <3>1. current \in User /\ state[current] = "RUNNING"
      BY <2>3, CurrentLemma DEF Executed
    <3>2. state[nextPid] = "NONE"
      BY <2>3 DEF Executed, IInv, Contexts, User
    <3> QED BY <2>3, <3>1, <3>2 DEF Executed, Quiet, Runnable
  <2>4. CASE Exited
    <3>1. UserMode /\ state'[current] = "ZOMBIE"
      BY <2>4 DEF Exited
    <3>2. state[t] = "ZOMBIE" => state'[t] = "ZOMBIE"
      <4>1. t # NULL
        BY DEF Task, User, Idle, NULL
      <4> QED BY <2>4, <3>1, <4>1, CurrentLemma DEF Exited, Quiet, Runnable
    <3>3. ASSUME state[t] = "WAITING", state'[t] # "WAITING"
          PROVE  parent[current] = t
      BY <2>4, <3>1, <3>3, CurrentLemma DEF Exited, Quiet, Runnable
    <3>4. ASSUME state[t] = "WAITING", state'[t] # "WAITING", NEW c \in User, parent[c] = t
          PROVE  state'[c] = "ZOMBIE"
      <4>1. t = parent[current] /\ t # NULL
        BY <3>3, <3>4 DEF Task, User, Idle, NULL
      <4>2. CASE c = current
        BY <3>1, <4>2
      <4>3. CASE c # current
        <5>1. Dead(c)
          <6> SUFFICES ASSUME ~Dead(c) PROVE FALSE
            OBVIOUS
          <6>1. c <= t
            BY <3>1, <4>1, <4>3, CurrentLemma
          <6>2. t < c
            BY <3>4, <4>1 DEF IInv, ForegroundChain
          <6>3. t \in Int
            BY DEF Task, User, Idle
          <6> QED BY <6>1, <6>2, <6>3 DEF User
        <5>2. state[c] = "ZOMBIE"
          BY <3>4, <4>1, <5>1 DEF Dead, IInv, Contexts
        <5>3. c \in Task /\ c # t
          BY <3>4, <5>2 DEF Task
        <5> QED BY <2>4, <4>1, <4>3, <5>2, <5>3 DEF Exited, Quiet, Runnable
      <4> QED BY <4>2, <4>3
    <3> QED BY <3>2, <3>3, <3>4
  <2> QED BY <1>1, <2>1, <2>2, <2>3, <2>4, StepEffect
<1>2. ASSUME IInv, [Next]_vars PROVE [\A t \in Task : Step(t)]_vars
  BY <1>1, <1>2
<1> QED BY <1>2, Invariance, PTL DEF Spec, ExecReturnsOnChildExit

----------------------------------------------------------------------------
(* Refinement: the scheduler implements the stack of programs *)

\* The program on top, in terms of the states.
LEMMA TopTaskLemma ==
    ASSUME IInv, NEW t \in User, Runnable(t)
    PROVE  TopTask = t /\ t # 0
<1>1. \A s \in User : Runnable(s) => s = t
  BY DEF IInv, OneForeground
<1> QED BY <1>1 DEF TopTask, User

\* Without a runnable user task nobody is on top.
LEMMA NoTopTaskLemma ==
    ASSUME \A t \in User : ~Runnable(t)
    PROVE  TopTask = 0
BY DEF TopTask, Idle

\* At boot the stack holds the shell or nothing.
LEMMA InitRefines == Init => F!Init
<1> SUFFICES ASSUME Init PROVE F!Init
  OBVIOUS
<1> USE SchedAssumption
<1>1. IInv
  BY InitInv
<1>2. \A t \in User : ~Dead(t) <=> t < nextPid
  BY DEF Init, Dead, User, Task, Idle
<1>3. nextPid - 1 \in {0, 1} /\ Alive = 1 .. (nextPid - 1)
  BY <1>2 DEF Init, Alive, User
<1>4. CASE nextPid = 1
  <2>1. \A t \in User : ~Runnable(t)
    BY <1>2, <1>4 DEF Dead, Runnable, User
  <2> QED BY <1>3, <1>4, <2>1, NoTopTaskLemma DEF F!Init
<1>5. CASE nextPid = 2
  <2>1. 1 \in User /\ Runnable(1)
    BY <1>5 DEF Init, Runnable, User, Task, Idle
  <2> QED BY <1>1, <1>3, <1>5, <2>1, TopTaskLemma DEF F!Init
<1> QED BY <1>3, <1>4, <1>5 DEF Init

\* The task on top after a step, from the states after it.
LEMMA NextTopTaskLemma ==
    ASSUME IInv', NEW t \in User, state'[t] \in {"RUNNING", "READY", "WAIT"}
    PROVE  TopTask' = t /\ t # 0
<1>1. \A s \in User : Runnable(s)' => s = t
  BY DEF IInv, OneForeground, Runnable
<1>2. Runnable(t)'
  BY DEF Runnable
<1> QED BY <1>1, <1>2 DEF TopTask, User

\* Each step of the scheduler is an exec, an exit or a kill on the stack of
\* programs, or leaves the stack alone.
LEMMA NextRefines == IInv /\ IInv' /\ [Next]_vars => [F!Next]_F!fvars
<1> SUFFICES ASSUME IInv, IInv', [Next]_vars
             PROVE  F!Next \/ UNCHANGED <<Alive, TopTask, nextPid>>
  BY DEF F!fvars
<1> USE SchedAssumption
<1>1. CASE Quiet({}) /\ UNCHANGED nextPid
  <2>1. \A t \in User : /\ ~Dead(t)' <=> ~Dead(t)
                        /\ Runnable(t)' <=> Runnable(t)
    BY <1>1 DEF Quiet, Dead, Runnable, Task
  <2>2. Alive' = Alive
    BY <2>1 DEF Alive
  <2>3. TopTask' = TopTask
    BY <2>1 DEF TopTask
  <2> QED BY <1>1, <2>2, <2>3
<1>2. CASE Killed
  <2>1. current \in User /\ TopTask = current /\ current # 0
    BY <1>2, CurrentLemma, TopTaskLemma DEF Killed, Runnable
  <2>2. \A t \in User : /\ ~Dead(t)' <=> ~Dead(t) /\ t # current
                        /\ ~Runnable(t)'
    BY <1>2, CurrentLemma DEF Killed, Quiet, Dead, Runnable, Task
  <2>3. Alive' = Alive \ {current}
    BY <2>2 DEF Alive
  <2>4. TopTask' = 0
    BY <2>2 DEF TopTask, Idle
  <2>5. nextPid' = nextPid
    BY <1>2 DEF Killed
  <2> QED BY <2>1, <2>3, <2>4, <2>5 DEF F!Next, F!Kill
<1>3. CASE Executed
  <2>1. current \in User /\ TopTask = current /\ current # 0 /\ state[current] = "RUNNING"
    BY <1>3, CurrentLemma, TopTaskLemma DEF Executed, Runnable
  <2>2. nextPid \in User /\ nextPid \in Int /\ nextPid' = nextPid + 1
    BY <1>3 DEF Executed, User
  <2>3. \A t \in User : ~Dead(t)' <=> ~Dead(t) \/ t = nextPid
    BY <1>3, <2>1, <2>2 DEF Executed, Quiet, Dead, Runnable, Task
  <2>4. Alive' = Alive \cup {nextPid}
    BY <2>2, <2>3 DEF Alive
  <2>5. TopTask' = nextPid
    BY <1>3, <2>2, NextTopTaskLemma DEF Executed
  <2>6. nextPid' - 1 = nextPid /\ (nextPid - 1) + 1 = nextPid
    BY <2>2
  <2> QED BY <2>1, <2>4, <2>5, <2>6 DEF F!Next, F!Exec
<1>4. CASE Exited
  <2> DEFINE p == parent[current]
  <2>1. current \in User /\ TopTask = current /\ current # 0 /\ state[current] = "RUNNING"
    BY <1>4, CurrentLemma, TopTaskLemma DEF Exited, Runnable
  <2>2. p # NULL => p \in User /\ p # current /\ state[p] = "WAITING"
                    /\ state'[p] \in {"RUNNING", "READY", "WAIT"}
    BY <1>4, CurrentLemma DEF Exited, User
  <2>3. \A t \in User : ~Dead(t)' <=> ~Dead(t) /\ t # current
    <3>1. \A t \in User : t # NULL /\ t \in Task
      BY DEF User, Task, NULL
    <3>2. \A t \in User : t # current /\ t # p => (~Dead(t)' <=> ~Dead(t))
      BY <1>4, <3>1 DEF Exited, Quiet, Dead, Runnable
    <3>3. state'[current] = "ZOMBIE" /\ ~Dead(current)
      BY <1>4, <2>1 DEF Exited, Dead
    <3>4. p # NULL => (state'[p] \notin {"NONE", "ZOMBIE"} /\ ~Dead(p))
      BY <2>2 DEF Dead
    <3> QED BY <2>1, <2>2, <3>1, <3>2, <3>3, <3>4 DEF Dead
  <2>4. Alive' = Alive \ {current}
    BY <2>3 DEF Alive
  <2>5. nextPid' = nextPid
    BY <1>4 DEF Exited
  <2>6. \A q \in Alive' : p # NULL /\ q <= p
    BY <1>4, <2>4, CurrentLemma DEF Exited, Alive
  <2>7. TopTask' = F!Max(Alive' \cup {0})
    <3>1. CASE p = NULL
      <4>1. Alive' = {}
        BY <2>6, <3>1
      <4>2. \A t \in User : ~Runnable(t)'
        BY <4>1 DEF Alive, Dead, Runnable
      <4>3. TopTask' = 0
        BY <4>2 DEF TopTask, Idle
      <4> QED BY <4>1, <4>3 DEF F!Max
    <3>2. CASE p # NULL
      <4>1. TopTask' = p
        BY <2>2, <3>2, NextTopTaskLemma
      <4>2. p \in Alive'
        BY <2>2, <2>3, <3>2 DEF Alive, Dead
      <4>3. p \in Int /\ p >= 0 /\ \A q \in Alive' : q \in Int
        BY <2>2, <3>2 DEF Alive, User
      <4>4. \A x \in Alive' \cup {0} : (\A y \in Alive' \cup {0} : x >= y) <=> x = p
        BY <2>6, <4>2, <4>3
      <4> QED BY <4>1, <4>2, <4>4 DEF F!Max
    <3> QED BY <3>1, <3>2
  <2> QED BY <2>1, <2>4, <2>5, <2>7 DEF F!Next, F!Exit
<1> QED BY <1>1, <1>2, <1>3, <1>4, StepEffect

\* sys_exec, sys_exit and the page-fault handler together maintain a stack of
\* programs, whatever the interrupts in between do.
THEOREM Refinement == Spec => ImplementsForeground
BY InitRefines, NextRefines, Invariance, PTL DEF Spec, ImplementsForeground, F!Spec
=============================================================================
