------------------------------- MODULE Sched -------------------------------
(***************************************************************************)
(* The round-robin scheduler (src/kernel/task.c) with every operation that  *)
(* changes a task's state: the timer interrupt, sys_exit, sys_exec,         *)
(* sys_read, sys_ping (syscall.c), the page-fault handler (vmm.c) and the   *)
(* keyboard interrupt as far as it wakes readers (keyboard.c).              *)
(*                                                                          *)
(* Interrupts and system calls enter through interrupt gates, so a handler  *)
(* runs with IF = 0 and is one atomic step, up to the point where it calls  *)
(* schedule() and loses the CPU.  A task that loses the CPU inside sys_read *)
(* resumes in the middle of its loop with IF = 0; ping() executes STI, so   *)
(* the timer may preempt a task in kernel mode there.                       *)
(*                                                                          *)
(* The queues are sequences here; TaskList has the linked lists.  Of the    *)
(* keyboard's ring buffer only the number of bytes in it is kept; Console   *)
(* has the bytes.                                                           *)
(***************************************************************************)
EXTENDS Integers, Sequences, Functions

CONSTANTS
    MaxTasks,   \* bound: user tasks ever created (the code: until kmalloc fails)
    TimeSlice,  \* DEFAULT_TIME_SLICE, in timer ticks
    RingCap     \* bytes the keyboard ring can hold, KBD_BUF_SIZE - 1

ASSUME SchedAssumption ==
    /\ MaxTasks \in Nat \ {0}
    /\ TimeSlice \in Nat \ {0}
    /\ RingCap \in Nat \ {0}

Idle == 0                   \* kernel_main, made task 0 by task_init
User == 1 .. MaxTasks       \* pids handed out by next_pid++
Task == {Idle} \cup User
NULL == -1

\* TaskNone marks a pid not handed out yet; the others are task_state_t.
TaskState == {"NONE", "RUNNING", "READY", "ZOMBIE", "WAIT", "WAITING"}

\* Where a task's saved context (or its CPU context, for the current task)
\* stands: "run" in user mode or in the idle loop, IF = 1; "ping" in ping(),
\* IF = 1; "read" in the loop of sys_read, IF = 0; "exit" in the endless loop
\* behind schedule() in sys_exit, IF = 0.
Place == {"run", "ping", "read", "exit"}

VARIABLES
    current,    \* current_task
    state,      \* task->state
    parent,     \* task->parent
    ticksLeft,  \* task->ticks_left
    at,         \* the place the task's context stands at
    ready,      \* ready_queue, head first
    waitq,      \* wait_queue, head first
    nextPid,    \* next_pid
    avail,      \* bytes in the keyboard ring, (head - tail) % KBD_BUF_SIZE
    halted      \* the machine was shut down or stopped in a fatal handler

vars == <<current, state, parent, ticksLeft, at, ready, waitq, nextPid,
          avail, halted>>

----------------------------------------------------------------------------
(* The operations of task.c *)

\* task_add_to_queue clears task->next first, and only then looks whether the
\* task is already queued: a task queued twice would cut the queue behind it.
AddToQueue(q, t) ==
    IF t \notin Range(q) THEN Append(q, t)
    ELSE SubSeq(q, 1, CHOOSE i \in DOMAIN q : q[i] = t)

\* schedule(), called with task states st and ready queue rd; requeued is the
\* set of states in which it puts the previous task back into the ready queue.
\* With nothing ready it returns to its caller, un-blocking a task in WAIT.
Switch(st, rd, requeued) ==
    LET prev == current
        nxt  == Head(rd)
    IN  IF rd = <<>>
        THEN /\ state' = IF st[prev] = "WAIT"
                         THEN [st EXCEPT ![prev] = "RUNNING"] ELSE st
             /\ ready' = rd
             /\ UNCHANGED <<current, waitq>>
        ELSE /\ current' = nxt
             /\ ready' = IF st[prev] \in requeued
                         THEN AddToQueue(Tail(rd), prev) ELSE Tail(rd)
             /\ waitq' = IF st[prev] = "WAIT"
                         THEN AddToQueue(waitq, prev) ELSE waitq
             /\ state' = [st EXCEPT
                            ![prev] = IF @ = "RUNNING" THEN "READY" ELSE @,
                            ![nxt]  = "RUNNING"]

ScheduleDropsPrev(st, rd) == Switch(st, rd, {})
ScheduleRequeuesBlocked(st, rd) == Switch(st, rd, {"RUNNING", "WAITING"})
Schedule(st, rd) == Switch(st, rd, {"RUNNING"})

\* task_wakeup(&wait_queue): move the waiters to the ready queue, one by one.
WokenNobody(rd, wq) == rd
Woken(rd, wq) ==
    LET moved[n \in 0 .. Len(wq)] ==
            IF n = 0 THEN rd ELSE AddToQueue(moved[n - 1], wq[n])
    IN  moved[Len(wq)]

MoveWaiters(newState) ==
    /\ ready' = Woken(ready, waitq)
    /\ waitq' = <<>>
    /\ state' = newState
    /\ UNCHANGED current

WakeupKeepsState == MoveWaiters(state)
Wakeup == MoveWaiters([t \in Task |-> IF t \in Range(waitq) THEN "READY"
                                      ELSE state[t]])

----------------------------------------------------------------------------
(* Interrupts *)

InterruptsOn == ~halted /\ at[current] \in {"run", "ping"}

\* IRQ0: ticks++ and task_tick(), which starts a new slice of newSlice ticks
\* and reschedules when the old one is used up.
TimeUp == ticksLeft[current] - 1 <= 0

TickWith(newSlice) ==
    /\ InterruptsOn
    /\ IF TimeUp
       THEN /\ ticksLeft' = [ticksLeft EXCEPT ![current] = newSlice]
            /\ Schedule(state, ready)
       ELSE /\ ticksLeft' = [ticksLeft EXCEPT ![current] = @ - 1]
            /\ UNCHANGED <<current, state, ready, waitq>>
    /\ UNCHANGED <<parent, at, nextPid, avail, halted>>

TickNoReset == TickWith(ticksLeft[current] - 1)
TickNoSwitch ==
    /\ InterruptsOn
    /\ ticksLeft' = [ticksLeft EXCEPT ![current] = IF TimeUp THEN TimeSlice ELSE @ - 1]
    /\ UNCHANGED <<current, state, parent, at, ready, waitq, nextPid, avail, halted>>
Tick == TickWith(TimeSlice)

\* IRQ1 for Enter or Ctrl+C: n bytes are put into the ring, those that do not
\* fit are dropped, and the readers are woken.  Any other key leaves all of
\* this state alone.
Enqueued(n) ==
    /\ InterruptsOn
    /\ avail' = IF avail + n <= RingCap THEN avail + n ELSE RingCap
    /\ UNCHANGED <<parent, ticksLeft, at, nextPid, halted>>

KeyboardNoWake(n) == Enqueued(n) /\ UNCHANGED <<current, state, ready, waitq>>
KeyboardWake(n) == Enqueued(n) /\ Wakeup

----------------------------------------------------------------------------
(* System calls and faults of the task that has the CPU *)

UserMode == ~halted /\ current # Idle /\ at[current] = "run"
InRead == ~halted /\ at[current] = "read"

\* sys_exit: wake a parent blocked in sys_exec, become a zombie, never return.
Exit(wakes) ==
    LET p  == parent[current]
        st == IF wakes THEN [state EXCEPT ![p] = "READY"] ELSE state
        rd == IF wakes THEN AddToQueue(ready, p) ELSE ready
    IN  /\ UserMode
        /\ at' = [at EXCEPT ![current] = "exit"]
        /\ Schedule([st EXCEPT ![current] = "ZOMBIE"], rd)
        /\ UNCHANGED <<parent, ticksLeft, nextPid, avail, halted>>

ParentBlocked ==
    parent[current] # NULL /\ state[parent[current]] = "WAITING"

SysExitNoWake == Exit(FALSE)
SysExit == Exit(ParentBlocked)

\* sys_exec of a loadable file: the child is created READY at the end of the
\* ready queue, then the caller becomes its parent and blocks.  An exec that
\* fails (no file, no ELF) returns -1 and changes nothing here.
Exec(childParent, callerState) ==
    LET child == nextPid IN
    /\ UserMode
    /\ nextPid <= MaxTasks
    /\ nextPid' = nextPid + 1
    /\ parent' = [parent EXCEPT ![child] = childParent]
    /\ ticksLeft' = [ticksLeft EXCEPT ![child] = TimeSlice]
    /\ at' = [at EXCEPT ![child] = "run"]
    /\ Schedule([state EXCEPT ![child] = "READY", ![current] = callerState],
                AddToQueue(ready, child))
    /\ UNCHANGED <<avail, halted>>

SysExecNoParent == Exec(NULL, "WAITING")
SysExecNoBlock == Exec(current, "RUNNING")
SysExec == Exec(current, "WAITING")

\* sys_read from the keyboard, ring empty: block.  The same test runs again
\* when the task gets the CPU back inside the loop.
SysReadBlock ==
    /\ UserMode \/ InRead
    /\ avail = 0
    /\ at' = [at EXCEPT ![current] = "read"]
    /\ Schedule([state EXCEPT ![current] = "WAIT"], ready)
    /\ UNCHANGED <<parent, ticksLeft, nextPid, avail, halted>>

\* sys_read, ring not empty: take k bytes (up to the caller's count, a newline,
\* a Ctrl+C or a NUL) and return to user mode.
SysReadTake(k) ==
    /\ UserMode \/ InRead
    /\ avail > 0
    /\ k <= avail
    /\ avail' = avail - k
    /\ at' = [at EXCEPT ![current] = "run"]
    /\ UNCHANGED <<current, state, parent, ticksLeft, ready, waitq, nextPid,
                   halted>>

\* sys_ping enables interrupts (arp_resolve, ping) and polls; the task stays
\* RUNNING in kernel mode and may be preempted until the call returns.
SysPing ==
    /\ UserMode
    /\ at' = [at EXCEPT ![current] = "ping"]
    /\ UNCHANGED <<current, state, parent, ticksLeft, ready, waitq, nextPid,
                   avail, halted>>

PingReturn ==
    /\ ~halted /\ at[current] = "ping"
    /\ at' = [at EXCEPT ![current] = "run"]
    /\ UNCHANGED <<current, state, parent, ticksLeft, ready, waitq, nextPid,
                   avail, halted>>

\* page_fault_handler kills the task: it becomes a zombie and schedule() is
\* called, but no parent is woken.  If schedule() returns, so does the handler.
PageFaultKill ==
    /\ UserMode
    /\ Schedule([state EXCEPT ![current] = "ZOMBIE"], ready)
    /\ UNCHANGED <<parent, ticksLeft, at, nextPid, avail, halted>>

\* sys_shutdown, or an exception isr_handler stops at (invalid opcode, general
\* protection, ..., a page fault in kernel mode while sys_read copies to an
\* unmapped buffer): IF = 0 for ever.
Halt ==
    /\ UserMode \/ InRead
    /\ halted' = TRUE
    /\ UNCHANGED <<current, state, parent, ticksLeft, at, ready, waitq,
                   nextPid, avail>>

----------------------------------------------------------------------------
\* task_init makes kernel_main task 0; load_elf("/shell.elf") may fail.
Init ==
    /\ current = Idle
    /\ nextPid \in {1, 2}
    /\ state = [t \in Task |-> IF t = Idle THEN "RUNNING"
                               ELSE IF t < nextPid THEN "READY" ELSE "NONE"]
    /\ ready = IF nextPid = 2 THEN <<1>> ELSE <<>>
    /\ waitq = <<>>
    /\ parent = [t \in Task |-> NULL]
    /\ ticksLeft = [t \in Task |-> TimeSlice]
    /\ at = [t \in Task |-> "run"]
    /\ avail = 0
    /\ halted = FALSE

Next ==
    \/ Tick
    \/ \E n \in 1 .. RingCap + 1 : KeyboardWake(n)
    \/ SysExit
    \/ SysExec
    \/ SysReadBlock
    \/ \E k \in 0 .. RingCap : SysReadTake(k)
    \/ SysPing
    \/ PingReturn
    \/ PageFaultKill
    \/ Halt

Spec == Init /\ [][Next]_vars

\* The timer keeps ticking (PIT at 1000 Hz) and the CPU keeps executing the
\* kernel code it is in; user programs and the person typing owe nothing.
ReadLoop ==
    InRead /\ (SysReadBlock \/ \E k \in 0 .. RingCap : SysReadTake(k))

FairSpec == Spec /\ WF_vars(Tick) /\ WF_vars(ReadLoop)

----------------------------------------------------------------------------
(* Properties *)

TypeOK ==
    /\ current \in Task
    /\ state \in [Task -> TaskState]
    /\ parent \in [Task -> Task \cup {NULL}]
    /\ ticksLeft \in [Task -> 1 .. TimeSlice]
    /\ at \in [Task -> Place]
    /\ ready \in Seq(Task)
    /\ waitq \in Seq(Task)
    /\ nextPid \in 1 .. MaxTasks + 1
    /\ avail \in 0 .. RingCap
    /\ halted \in BOOLEAN

\* A queue holds exactly the tasks in state s, each once.
Holds(q, s) ==
    /\ Range(q) = {t \in Task : state[t] = s}
    /\ \A i, j \in DOMAIN q : q[i] = q[j] => i = j

\* The current task is the one RUNNING task, the ready queue holds the READY
\* tasks and the wait queue the WAIT tasks, each once: no task is lost,
\* queued twice or scheduled in a state that says it must not run.
QueuesMatchStates ==
    /\ \A t \in Task : state[t] = "RUNNING" <=> t = current
    /\ Holds(ready, "READY")
    /\ Holds(waitq, "WAIT")

\* The idle task never blocks, so the ready queue is never empty when a user
\* task gives up the CPU: the branch of schedule() for an empty queue never
\* lets a blocked or dead task run on, and sys_exit's endless loop is never
\* executed.
IdleCanRun ==
    /\ state[Idle] \in {"RUNNING", "READY"}
    /\ at[Idle] = "run"
    /\ at[current] # "exit"

\* At most one user task at a time is neither blocked in sys_exec nor dead:
\* this is what makes the kernel's static buffers (sys_exec's arg_bufs, the
\* FAT code's) and its unlocked drivers safe.
Runnable(t) == state[t] \in {"RUNNING", "READY", "WAIT"}

OneForeground ==
    \A s, t \in User : Runnable(s) /\ Runnable(t) => s = t

\* No wakeup is lost: a task sits in the wait queue only while the ring is
\* empty, and a task woken inside sys_read finds a byte when it gets the CPU
\* (nobody else drained the ring in between), so it never blocks again.
NoLostWakeup ==
    \A t \in Task :
        /\ state[t] = "WAIT" => at[t] = "read" /\ avail = 0
        /\ at[t] = "read" /\ state[t] # "WAIT" => avail > 0

\* The user tasks that have not ended form one chain of execs by age: the
\* parent of each is the next older one, every parent is blocked in sys_exec,
\* and only the youngest can run.
Dead(t) == state[t] \in {"NONE", "ZOMBIE"}

ForegroundChain ==
    \A c \in User : ~Dead(c) =>
        /\ parent[c] # NULL =>
             parent[c] \in User /\ parent[c] < c /\ state[parent[c]] = "WAITING"
        /\ \A q \in User : ~Dead(q) /\ q < c => parent[c] # NULL /\ q <= parent[c]
        /\ Runnable(c) => \A q \in User : ~Dead(q) => q <= c

\* A task blocked in sys_exec waits for a child that is not gone, unless a
\* page fault killed it: sys_exit has woken the parent of every task that left
\* through it, however deep the chain of execs.
ExitWakesParent ==
    \A p \in Task : state[p] = "WAITING" =>
        \E c \in User :
            /\ parent[c] = p
            /\ state[c] # "NONE"
            /\ state[c] = "ZOMBIE" => at[c] # "exit"

\* sys_exec returns only in the step in which the caller's own youngest child
\* exits, and a dead task never changes state again.
ExecReturnsOnChildExit ==
    [][\A t \in Task :
        /\ state[t] = "WAITING" /\ state'[t] # "WAITING" =>
             /\ parent[current] = t
             /\ \A c \in User : parent[c] = t => state'[c] = "ZOMBIE"
        /\ state[t] = "ZOMBIE" => state'[t] = "ZOMBIE"]_vars

\* Every task that is ready gets the CPU, unless the machine stops.
ReadyRuns ==
    \A t \in Task : state[t] = "READY" ~> (state[t] = "RUNNING" \/ halted)

\* A reader for whom input has arrived leaves sys_read.
ReaderServed ==
    \A t \in Task : (at[t] = "read" /\ avail > 0) ~> (at[t] # "read" \/ halted)

\* What the user sees of all this is a stack of programs (see Foreground).
Alive == {t \in User : ~Dead(t)}
TopTask == IF \E t \in User : Runnable(t)
           THEN CHOOSE t \in User : Runnable(t) ELSE Idle

F == INSTANCE Foreground WITH alive <- Alive, fg <- TopTask, last <- nextPid - 1

\* The scheduler implements the stack of programs.
ImplementsForeground == F!Spec

\* The inductive invariant of the proofs: the invariants above, and that the
\* saved contexts and the unused pids agree with the states.
Contexts ==
    /\ \A t \in Task : at[t] = "read" => state[t] \in {"WAIT", "READY", "RUNNING"}
    /\ \A t \in Task : at[t] = "exit" => state[t] = "ZOMBIE"
    /\ \A t \in User : state[t] = "NONE" <=> t >= nextPid
    /\ \A t \in User : state[t] = "NONE" => parent[t] = NULL

IInv ==
    /\ TypeOK
    /\ QueuesMatchStates
    /\ IdleCanRun
    /\ OneForeground
    /\ NoLostWakeup
    /\ ForegroundChain
    /\ ExitWakesParent
    /\ Contexts

\* README: "the child's exit wakes the parent automatically".  Taken to cover
\* every end of a child, a WAITING task has a child that is not dead.
WaitingHasLiveChild ==
    \A p \in Task : state[p] = "WAITING" =>
        \E c \in User : parent[c] = p /\ ~Dead(c)
=============================================================================
