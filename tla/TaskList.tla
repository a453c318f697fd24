------------------------------ MODULE TaskList ------------------------------
(***************************************************************************)
(* The queues of src/kernel/task.c as the code keeps them: two head         *)
(* pointers and one next pointer per task, which both queues share.  Sched  *)
(* has the callers of these functions with sequences for queues; here any   *)
(* number of tasks may be ready or waiting, the calls are those the callers *)
(* may make, and the lists are shown to implement the queues of RunQueues.  *)
(***************************************************************************)
EXTENDS Naturals, FiniteSets, Functions

CONSTANTS
    Task,   \* the PCBs
    Idle,   \* the PCB of kernel_main
    NULL    \* the null pointer

ASSUME TaskListAssumption == IsFiniteSet(Task) /\ Idle \in Task /\ NULL \notin Task

VARIABLES
    current,    \* current_task
    state,      \* task->state, "NONE" for a PCB not allocated yet
    readyHead,  \* ready_queue
    waitHead,   \* wait_queue
    next        \* task->next

vars == <<current, state, readyHead, waitHead, next>>

----------------------------------------------------------------------------
\* The list from head as a sequence; a list that runs in a circle shows as
\* one that is longer than there are tasks.
Walk(head, nx) ==
    LET node[n \in 0 .. Cardinality(Task)] ==
            IF n = 0 THEN head
            ELSE IF node[n - 1] = NULL THEN NULL ELSE nx[node[n - 1]]
    IN  [i \in {n + 1 : n \in {m \in DOMAIN node : node[m] # NULL}} |-> node[i - 1]]

On(head, nx) == Range(Walk(head, nx))

\* task_add_to_queue(&head, t): t's next pointer is cleared before the list is
\* searched for t; when t is not found it is linked behind the last task.
Linked(list, nx, t) ==
    IF t \in list THEN nx
    ELSE [x \in Task |-> IF x \in list /\ nx[x] = NULL THEN t ELSE nx[x]]

AddToQueue(head, nx, t) ==
    LET cleared == [nx EXCEPT ![t] = NULL]
    IN  [head |-> IF head = NULL THEN t ELSE head,
         next |-> Linked(On(head, cleared), cleared, t)]

\* task_wakeup(&wait_queue): the waiters leave one by one for the end of the
\* ready queue.  Successor tells which task comes after t, given the pointers
\* before and after t was added.
LateSuccessor(t, before, after) == after[t]
Successor(t, before, after) == before[t]

Woken ==
    LET added(q) == AddToQueue(q.head, q.next, q.task)
        step[n \in 0 .. Cardinality(Task)] ==
            IF n = 0 THEN [head |-> readyHead, next |-> next, task |-> waitHead]
            ELSE LET q == step[n - 1] IN
                 IF q.task = NULL THEN q
                 ELSE [head |-> added(q).head,
                       next |-> added(q).next,
                       task |-> Successor(q.task, q.next, added(q).next)]
    IN  step[Cardinality(Task)]

----------------------------------------------------------------------------
\* A PCB is allocated with next = NULL and queued (create_user_task_from_elf),
\* or a blocked parent is made READY and queued (sys_exit).
Enqueue(t) ==
    LET q == AddToQueue(readyHead, [next EXCEPT ![t] = NULL], t)
    IN  /\ state[t] \in {"NONE", "WAITING"}
        /\ state' = [state EXCEPT ![t] = "READY"]
        /\ readyHead' = q.head
        /\ next' = q.next
        /\ UNCHANGED <<current, waitHead>>

\* schedule() with an empty ready queue returns to its caller.
ScheduleNothingReady(st) ==
    /\ readyHead = NULL
    /\ state' = IF st[current] = "WAIT" THEN [st EXCEPT ![current] = "RUNNING"] ELSE st
    /\ UNCHANGED <<current, readyHead, waitHead, next>>

\* schedule(): nxt gets the CPU, the ready queue begins with rest, and the
\* task that had the CPU is queued according to its state.
SwitchTo(popped, st) ==
    LET nxt     == readyHead
        rest    == next[readyHead]
        asReady == AddToQueue(rest, popped, current)
        asWait  == AddToQueue(waitHead, popped, current)
    IN  /\ readyHead # NULL
        /\ current' = nxt
        /\ state' = [st EXCEPT ![current] = IF @ = "RUNNING" THEN "READY" ELSE @,
                               ![nxt] = "RUNNING"]
        /\ readyHead' = IF st[current] = "RUNNING" THEN asReady.head ELSE rest
        /\ waitHead' = IF st[current] = "WAIT" THEN asWait.head ELSE waitHead
        /\ next' = CASE st[current] = "RUNNING" -> asReady.next
                     [] st[current] = "WAIT"    -> asWait.next
                     [] OTHER                   -> popped

Popped == [next EXCEPT ![readyHead] = NULL]

ScheduleUnpopped(st) == SwitchTo(next, st)
ScheduleNext(st) == SwitchTo(Popped, st)

\* The current task calls schedule() in state s: RUNNING from the timer, WAIT
\* from sys_read, WAITING from sys_exec, ZOMBIE from sys_exit or a page fault.
\* The idle task is only ever preempted.
GiveUp(s) ==
    /\ current = Idle => s = "RUNNING"
    /\ LET st == [state EXCEPT ![current] = s]
       IN  ScheduleNothingReady(st) \/ ScheduleNext(st)

Wakeup ==
    /\ readyHead' = Woken.head
    /\ next' = Woken.next
    /\ waitHead' = NULL
    /\ state' = [t \in Task |-> IF t \in On(waitHead, next) THEN "READY" ELSE state[t]]
    /\ UNCHANGED current

Init ==
    /\ current = Idle
    /\ state = [t \in Task |-> IF t = Idle THEN "RUNNING" ELSE "NONE"]
    /\ readyHead = NULL /\ waitHead = NULL
    /\ next = [t \in Task |-> NULL]

Next ==
    \/ \E t \in Task : Enqueue(t)
    \/ \E s \in {"RUNNING", "WAIT", "WAITING", "ZOMBIE"} : GiveUp(s)
    \/ Wakeup

Spec == Init /\ [][Next]_vars

----------------------------------------------------------------------------
TypeOK ==
    /\ current \in Task
    /\ state \in [Task -> {"NONE", "RUNNING", "READY", "ZOMBIE", "WAIT", "WAITING"}]
    /\ readyHead \in Task \cup {NULL}
    /\ waitHead \in Task \cup {NULL}
    /\ next \in [Task -> Task \cup {NULL}]

\* The next pointers followed from head come to NULL.
Ends(head, nx) == head = NULL \/ \E t \in On(head, nx) : nx[t] = NULL

\* Both lists end (the loops of task_add_to_queue and task_wakeup run until
\* they find NULL), no task is on both, no pointer leads from one into the
\* other or out of a task that is on neither, and every task's state says
\* which list it is on.
ListsMatchStates ==
    /\ TypeOK
    /\ Ends(readyHead, next) /\ Ends(waitHead, next)
    /\ On(readyHead, next) = {t \in Task : state[t] = "READY"}
    /\ On(waitHead, next) = {t \in Task : state[t] = "WAIT"}
    /\ \A t \in Task : next[t] # NULL => state[t] \in {"READY", "WAIT"}
    /\ \A s, t \in Task : next[s] = next[t] /\ next[s] # NULL => s = t

\* The lists implement the queues.
Q == INSTANCE RunQueues WITH ready <- Walk(readyHead, next), waitq <- Walk(waitHead, next)
ImplementsQueues == Q!Spec
=============================================================================
