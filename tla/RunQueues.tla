----------------------------- MODULE RunQueues -----------------------------
(***************************************************************************)
(* What the queue functions of src/kernel/task.c promise: two first-in-     *)
(* first-out queues.  A task is in the ready queue, in the wait queue or in *)
(* neither; the CPU goes to the head of the ready queue.                    *)
(***************************************************************************)
EXTENDS Sequences, Functions

CONSTANTS Task, Idle

VARIABLES current, ready, waitq

qvars == <<current, ready, waitq>>

Init == current = Idle /\ ready = <<>> /\ waitq = <<>>

\* A task that is in no queue and does not run becomes ready.
MakeReady(t) ==
    /\ t \notin {current} \cup Range(ready) \cup Range(waitq)
    /\ ready' = Append(ready, t)
    /\ UNCHANGED <<current, waitq>>

\* The current task gives up the CPU and goes to the end of the ready queue,
\* to the end of the wait queue, or to neither.
GiveUp ==
    /\ ready # <<>>
    /\ current' = Head(ready)
    /\ \/ ready' = Append(Tail(ready), current) /\ UNCHANGED waitq
       \/ ready' = Tail(ready) /\ waitq' = Append(waitq, current)
       \/ ready' = Tail(ready) /\ UNCHANGED waitq

\* All waiting tasks become ready, the longest waiting one first.
WakeAll ==
    /\ ready' = ready \o waitq
    /\ waitq' = <<>>
    /\ UNCHANGED current

Next == (\E t \in Task : MakeReady(t)) \/ GiveUp \/ WakeAll

Spec == Init /\ [][Next]_qvars
=============================================================================
