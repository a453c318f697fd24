------------------------------ MODULE MCLists ------------------------------
\* The kernel's two linked structures, the task queues and the heap's blocks.
\* They share no state: a behaviour exercises one of them, the other stays as it
\* was after boot.
EXTENDS TaskList, Heap

CONSTANTS t1, t2, t3, t4, t5

MCTask == {Idle, t1, t2, t3, t4, t5}

ListsInit == Init /\ HeapInit
ListsNext ==
    \/ Next /\ HeapInit /\ UNCHANGED heapVars
    \/ HeapNext /\ Init /\ UNCHANGED vars
ListsSpec == ListsInit /\ [][ListsNext]_<<vars, heapVars>>
=============================================================================
