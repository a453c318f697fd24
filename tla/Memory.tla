------------------------------- MODULE Memory -------------------------------
(***************************************************************************)
(* Physical frames and address spaces: the bitmap of src/mm/pmm.c, map_page,*)
(* page directories and the page fault handler of src/mm/vmm.c, the frames  *)
(* a loaded program takes (src/kernel/elf.c), sys_sbrk                      *)
(* (src/kernel/syscall.c), and the pages under the kernel heap.             *)
(*                                                                          *)
(* Frames and pages are numbered; addresses are bytes of pages of PageSize  *)
(* bytes.  Frame NULL is what pmm_alloc_block returns when no frame is left.*)
(* The kernel reaches frame f at address PHYS_TO_VIRT(f), but for one: the  *)
(* first page of the kernel heap, at PHYS_TO_VIRT(HeapBase), was mapped to  *)
(* frame HeapFirst instead.  The heap's further pages are the frames after  *)
(* HeapBase themselves.                                                     *)
(*                                                                          *)
(* Kernel code runs with interrupts off, so each action is a whole call.    *)
(* The model ends when a program was given memory that the kernel's heap    *)
(* already uses, or frame NULL: then the kernel writes over its own data.   *)
(***************************************************************************)
EXTENDS Integers, FiniteSets, FiniteSetsExt, Sequences

CONSTANTS
    Proc,           \* bound: programs alive at a time
    LastFrame,      \* frames 1 .. LastFrame follow the kernel image
    HeapBase,       \* the frame at whose address the kernel heap begins
    MaxHeapPages,   \* bound: pages the kernel heap may cover
    PageSize,
    Space,          \* addresses wrap around here (2^32)
    PerTable,       \* pages of one page table
    HeapStart,      \* heap_start, an address
    MaxBrk,         \* bound: heaps grow no further than the program image (124 MB away)
    StackLow,       \* the lowest page the stack may grow to (0xBFF00)
    KernelPage,     \* the first page of the kernel (KERNEL_VIRT_OFFSET)
    Images,         \* the pages of the LOAD segments of each program file
    Increments      \* bound: what programs pass to sbrk, 32-bit integers

ASSUME MemoryAssumption ==
    /\ LastFrame \in Nat /\ HeapBase \in 2 .. LastFrame /\ MaxHeapPages \in Nat \ {0}
    /\ PageSize \in Nat \ {0} /\ PerTable \in Nat \ {0}
    /\ KernelPage \in Nat /\ StackLow \in 0 .. KernelPage - 2
    /\ Space \in Nat /\ Space >= KernelPage * PageSize
    /\ HeapStart \in 0 .. KernelPage * PageSize - 1 /\ HeapStart % PageSize = 0
    /\ MaxBrk \in Nat /\ Increments \subseteq Int
    /\ Images \subseteq Seq(0 .. StackLow - 1)
    /\ \A img \in Images : \A i \in DOMAIN img : MaxBrk <= img[i] * PageSize

NULL == 0
NONE == -1          \* an entry without PAGE_PRESENT
Frame == 1 .. LastFrame
UserPage == 0 .. KernelPage - 1
Table == {v \div PerTable : v \in UserPage}
HeapFirst == 1

VARIABLES
    bitmap,         \* the frames marked as used
    space,          \* the page directory, tables and pages of each program
    brk,            \* heap_end of each program
    alive,          \* the programs loaded and not ended, reusing the names of ended ones
    strayed,        \* history variable: those of them whose break a negative increment
                    \* has moved up
    heap_pages      \* the pages the kernel heap covers

vars == <<bitmap, space, brk, alive, strayed, heap_pages>>

----------------------------------------------------------------------------
\* pmm_alloc_block: the first frame whose bit is clear.
FirstFreeFromTop(used) == IF Frame \subseteq used THEN NULL ELSE Max(Frame \ used)
FirstFree(used) == IF Frame \subseteq used THEN NULL ELSE Min(Frame \ used)
MarkedNot(used, f) == used
Marked(used, f) == IF f = NULL THEN used ELSE used \cup {f}

\* A call under way: the bitmap, the address space it works on, and whether it
\* has run out of frames.
AddPage(s, v, f) == [s EXCEPT !.page[v] = f]

\* map_page: a missing page table takes a frame first, whether or not there is
\* one; the entry of page v then replaces what was there.
map_page(s, v, f) ==
    LET t == v \div PerTable
        pt == FirstFree(s.used)
    IN  IF s.table[t] # NONE THEN AddPage(s, v, f)
        ELSE AddPage([s EXCEPT !.used = Marked(@, pt), !.table[t] = pt], v, f)

\* A frame for page v, then the mapping.
MapNew(s, v) ==
    LET f == FirstFree(s.used) IN map_page([s EXCEPT !.used = Marked(@, f)], v, f)

NoSpace ==
    [dir |-> NONE, table |-> [t \in Table |-> NONE], page |-> [v \in UserPage |-> NONE]]

Call(used, sp) ==
    [used |-> used, dir |-> sp.dir, table |-> sp.table, page |-> sp.page, failed |-> FALSE]

\* vmm_create_user_directory
NewSpace(used) ==
    LET d == FirstFree(used)
    IN  Call(Marked(used, d), [NoSpace EXCEPT !.dir = d])

\* load_elf_with_args: the pages of the segments, then two frames for the stack
\* and their mappings.  Nothing checks that there were frames.
MapStack(s) ==
    LET f1 == FirstFree(s.used)
        f2 == FirstFree(Marked(s.used, f1))
        t == [s EXCEPT !.used = Marked(Marked(@, f1), f2)]
    IN  map_page(map_page(t, KernelPage - 2, f1), KernelPage - 1, f2)

LoadedImage(used, img) ==
    LET s[n \in 0 .. Len(img)] == IF n = 0 THEN NewSpace(used) ELSE MapNew(s[n-1], img[n])
    IN  MapStack(s[Len(img)])

AddressSpace(s) == [dir |-> s.dir, table |-> s.table, page |-> s.page]
Working(p) == Call(bitmap, space[p])

Commit(p, s) == bitmap' = s.used /\ space' = [space EXCEPT ![p] = AddressSpace(s)]

\* kmalloc may have to take the heap past its last page.
HeapGrows == heap_pages' \in heap_pages .. MaxHeapPages

----------------------------------------------------------------------------
\* What the model says nothing beyond: see the head of the module.
TableFrames(p) == {space[p].dir} \cup {space[p].table[t] : t \in Table}
PageFrames(p) == {space[p].page[v] : v \in UserPage}
LoadedFrames(p) == {space[p].page[v] : v \in {KernelPage - 2, KernelPage - 1} \cup
                                             {w \in 0 .. StackLow - 1 : MaxBrk <= w * PageSize}}

\* The frames of the heap's further pages belong to no program, and no frame
\* that the kernel itself fills lies, in its eyes, on the heap's first page.
KernelHeapReserved ==
    \A p \in alive :
        /\ \A k \in 1 .. heap_pages - 1 : HeapBase + k \notin TableFrames(p) \cup PageFrames(p)
        /\ HeapBase \notin TableFrames(p) \cup LoadedFrames(p)

NoNullFrame == \A p \in alive : NULL \notin TableFrames(p) \cup PageFrames(p)

Sound == KernelHeapReserved /\ NoNullFrame

----------------------------------------------------------------------------
\* sys_exec's load_elf_with_args and create_user_task_from_elf.
Load(p, img) ==
    /\ p \notin alive
    /\ Commit(p, LoadedImage(bitmap, img))
    /\ brk' = [brk EXCEPT ![p] = HeapStart]
    /\ alive' = alive \cup {p}
    /\ HeapGrows
    /\ UNCHANGED strayed

\* sys_sbrk maps the pages from the old break to the new one.
FirstPageOld(old) == old \div PageSize
FirstPage(old) == IF old % PageSize = 0 THEN old \div PageSize ELSE old \div PageSize + 1
EndPageDown(new) == new \div PageSize
EndPage(new) == (new + PageSize - 1) \div PageSize

\* The frame is asked for first: without one the loop returns.
SbrkPage(s, v) ==
    IF s.failed \/ FirstFree(s.used) = NULL THEN [s EXCEPT !.failed = TRUE] ELSE MapNew(s, v)

NewPages(old, new) == IF FirstPage(old) < EndPage(new) THEN EndPage(new) - FirstPage(old) ELSE 0

SbrkPages(p, new) ==
    LET s[n \in 0 .. NewPages(brk[p], new)] ==
            IF n = 0 THEN Working(p) ELSE SbrkPage(s[n-1], FirstPage(brk[p]) + n - 1)
    IN  s[NewPages(brk[p], new)]

NewBrk(p, inc) == (brk[p] + inc) % Space
BelowKernel(a) == a < KernelPage * PageSize

SbrkUp(p, inc) ==
    LET new == NewBrk(p, inc)
        s == SbrkPages(p, new)
    IN  /\ p \in alive /\ inc > 0 /\ BelowKernel(new) /\ (new <= MaxBrk \/ p \in strayed)
        /\ Commit(p, s)
        /\ brk' = [brk EXCEPT ![p] = IF s.failed THEN @ ELSE new]
        /\ UNCHANGED <<alive, strayed, heap_pages>>

\* A negative increment moves the break and unmaps nothing.  It maps nothing
\* either, although one below -1 GB moves the break up when the sum is negative
\* and wraps around to an address below the kernel.
SbrkDown(p, inc) ==
    /\ p \in alive /\ inc < 0 /\ BelowKernel(NewBrk(p, inc))
    /\ brk' = [brk EXCEPT ![p] = NewBrk(p, inc)]
    /\ strayed' = IF NewBrk(p, inc) > brk[p] THEN strayed \cup {p} ELSE strayed
    /\ UNCHANGED <<bitmap, space, alive, heap_pages>>

\* A program that ends gives nothing back: its frames stay marked.  Its
\* directory is not used again, and the model forgets it.
Ended(p) ==
    /\ alive' = alive \ {p}
    /\ strayed' = strayed \ {p}
    /\ space' = [space EXCEPT ![p] = NoSpace]
    /\ brk' = [brk EXCEPT ![p] = 0]
    /\ UNCHANGED <<bitmap, heap_pages>>

\* page_fault_handler, in user mode on a page that is not present: the stack
\* grows while there are frames; anything else kills the program.
StackPage(v) == StackLow <= v

StackFault(p, v) ==
    /\ p \in alive /\ space[p].page[v] = NONE /\ StackPage(v)
    /\ FirstFree(bitmap) # NULL
    /\ Commit(p, MapNew(Working(p), v))
    /\ UNCHANGED <<brk, alive, strayed, heap_pages>>

Segfault(p, v) ==
    /\ p \in alive /\ space[p].page[v] = NONE
    /\ StackPage(v) => FirstFree(bitmap) = NULL
    /\ Ended(p)

\* sys_exit
Exit(p) ==
    /\ p \in alive
    /\ Ended(p)

\* Any other kmalloc of the kernel: files, network frames, task_init.
KernelAllocates ==
    /\ heap_pages < MaxHeapPages /\ HeapGrows
    /\ UNCHANGED <<bitmap, space, brk, alive, strayed>>

----------------------------------------------------------------------------
\* After kernel_init: vmm_init has taken the first frame for the heap, whose
\* first blocks fit on one page.
Init ==
    /\ bitmap = Marked({}, FirstFree({}))
    /\ space = [p \in Proc |-> NoSpace]
    /\ brk = [p \in Proc |-> 0]
    /\ alive = {}
    /\ strayed = {}
    /\ heap_pages = 1

Next ==
    /\ Sound
    /\ \/ \E p \in Proc :
            \/ \E img \in Images : Load(p, img)
            \/ \E inc \in Increments : SbrkUp(p, inc) \/ SbrkDown(p, inc)
            \/ \E v \in UserPage : StackFault(p, v) \/ Segfault(p, v)
            \/ Exit(p)
       \/ KernelAllocates

Spec == Init /\ [][Next]_vars

----------------------------------------------------------------------------
TypeOK ==
    /\ bitmap \subseteq Frame
    /\ space \in [Proc -> [dir : Frame \cup {NULL, NONE}, table : [Table -> Frame \cup {NULL, NONE}],
                           page : [UserPage -> Frame \cup {NULL, NONE}]]]
    /\ brk \in [Proc -> 0 .. KernelPage * PageSize - 1]
    /\ alive \subseteq Proc /\ strayed \subseteq alive
    /\ heap_pages \in 1 .. MaxHeapPages

\* What holds a frame: directories, page tables and pages of living programs.
Holders ==
    LET Entries(p) == {<<p, "dir", 0, space[p].dir>>} \cup
                      {<<p, "table", t, space[p].table[t]>> : t \in Table} \cup
                      {<<p, "page", v, space[p].page[v]>> : v \in UserPage}
    IN  {e \in UNION {Entries(p) : p \in alive} : e[4] \in Frame}

\* No frame has two uses, in one program or in two, whatever the order of
\* loading, growing, faulting and dying; each is marked in the bitmap, and none
\* is the heap's first page.  (Frame NULL, handed out when there is no other, is
\* not a frame here.)
FramesPrivate ==
    /\ TypeOK
    /\ \A d, e \in Holders : d[4] = e[4] => d = e
    /\ \A e \in Holders : e[4] \in bitmap /\ e[4] # HeapFirst

\* The break stays below the kernel, and every byte from heap_start to it is
\* backed by a page, also after calls that failed half-way, moved the break back,
\* or were refused because the sum wrapped around at 4 GB.  It is not backed after
\* a negative increment that was accepted and moved it up.
BreakBacked ==
    \A p \in alive :
        /\ brk[p] < KernelPage * PageSize
        /\ p \notin strayed =>
              \A a \in HeapStart .. brk[p] - 1 : space[p].page[a \div PageSize] # NONE

\* The kernel's heap lies on frames the bitmap has as free.  No program is given
\* one of them, and none is given frame NULL, before all frames below the heap
\* have been taken.
SoundWhileFramesLast == ~(1 .. HeapBase - 1 \subseteq bitmap) => Sound

\* The pages that hold data of program p: image, stack, and heap below the break.
Holding(p) ==
    {v \in UserPage :
        /\ space[p].page[v] # NONE
        /\ \/ v * PageSize >= MaxBrk
           \/ v * PageSize < brk[p] /\ (v + 1) * PageSize > HeapStart}

\* As long as a program lives, no step of its own or of another moves its data
\* to a different frame, except that it may release the top of its heap.  A heap
\* that grows from a break gone astray takes over pages of the image and the stack.
DataStays ==
    [][\A p \in (alive \cap alive') \ strayed :
          \A v \in Holding(p) : space'[p].page[v] = space[p].page[v]]_vars
=============================================================================
