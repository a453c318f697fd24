-------------------------------- MODULE Heap --------------------------------
(***************************************************************************)
(* The kernel heap (src/mm/kheap.c): first fit over a doubly linked list of *)
(* blocks, each a header and its data, with splitting on allocation and     *)
(* merging of neighbours on release.                                        *)
(*                                                                          *)
(* Addresses and sizes count units of 8 bytes, the alignment of kmalloc.    *)
(* blk holds the headers of the blocks in the list.  A header that a merge  *)
(* takes out of the list is data of the merged block from then on, and blk  *)
(* forgets it.  Since the links agree with the addresses (LinksAgree), a    *)
(* walk along next visits the blocks by address.                            *)
(***************************************************************************)
EXTENDS Integers, FiniteSets, Functions

CONSTANTS
    Hdr,        \* sizeof(header_t) / 8
    Sizes,      \* bound: what is asked of kmalloc, rounded up to 8 bytes
    HeapEnd     \* bound: where the heap stops growing (KHEAP_MAX is not checked)

ASSUME HeapAssumption ==
    /\ Hdr \in Nat \ {0}
    /\ Sizes \subseteq Nat
    /\ HeapEnd \in Nat

First == 0      \* heap_first
NIL == -1       \* the NULL of a link: address 0 is the first block

VARIABLES
    blk,        \* header_t of each block, by address
    live        \* what the callers hold: requested size by address of the data

heapVars == <<blk, live>>

Block == DOMAIN blk
End(a) == a + Hdr + blk[a].size
Data(a) == a + Hdr

----------------------------------------------------------------------------
\* The blocks kmalloc(n) can use and the one it takes, the first in the list.
FitsInUse(n) == {a \in Block : blk[a].size >= n /\ blk[a].size > 0}
Fits(n) == {a \in Block : blk[a].is_free /\ blk[a].size >= n /\ blk[a].size > 0}
FirstFit(n) == CHOOSE a \in Fits(n) : \A b \in Fits(n) : a <= b
LastBlock == CHOOSE a \in Block : blk[a].next = NIL

Header(size, is_free, prev, next) ==
    [size |-> size, is_free |-> is_free, prev |-> prev, next |-> next]

\* Set the prev pointer of block a, if there is one.
SetPrev(b, a, p) == IF a = NIL THEN b ELSE [b EXCEPT ![a].prev = p]

Given(a, n) == live' = [x \in DOMAIN live \cup {Data(a)} |-> IF x = Data(a) THEN n ELSE live[x]]

\* It is larger than asked for by another header and 8 bytes at least.
Roomy(n) == Fits(n) # {} /\ blk[FirstFit(n)].size >= n + Hdr + 1

\* kmalloc: a block that leaves no room for another header and 8 bytes is
\* given away whole.
TakeWhole(n) ==
    LET a == FirstFit(n)
    IN  /\ Fits(n) # {} /\ ~Roomy(n)
        /\ blk' = [blk EXCEPT ![a].is_free = FALSE]
        /\ Given(a, n)

\* kmalloc: cut off the rest of a larger block as a free block, and link the
\* block behind back to it.
Rest(n) == Data(FirstFit(n)) + n
Cut(n) ==
    LET a == FirstFit(n)
    IN  [x \in Block \cup {Rest(n)} |->
            IF x = Rest(n) THEN Header(blk[a].size - n - Hdr, TRUE, a, blk[a].next)
            ELSE IF x = a THEN Header(n, FALSE, blk[a].prev, Rest(n))
            ELSE blk[x]]

SplitUnlinked(n) == Roomy(n) /\ blk' = Cut(n) /\ Given(FirstFit(n), n)
Split(n) ==
    /\ Roomy(n)
    /\ blk' = SetPrev(Cut(n), blk[FirstFit(n)].next, Rest(n))
    /\ Given(FirstFit(n), n)

\* kmalloc: nothing has been allocated yet.
Fresh == LastBlock = First /\ blk[First].size = 0

\* kmalloc: nothing fits.  The heap grows behind the last block; the very
\* first block, of size 0, is used itself.
Extend(n) ==
    LET a    == IF Fresh THEN First ELSE End(LastBlock)
        last == Header(n, FALSE, IF Fresh THEN blk[First].prev ELSE LastBlock, NIL)
    IN  /\ Fits(n) = {}
        /\ Data(a) + n <= HeapEnd
        /\ blk' = [x \in Block \cup {a} |->
                      IF x = a THEN last
                      ELSE IF x = LastBlock THEN [blk[x] EXCEPT !.next = a]
                      ELSE blk[x]]
        /\ Given(a, n)

\* Block b, which follows a, becomes part of it.
Absorb(b, a) ==
    LET n == b[a].next
    IN  SetPrev([x \in DOMAIN b \ {n} |->
                    IF x = a THEN Header(b[a].size + Hdr + b[n].size, TRUE, b[a].prev, b[n].next)
                    ELSE b[x]],
                b[n].next, a)

\* kfree of a pointer kmalloc returned: merge with the next block, then with
\* the previous one.
MergeNextBlind(b, a) == IF b[a].next # NIL THEN Absorb(b, a) ELSE b
MergeNext(b, a) == IF b[a].next # NIL /\ b[b[a].next].is_free THEN Absorb(b, a) ELSE b
MergePrevSkipped(b, a) == b
MergePrev(b, a) == IF b[a].prev # NIL /\ b[b[a].prev].is_free THEN Absorb(b, b[a].prev) ELSE b

Free(a) ==
    /\ Data(a) \in DOMAIN live
    /\ blk' = MergePrev(MergeNext([blk EXCEPT ![a].is_free = TRUE], a), a)
    /\ live' = Restrict(live, DOMAIN live \ {Data(a)})

\* kheap_init
HeapInit ==
    /\ blk = [a \in {First} |-> Header(0, TRUE, NIL, NIL)]
    /\ live = <<>>

\* The first request is task_init's, for a PCB; an empty file executed later
\* makes load_elf ask for 0 bytes.
Requested(n) == Fresh => n > 0

HeapNext ==
    \/ \E n \in Sizes : Requested(n) /\ (TakeWhole(n) \/ Split(n) \/ Extend(n))
    \/ \E a \in Block : Free(a)

HeapSpec == HeapInit /\ [][HeapNext]_heapVars

----------------------------------------------------------------------------
HeapTypeOK ==
    /\ IsFiniteSet(Block) /\ Block \subseteq Nat
    /\ blk \in [Block -> [size : Nat, is_free : BOOLEAN,
                          prev : Nat \cup {NIL}, next : Nat \cup {NIL}]]

\* The list is doubly linked in address order, without gaps or overlaps, from
\* the first block to the only one without a successor.
LinksAgree ==
    /\ HeapTypeOK
    /\ First \in Block /\ blk[First].prev = NIL
    /\ \E a \in Block : blk[a].next = NIL
    /\ \A a \in Block :
        /\ blk[a].next = NIL => \A b \in Block : b <= a
        /\ blk[a].next # NIL =>
              blk[a].next \in Block /\ blk[a].next = End(a) /\ blk[blk[a].next].prev = a
        /\ \A b \in Block : a < b => End(a) <= b

\* Freed neighbours are always one block: memory given back is available to
\* a request of its full size.
FreeBlocksMerged ==
    \A a \in Block : blk[a].is_free /\ blk[a].next # NIL => ~blk[blk[a].next].is_free

\* The blocks in use are the ones the callers hold, with the size asked for or
\* the little more that was not worth a block of its own.
BlocksMatchCallers ==
    /\ DOMAIN live = {Data(a) : a \in {b \in Block : ~blk[b].is_free}}
    /\ \A a \in Block : ~blk[a].is_free =>
          live[Data(a)] <= blk[a].size /\ blk[a].size <= live[Data(a)] + Hdr

\* The heap implements the allocator: what a caller gets overlaps nothing that
\* anybody holds.
Promise == INSTANCE Allocator
ImplementsAllocator == Promise!Spec
=============================================================================
