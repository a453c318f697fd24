---------------------------- MODULE MemoryProofs ----------------------------
(***************************************************************************)
(* Proofs about the two modules on memory.  First, module Memory, for any   *)
(* number of programs and frames, any sizes of pages and tables, and        *)
(* program files of any length; then, from HeapIInv on, module Heap, for    *)
(* any size of a header, any sizes of requests and a heap of any length.    *)
(***************************************************************************)
EXTENDS Memory, Heap, NatFacts

Entry == Frame \cup {NULL, NONE}
Spaces == [dir : Entry, table : [Table -> Entry], page : [UserPage -> Entry]]
Calls == [used : SUBSET Frame, dir : Entry, table : [Table -> Entry],
          page : [UserPage -> Entry], failed : BOOLEAN]

----------------------------------------------------------------------------
(* The inductive invariant.  Its parts are stated about any address space s *)
(* and any set of used frames: a call works on them in many steps.          *)

Entries(s) == {s.dir} \cup {s.table[t] : t \in Table} \cup {s.page[v] : v \in UserPage}
Frames(s) == Entries(s) \cap Frame

\* No frame appears twice in s.
Distinct(s) ==
    /\ \A t, u \in Table : s.table[t] \in Frame /\ s.table[t] = s.table[u] => t = u
    /\ \A v, w \in UserPage : s.page[v] \in Frame /\ s.page[v] = s.page[w] => v = w
    /\ \A t \in Table, v \in UserPage : s.table[t] \in Frame => s.table[t] # s.page[v]
    /\ s.dir \in Frame => /\ \A t \in Table : s.table[t] # s.dir
                          /\ \A v \in UserPage : s.page[v] # s.dir

\* The frames of s are marked, and frame NULL is among its entries only if
\* there was no other.
Owns(s, used) ==
    /\ Distinct(s)
    /\ Frames(s) \subseteq used
    /\ NULL \in Entries(s) => Frame \subseteq used

\* Frames are handed out from the lowest on.
Segment(used) == used \subseteq Frame /\ \A f \in used, g \in Frame : g < f => g \in used

Ownership ==
    /\ Segment(bitmap) /\ HeapFirst \in bitmap
    /\ \A p \in alive : Owns(space[p], bitmap) /\ HeapFirst \notin Frames(space[p])
    /\ \A p, q \in alive : p # q => Frames(space[p]) \cap Frames(space[q]) = {}

IInv == TypeOK /\ Ownership /\ BreakBacked

----------------------------------------------------------------------------
(* One call: what it has done so far *)

Fine(s) == s \in Calls /\ Segment(s.used) /\ Owns(s, s.used)

\* From s to t a call has taken frames that were free and given none away.
Grows(s, t) == s.used \subseteq t.used /\ Frames(t) \subseteq Frames(s) \cup (t.used \ s.used)

LEMMA Constants == NULL = 0 /\ NONE = -1 /\ HeapFirst = 1 /\ HeapFirst \in Frame
                   /\ NULL \notin Frame /\ NONE \notin Frame /\ NULL # NONE
                   /\ Frame \subseteq Nat
BY MemoryAssumption DEF NULL, NONE, HeapFirst, Frame

LEMMA GrowsTransitive ==
    ASSUME NEW r, NEW s, NEW t, Grows(r, s), Grows(s, t)
    PROVE  Grows(r, t)
BY DEF Grows

\* pmm_alloc_block finds the lowest free frame, if there is one.
LEMMA FirstFreeIs ==
    ASSUME NEW used, Segment(used), NEW f, f = FirstFree(used)
    PROVE  /\ f \in Frame \cup {NULL} /\ f \notin used
           /\ f = NULL <=> Frame \subseteq used
           /\ Segment(Marked(used, f)) /\ Marked(used, f) = used \cup ({f} \cap Frame)
<1>0. used \subseteq Frame /\ Frame \subseteq Nat /\ NULL \notin Frame
  BY Constants DEF Segment
<1>1. CASE Frame \subseteq used
  BY <1>0, <1>1 DEF FirstFree, Marked
<1>2. CASE ~(Frame \subseteq used)
  <2>1. Frame \ used \subseteq Nat /\ Frame \ used # {}
    BY <1>0, <1>2
  <2>2. \E m \in Frame \ used : \A n \in Frame \ used : m <= n
    BY <2>1, NatMinimum
  <2>3. f \in Frame \ used /\ \A n \in Frame \ used : f <= n
    BY <1>2, <2>2 DEF FirstFree, Min
  <2>4. f # NULL /\ Marked(used, f) = used \cup {f}
    BY <1>0, <2>3 DEF Marked
  <2>5. Segment(used \cup {f})
    <3> SUFFICES ASSUME NEW a \in used \cup {f}, NEW g \in Frame, g < a
                 PROVE  g \in used \cup {f}
      BY <1>0, <2>3 DEF Segment
    <3>1. CASE a = f
      BY <1>0, <2>3, <3>1
    <3>2. CASE a # f
      BY <3>2 DEF Segment
    <3> QED
      BY <3>1, <3>2
  <2> QED
    BY <1>2, <2>3, <2>4, <2>5
<1> QED
  BY <1>1, <1>2

\* Entering frame f for page v.
LEMMA AddPageIs ==
    ASSUME NEW s, Fine(s), NEW v \in UserPage, NEW f \in Frame \cup {NULL},
           f \notin Frames(s), f \in s.used \/ Frame \subseteq s.used,
           NEW t, t = AddPage(s, v, f)
    PROVE  /\ Fine(t) /\ t.used = s.used /\ t.failed = s.failed
           /\ t.page[v] = f /\ \A w \in UserPage \ {v} : t.page[w] = s.page[w]
           /\ Frames(t) \subseteq Frames(s) \cup {f}
<1>1. /\ t.used = s.used /\ t.failed = s.failed /\ t.dir = s.dir /\ t.table = s.table
      /\ t.page = [s.page EXCEPT ![v] = f] /\ t \in Calls
  BY DEF AddPage, Fine, Calls, Entry
<1>2. s.page \in [UserPage -> Entry]
  BY DEF Fine, Calls
<1>3. t.page[v] = f /\ \A w \in UserPage \ {v} : t.page[w] = s.page[w]
  BY <1>1, <1>2
<1>4. Entries(t) \subseteq Entries(s) \cup {f}
  BY <1>1, <1>3 DEF Entries
<1>5. Distinct(t)
  <2>1. f \in Frame => /\ s.dir # f /\ \A x \in Table : s.table[x] # f
                       /\ \A w \in UserPage : s.page[w] # f
    BY DEF Frames, Entries
  <2> QED
    BY <1>1, <1>3, <2>1 DEF Fine, Owns, Distinct
<1>6. Frames(t) \subseteq Frames(s) \cup {f} /\ Frames(t) \subseteq t.used
  BY <1>1, <1>4 DEF Frames, Fine, Owns
<1>7. NULL \in Entries(t) => Frame \subseteq t.used
  BY <1>1, <1>4, Constants DEF Fine, Owns, Calls
<1> QED
  BY <1>1, <1>3, <1>5, <1>6, <1>7 DEF Fine, Owns

\* Entering a fresh page table.
AddTable(s, i) ==
    [s EXCEPT !.used = Marked(@, FirstFree(s.used)), !.table[i] = FirstFree(s.used)]

LEMMA AddTableIs ==
    ASSUME NEW s, Fine(s), NEW i \in Table, NEW t, t = AddTable(s, i)
    PROVE  /\ Fine(t) /\ Grows(s, t) /\ t.failed = s.failed /\ t.page = s.page
<1> DEFINE f == FirstFree(s.used)
<1>0. s \in Calls /\ Segment(s.used) /\ Owns(s, s.used)
  BY DEF Fine
<1>1. /\ f \in Frame \cup {NULL} /\ f \notin s.used
      /\ f = NULL <=> Frame \subseteq s.used
      /\ Segment(Marked(s.used, f)) /\ Marked(s.used, f) = s.used \cup ({f} \cap Frame)
  BY <1>0, FirstFreeIs
<1> HIDE DEF f
<1>2. Marked(s.used, f) \subseteq Frame
  BY <1>1 DEF Segment
<1>3. /\ t.used = Marked(s.used, f) /\ t.failed = s.failed /\ t.dir = s.dir
      /\ t.table = [s.table EXCEPT ![i] = f] /\ t.page = s.page /\ t \in Calls
  <2>1. t = [s EXCEPT !.used = Marked(@, f), !.table[i] = f]
    BY DEF AddTable, f
  <2> DEFINE m == Marked(s.used, f)
  <2>2. t = [s EXCEPT !.used = m, !.table[i] = f] /\ m \in SUBSET Frame /\ f \in Entry
    BY <1>1, <1>2, <2>1 DEF Entry
  <2> HIDE DEF m
  <2>3. /\ t.used = m /\ t.failed = s.failed /\ t.dir = s.dir
        /\ t.table = [s.table EXCEPT ![i] = f] /\ t.page = s.page
    BY <1>0, <2>2 DEF Calls
  <2>4. t \in Calls
    <3> DEFINE tb == [s.table EXCEPT ![i] = f]
    <3>1. tb \in [Table -> Entry]
      BY <1>0, <2>2 DEF Calls
    <3>2. t = [used |-> m, dir |-> s.dir, table |-> tb, page |-> s.page, failed |-> s.failed]
      BY <1>0, <2>2 DEF Calls
    <3> HIDE DEF tb
    <3> QED
      BY <1>0, <2>2, <3>1, <3>2 DEF Calls
  <2> QED
    BY <2>3, <2>4 DEF m
<1>4. s.table \in [Table -> Entry]
  BY <1>0 DEF Calls
<1>5. t.table[i] = f /\ \A x \in Table \ {i} : t.table[x] = s.table[x]
  BY <1>3, <1>4
<1>6. Entries(t) \subseteq Entries(s) \cup {f}
  BY <1>3, <1>5 DEF Entries
<1>7. Distinct(t)
  <2>1. f \in Frame => /\ s.dir # f /\ \A x \in Table : s.table[x] # f
                       /\ \A w \in UserPage : s.page[w] # f
    BY <1>0, <1>1 DEF Owns, Frames, Entries
  <2> QED
    BY <1>0, <1>3, <1>5, <2>1 DEF Owns, Distinct
<1>8. Frames(t) \subseteq Frames(s) \cup ({f} \cap Frame)
  BY <1>6 DEF Frames
<1>9. Frames(t) \subseteq t.used /\ Grows(s, t)
  BY <1>0, <1>1, <1>3, <1>8 DEF Owns, Grows
<1>10. NULL \in Entries(t) => Frame \subseteq t.used
  BY <1>0, <1>1, <1>3, <1>6 DEF Owns
<1> QED
  BY <1>1, <1>3, <1>7, <1>9, <1>10 DEF Fine, Owns

\* map_page keeps the frames apart: the one it is given, the ones there were and
\* the one it may take for a page table.
LEMMA MapPageIs ==
    ASSUME NEW s, Fine(s), NEW v \in UserPage, NEW f \in Frame \cup {NULL},
           f \notin Frames(s), f \in s.used \/ Frame \subseteq s.used,
           NEW t, t = map_page(s, v, f)
    PROVE  /\ Fine(t) /\ t.failed = s.failed
           /\ t.page[v] = f /\ \A w \in UserPage \ {v} : t.page[w] = s.page[w]
           /\ s.used \subseteq t.used
           /\ Frames(t) \subseteq Frames(s) \cup {f} \cup (t.used \ s.used)
<1> DEFINE i == v \div PerTable
           r == AddTable(s, i)
<1>1. i \in Table
  BY DEF Table
<1>2. CASE s.table[i] # NONE
  <2>1. t = AddPage(s, v, f)
    BY <1>2 DEF map_page
  <2> QED
    BY <2>1, AddPageIs
<1>3. CASE s.table[i] = NONE
  <2>1. t = AddPage(r, v, f)
    BY <1>3 DEF map_page, AddTable
  <2>2. Fine(r) /\ Grows(s, r) /\ r.failed = s.failed /\ r.page = s.page
    BY <1>1, AddTableIs
  <2> HIDE DEF r
  <2>3. f \notin Frames(r)
    <3>1. f \in Frame => f \in s.used
      OBVIOUS
    <3> QED
      BY <2>2, <3>1 DEF Grows, Frames
  <2>4. f \in r.used \/ Frame \subseteq r.used
    BY <2>2 DEF Grows
  <2>5. /\ Fine(t) /\ t.used = r.used /\ t.failed = r.failed
        /\ t.page[v] = f /\ \A w \in UserPage \ {v} : t.page[w] = r.page[w]
        /\ Frames(t) \subseteq Frames(r) \cup {f}
    BY <2>1, <2>2, <2>3, <2>4, AddPageIs
  <2> QED
    BY <2>2, <2>5 DEF Grows
<1> QED
  BY <1>2, <1>3

\* A frame taken from the bitmap and not yet entered anywhere.
Take(s) == [s EXCEPT !.used = Marked(@, FirstFree(s.used))]

LEMMA TakeIs ==
    ASSUME NEW s, Fine(s), NEW f, f = FirstFree(s.used), NEW t, t = Take(s)
    PROVE  /\ Fine(t) /\ Grows(s, t) /\ Frames(t) = Frames(s)
           /\ t.page = s.page /\ t.failed = s.failed
           /\ f \in Frame \cup {NULL} /\ f \notin s.used
           /\ f = NULL => Frame \subseteq s.used
           /\ f \in t.used \/ Frame \subseteq t.used
<1> DEFINE m == Marked(s.used, f)
<1>0. s \in Calls /\ Segment(s.used) /\ Owns(s, s.used)
  BY DEF Fine
<1>1. /\ f \in Frame \cup {NULL} /\ f \notin s.used /\ (f = NULL <=> Frame \subseteq s.used)
      /\ Segment(m) /\ m = s.used \cup ({f} \cap Frame)
  BY <1>0, FirstFreeIs
<1>2. m \in SUBSET Frame /\ t = [s EXCEPT !.used = m]
  BY <1>1 DEF Segment, Take
<1> HIDE DEF m
<1>3. /\ t \in Calls /\ t.used = m /\ t.dir = s.dir /\ t.table = s.table /\ t.page = s.page
      /\ t.failed = s.failed
  BY <1>0, <1>2 DEF Calls
<1>4. Entries(t) = Entries(s) /\ Frames(t) = Frames(s) /\ (Distinct(s) => Distinct(t))
  BY <1>3 DEF Entries, Frames, Distinct
<1>5. Fine(t)
  BY <1>0, <1>1, <1>3, <1>4 DEF Fine, Owns
<1> QED
  BY <1>1, <1>3, <1>4, <1>5 DEF Grows

\* A new frame for page v.
LEMMA MapNewIs ==
    ASSUME NEW s, Fine(s), NEW v \in UserPage, NEW t, t = MapNew(s, v)
    PROVE  /\ Fine(t) /\ Grows(s, t) /\ t.failed = s.failed
           /\ t.page[v] # NONE /\ \A w \in UserPage \ {v} : t.page[w] = s.page[w]
<1> DEFINE f == FirstFree(s.used)
           r == Take(s)
<1>1. /\ Fine(r) /\ Grows(s, r) /\ Frames(r) = Frames(s)
      /\ r.page = s.page /\ r.failed = s.failed
      /\ f \in Frame \cup {NULL} /\ f \notin s.used
      /\ f \in r.used \/ Frame \subseteq r.used
  BY TakeIs
<1>2. t = map_page(r, v, f)
  BY DEF MapNew, Take
<1> HIDE DEF f, r
<1>3. f \notin Frames(r)
  BY <1>1 DEF Fine, Owns
<1>4. /\ Fine(t) /\ t.failed = r.failed
      /\ t.page[v] = f /\ \A w \in UserPage \ {v} : t.page[w] = r.page[w]
      /\ r.used \subseteq t.used
      /\ Frames(t) \subseteq Frames(r) \cup {f} \cup (t.used \ r.used)
  BY <1>1, <1>2, <1>3, MapPageIs
<1>5. Grows(s, t)
  <2>1. Frames(t) \subseteq Frame /\ NULL \notin Frame
    BY Constants DEF Frames
  <2>2. f \in Frames(t) => f \in t.used \ s.used
    BY <1>1, <1>4, <2>1 DEF Fine, Owns
  <2> QED
    BY <1>1, <1>4, <2>2 DEF Grows
<1>6. f # NONE
  BY <1>1, Constants
<1> QED
  BY <1>1, <1>4, <1>5, <1>6

\* A fresh directory owns its own frame and nothing else.
LEMMA NewSpaceIs ==
    ASSUME NEW used, Segment(used), NEW t, t = NewSpace(used)
    PROVE  Fine(t) /\ used \subseteq t.used /\ Frames(t) \subseteq t.used \ used
<1> DEFINE d == FirstFree(used)
<1>1. /\ d \in Frame \cup {NULL} /\ d \notin used /\ (d = NULL <=> Frame \subseteq used)
      /\ Segment(Marked(used, d)) /\ Marked(used, d) = used \cup ({d} \cap Frame)
  BY FirstFreeIs
<1> HIDE DEF d
<1>2. [NoSpace EXCEPT !.dir = d]
        = [dir |-> d, table |-> [x \in Table |-> NONE], page |-> [v \in UserPage |-> NONE]]
  BY DEF NoSpace
<1>3. t = [used |-> Marked(used, d), dir |-> d, table |-> [x \in Table |-> NONE],
           page |-> [v \in UserPage |-> NONE], failed |-> FALSE]
  BY <1>2 DEF NewSpace, Call, d
<1>4. /\ t.used = Marked(used, d) /\ t.dir = d /\ \A x \in Table : t.table[x] = NONE
      /\ \A v \in UserPage : t.page[v] = NONE
  BY <1>3
<1>5. t \in Calls
  BY <1>1, <1>3 DEF Calls, Entry, Segment
<1>6. Entries(t) \subseteq {d, NONE}
  BY <1>4 DEF Entries
<1>7. Distinct(t)
  BY <1>4, Constants DEF Distinct
<1>8. Frames(t) \subseteq {d} \cap Frame
  BY <1>6, Constants DEF Frames
<1>9. NULL \in Entries(t) => Frame \subseteq t.used
  BY <1>1, <1>4, <1>6, Constants
<1>10. Frames(t) \subseteq t.used \ used /\ used \subseteq t.used
  BY <1>1, <1>4, <1>8
<1> QED
  BY <1>1, <1>4, <1>5, <1>7, <1>9, <1>10 DEF Fine, Owns

\* The two frames of the stack are taken before either is mapped, and the
\* mappings may take others for page tables: all of them differ.
LEMMA MapStackIs ==
    ASSUME NEW s, Fine(s), NEW t, t = MapStack(s)
    PROVE  Fine(t) /\ Grows(s, t)
<1> DEFINE r1 == Take(s)
           r2 == Take(r1)
           f1 == FirstFree(s.used)
           f2 == FirstFree(r1.used)
           v1 == KernelPage - 2
           v2 == KernelPage - 1
           m == map_page(r2, v1, f1)
<1>1. v1 \in UserPage /\ v2 \in UserPage
  BY MemoryAssumption DEF UserPage
<1>2. /\ Fine(r1) /\ Grows(s, r1) /\ Frames(r1) = Frames(s)
      /\ f1 \in Frame \cup {NULL} /\ f1 \notin s.used
      /\ f1 \in r1.used \/ Frame \subseteq r1.used
  BY TakeIs
<1>3. /\ Fine(r2) /\ Grows(r1, r2) /\ Frames(r2) = Frames(r1)
      /\ f2 \in Frame \cup {NULL} /\ f2 \notin r1.used
      /\ f2 \in r2.used \/ Frame \subseteq r2.used
  BY <1>2, TakeIs
<1>4. t = map_page(m, v2, f2)
  <2>1. r1.used = Marked(s.used, f1) /\ r2 = [s EXCEPT !.used = Marked(Marked(@, f1), f2)]
    BY DEF Take, Fine, Calls
  <2>2. f2 = FirstFree(Marked(s.used, f1))
    BY <2>1
  <2> QED
    BY <2>1, <2>2 DEF MapStack
<1> HIDE DEF r1, r2, f1, f2, v1, v2
<1>5. Frames(s) \subseteq s.used /\ s.used \subseteq r1.used /\ r1.used \subseteq r2.used
  BY <1>2, <1>3 DEF Fine, Owns, Grows
<1>6. NULL \notin Frame /\ Frames(m) \subseteq Frame /\ Frames(t) \subseteq Frame
  BY Constants DEF Frames
<1>7. /\ Fine(m) /\ r2.used \subseteq m.used
      /\ Frames(m) \subseteq Frames(s) \cup {f1} \cup (m.used \ r2.used)
  <2>1. f1 \notin Frames(r2) /\ (f1 \in r2.used \/ Frame \subseteq r2.used)
    BY <1>2, <1>3, <1>5
  <2>2. /\ Fine(m) /\ r2.used \subseteq m.used
        /\ Frames(m) \subseteq Frames(r2) \cup {f1} \cup (m.used \ r2.used)
    <3>1. m = map_page(r2, v1, f1)
      OBVIOUS
    <3> HIDE DEF m
    <3> QED
      BY <1>1, <1>2, <1>3, <2>1, <3>1, MapPageIs
  <2> QED
    BY <1>2, <1>3, <2>2
<1> HIDE DEF m
<1>8. f2 \notin Frames(m) /\ (f2 \in m.used \/ Frame \subseteq m.used)
  <2>1. f2 \in Frame => f2 \in r2.used /\ f2 # f1
    BY <1>2, <1>3, <1>6
  <2> QED
    BY <1>3, <1>5, <1>6, <1>7, <2>1
<1>9. /\ Fine(t) /\ m.used \subseteq t.used
      /\ Frames(t) \subseteq Frames(m) \cup {f2} \cup (t.used \ m.used)
  <2>1. f2 \in Frame \cup {NULL} /\ Fine(m)
    BY <1>3, <1>7
  <2> QED
    <3>1. v2 \in UserPage /\ t = map_page(m, v2, f2) /\ f2 \notin Frames(m)
      BY <1>1, <1>4, <1>8
    <3>2. f2 \in m.used \/ Frame \subseteq m.used
      BY <1>8
    <3> QED
      BY <2>1, <3>1, <3>2, MapPageIs
<1>10. Grows(s, t)
  <2>1. Frames(t) \subseteq t.used
    BY <1>9 DEF Fine, Owns
  <2> QED
    BY <1>2, <1>3, <1>5, <1>6, <1>7, <1>9, <2>1 DEF Grows
<1> QED
  BY <1>9, <1>10

\* Loading a program: every frame it has was free, however many pages the file
\* asks for, and also if there are not enough.
LEMMA LoadedImageIs ==
    ASSUME NEW used, Segment(used), NEW img \in Images, NEW t, t = LoadedImage(used, img)
    PROVE  Fine(t) /\ used \subseteq t.used /\ Frames(t) \subseteq t.used \ used
<1> DEFINE N == Len(img)
           S == {x \in Calls : Fine(x)}
           P == {x \in S : used \subseteq x.used /\ Frames(x) \subseteq x.used \ used}
           step == [n \in Nat |-> [x \in S |-> IF n + 1 \in 1 .. N THEN MapNew(x, img[n + 1]) ELSE x]]
           s[n \in 0 .. N] == IF n = 0 THEN NewSpace(used) ELSE MapNew(s[n-1], img[n])
<1>1. N \in Nat /\ \A n \in 1 .. N : img[n] \in UserPage
  <2>1. img \in Seq(0 .. StackLow - 1)
    BY MemoryAssumption
  <2>2. N \in Nat /\ \A n \in 1 .. N : img[n] \in 0 .. StackLow - 1
    <3> DEFINE A == 0 .. StackLow - 1
    <3>1. img \in Seq(A)
      BY <2>1
    <3> HIDE DEF A
    <3>2. N \in Nat /\ \A n \in 1 .. N : img[n] \in A
      BY <3>1
    <3> QED
      BY <3>2 DEF A
  <2> QED
    BY <2>2, MemoryAssumption DEF UserPage
<1> HIDE DEF N
<1>2. NewSpace(used) \in P
  BY NewSpaceIs DEF Fine
<1>3. ASSUME NEW x \in S, NEW v \in UserPage
      PROVE  MapNew(x, v) \in S /\ (x \in P => MapNew(x, v) \in P)
  <2>1. Fine(MapNew(x, v)) /\ Grows(x, MapNew(x, v))
    BY <1>3, MapNewIs
  <2>2. MapNew(x, v) \in S
    BY <2>1 DEF Fine
  <2>3. Frames(MapNew(x, v)) \subseteq MapNew(x, v).used
    BY <2>1 DEF Fine, Owns
  <2> QED
    BY <2>1, <2>2, <2>3 DEF Grows
<1>4. NewSpace(used) \in S
  BY <1>2
<1> HIDE DEF S, P
<1>5. step \in Steps(S)
  <2>1. \A n \in Nat : [x \in S |-> IF n + 1 \in 1 .. N THEN MapNew(x, img[n + 1]) ELSE x] \in [S -> S]
    BY <1>1, <1>3
  <2> QED
    BY <2>1 DEF Steps
<1>6. PICK g \in [0 .. N -> S] :
            g[0] = NewSpace(used) /\ \A i \in 0 .. N - 1 : g[i + 1] = step[i][g[i]]
  <2> DEFINE x0 == NewSpace(used)
  <2>1. x0 \in S
    BY <1>4
  <2> HIDE DEF step, x0
  <2>2. Runs(S, x0, step, N) # {}
    BY <1>1, <1>5, <2>1, LoopStates
  <2> QED
    BY <2>2 DEF x0, Runs
<1>7. \A i \in 0 .. N - 1 : g[i + 1] = MapNew(g[i], img[i + 1])
  <2> SUFFICES ASSUME NEW i \in 0 .. N - 1 PROVE g[i + 1] = MapNew(g[i], img[i + 1])
    OBVIOUS
  <2>1. i \in Nat /\ i + 1 \in 1 .. N /\ g[i] \in S
    BY <1>1
  <2> QED
    BY <1>6, <2>1
<1>8. g = [n \in 0 .. N |-> IF n = 0 THEN NewSpace(used) ELSE MapNew(g[n-1], img[n])]
  <2>1. \A n \in 0 .. N : g[n] = IF n = 0 THEN NewSpace(used) ELSE MapNew(g[n-1], img[n])
    <3> SUFFICES ASSUME NEW n \in 0 .. N, n # 0 PROVE g[n] = MapNew(g[n-1], img[n])
      BY <1>6
    <3>1. n - 1 \in 0 .. N - 1 /\ (n - 1) + 1 = n
      BY <1>1
    <3> QED
      BY <1>7, <3>1
  <2> QED
    BY <2>1
<1>9. s = [n \in 0 .. N |-> IF n = 0 THEN NewSpace(used) ELSE MapNew(s[n-1], img[n])]
  BY <1>8
<1>10. t = MapStack(s[N])
  BY DEF LoadedImage, N
<1> HIDE DEF s
<1>11. s[0] = NewSpace(used) /\ \A i \in 0 .. N - 1 : s[i + 1] = MapNew(s[i], img[i + 1])
  <2>1. s[0] = NewSpace(used)
    BY <1>1, <1>9
  <2>2. ASSUME NEW i \in 0 .. N - 1
        PROVE  s[i + 1] = MapNew(s[i], img[i + 1])
    <3>1. i + 1 \in 0 .. N /\ i + 1 # 0 /\ (i + 1) - 1 = i
      BY <1>1
    <3> QED
      BY <1>9, <3>1
  <2> QED
    BY <2>1, <2>2
<1>12. \A i \in 0 .. N : s[i] \in P
  <2> DEFINE Ps == [i \in 0 .. N |-> P]
  <2>1. s[0] \in Ps[0]
    BY <1>1, <1>2, <1>11
  <2>2. \A i \in 0 .. N - 1 : s[i] \in Ps[i] => s[i + 1] \in Ps[i + 1]
    <3> SUFFICES ASSUME NEW i \in 0 .. N - 1, s[i] \in P PROVE s[i + 1] \in P
      BY <1>1
    <3>1. s[i] \in S
      BY DEF P
    <3>2. i + 1 \in 1 .. N
      BY <1>1
    <3> QED
      BY <1>1, <1>3, <1>11, <3>1, <3>2
  <2> HIDE DEF Ps
  <2>3. \A i \in 0 .. N : s[i] \in Ps[i]
    BY <1>1, <2>1, <2>2, LoopInvariant
  <2> QED
    BY <2>3 DEF Ps
<1>13. /\ Fine(s[N]) /\ used \subseteq s[N].used
       /\ Frames(s[N]) \subseteq s[N].used \ used
  BY <1>1, <1>12 DEF P, S
<1>14. Fine(t) /\ Grows(s[N], t)
  BY <1>10, <1>13, MapStackIs
<1>15. Frames(t) \subseteq t.used
  BY <1>14 DEF Fine, Owns
<1> QED
  BY <1>13, <1>14, <1>15 DEF Grows

----------------------------------------------------------------------------
(* sys_sbrk *)

\* The page of an address, and no address lies in two.
LEMMA PageOf ==
    ASSUME NEW a \in Nat, NEW v \in Int, v * PageSize <= a, a < (v + 1) * PageSize
    PROVE  v = a \div PageSize
<1>1. PageSize \in Nat \ {0}
  BY MemoryAssumption
<1> DEFINE q == a \div PageSize
<1>2. q \in Nat /\ PageSize * q <= a /\ a < PageSize * q + PageSize
  BY <1>1, Division
<1> HIDE DEF q
<1>3. ~(v < q)
  <2> SUFFICES ASSUME v + 1 <= q PROVE FALSE
    BY <1>2
  <2>1. PageSize * (v + 1) <= PageSize * q
    BY <1>1, <1>2, Products
  <2> QED
    BY <1>1, <1>2, <2>1
<1>4. ~(q < v)
  <2> SUFFICES ASSUME q + 1 <= v PROVE FALSE
    BY <1>2
  <2>1. PageSize * (q + 1) <= PageSize * v
    BY <1>1, <1>2, Products
  <2> QED
    BY <1>1, <1>2, <2>1
<1> QED
  BY <1>2, <1>3, <1>4 DEF q

\* The pages sys_sbrk maps begin at the old break or behind it, and hold
\* addresses below the new one.
LEMMA NewPagesIs ==
    ASSUME NEW old \in Nat, NEW new \in Nat, BelowKernel(new),
           NEW v \in Int, FirstPage(old) <= v, v < EndPage(new)
    PROVE  v \in UserPage /\ old <= v * PageSize /\ v * PageSize < new
<1>1. PageSize \in Nat \ {0} /\ KernelPage \in Nat
  BY MemoryAssumption
<1> DEFINE q == old \div PageSize
           e == EndPage(new)
           r == new + PageSize - 1
<1>2. q \in Nat /\ old % PageSize \in Nat /\ old = PageSize * q + (old % PageSize)
      /\ old < PageSize * q + PageSize
  BY <1>1, Division
<1>3. FirstPage(old) \in Nat /\ old <= PageSize * FirstPage(old)
  <2>1. CASE old % PageSize = 0
    BY <1>1, <1>2, <2>1 DEF FirstPage
  <2>2. CASE old % PageSize # 0
    <3>1. FirstPage(old) = q + 1
      BY <2>2 DEF FirstPage
    <3> QED
      BY <1>1, <1>2, <3>1
  <2> QED
    BY <2>1, <2>2
<1>4. e \in Nat /\ PageSize * e <= new + PageSize - 1
  <2>1. r \in Nat /\ e = r \div PageSize
    BY <1>1 DEF EndPage
  <2> HIDE DEF r, e
  <2>2. e \in Nat /\ PageSize * e <= r
    BY <1>1, <2>1, Division
  <2> QED
    BY <2>2 DEF r
<1> HIDE DEF e
<1>5. PageSize * FirstPage(old) <= PageSize * v
  BY <1>1, <1>3, Products
<1>6. PageSize * (v + 1) <= PageSize * e
  <2>1. v + 1 <= e
    BY <1>4 DEF e
  <2> QED
    BY <1>1, <1>4, <2>1, Products
<1>7. old <= v * PageSize /\ v * PageSize < new
  BY <1>1, <1>3, <1>4, <1>5, <1>6
<1>8. v \in Nat /\ v < KernelPage
  <2>1. v * PageSize < KernelPage * PageSize
    BY <1>1, <1>7 DEF BelowKernel
  <2>2. ~(KernelPage <= v)
    <3> SUFFICES ASSUME KernelPage <= v PROVE FALSE
      OBVIOUS
    <3>1. PageSize * KernelPage <= PageSize * v
      BY <1>1, Products
    <3> QED
      BY <1>1, <2>1, <3>1
  <2> QED
    BY <1>1, <1>3, <2>2
<1> QED
  BY <1>1, <1>7, <1>8 DEF UserPage

\* After sys_sbrk every byte below the new break lies on a page that it has just
\* mapped or that holds a byte below the old one.
LEMMA BreakIsCovered ==
    ASSUME NEW old \in Nat, NEW new \in Nat, NEW a \in HeapStart .. new - 1
    PROVE  \/ a \div PageSize \in FirstPage(old) .. EndPage(new) - 1
           \/ \E b \in HeapStart .. old - 1 : a \div PageSize = b \div PageSize
<1>1. PageSize \in Nat \ {0} /\ HeapStart \in Nat /\ HeapStart % PageSize = 0
  BY MemoryAssumption
<1> DEFINE q == old \div PageSize
           v == a \div PageSize
           h == HeapStart \div PageSize
           r == new + PageSize - 1
           e == EndPage(new)
<1>2. q \in Nat /\ old % PageSize \in Nat /\ old = PageSize * q + (old % PageSize)
      /\ old < PageSize * q + PageSize
  BY <1>1, Division
<1>3. v \in Nat /\ PageSize * v <= a /\ a < PageSize * v + PageSize /\ a \in Nat
  <2>1. a \in Nat
    BY <1>1
  <2> QED
    BY <1>1, <2>1, Division
<1>4. h \in Nat /\ HeapStart = PageSize * h
  BY <1>1, Division
<1>5. e \in Nat /\ new <= PageSize * e
  <2>1. r \in Nat /\ e = r \div PageSize
    BY <1>1 DEF EndPage
  <2> HIDE DEF r, e
  <2>2. e \in Nat /\ r < PageSize * e + PageSize
    BY <1>1, <2>1, Division
  <2> QED
    BY <1>1, <2>2 DEF r
<1> HIDE DEF q, v, h, e
<1>6. v < e
  <2> SUFFICES ASSUME e <= v PROVE FALSE
    BY <1>3, <1>5
  <2>1. PageSize * e <= PageSize * v
    BY <1>1, <1>3, <1>5, Products
  <2> QED
    BY <1>1, <1>3, <1>5, <2>1
<1>7. h <= v
  <2> SUFFICES ASSUME v + 1 <= h PROVE FALSE
    BY <1>3, <1>4
  <2>1. PageSize * (v + 1) <= PageSize * h
    BY <1>1, <1>3, <1>4, Products
  <2> QED
    BY <1>1, <1>3, <1>4, <2>1
<1>8. CASE FirstPage(old) <= v
  <2>1. FirstPage(old) \in Int
    BY <1>2 DEF FirstPage, q
  <2> QED
    BY <1>3, <1>5, <1>6, <1>8, <2>1 DEF v, e
<1>9. CASE ~(FirstPage(old) <= v)
  <2>1. CASE old % PageSize # 0 /\ v = q
    <3>1. PageSize * h <= PageSize * q
      BY <1>1, <1>2, <1>4, <1>7, <2>1, Products
    <3>2. old - 1 \in HeapStart .. old - 1
      BY <1>1, <1>2, <1>4, <2>1, <3>1
    <3>3. q * PageSize <= old - 1 /\ old - 1 < (q + 1) * PageSize /\ old - 1 \in Nat
      BY <1>1, <1>2, <2>1
    <3>4. q = (old - 1) \div PageSize
      BY <1>2, <3>3, PageOf
    <3> QED
      BY <2>1, <3>2, <3>4 DEF v
  <2>2. CASE ~(old % PageSize # 0 /\ v = q)
    <3>1. v + 1 <= q
      <4>1. FirstPage(old) = IF old % PageSize = 0 THEN q ELSE q + 1
        BY DEF FirstPage, q
      <4> QED
        BY <1>2, <1>3, <1>9, <2>2, <4>1
    <3>2. PageSize * (v + 1) <= PageSize * q
      BY <1>1, <1>2, <1>3, <3>1, Products
    <3>3. a < old
      BY <1>1, <1>2, <1>3, <3>2
    <3>4. a \in HeapStart .. old - 1
      BY <1>1, <3>3
    <3> QED
      BY <3>4
  <2> QED
    BY <2>1, <2>2
<1> QED
  BY <1>8, <1>9

\* One round of the loop: a page more, or the call has failed.
LEMMA SbrkPageIs ==
    ASSUME NEW s, Fine(s), NEW v \in UserPage, NEW t, t = SbrkPage(s, v)
    PROVE  /\ Fine(t) /\ Grows(s, t)
           /\ \A w \in UserPage \ {v} : t.page[w] = s.page[w]
           /\ s.page[v] # NONE => t.page[v] # NONE
           /\ ~t.failed => ~s.failed /\ t.page[v] # NONE
<1>1. CASE s.failed \/ FirstFree(s.used) = NULL
  <2>1. t = [s EXCEPT !.failed = TRUE]
    BY <1>1 DEF SbrkPage
  <2>2. /\ t \in Calls /\ t.used = s.used /\ t.dir = s.dir /\ t.table = s.table
        /\ t.page = s.page /\ t.failed = TRUE
    BY <2>1 DEF Fine, Calls
  <2>3. Entries(t) = Entries(s) /\ Frames(t) = Frames(s) /\ (Distinct(s) => Distinct(t))
    BY <2>2 DEF Entries, Frames, Distinct
  <2>4. Fine(t)
    BY <2>2, <2>3 DEF Fine, Owns
  <2> QED
    BY <2>2, <2>3, <2>4 DEF Grows
<1>2. CASE ~(s.failed \/ FirstFree(s.used) = NULL)
  <2>1. t = MapNew(s, v)
    BY <1>2 DEF SbrkPage
  <2> QED
    BY <2>1, <1>2, MapNewIs
<1> QED
  BY <1>1, <1>2

\* N rounds from page lo on: pages outside the range stay, pages mapped stay
\* mapped, and without a failure all pages of the range are mapped.
SbrkLoop(x0, lo, N) ==
    LET s[n \in 0 .. N] == IF n = 0 THEN x0 ELSE SbrkPage(s[n-1], lo + n - 1) IN s[N]

UserPages(lo, N) == \A n \in 0 .. N - 1 : lo + (n + 1) - 1 \in UserPage

\* What N rounds from page lo on make of x0.
Reached(x0, lo, N, t) ==
    /\ Fine(t) /\ Grows(x0, t)
    /\ \A v \in UserPage :
          /\ ~(lo <= v /\ v < lo + N) => t.page[v] = x0.page[v]
          /\ x0.page[v] # NONE => t.page[v] # NONE
          /\ ~t.failed /\ lo <= v /\ v < lo + N => t.page[v] # NONE

LEMMA SbrkLoopIs ==
    ASSUME NEW x0, Fine(x0), NEW lo \in Int, NEW N \in Nat, UserPages(lo, N),
           NEW t, t = SbrkLoop(x0, lo, N)
    PROVE  Reached(x0, lo, N, t)
<1> DEFINE S == {x \in Calls : Fine(x)}
           P(i) == {x \in S : /\ Grows(x0, x)
                              /\ \A v \in UserPage :
                                   /\ ~(lo <= v /\ v < lo + i) => x.page[v] = x0.page[v]
                                   /\ x0.page[v] # NONE => x.page[v] # NONE
                                   /\ ~x.failed /\ lo <= v /\ v < lo + i => x.page[v] # NONE}
           step == [n \in Nat |->
                      [x \in S |-> IF n \in 0 .. N - 1 THEN SbrkPage(x, lo + (n + 1) - 1) ELSE x]]
           s[n \in 0 .. N] == IF n = 0 THEN x0 ELSE SbrkPage(s[n-1], lo + n - 1)
<1>1. N \in Nat /\ lo \in Int /\ \A n \in 0 .. N - 1 : lo + (n + 1) - 1 \in UserPage
  BY DEF UserPages
<1>2. x0 \in P(0)
  <2>2. x0 \in S /\ Grows(x0, x0)
    BY DEF Fine, Grows
  <2>3. \A v \in UserPage : ~(lo <= v /\ v < lo + 0)
    BY <1>1 DEF UserPage
  <2> QED
    BY <2>2, <2>3
<1>3. \A n \in 0 .. N - 1, x \in S : SbrkPage(x, lo + (n + 1) - 1) \in S
  BY <1>1, SbrkPageIs DEF Fine
<1>4. ASSUME NEW n \in 0 .. N - 1, NEW x \in P(n)
      PROVE  SbrkPage(x, lo + (n + 1) - 1) \in P(n + 1)
  <2> DEFINE v == lo + (n + 1) - 1
             y == SbrkPage(x, v)
  <2>1. v \in UserPage /\ v \in Int /\ n \in Int
    BY <1>1 DEF UserPage
  <2>2. Fine(x) /\ Grows(x0, x)
    OBVIOUS
  <2> HIDE DEF v
  <2>3. /\ Fine(y) /\ Grows(x, y)
        /\ \A w \in UserPage \ {v} : y.page[w] = x.page[w]
        /\ x.page[v] # NONE => y.page[v] # NONE
        /\ ~y.failed => ~x.failed /\ y.page[v] # NONE
    BY <2>1, <2>2, SbrkPageIs
  <2> HIDE DEF y
  <2>4. y \in S /\ Grows(x0, y)
    BY <2>2, <2>3, GrowsTransitive DEF Fine
  <2>5. ASSUME NEW w \in UserPage
        PROVE  /\ ~(lo <= w /\ w < lo + (n + 1)) => y.page[w] = x0.page[w]
               /\ x0.page[w] # NONE => y.page[w] # NONE
               /\ ~y.failed /\ lo <= w /\ w < lo + (n + 1) => y.page[w] # NONE
    <3>1. /\ ~(lo <= w /\ w < lo + n) => x.page[w] = x0.page[w]
          /\ x0.page[w] # NONE => x.page[w] # NONE
          /\ ~x.failed /\ lo <= w /\ w < lo + n => x.page[w] # NONE
      OBVIOUS
    <3>2. w \in Int
      BY DEF UserPage
    <3>3. v = lo + n
      BY <1>1, <2>1 DEF v
    <3>4. (lo <= w /\ w < lo + (n + 1)) <=> (w = v \/ (lo <= w /\ w < lo + n))
      BY <1>1, <2>1, <3>2, <3>3
    <3>5. CASE w = v
      BY <2>3, <3>1, <3>4, <3>5
    <3>6. CASE w # v
      <4>1. y.page[w] = x.page[w]
        BY <2>3, <3>6
      <4> QED
        BY <2>3, <3>1, <3>4, <3>6, <4>1
    <3> QED
      BY <3>5, <3>6
  <2>6. y \in P(n + 1)
    BY <2>4, <2>5
  <2> QED
    BY <2>6 DEF y, v
<1>5. x0 \in S
  BY <1>2
<1>6. \A x \in P(N) : Reached(x0, lo, N, x)
  BY DEF Reached
<1> HIDE DEF S, P
<1>7. step \in Steps(S)
  <2>1. \A n \in Nat : [x \in S |-> IF n \in 0 .. N - 1 THEN SbrkPage(x, lo + (n + 1) - 1) ELSE x]
                          \in [S -> S]
    BY <1>3
  <2> QED
    BY <2>1 DEF Steps
<1>8. PICK g \in [0 .. N -> S] : g[0] = x0 /\ \A i \in 0 .. N - 1 : g[i + 1] = step[i][g[i]]
  <2> HIDE DEF step
  <2>1. Runs(S, x0, step, N) # {}
    BY <1>1, <1>5, <1>7, LoopStates
  <2> QED
    BY <2>1 DEF Runs
<1>9. \A i \in 0 .. N - 1 : g[i + 1] = SbrkPage(g[i], lo + (i + 1) - 1)
  <2> SUFFICES ASSUME NEW i \in 0 .. N - 1 PROVE g[i + 1] = SbrkPage(g[i], lo + (i + 1) - 1)
    OBVIOUS
  <2>1. i \in Nat /\ g[i] \in S
    BY <1>1
  <2> QED
    BY <1>8, <2>1
<1>10. g = [n \in 0 .. N |-> IF n = 0 THEN x0 ELSE SbrkPage(g[n-1], lo + n - 1)]
  <2>1. \A n \in 0 .. N : g[n] = IF n = 0 THEN x0 ELSE SbrkPage(g[n-1], lo + n - 1)
    <3> SUFFICES ASSUME NEW n \in 0 .. N, n # 0 PROVE g[n] = SbrkPage(g[n-1], lo + n - 1)
      BY <1>8
    <3>1. n - 1 \in 0 .. N - 1 /\ (n - 1) + 1 = n
      BY <1>1
    <3> QED
      BY <1>9, <3>1
  <2> QED
    BY <2>1
<1>11. s = [n \in 0 .. N |-> IF n = 0 THEN x0 ELSE SbrkPage(s[n-1], lo + n - 1)]
  BY <1>10
<1>12. t = s[N]
  BY DEF SbrkLoop
<1> HIDE DEF s
<1>13. s[0] = x0 /\ \A i \in 0 .. N - 1 : s[i + 1] = SbrkPage(s[i], lo + (i + 1) - 1)
  <2>1. s[0] = x0
    BY <1>1, <1>11
  <2>2. ASSUME NEW i \in 0 .. N - 1
        PROVE  s[i + 1] = SbrkPage(s[i], lo + (i + 1) - 1)
    <3>1. i + 1 \in 0 .. N /\ i + 1 # 0 /\ (i + 1) - 1 = i
      BY <1>1
    <3> QED
      BY <1>11, <3>1
  <2> QED
    BY <2>1, <2>2
<1>14. s[N] \in P(N)
  <2> DEFINE Ps == [i \in 0 .. N |-> P(i)]
  <2>1. s[0] \in Ps[0]
    BY <1>1, <1>2, <1>13
  <2>2. \A i \in 0 .. N - 1 : s[i] \in Ps[i] => s[i + 1] \in Ps[i + 1]
    <3> SUFFICES ASSUME NEW i \in 0 .. N - 1, s[i] \in P(i) PROVE s[i + 1] \in P(i + 1)
      BY <1>1
    <3> QED
      BY <1>4, <1>13
  <2> HIDE DEF Ps
  <2>3. \A i \in 0 .. N : s[i] \in Ps[i]
    BY <1>1, <2>1, <2>2, LoopInvariant
  <2> QED
    BY <1>1, <2>3 DEF Ps
<1> QED
  BY <1>6, <1>12, <1>14

\* sys_sbrk's loop runs over the pages from the old break to the new one.
LEMMA SbrkPagesIs ==
    ASSUME NEW p \in Proc, NEW new \in Nat, BelowKernel(new), brk[p] \in Nat, Fine(Working(p)),
           NEW t, t = SbrkPages(p, new)
    PROVE  /\ Fine(t) /\ Grows(Working(p), t)
           /\ \A v \in UserPage :
                 /\ ~(FirstPage(brk[p]) <= v /\ v < EndPage(new)) =>
                        t.page[v] = Working(p).page[v]
                 /\ Working(p).page[v] # NONE => t.page[v] # NONE
                 /\ ~t.failed /\ FirstPage(brk[p]) <= v /\ v < EndPage(new) =>
                        t.page[v] # NONE
<1> DEFINE N == NewPages(brk[p], new)
           lo == FirstPage(brk[p])
           x0 == Working(p)
<1>1. /\ N \in Nat /\ lo \in Int
      /\ \A n \in 0 .. N - 1 : lo + (n + 1) - 1 \in UserPage
      /\ \A v \in Int : v < EndPage(new) /\ lo <= v => v < lo + N
      /\ \A v \in Int : lo <= v /\ v < lo + N => v < EndPage(new)
  <2>1. PageSize \in Nat \ {0}
    BY MemoryAssumption
  <2>2. lo \in Int /\ EndPage(new) \in Int
    <3>1. brk[p] \div PageSize \in Int
      BY <2>1, Division
    <3>2. new + PageSize - 1 \in Nat
      BY <2>1
    <3>3. (new + PageSize - 1) \div PageSize \in Nat
      BY <2>1, <3>2, Division
    <3> QED
      BY <3>1, <3>3 DEF FirstPage, EndPage
  <2>3. \A v \in Int : lo <= v /\ v < EndPage(new) => v \in UserPage
    BY NewPagesIs
  <2> HIDE DEF lo
  <2>4. N = IF lo < EndPage(new) THEN EndPage(new) - lo ELSE 0
    BY DEF NewPages, lo
  <2> HIDE DEF N
  <2>5. N \in Nat /\ \A n \in 0 .. N - 1 : lo + (n + 1) - 1 \in Int
                       /\ lo <= lo + (n + 1) - 1 /\ lo + (n + 1) - 1 < EndPage(new)
    BY <2>2, <2>4
  <2>6. /\ \A v \in Int : v < EndPage(new) /\ lo <= v => v < lo + N
        /\ \A v \in Int : lo <= v /\ v < lo + N => v < EndPage(new)
    BY <2>2, <2>4
  <2> QED
    BY <2>2, <2>3, <2>5, <2>6
<1>2. t = SbrkLoop(x0, lo, N)
  BY DEF SbrkPages, SbrkLoop
<1>3. \A v \in UserPage : (lo <= v /\ v < EndPage(new)) <=> (lo <= v /\ v < lo + N)
  BY <1>1 DEF UserPage
<1> HIDE DEF N, lo, x0
<1>4. Fine(x0)
  BY DEF x0
<1>5. /\ Fine(t) /\ Grows(x0, t)
      /\ \A v \in UserPage :
              /\ ~(lo <= v /\ v < lo + N) => t.page[v] = x0.page[v]
              /\ x0.page[v] # NONE => t.page[v] # NONE
              /\ ~t.failed /\ lo <= v /\ v < lo + N => t.page[v] # NONE
  <2>1. UserPages(lo, N) /\ N \in Nat /\ lo \in Int
    BY <1>1 DEF UserPages
  <2>2. Reached(x0, lo, N, t)
    BY <1>2, <1>4, <2>1, SbrkLoopIs
  <2> QED
    BY <2>2 DEF Reached
<1> QED
  BY <1>3, <1>5 DEF lo, x0

----------------------------------------------------------------------------
(* The steps keep the invariant *)

LEMMA Types ==
    ASSUME TypeOK
    PROVE  /\ bitmap \subseteq Frame /\ space \in [Proc -> Spaces] /\ alive \subseteq Proc
           /\ \A p \in Proc : brk[p] \in Nat /\ brk[p] < KernelPage * PageSize
<1>1. KernelPage * PageSize \in Nat
  BY MemoryAssumption
<1>2. \A p \in Proc : brk[p] \in 0 .. KernelPage * PageSize - 1
  BY DEF TypeOK
<1>3. \A p \in Proc : brk[p] \in Nat /\ brk[p] < KernelPage * PageSize
  BY <1>1, <1>2
<1>4. Frame \cup {NULL, NONE} = Entry
  BY DEF Entry
<1>5. space \in [Proc -> Spaces]
  BY <1>4 DEF TypeOK, Spaces
<1> QED
  BY <1>3, <1>5 DEF TypeOK

\* Every address below the kernel lies on a page of the program.
LEMMA UserAddress ==
    ASSUME NEW a \in Nat, a < KernelPage * PageSize
    PROVE  a \div PageSize \in UserPage
<1> DEFINE q == a \div PageSize
<1>1. PageSize \in Nat \ {0} /\ KernelPage \in Nat
  BY MemoryAssumption
<1>2. q \in Nat /\ PageSize * q <= a
  BY <1>1, Division
<1> HIDE DEF q
<1>3. ~(KernelPage <= q)
  <2> SUFFICES ASSUME KernelPage <= q PROVE FALSE
    OBVIOUS
  <2>1. PageSize * KernelPage <= PageSize * q
    BY <1>1, <1>2, Products
  <2> QED
    BY <1>1, <1>2, <2>1
<1>4. q \in UserPage
  BY <1>1, <1>2, <1>3 DEF UserPage
<1> QED
  BY <1>4 DEF q

\* What a call works on when it begins.
LEMMA WorkingIs ==
    ASSUME IInv, NEW p \in alive, NEW s, s = Working(p)
    PROVE  /\ Fine(s) /\ s.used = bitmap /\ s.page = space[p].page
           /\ Frames(s) = Frames(space[p])
<1>1. bitmap \subseteq Frame /\ space[p] \in Spaces /\ Owns(space[p], bitmap) /\ Segment(bitmap)
  BY Types DEF IInv, Ownership
<1> DEFINE a == space[p]
<1>2. s = [used |-> bitmap, dir |-> a.dir, table |-> a.table, page |-> a.page, failed |-> FALSE]
  BY DEF Working, Call
<1> HIDE DEF a
<1>3. a \in Spaces /\ Owns(a, bitmap)
  BY <1>1 DEF a
<1>4. s \in Calls
  BY <1>1, <1>2, <1>3 DEF Calls, Spaces
<1>5. s.used = bitmap /\ s.dir = a.dir /\ s.table = a.table /\ s.page = a.page
  BY <1>2
<1>6. Entries(s) = Entries(a) /\ Frames(s) = Frames(a) /\ (Distinct(a) => Distinct(s))
  BY <1>5 DEF Entries, Frames, Distinct
<1>7. Fine(s)
  BY <1>1, <1>3, <1>4, <1>5, <1>6 DEF Fine, Owns
<1> QED
  BY <1>5, <1>6, <1>7 DEF a

\* A call that has only taken free frames leaves every program with frames of
\* its own.
LEMMA CommitKeeps ==
    ASSUME IInv, NEW p \in Proc, NEW s, Fine(s), bitmap \subseteq s.used,
           Frames(s) \subseteq (s.used \ bitmap) \cup (IF p \in alive THEN Frames(space[p]) ELSE {}),
           Commit(p, s), alive' = alive \cup {p}
    PROVE  /\ Ownership'
           /\ bitmap' \subseteq Frame /\ space' \in [Proc -> Spaces]
           /\ space'[p].page = s.page /\ \A q \in Proc \ {p} : space'[q] = space[q]
<1>1. bitmap \subseteq Frame /\ space \in [Proc -> Spaces] /\ alive \subseteq Proc /\ Ownership
  BY Types DEF IInv
<1> DEFINE a == AddressSpace(s)
<1>2. a = [dir |-> s.dir, table |-> s.table, page |-> s.page]
  BY DEF AddressSpace
<1>3. bitmap' = s.used /\ space' = [space EXCEPT ![p] = a]
  BY DEF Commit
<1> HIDE DEF a
<1>4. s \in Calls /\ Segment(s.used) /\ Owns(s, s.used)
  BY DEF Fine
<1>5. a.dir = s.dir /\ a.table = s.table /\ a.page = s.page
  BY <1>2
<1>6. a \in Spaces
  BY <1>2, <1>4 DEF Calls, Spaces
<1>7. Entries(a) = Entries(s) /\ Frames(a) = Frames(s) /\ (Distinct(s) => Distinct(a))
  BY <1>5 DEF Entries, Frames, Distinct
<1>8. Owns(a, s.used)
  BY <1>4, <1>7 DEF Owns
<1>9. space'[p] = a /\ \A q \in Proc \ {p} : space'[q] = space[q]
  BY <1>1, <1>3
<1>10. space' \in [Proc -> Spaces]
  BY <1>1, <1>3, <1>6
<1>11. HeapFirst \notin Frames(a) /\ HeapFirst \in s.used
  BY <1>1, <1>7 DEF Ownership
<1>12. \A q \in alive \ {p} : Frames(a) \cap Frames(space[q]) = {}
  BY <1>1, <1>7 DEF Ownership, Owns
<1>13. \A q \in alive \ {p} : Owns(space[q], s.used)
  BY <1>1, <1>4 DEF Ownership, Owns, Segment
<1>14. Ownership'
  <2>1. Segment(bitmap') /\ HeapFirst \in bitmap'
    BY <1>3, <1>4, <1>11
  <2>2. \A q \in alive' : Owns(space'[q], bitmap') /\ HeapFirst \notin Frames(space'[q])
    BY <1>1, <1>3, <1>8, <1>9, <1>11, <1>13 DEF Ownership
  <2>3. \A q, r \in alive' : q # r => Frames(space'[q]) \cap Frames(space'[r]) = {}
    <3> SUFFICES ASSUME NEW q \in alive', NEW r \in alive', q # r
                 PROVE  Frames(space'[q]) \cap Frames(space'[r]) = {}
      OBVIOUS
    <3>1. CASE q = p
      BY <1>1, <1>9, <1>12, <3>1
    <3>2. CASE r = p
      BY <1>1, <1>9, <1>12, <3>2
    <3>3. CASE q # p /\ r # p
      BY <1>1, <1>9, <3>3 DEF Ownership
    <3> QED
      BY <3>1, <3>2, <3>3
  <2> QED
    BY <2>1, <2>2, <2>3 DEF Ownership
<1> QED
  BY <1>3, <1>4, <1>5, <1>9, <1>10, <1>14 DEF Segment

LEMMA InitIInv == Init => IInv
<1> SUFFICES ASSUME Init PROVE IInv
  OBVIOUS
<1>0. LastFrame \in Nat /\ HeapBase \in Nat /\ HeapBase >= 2 /\ HeapBase <= LastFrame
      /\ KernelPage * PageSize \in Nat /\ KernelPage * PageSize > 0 /\ MaxHeapPages \in Nat \ {0}
  BY MemoryAssumption
<1>1. bitmap = {HeapFirst}
  <2> DEFINE f == FirstFree({})
  <2>1. Segment({})
    BY DEF Segment
  <2>2. f \in Frame \cup {NULL} /\ (f = NULL <=> Frame \subseteq {})
        /\ Segment(Marked({}, f)) /\ Marked({}, f) = {} \cup ({f} \cap Frame)
    BY <2>1, FirstFreeIs
  <2>3. bitmap = Marked({}, f)
    BY DEF Init
  <2> HIDE DEF f
  <2>4. HeapFirst \in Frame
    BY Constants
  <2>5. f \in Frame /\ bitmap = {f} /\ Segment({f})
    BY <2>2, <2>3, <2>4
  <2>6. HeapFirst < f \/ HeapFirst = f
    BY <2>5, Constants DEF Frame
  <2>7. HeapFirst = f
    BY <2>4, <2>5, <2>6, Constants DEF Segment
  <2> QED
    BY <2>5, <2>7
<1>2. space = [p \in Proc |-> NoSpace] /\ brk = [p \in Proc |-> 0] /\ alive = {} /\ heap_pages = 1
      /\ strayed = {}
  BY DEF Init
<1>3. NoSpace \in Spaces
  BY DEF NoSpace, Spaces, Entry
<1>4. TypeOK
  <2>1. bitmap \subseteq Frame
    BY <1>1, Constants
  <2>2. space \in [Proc -> Spaces]
    BY <1>2, <1>3
  <2>3. brk \in [Proc -> 0 .. KernelPage * PageSize - 1]
    BY <1>0, <1>2
  <2>4. heap_pages \in 1 .. MaxHeapPages
    BY <1>0, <1>2
  <2> QED
    BY <1>2, <2>1, <2>2, <2>3, <2>4 DEF TypeOK, Spaces, Entry
<1>5. Segment(bitmap)
  BY <1>1, Constants DEF Segment, Frame
<1>6. Ownership
  BY <1>1, <1>2, <1>5 DEF Ownership
<1>7. BreakBacked
  BY <1>2 DEF BreakBacked
<1> QED
  BY <1>4, <1>6, <1>7 DEF IInv

\* The pages of a program that keeps them back it as before, up to the same or a
\* lower break.
LEMMA StillBacked ==
    ASSUME IInv, NEW q \in alive \ strayed, NEW b \in Nat, b <= brk[q], NEW sp,
           \A v \in UserPage : space[q].page[v] # NONE => sp.page[v] # NONE
    PROVE  /\ b < KernelPage * PageSize
           /\ \A a \in HeapStart .. b - 1 : sp.page[a \div PageSize] # NONE
<1>1. brk[q] \in Nat /\ brk[q] < KernelPage * PageSize /\ KernelPage * PageSize \in Nat
      /\ HeapStart \in Nat
  BY Types, MemoryAssumption DEF IInv
<1>2. b < KernelPage * PageSize
  BY <1>1
<1>3. ASSUME NEW a \in HeapStart .. b - 1
      PROVE  sp.page[a \div PageSize] # NONE
  <2>1. a \in Nat /\ a < KernelPage * PageSize /\ a \in HeapStart .. brk[q] - 1
    BY <1>1
  <2>2. a \div PageSize \in UserPage
    BY <2>1, UserAddress
  <2>3. space[q].page[a \div PageSize] # NONE
    BY <2>1 DEF IInv, BreakBacked
  <2> QED
    BY <2>2, <2>3
<1> QED
  BY <1>2, <1>3

LEMMA LoadIInv ==
    ASSUME IInv, NEW p \in Proc, NEW img \in Images, Load(p, img)
    PROVE  IInv'
<1> DEFINE s == LoadedImage(bitmap, img)
<1>0. TypeOK /\ Segment(bitmap)
  BY DEF IInv, Ownership
<1>1. Fine(s) /\ bitmap \subseteq s.used /\ Frames(s) \subseteq s.used \ bitmap
  BY <1>0, LoadedImageIs
<1>2. p \notin alive /\ Commit(p, s) /\ alive' = alive \cup {p}
      /\ brk' = [brk EXCEPT ![p] = HeapStart] /\ HeapGrows /\ strayed' = strayed
  BY DEF Load
<1> HIDE DEF s
<1>3. Frames(s) \subseteq (s.used \ bitmap) \cup (IF p \in alive THEN Frames(space[p]) ELSE {})
  BY <1>1, <1>2
<1>4. /\ Ownership' /\ bitmap' \subseteq Frame /\ space' \in [Proc -> Spaces]
      /\ \A q \in Proc \ {p} : space'[q] = space[q]
  BY <1>1, <1>2, <1>3, CommitKeeps
<1>5. HeapStart \in 0 .. KernelPage * PageSize - 1 /\ KernelPage * PageSize \in Nat
  BY MemoryAssumption
<1>6. TypeOK'
  <2>1. brk' \in [Proc -> 0 .. KernelPage * PageSize - 1]
    BY <1>0, <1>2, <1>5 DEF TypeOK
  <2>2. heap_pages' \in 1 .. MaxHeapPages
    BY <1>0, <1>2, MemoryAssumption DEF TypeOK, HeapGrows
  <2>3. alive' \subseteq Proc /\ strayed' \subseteq alive'
    BY <1>0, <1>2 DEF TypeOK
  <2> QED
    BY <1>4, <2>1, <2>2, <2>3 DEF TypeOK, Spaces, Entry
<1>7. BreakBacked'
  <2> SUFFICES ASSUME NEW q \in alive'
               PROVE  /\ brk'[q] < KernelPage * PageSize
                      /\ q \notin strayed =>
                           \A a \in HeapStart .. brk'[q] - 1 : space'[q].page[a \div PageSize] # NONE
    BY <1>2 DEF BreakBacked
  <2>1. CASE q = p
    <3>1. brk'[q] = HeapStart
      BY <1>0, <1>2, <2>1 DEF TypeOK
    <3> QED
      BY <1>5, <3>1
  <2>2. CASE q # p
    <3>1. q \in alive /\ q \in Proc
      BY <1>0, <1>2, <2>2 DEF TypeOK
    <3>2. brk'[q] = brk[q] /\ space'[q] = space[q]
      BY <1>0, <1>2, <1>4, <2>2, <3>1 DEF TypeOK
    <3> QED
      BY <3>1, <3>2 DEF IInv, BreakBacked
  <2> QED
    BY <2>1, <2>2
<1> QED
  BY <1>4, <1>6, <1>7 DEF IInv

\* The sum of 32 bits.
LEMMA NewBrkIs ==
    ASSUME IInv, NEW p \in Proc, NEW inc \in Increments
    PROVE  NewBrk(p, inc) \in Nat
<1> DEFINE a == brk[p] + inc
<1>1. Space \in Nat \ {0}
  <2>1. KernelPage * PageSize > 0 /\ KernelPage * PageSize \in Nat
    BY MemoryAssumption
  <2> QED
    BY <2>1, MemoryAssumption
<1>2. a \in Int
  <2>1. brk[p] \in Nat
    BY Types DEF IInv
  <2> QED
    BY <2>1, MemoryAssumption
<1>3. a % Space \in 0 .. Space - 1
  <2> HIDE DEF a
  <2> QED
    BY <1>1, <1>2, Wrapped
<1> QED
  BY <1>1, <1>3 DEF NewBrk

\* Whatever becomes of a call of sys_sbrk, the break it leaves is backed.
LEMMA SbrkUpIs ==
    ASSUME IInv, NEW p \in Proc, NEW inc \in Increments, SbrkUp(p, inc),
           NEW s, s = SbrkPages(p, NewBrk(p, inc))
    PROVE  /\ Fine(s) /\ bitmap \subseteq s.used
           /\ Frames(s) \subseteq (s.used \ bitmap) \cup Frames(space[p])
           /\ NewBrk(p, inc) \in Nat
           /\ \A v \in UserPage :
                 /\ ~(FirstPage(brk[p]) <= v /\ v < EndPage(NewBrk(p, inc))) =>
                        s.page[v] = space[p].page[v]
                 /\ space[p].page[v] # NONE => s.page[v] # NONE
                 /\ ~s.failed /\ FirstPage(brk[p]) <= v /\ v < EndPage(NewBrk(p, inc)) =>
                        s.page[v] # NONE
<1> DEFINE new == NewBrk(p, inc)
           x0 == Working(p)
<1>1. p \in alive /\ BelowKernel(new)
  BY DEF SbrkUp
<1>2. brk[p] \in Nat
  BY Types DEF IInv
<1>3. new \in Nat
  BY NewBrkIs
<1>4. Fine(x0) /\ x0.used = bitmap /\ x0.page = space[p].page /\ Frames(x0) = Frames(space[p])
  BY <1>1, WorkingIs
<1> HIDE DEF new
<1>5. s = SbrkPages(p, new)
  BY DEF new
<1>6. /\ Fine(s) /\ Grows(x0, s)
      /\ \A v \in UserPage :
            /\ ~(FirstPage(brk[p]) <= v /\ v < EndPage(new)) => s.page[v] = x0.page[v]
            /\ x0.page[v] # NONE => s.page[v] # NONE
            /\ ~s.failed /\ FirstPage(brk[p]) <= v /\ v < EndPage(new) => s.page[v] # NONE
  BY <1>1, <1>2, <1>3, <1>4, <1>5, SbrkPagesIs
<1> HIDE DEF x0
<1> QED
  BY <1>3, <1>4, <1>6 DEF Grows, new

LEMMA SbrkUpIInv ==
    ASSUME IInv, NEW p \in Proc, NEW inc \in Increments, SbrkUp(p, inc)
    PROVE  IInv'
<1> DEFINE new == NewBrk(p, inc)
           s == SbrkPages(p, new)
           old == brk[p]
<1>0. TypeOK /\ old \in Nat /\ old < KernelPage * PageSize /\ KernelPage * PageSize \in Nat
      /\ HeapStart \in Nat
  BY Types, MemoryAssumption DEF IInv
<1>1. /\ Fine(s) /\ bitmap \subseteq s.used
      /\ Frames(s) \subseteq (s.used \ bitmap) \cup Frames(space[p])
      /\ new \in Nat
      /\ \A v \in UserPage :
            /\ ~(FirstPage(old) <= v /\ v < EndPage(new)) => s.page[v] = space[p].page[v]
            /\ space[p].page[v] # NONE => s.page[v] # NONE
            /\ ~s.failed /\ FirstPage(old) <= v /\ v < EndPage(new) => s.page[v] # NONE
  BY SbrkUpIs
<1>2. p \in alive /\ BelowKernel(new) /\ Commit(p, s)
      /\ brk' = [brk EXCEPT ![p] = IF s.failed THEN @ ELSE new]
      /\ alive' = alive /\ heap_pages' = heap_pages /\ strayed' = strayed
  BY DEF SbrkUp
<1> HIDE DEF s, new
<1>3. alive' = alive \cup {p}
      /\ Frames(s) \subseteq (s.used \ bitmap) \cup (IF p \in alive THEN Frames(space[p]) ELSE {})
  BY <1>1, <1>2
<1>4. /\ Ownership' /\ bitmap' \subseteq Frame /\ space' \in [Proc -> Spaces]
      /\ space'[p].page = s.page /\ \A q \in Proc \ {p} : space'[q] = space[q]
  BY <1>1, <1>2, <1>3, CommitKeeps
<1>5. new < KernelPage * PageSize
  BY <1>2 DEF BelowKernel
<1>6. brk'[p] = (IF s.failed THEN old ELSE new) /\ \A q \in Proc \ {p} : brk'[q] = brk[q]
  BY <1>0, <1>2 DEF TypeOK
<1>7. TypeOK'
  <2>1. brk' \in [Proc -> 0 .. KernelPage * PageSize - 1]
    BY <1>0, <1>1, <1>2, <1>5 DEF TypeOK
  <2> QED
    BY <1>0, <1>2, <1>4, <2>1 DEF TypeOK, Spaces, Entry
<1>8. ASSUME p \notin strayed, NEW a \in HeapStart .. old - 1
      PROVE  a \div PageSize \in UserPage /\ s.page[a \div PageSize] # NONE
  <2>1. a \in Nat /\ a < KernelPage * PageSize
    BY <1>0
  <2>2. a \div PageSize \in UserPage
    BY <2>1, UserAddress
  <2>3. space[p].page[a \div PageSize] # NONE
    BY <1>2, <1>8 DEF IInv, BreakBacked
  <2> QED
    BY <1>1, <2>2, <2>3
<1>9. ASSUME p \notin strayed, ~s.failed, NEW a \in HeapStart .. new - 1
      PROVE  s.page[a \div PageSize] # NONE
  <2> DEFINE v == a \div PageSize
  <2>1. \/ v \in FirstPage(old) .. EndPage(new) - 1
        \/ \E b \in HeapStart .. old - 1 : v = b \div PageSize
    BY <1>0, <1>1, BreakIsCovered
  <2>2. v \in UserPage
    <3>1. a \in Nat /\ a < KernelPage * PageSize
      BY <1>0, <1>1, <1>5
    <3> QED
      BY <3>1, UserAddress
  <2> HIDE DEF v
  <2>3. CASE v \in FirstPage(old) .. EndPage(new) - 1
    <3>1. FirstPage(old) \in Int /\ EndPage(new) \in Int
      <4>1. PageSize \in Nat \ {0}
        BY MemoryAssumption
      <4>2. old \div PageSize \in Int /\ new + PageSize - 1 \in Nat
        BY <1>0, <1>1, <4>1, Division
      <4>3. (new + PageSize - 1) \div PageSize \in Nat
        BY <4>1, <4>2, Division
      <4> QED
        BY <4>2, <4>3 DEF FirstPage, EndPage
    <3>2. FirstPage(old) <= v /\ v < EndPage(new)
      BY <2>3, <3>1
    <3> QED
      BY <1>1, <1>9, <2>2, <3>2 DEF v
  <2>4. CASE \E b \in HeapStart .. old - 1 : v = b \div PageSize
    BY <1>8, <1>9, <2>4 DEF v
  <2> QED
    BY <2>1, <2>3, <2>4
<1>10. BreakBacked'
  <2> SUFFICES ASSUME NEW q \in alive'
               PROVE  /\ brk'[q] < KernelPage * PageSize
                      /\ q \notin strayed =>
                           \A a \in HeapStart .. brk'[q] - 1 : space'[q].page[a \div PageSize] # NONE
    BY <1>2 DEF BreakBacked
  <2>1. CASE q = p
    BY <1>0, <1>4, <1>5, <1>6, <1>8, <1>9, <2>1
  <2>2. CASE q # p
    <3>1. q \in alive /\ q \in Proc
      BY <1>0, <1>2 DEF TypeOK
    <3>2. brk'[q] = brk[q] /\ space'[q] = space[q]
      BY <1>4, <1>6, <2>2, <3>1
    <3> QED
      BY <3>1, <3>2 DEF IInv, BreakBacked
  <2> QED
    BY <2>1, <2>2
<1> QED
  BY <1>4, <1>7, <1>10 DEF IInv

\* A negative increment that does not lead the break astray moves it down.
LEMMA SbrkDownIInv ==
    ASSUME IInv, NEW p \in Proc, NEW inc \in Increments, SbrkDown(p, inc)
    PROVE  IInv'
<1> DEFINE new == NewBrk(p, inc)
<1>0. TypeOK /\ brk[p] \in Nat /\ brk[p] < KernelPage * PageSize /\ KernelPage * PageSize \in Nat
  BY Types, MemoryAssumption DEF IInv
<1>1. new \in Nat
  BY NewBrkIs
<1>2. /\ p \in alive /\ brk' = [brk EXCEPT ![p] = new] /\ bitmap' = bitmap /\ space' = space
      /\ alive' = alive /\ heap_pages' = heap_pages /\ new < KernelPage * PageSize
      /\ strayed' = IF new > brk[p] THEN strayed \cup {p} ELSE strayed
  BY DEF SbrkDown, BelowKernel
<1> HIDE DEF new
<1>3. TypeOK'
  <2>1. brk' \in [Proc -> 0 .. KernelPage * PageSize - 1]
    BY <1>0, <1>1, <1>2 DEF TypeOK
  <2>2. strayed' \subseteq alive'
    BY <1>0, <1>2 DEF TypeOK
  <2> QED
    BY <1>0, <1>2, <2>1, <2>2 DEF TypeOK
<1>4. Ownership'
  BY <1>2 DEF IInv, Ownership
<1>5. BreakBacked'
  <2> SUFFICES ASSUME NEW q \in alive
               PROVE  /\ brk'[q] < KernelPage * PageSize
                      /\ q \notin strayed' =>
                           \A a \in HeapStart .. brk'[q] - 1 : space[q].page[a \div PageSize] # NONE
    BY <1>2 DEF BreakBacked
  <2>1. CASE q = p
    <3>1. brk'[p] = new
      BY <1>0, <1>2 DEF TypeOK
    <3>2. p \notin strayed' => p \in alive \ strayed /\ new <= brk[p]
      BY <1>0, <1>1, <1>2
    <3> QED
      BY <1>1, <1>2, <2>1, <3>1, <3>2, StillBacked
  <2>2. CASE q # p
    <3>1. brk'[q] = brk[q] /\ (q \notin strayed' => q \notin strayed)
      BY <1>0, <1>2, <2>2 DEF TypeOK
    <3> QED
      BY <3>1 DEF IInv, BreakBacked
  <2> QED
    BY <2>1, <2>2
<1> QED
  BY <1>3, <1>4, <1>5 DEF IInv

\* The stack grows by a page that was not there: nothing else of the program moves.
LEMMA StackFaultIs ==
    ASSUME IInv, NEW p \in Proc, NEW v \in UserPage, StackFault(p, v),
           NEW s, s = MapNew(Working(p), v)
    PROVE  /\ Fine(s) /\ bitmap \subseteq s.used
           /\ Frames(s) \subseteq (s.used \ bitmap) \cup Frames(space[p])
           /\ space[p].page[v] = NONE /\ s.page[v] # NONE
           /\ \A w \in UserPage \ {v} : s.page[w] = space[p].page[w]
<1> DEFINE x0 == Working(p)
<1>1. p \in alive /\ space[p].page[v] = NONE
  BY DEF StackFault
<1>2. Fine(x0) /\ x0.used = bitmap /\ x0.page = space[p].page /\ Frames(x0) = Frames(space[p])
  BY <1>1, WorkingIs
<1>3. s = MapNew(x0, v)
  OBVIOUS
<1> HIDE DEF x0
<1>4. /\ Fine(s) /\ Grows(x0, s) /\ s.page[v] # NONE
      /\ \A w \in UserPage \ {v} : s.page[w] = x0.page[w]
  BY <1>2, <1>3, MapNewIs
<1> QED
  BY <1>1, <1>2, <1>4 DEF Grows

LEMMA StackFaultIInv ==
    ASSUME IInv, NEW p \in Proc, NEW v \in UserPage, StackFault(p, v)
    PROVE  IInv'
<1> DEFINE s == MapNew(Working(p), v)
<1>0. TypeOK /\ \A q \in Proc : brk[q] \in Nat
  BY Types DEF IInv
<1>1. /\ Fine(s) /\ bitmap \subseteq s.used
      /\ Frames(s) \subseteq (s.used \ bitmap) \cup Frames(space[p])
      /\ space[p].page[v] = NONE /\ s.page[v] # NONE
      /\ \A w \in UserPage \ {v} : s.page[w] = space[p].page[w]
  BY StackFaultIs
<1>2. /\ p \in alive /\ Commit(p, s) /\ brk' = brk /\ alive' = alive /\ heap_pages' = heap_pages
      /\ strayed' = strayed
  BY DEF StackFault
<1> HIDE DEF s
<1>3. alive' = alive \cup {p}
      /\ Frames(s) \subseteq (s.used \ bitmap) \cup (IF p \in alive THEN Frames(space[p]) ELSE {})
  BY <1>1, <1>2
<1>4. /\ Ownership' /\ bitmap' \subseteq Frame /\ space' \in [Proc -> Spaces]
      /\ space'[p].page = s.page /\ \A q \in Proc \ {p} : space'[q] = space[q]
  BY <1>1, <1>2, <1>3, CommitKeeps
<1>5. TypeOK'
  BY <1>0, <1>2, <1>4 DEF TypeOK, Spaces, Entry
<1>6. BreakBacked'
  <2> SUFFICES ASSUME NEW q \in alive
               PROVE  /\ brk[q] < KernelPage * PageSize
                      /\ q \notin strayed =>
                           \A a \in HeapStart .. brk[q] - 1 : space'[q].page[a \div PageSize] # NONE
    BY <1>2 DEF BreakBacked
  <2>1. q \in Proc /\ brk[q] \in Nat /\ brk[q] <= brk[q]
    BY <1>0 DEF TypeOK
  <2>2. \A w \in UserPage : space[q].page[w] # NONE => space'[q].page[w] # NONE
    BY <1>1, <1>4, <2>1
  <2> DEFINE sp == space'[q]
  <2>3. \A w \in UserPage : space[q].page[w] # NONE => sp.page[w] # NONE
    BY <2>2
  <2> HIDE DEF sp
  <2>4. /\ brk[q] < KernelPage * PageSize
        /\ q \notin strayed => \A a \in HeapStart .. brk[q] - 1 : sp.page[a \div PageSize] # NONE
    BY <2>1, <2>3, StillBacked DEF IInv, BreakBacked
  <2> QED
    BY <2>4 DEF sp
<1> QED
  BY <1>4, <1>5, <1>6 DEF IInv

\* A program that ends takes its frames with it.
LEMMA EndedIInv ==
    ASSUME IInv, NEW p \in alive, Ended(p)
    PROVE  IInv'
<1>0. TypeOK /\ alive \subseteq Proc /\ space \in [Proc -> Spaces] /\ KernelPage * PageSize \in Nat
      /\ KernelPage * PageSize > 0
  BY Types, MemoryAssumption DEF IInv
<1>1. /\ alive' = alive \ {p} /\ space' = [space EXCEPT ![p] = NoSpace]
      /\ brk' = [brk EXCEPT ![p] = 0] /\ bitmap' = bitmap /\ heap_pages' = heap_pages
      /\ strayed' = strayed \ {p}
  BY DEF Ended
<1>2. NoSpace \in Spaces
  BY DEF NoSpace, Spaces, Entry
<1>3. space' \in [Proc -> Spaces]
  BY <1>0, <1>1, <1>2
<1>4. brk' \in [Proc -> 0 .. KernelPage * PageSize - 1]
  BY <1>0, <1>1 DEF TypeOK
<1>5. TypeOK'
  BY <1>0, <1>1, <1>3, <1>4 DEF TypeOK, Spaces, Entry
<1>6. \A q \in alive' : /\ q \in alive /\ space'[q] = space[q] /\ brk'[q] = brk[q]
                        /\ q \notin strayed' => q \notin strayed
  BY <1>0, <1>1 DEF TypeOK
<1>7. Ownership'
  BY <1>1, <1>6 DEF IInv, Ownership
<1>8. BreakBacked'
  <2> SUFFICES ASSUME NEW q \in alive'
               PROVE  /\ brk'[q] < KernelPage * PageSize
                      /\ q \notin strayed' =>
                           \A a \in HeapStart .. brk'[q] - 1 : space'[q].page[a \div PageSize] # NONE
    BY DEF BreakBacked
  <2>1. /\ q \in alive /\ space'[q] = space[q] /\ brk'[q] = brk[q]
        /\ q \notin strayed' => q \notin strayed
    BY <1>6
  <2> QED
    BY <2>1 DEF IInv, BreakBacked
<1> QED
  BY <1>5, <1>7, <1>8 DEF IInv

LEMMA KernelAllocatesIInv ==
    ASSUME IInv, KernelAllocates
    PROVE  IInv'
<1>1. /\ bitmap' = bitmap /\ space' = space /\ brk' = brk /\ alive' = alive /\ strayed' = strayed
      /\ heap_pages' \in heap_pages .. MaxHeapPages
  BY DEF KernelAllocates, HeapGrows
<1>2. TypeOK'
  BY <1>1, MemoryAssumption DEF IInv, TypeOK
<1> QED
  BY <1>1, <1>2 DEF IInv, Ownership, BreakBacked

----------------------------------------------------------------------------
(* Theorems *)

\* The inductive invariant: types, frames with one owner each and handed out
\* from the lowest on, frame NULL only when there is no other, breaks backed.
THEOREM Invariance == Spec => []IInv
<1>1. ASSUME IInv, [Next]_vars
      PROVE  IInv'
  <2>1. ASSUME NEW p \in Proc, NEW img \in Images, Load(p, img) PROVE IInv'
    BY <1>1, <2>1, LoadIInv
  <2>2. ASSUME NEW p \in Proc, NEW inc \in Increments, SbrkUp(p, inc) PROVE IInv'
    BY <1>1, <2>2, SbrkUpIInv
  <2>3. ASSUME NEW p \in Proc, NEW inc \in Increments, SbrkDown(p, inc) PROVE IInv'
    BY <1>1, <2>3, SbrkDownIInv
  <2>4. ASSUME NEW p \in Proc, NEW v \in UserPage, StackFault(p, v) PROVE IInv'
    BY <1>1, <2>4, StackFaultIInv
  <2>5. ASSUME NEW p \in Proc, NEW v \in UserPage, Segfault(p, v) PROVE IInv'
    BY <1>1, <2>5, EndedIInv DEF Segfault
  <2>6. ASSUME NEW p \in Proc, Exit(p) PROVE IInv'
    BY <1>1, <2>6, EndedIInv DEF Exit
  <2>7. ASSUME KernelAllocates PROVE IInv'
    BY <1>1, <2>7, KernelAllocatesIInv
  <2>8. CASE UNCHANGED vars
    BY <1>1, <2>8 DEF IInv, TypeOK, Ownership, BreakBacked, vars
  <2> QED
    BY <1>1, <2>1, <2>2, <2>3, <2>4, <2>5, <2>6, <2>7, <2>8 DEF Next
<1> QED
  BY InitIInv, <1>1, PTL DEF Spec

\* sys_sbrk and the page fault handler back every byte below a program's break, as
\* long as no negative increment has moved that break up.
THEOREM BreakCorrect == Spec => []BreakBacked
<1>1. IInv => BreakBacked
  BY DEF IInv
<1> QED
  BY Invariance, <1>1, PTL

\* The entries of program p, each a tuple of p, what it is, its place and its frame.
EntriesOf(p) ==
    {<<p, "dir", 0, space[p].dir>>} \cup {<<p, "table", t, space[p].table[t]>> : t \in Table} \cup
    {<<p, "page", v, space[p].page[v]>> : v \in UserPage}

\* Two entries of one program that name the same frame are the same entry.
LEMMA OneEntry ==
    ASSUME NEW p, Distinct(space[p]), NEW d \in EntriesOf(p), NEW e \in EntriesOf(p),
           d[4] \in Frame, d[4] = e[4]
    PROVE  d = e
<1> DEFINE s == space[p]
<1>1. CASE d = <<p, "dir", 0, s.dir>>
  <2>1. \A t \in Table : e # <<p, "table", t, s.table[t]>>
    BY <1>1 DEF Distinct
  <2>2. \A v \in UserPage : e # <<p, "page", v, s.page[v]>>
    BY <1>1 DEF Distinct
  <2> QED
    BY <1>1, <2>1, <2>2 DEF EntriesOf
<1>2. ASSUME NEW t \in Table, d = <<p, "table", t, s.table[t]>>
      PROVE  d = e
  <2>1. e # <<p, "dir", 0, s.dir>>
    BY <1>2 DEF Distinct
  <2>2. \A v \in UserPage : e # <<p, "page", v, s.page[v]>>
    BY <1>2 DEF Distinct
  <2>3. PICK u \in Table : e = <<p, "table", u, s.table[u]>>
    BY <2>1, <2>2 DEF EntriesOf
  <2>4. t = u
    BY <1>2, <2>3 DEF Distinct
  <2> QED
    BY <1>2, <2>3, <2>4
<1>3. ASSUME NEW v \in UserPage, d = <<p, "page", v, s.page[v]>>
      PROVE  d = e
  <2>1. e # <<p, "dir", 0, s.dir>>
    BY <1>3 DEF Distinct
  <2>2. \A t \in Table : e # <<p, "table", t, s.table[t]>>
    BY <1>3 DEF Distinct
  <2>3. PICK w \in UserPage : e = <<p, "page", w, s.page[w]>>
    BY <2>1, <2>2 DEF EntriesOf
  <2>4. v = w
    BY <1>3, <2>3 DEF Distinct
  <2> QED
    BY <1>3, <2>3, <2>4
<1> QED
  BY <1>1, <1>2, <1>3 DEF EntriesOf

\* No frame has two uses, in one program or in two, and none that is in use is
\* free in the bitmap or the heap's first page.
THEOREM FramesStayPrivate == Spec => []FramesPrivate
<1>1. IInv => FramesPrivate
  <2> SUFFICES ASSUME IInv PROVE FramesPrivate
    OBVIOUS
  <2>1. Holders = {e \in UNION {EntriesOf(p) : p \in alive} : e[4] \in Frame}
    BY DEF Holders, EntriesOf
  <2>2. \A p \in alive : /\ Distinct(space[p]) /\ Frames(space[p]) \subseteq bitmap
                         /\ HeapFirst \notin Frames(space[p])
    BY DEF IInv, Ownership, Owns
  <2>3. \A p \in alive : \A e \in EntriesOf(p) : e[4] \in Frame => e[4] \in Frames(space[p])
    <3> SUFFICES ASSUME NEW p \in alive, NEW e \in EntriesOf(p)
                 PROVE  e[4] \in Entries(space[p])
      BY DEF Frames
    <3>1. CASE e = <<p, "dir", 0, space[p].dir>>
      BY <3>1 DEF Entries
    <3>2. CASE \E t \in Table : e = <<p, "table", t, space[p].table[t]>>
      BY <3>2 DEF Entries
    <3>3. CASE \E v \in UserPage : e = <<p, "page", v, space[p].page[v]>>
      BY <3>3 DEF Entries
    <3> QED
      BY <3>1, <3>2, <3>3 DEF EntriesOf
  <2>4. ASSUME NEW d \in Holders, NEW e \in Holders, d[4] = e[4]
        PROVE  d = e
    <3>1. PICK p \in alive : d \in EntriesOf(p)
      BY <2>1
    <3>2. PICK q \in alive : e \in EntriesOf(q)
      BY <2>1
    <3>3. d[4] \in Frame /\ e[4] \in Frame
      BY <2>1
    <3>4. d[4] \in Frames(space[p]) /\ e[4] \in Frames(space[q])
      BY <2>3, <3>1, <3>2, <3>3
    <3>5. p = q
      BY <2>4, <3>4 DEF IInv, Ownership
    <3> QED
      BY <2>2, <2>4, <3>1, <3>2, <3>3, <3>5, OneEntry
  <2>5. ASSUME NEW e \in Holders
        PROVE  e[4] \in bitmap /\ e[4] # HeapFirst
    <3>1. PICK p \in alive : e \in EntriesOf(p) /\ e[4] \in Frame
      BY <2>1
    <3> QED
      BY <2>2, <2>3, <3>1
  <2> QED
    BY <2>4, <2>5 DEF FramesPrivate, IInv
<1> QED
  BY Invariance, <1>1, PTL

\* While a frame below the kernel heap is free, no program has been given a frame
\* that the heap lies on, or frame NULL.
THEOREM SoundBelowTheHeap == Spec => []SoundWhileFramesLast
<1>1. IInv => SoundWhileFramesLast
  <2> SUFFICES ASSUME IInv, NEW g \in 1 .. HeapBase - 1, g \notin bitmap
               PROVE  Sound
    BY DEF SoundWhileFramesLast
  <2>1. HeapBase \in Nat /\ HeapBase <= LastFrame /\ LastFrame \in Nat /\ g \in Frame
    BY MemoryAssumption DEF Frame
  <2>2. \A f \in bitmap : f \in Nat /\ f < HeapBase
    <3> SUFFICES ASSUME NEW f \in bitmap PROVE f \in Nat /\ f < HeapBase
      OBVIOUS
    <3>1. f \in Frame /\ ~(g < f)
      BY <2>1 DEF IInv, Ownership, Segment
    <3> QED
      BY <2>1, <3>1 DEF Frame
  <2>3. ~(Frame \subseteq bitmap)
    BY <2>1
  <2>4. ASSUME NEW p \in alive
        PROVE  /\ NULL \notin Entries(space[p]) /\ space[p] \in Spaces
               /\ Entries(space[p]) \cap Frame \subseteq bitmap
    BY <2>3, Types DEF IInv, Ownership, Owns, Frames
  <2>5. ASSUME NEW p \in alive
        PROVE  /\ TableFrames(p) \cup PageFrames(p) = Entries(space[p])
               /\ LoadedFrames(p) \subseteq PageFrames(p)
    <3>1. TableFrames(p) \cup PageFrames(p) = Entries(space[p])
      BY DEF TableFrames, PageFrames, Entries
    <3>2. {KernelPage - 2, KernelPage - 1} \cup {w \in 0 .. StackLow - 1 : MaxBrk <= w * PageSize}
             \subseteq UserPage
      BY MemoryAssumption DEF UserPage
    <3> QED
      BY <3>1, <3>2 DEF LoadedFrames, PageFrames
  <2>6. ASSUME NEW p \in alive, NEW h \in Nat, h >= HeapBase
        PROVE  h \notin Entries(space[p])
    <3>1. h \notin bitmap
      BY <2>1, <2>2, <2>6
    <3>2. Entries(space[p]) \subseteq Entry
      BY <2>4 DEF Entries, Spaces
    <3>3. h # NULL /\ h # NONE
      BY <2>1, <2>6, MemoryAssumption, Constants
    <3> QED
      BY <2>4, <3>1, <3>2, <3>3 DEF Entry
  <2>7. heap_pages \in Nat
    BY MemoryAssumption DEF IInv, TypeOK
  <2>8. ASSUME NEW p \in alive
        PROVE  /\ \A k \in 1 .. heap_pages - 1 : HeapBase + k \notin Entries(space[p])
               /\ HeapBase \notin Entries(space[p])
    <3>1. HeapBase \notin Entries(space[p])
      BY <2>1, <2>6
    <3>2. ASSUME NEW k \in 1 .. heap_pages - 1 PROVE HeapBase + k \notin Entries(space[p])
      <4>1. HeapBase + k \in Nat /\ HeapBase + k >= HeapBase
        BY <2>1, <2>7
      <4> QED
        BY <2>6, <4>1
    <3> QED
      BY <3>1, <3>2
  <2>9. KernelHeapReserved
    BY <2>5, <2>8 DEF KernelHeapReserved
  <2>10. NoNullFrame
    BY <2>4, <2>5 DEF NoNullFrame
  <2> QED
    BY <2>9, <2>10 DEF Sound
<1> QED
  BY Invariance, <1>1, PTL

\* No step of the program itself, of another program or of the kernel moves a
\* living program's data to another frame, under the same condition.
THEOREM DataDoesNotMove == Spec => DataStays
<1> DEFINE Stays == \A p \in (alive \cap alive') \ strayed :
                       \A v \in Holding(p) : space'[p].page[v] = space[p].page[v]
<1>1. ASSUME IInv, [Next]_vars
      PROVE  Stays
  <2> SUFFICES ASSUME NEW q \in (alive \cap alive') \ strayed, NEW v \in Holding(q)
               PROVE  space'[q].page[v] = space[q].page[v]
    OBVIOUS
  <2>0. /\ space \in [Proc -> Spaces] /\ q \in Proc /\ \A p \in Proc : brk[p] \in Nat
        /\ v \in UserPage /\ space[q].page[v] # NONE
        /\ v * PageSize >= MaxBrk \/ v * PageSize < brk[q]
    BY <1>1, Types DEF IInv, Holding
  <2>1. ASSUME NEW p \in Proc, NEW s, Commit(p, s), p = q => s.page[v] = space[q].page[v]
        PROVE  space'[q].page[v] = space[q].page[v]
    <3>1. space' = [space EXCEPT ![p] = AddressSpace(s)]
      BY <2>1 DEF Commit
    <3>2. AddressSpace(s).page = s.page
      BY DEF AddressSpace
    <3>3. CASE p = q
      <4>1. space'[q] = AddressSpace(s)
        BY <2>0, <3>1, <3>3
      <4> QED
        BY <2>1, <3>2, <3>3, <4>1
    <3>4. CASE p # q
      BY <2>0, <3>1, <3>4
    <3> QED
      BY <3>3, <3>4
  <2>2. ASSUME NEW p \in Proc, NEW img \in Images, Load(p, img)
        PROVE  space'[q].page[v] = space[q].page[v]
    <3>1. p # q /\ Commit(p, LoadedImage(bitmap, img))
      BY <2>2 DEF Load
    <3> QED
      BY <2>1, <3>1
  <2>3. ASSUME NEW p \in Proc, NEW inc \in Increments, SbrkUp(p, inc)
        PROVE  space'[q].page[v] = space[q].page[v]
    <3> DEFINE new == NewBrk(p, inc)
               s == SbrkPages(p, new)
    <3>1. Commit(p, s) /\ BelowKernel(new) /\ (new <= MaxBrk \/ p \in strayed)
      BY <2>3 DEF SbrkUp
    <3>2. /\ new \in Nat
          /\ ~(FirstPage(brk[p]) <= v /\ v < EndPage(new)) => s.page[v] = space[p].page[v]
      BY <1>1, <2>0, <2>3, SbrkUpIs
    <3> HIDE DEF s, new
    <3>3. ASSUME p = q
          PROVE  ~(FirstPage(brk[p]) <= v /\ v < EndPage(new))
      <4> SUFFICES ASSUME FirstPage(brk[p]) <= v, v < EndPage(new) PROVE FALSE
        OBVIOUS
      <4>1. v \in Int /\ PageSize \in Nat
        BY <2>0, MemoryAssumption DEF UserPage
      <4>2. brk[p] <= v * PageSize /\ v * PageSize < new
        BY <2>0, <3>1, <3>2, <4>1, NewPagesIs
      <4>3. v * PageSize \in Int
        BY <4>1
      <4> DEFINE a == v * PageSize
      <4>4. a \in Int /\ brk[q] <= a /\ a < new /\ new <= MaxBrk /\ (a >= MaxBrk \/ a < brk[q])
        BY <2>0, <3>1, <3>3, <4>2, <4>3
      <4> HIDE DEF a
      <4> QED
        BY <2>0, <3>2, <4>4, MemoryAssumption
    <3> QED
      BY <2>1, <3>1, <3>2, <3>3
  <2>4. ASSUME NEW p \in Proc, NEW inc \in Increments, SbrkDown(p, inc)
        PROVE  space'[q].page[v] = space[q].page[v]
    BY <2>4 DEF SbrkDown
  <2>5. ASSUME NEW p \in Proc, NEW w \in UserPage, StackFault(p, w)
        PROVE  space'[q].page[v] = space[q].page[v]
    <3> DEFINE s == MapNew(Working(p), w)
    <3>1. Commit(p, s)
      BY <2>5 DEF StackFault
    <3>2. space[p].page[w] = NONE /\ \A x \in UserPage \ {w} : s.page[x] = space[p].page[x]
      BY <1>1, <2>5, StackFaultIs
    <3> HIDE DEF s
    <3> QED
      BY <2>0, <2>1, <3>1, <3>2
  <2>6. ASSUME NEW p \in Proc, Ended(p)
        PROVE  space'[q].page[v] = space[q].page[v]
    BY <2>0, <2>6 DEF Ended
  <2>7. ASSUME KernelAllocates PROVE space'[q].page[v] = space[q].page[v]
    BY <2>7 DEF KernelAllocates
  <2>8. CASE UNCHANGED vars
    BY <2>8 DEF vars
  <2> QED
    BY <1>1, <2>2, <2>3, <2>4, <2>5, <2>6, <2>7, <2>8 DEF Next, Segfault, Exit
<1> QED
  BY Invariance, <1>1, PTL DEF Spec, DataStays

----------------------------------------------------------------------------
(* The kernel heap: what the list of headers looks like.                    *)

Headers == [size : Nat, is_free : BOOLEAN, prev : Nat \cup {NIL}, next : Nat \cup {NIL}]

----------------------------------------------------------------------------
(* The inductive invariant.  Its parts are stated about any list of blocks, *)
(* since kfree goes through lists on the way that are not yet blk.          *)

Typed(b) ==
    /\ IsFiniteSet(DOMAIN b) /\ DOMAIN b \subseteq Nat
    /\ b \in [DOMAIN b -> Headers]

\* next leads from block to block by address, up to the last one; prev leads
\* back.
Ordered(b) == \A a, c \in DOMAIN b : a < c => a + Hdr + b[a].size <= c
Forward(b) ==
    \A a \in DOMAIN b :
        /\ b[a].next = NIL => \A c \in DOMAIN b : c <= a
        /\ b[a].next # NIL =>
              b[a].next \in DOMAIN b /\ b[a].next = a + Hdr + b[a].size /\ b[b[a].next].prev = a
Backward(b) ==
    /\ First \in DOMAIN b /\ b[First].prev = NIL
    /\ \A a \in DOMAIN b \ {First} : b[a].prev \in DOMAIN b /\ b[b[a].prev].next = a
Ends(b) == \E a \in DOMAIN b : b[a].next = NIL

WellLinked(b) == Typed(b) /\ Ordered(b) /\ Forward(b) /\ Backward(b) /\ Ends(b)

\* The free blocks whose successor is free, too, and the blocks in use.
Unmerged(b) ==
    {a \in DOMAIN b : b[a].is_free /\ b[a].next # NIL /\ b[b[a].next].is_free}
InUse(b) == {a \in DOMAIN b : ~b[a].is_free}

\* The block of size 0 that kmalloc takes for an unused heap is not in use.
FreshIsFree(b) == b[First].size = 0 /\ b[First].next = NIL => b[First].is_free

\* l is what the callers hold.
Callers(b, l) ==
    /\ l \in [{Data(a) : a \in InUse(b)} -> Nat]
    /\ \A a \in InUse(b) : l[Data(a)] <= b[a].size /\ b[a].size <= l[Data(a)] + Hdr

HeapIInv ==
    /\ WellLinked(blk)
    /\ Unmerged(blk) = {}
    /\ FreshIsFree(blk)
    /\ Callers(blk, live)

----------------------------------------------------------------------------
(* Facts about the list *)

\* A successor lies behind, a predecessor before; both links are inverse.
LEMMA Neighbours ==
    ASSUME NEW b, WellLinked(b), NEW a \in DOMAIN b
    PROVE  /\ a \in Nat /\ b[a] \in Headers /\ NIL \notin DOMAIN b
           /\ b[a].next # NIL => b[a].next \in DOMAIN b /\ b[a].next > a
           /\ b[a].prev # NIL => /\ b[a].prev \in DOMAIN b /\ b[a].prev < a
                                 /\ b[b[a].prev].next = a
           /\ b[a].next # NIL => \A c \in DOMAIN b : c <= a \/ b[a].next <= c
<1>1. a \in Nat /\ b[a] \in Headers /\ NIL \notin DOMAIN b
  BY DEF WellLinked, Typed, NIL
<1>2. b[a].next # NIL => b[a].next \in DOMAIN b /\ b[a].next > a
  BY <1>1, HeapAssumption DEF WellLinked, Forward, Headers
<1>3. b[a].prev # NIL => b[a].prev \in DOMAIN b /\ b[b[a].prev].next = a
  BY DEF WellLinked, Backward
<1>4. b[a].prev # NIL => b[a].prev < a
  <2> HAVE b[a].prev # NIL
  <2>1. b[a].prev \in Nat /\ b[b[a].prev] \in Headers
    BY <1>3 DEF WellLinked, Typed
  <2> QED
    BY <1>1, <1>3, <2>1, HeapAssumption DEF WellLinked, Forward, Headers, NIL
<1>5. b[a].next # NIL => \A c \in DOMAIN b : c <= a \/ b[a].next <= c
  <2> SUFFICES ASSUME b[a].next # NIL, NEW c \in DOMAIN b, ~(c <= a) PROVE b[a].next <= c
    OBVIOUS
  <2>1. c \in Nat /\ a < c
    BY <1>1 DEF WellLinked, Typed
  <2> QED
    BY <2>1 DEF WellLinked, Ordered, Forward
<1> QED
  BY <1>1, <1>2, <1>3, <1>4, <1>5

\* Setting a prev pointer leaves all else as it is.
LEMMA SetPrevIs ==
    ASSUME NEW D, NEW d \in [D -> Headers], NIL \notin D,
           NEW a \in D \cup {NIL}, NEW p \in Nat \cup {NIL}
    PROVE  /\ SetPrev(d, a, p) \in [D -> Headers]
           /\ \A x \in D :
                /\ SetPrev(d, a, p)[x].size = d[x].size
                /\ SetPrev(d, a, p)[x].is_free = d[x].is_free
                /\ SetPrev(d, a, p)[x].next = d[x].next
                /\ SetPrev(d, a, p)[x].prev = IF x = a THEN p ELSE d[x].prev
<1> DEFINE e == SetPrev(d, a, p)
<1>1. CASE a = NIL
  BY <1>1 DEF SetPrev
<1>2. CASE a # NIL
  <2>1. a \in D /\ d[a] \in Headers
    BY <1>2
  <2>2. e = [d EXCEPT ![a].prev = p]
    BY <1>2 DEF SetPrev
  <2>3. DOMAIN e = D /\ e = [x \in D |-> e[x]] /\ \A x \in D \ {a} : e[x] = d[x]
    BY <2>2
  <2>4. e[a] = [d[a] EXCEPT !.prev = p]
    BY <2>1, <2>2
  <2>5. e[a] \in Headers /\ e[a].size = d[a].size /\ e[a].is_free = d[a].is_free
        /\ e[a].next = d[a].next /\ e[a].prev = p
    BY <2>1, <2>4 DEF Headers
  <2> HIDE DEF e
  <2>6. e \in [D -> Headers]
    BY <2>3, <2>5
  <2>7. \A x \in D : /\ e[x].size = d[x].size /\ e[x].is_free = d[x].is_free
                     /\ e[x].next = d[x].next
                     /\ e[x].prev = IF x = a THEN p ELSE d[x].prev
    BY <2>3, <2>5
  <2> QED
    BY <2>6, <2>7 DEF e
<1> QED
  BY <1>1, <1>2

\* c is b with block n merged into block a.
Absorbed(b, a, n, c) ==
    /\ n \in DOMAIN b /\ n # a /\ DOMAIN c = DOMAIN b \ {n}
    /\ c \in [DOMAIN c -> Headers]
    /\ c[a].size = b[a].size + Hdr + b[n].size /\ c[a].is_free
    /\ c[a].next = b[n].next /\ c[a].prev = b[a].prev
    /\ \A x \in DOMAIN c \ {a} :
         /\ c[x].size = b[x].size /\ c[x].is_free = b[x].is_free
         /\ c[x].next = b[x].next
         /\ c[x].prev = IF x = b[n].next THEN a ELSE b[x].prev

\* What a merge does to each block.
LEMMA AbsorbIs ==
    ASSUME NEW b, WellLinked(b), NEW a \in DOMAIN b, b[a].next # NIL,
           NEW n, n = b[a].next, NEW c, c = Absorb(b, a)
    PROVE  Absorbed(b, a, n, c)
<1>1. n \in DOMAIN b /\ n > a /\ a \in Nat /\ n \in Nat /\ NIL \notin DOMAIN b
  BY Neighbours DEF WellLinked, Typed
<1>2. b[n].next # NIL => b[n].next \in DOMAIN b /\ b[n].next > n
  BY <1>1, Neighbours
<1>3. b[a] \in Headers /\ b[n] \in Headers /\ \A x \in DOMAIN b : b[x] \in Headers
  BY <1>1 DEF WellLinked, Typed
<1> DEFINE D == DOMAIN b \ {n}
           h == Header(b[a].size + Hdr + b[n].size, TRUE, b[a].prev, b[n].next)
           d == [x \in D |-> IF x = a THEN h ELSE b[x]]
<1>4. c = SetPrev(d, b[n].next, a)
  BY DEF Absorb
<1>5. h \in Headers /\ h.size = b[a].size + Hdr + b[n].size /\ h.is_free = TRUE
      /\ h.prev = b[a].prev /\ h.next = b[n].next
  BY <1>3, HeapAssumption DEF Header, Headers
<1> HIDE DEF h
<1>6. d \in [D -> Headers] /\ d[a] = h /\ \A x \in D \ {a} : d[x] = b[x]
  BY <1>1, <1>3, <1>5
<1>7. b[n].next \in D \cup {NIL} /\ b[n].next # a /\ NIL \notin D /\ a \in D
  BY <1>1, <1>2
<1> HIDE DEF D, d
<1>8. /\ c \in [D -> Headers]
      /\ \A x \in D :
            /\ c[x].size = d[x].size /\ c[x].is_free = d[x].is_free /\ c[x].next = d[x].next
            /\ c[x].prev = IF x = b[n].next THEN a ELSE d[x].prev
  BY <1>1, <1>4, <1>6, <1>7, SetPrevIs
<1> QED
  BY <1>1, <1>5, <1>6, <1>7, <1>8 DEF Absorbed, D

\* A merge keeps the list in order.
LEMMA AbsorbWellLinked ==
    ASSUME NEW b, WellLinked(b), NEW a \in DOMAIN b, b[a].next # NIL
    PROVE  WellLinked(Absorb(b, a))
<1> DEFINE n == b[a].next
           c == Absorb(b, a)
<1>0. /\ n \in DOMAIN b /\ n # a /\ DOMAIN c = DOMAIN b \ {n}
      /\ c \in [DOMAIN c -> Headers]
      /\ c[a].size = b[a].size + Hdr + b[n].size /\ c[a].is_free
      /\ c[a].next = b[n].next /\ c[a].prev = b[a].prev
      /\ \A x \in DOMAIN c \ {a} :
            /\ c[x].size = b[x].size /\ c[x].is_free = b[x].is_free
            /\ c[x].next = b[x].next
            /\ c[x].prev = IF x = b[n].next THEN a ELSE b[x].prev
  BY AbsorbIs DEF Absorbed
<1>1. /\ b \in [DOMAIN b -> Headers] /\ DOMAIN b \subseteq Nat /\ IsFiniteSet(DOMAIN b)
      /\ a \in DOMAIN b /\ Hdr \in Nat \ {0}
  BY HeapAssumption DEF WellLinked, Typed
<1>2. n = a + Hdr + b[a].size /\ b[n].prev = a /\ n # First
  <2>1. n > a /\ a \in Nat
    BY Neighbours
  <2>2. n # First
    BY <1>0, <1>1, <2>1 DEF First
  <2> QED
    BY <2>2 DEF WellLinked, Forward
<1>3. b[n].next # NIL => b[n].next \in DOMAIN c \ {a} /\ b[n].next = n + Hdr + b[n].size
  <2>1. n > a /\ a \in Nat /\ n \in Nat
    BY <1>0, Neighbours
  <2>2. b[n].next # NIL => b[n].next \in DOMAIN b /\ b[n].next > n /\ b[n].next \in Nat
    BY <1>0, <1>1, Neighbours
  <2>3. b[n].next # NIL => b[n].next = n + Hdr + b[n].size
    BY <1>0 DEF WellLinked, Forward
  <2> QED
    BY <1>0, <2>1, <2>2, <2>3
<1>4. \A x \in DOMAIN c \ {a} : c[x].size = b[x].size /\ c[x].next = b[x].next
  BY <1>0
<1>5. c[a].size = b[a].size + Hdr + b[n].size /\ c[a].next = b[n].next /\ c[a].prev = b[a].prev
  BY <1>0
<1> HIDE DEF c
<1>6. Typed(c)
  BY <1>0, <1>1, FS_RemoveElement DEF Typed
<1>7. Ordered(c)
  <2> SUFFICES ASSUME NEW x \in DOMAIN c, NEW y \in DOMAIN c, x < y
               PROVE  x + Hdr + c[x].size <= y
    BY DEF Ordered
  <2>1. CASE x # a
    BY <1>0, <1>4, <2>1 DEF WellLinked, Ordered
  <2>2. CASE x = a
    <3>1. y > n
      BY <1>0, <1>1, <1>2, <2>2 DEF WellLinked, Ordered
    <3>2. n + Hdr + b[n].size <= y
      BY <1>0, <3>1 DEF WellLinked, Ordered
    <3> QED
      BY <1>0, <1>1, <1>2, <1>5, <2>2, <3>2 DEF Headers
  <2> QED
    BY <2>1, <2>2
<1>8. Forward(c)
  <2> SUFFICES ASSUME NEW x \in DOMAIN c
               PROVE  /\ c[x].next = NIL => \A y \in DOMAIN c : y <= x
                      /\ c[x].next # NIL =>
                            /\ c[x].next \in DOMAIN c /\ c[x].next = x + Hdr + c[x].size
                            /\ c[c[x].next].prev = x
    BY DEF Forward
  <2>1. CASE x # a
    <3>1. b[x].next # n
      BY <1>0, <1>2, <2>1 DEF WellLinked, Forward
    <3>2. b[x].next = NIL => \A y \in DOMAIN c : y <= x
      BY <1>0 DEF WellLinked, Forward
    <3>3. b[x].next # NIL => /\ b[x].next \in DOMAIN c /\ b[x].next = x + Hdr + b[x].size
                              /\ b[b[x].next].prev = x
      BY <1>0, <3>1 DEF WellLinked, Forward
    <3>4. b[x].next # NIL => c[b[x].next].prev = x
      <4> HAVE b[x].next # NIL
      <4>1. CASE b[x].next = a
        BY <1>5, <3>3, <4>1
      <4>2. CASE b[x].next # a
        <5>1. b[x].next # b[n].next
          BY <1>0, <2>1, <3>3 DEF WellLinked, Forward
        <5> QED
          BY <1>0, <3>3, <4>2, <5>1
      <4> QED
        BY <4>1, <4>2
    <3> QED
      BY <1>4, <2>1, <3>2, <3>3, <3>4
  <2>2. CASE x = a
    <3>1. b[n].next = NIL => \A y \in DOMAIN c : y <= x
      <4> SUFFICES ASSUME b[n].next = NIL, NEW y \in DOMAIN c PROVE y <= x
        OBVIOUS
      <4>1. y <= n /\ y # n /\ y \in DOMAIN b
        BY <1>0 DEF WellLinked, Forward
      <4>2. y <= a \/ n <= y
        BY <4>1, Neighbours
      <4> QED
        BY <1>0, <1>1, <2>2, <4>1, <4>2
    <3>2. b[n].next # NIL => c[b[n].next].prev = a
      BY <1>0, <1>1, <1>3
    <3> QED
      BY <1>0, <1>1, <1>2, <1>3, <1>5, <2>2, <3>1, <3>2 DEF Headers
  <2> QED
    BY <2>1, <2>2
<1>9. Backward(c)
  <2>1. First \in DOMAIN c
    BY <1>0, <1>2 DEF WellLinked, Backward
  <2>2. c[First].prev = NIL
    <3>1. b[First].prev = NIL /\ First # b[n].next
      <4>1. b[n].next # NIL => b[n].next > n /\ n > 0 /\ b[n].next \in Nat /\ n \in Nat
        BY <1>0, <1>1, <1>2, Neighbours DEF First
      <4>2. First # b[n].next
        BY <4>1 DEF First, NIL
      <4> QED
        BY <4>2 DEF WellLinked, Backward
    <3> QED
      BY <1>0, <1>5, <2>1, <3>1
  <2>3. ASSUME NEW x \in DOMAIN c \ {First}
        PROVE  c[x].prev \in DOMAIN c /\ c[c[x].prev].next = x
    <3>1. b[x].prev \in DOMAIN b /\ b[b[x].prev].next = x
      BY <1>0, <2>3 DEF WellLinked, Backward
    <3>2. CASE x = b[n].next
      <4>1. c[x].prev = a
        <5>1. x # NIL /\ x # a
          <6>1. x \in Nat
            BY <1>0, <1>1, <2>3
          <6> QED
            BY <1>3, <3>2, <6>1 DEF NIL
        <5> QED
          BY <1>0, <2>3, <3>2, <5>1
      <4> QED
        BY <1>0, <1>5, <3>2, <4>1
    <3>3. CASE x # b[n].next
      <4>1. c[x].prev = b[x].prev
        BY <1>0, <1>5, <3>3
      <4>2. b[x].prev # n
        BY <3>1, <3>3
      <4>3. b[x].prev # a
        BY <1>0, <3>1
      <4> QED
        BY <1>0, <1>4, <3>1, <4>1, <4>2, <4>3
    <3> QED
      BY <3>2, <3>3
  <2> QED
    BY <2>1, <2>2, <2>3 DEF Backward
<1>10. Ends(c)
  <2>1. PICK x \in DOMAIN b : b[x].next = NIL
    BY DEF WellLinked, Ends
  <2>2. CASE x = n
    BY <1>0, <1>5, <2>1, <2>2 DEF Ends
  <2>3. CASE x # n
    BY <1>0, <1>4, <2>1, <2>3 DEF Ends
  <2> QED
    BY <2>2, <2>3
<1> QED
  BY <1>6, <1>7, <1>8, <1>9, <1>10 DEF WellLinked, c

\* A merge with a free block changes none of the blocks in use, and makes
\* neighbours of free blocks only where there have been such before.
LEMMA AbsorbKeeps ==
    ASSUME NEW b, WellLinked(b), NEW a \in DOMAIN b, b[a].is_free,
           NEW n, n = b[a].next, n # NIL, b[n].is_free,
           NEW c, c = Absorb(b, a)
    PROVE  /\ InUse(c) = InUse(b)
           /\ \A x \in InUse(b) : c[x].size = b[x].size
           /\ \A x \in Unmerged(c) : IF x = a THEN n \in Unmerged(b) ELSE x \in Unmerged(b)
           /\ FreshIsFree(b) => FreshIsFree(c)
<1>1. /\ n \in DOMAIN b /\ n # a /\ DOMAIN c = DOMAIN b \ {n}
      /\ c[a].is_free /\ c[a].next = b[n].next
      /\ \A x \in DOMAIN c \ {a} :
            c[x].size = b[x].size /\ c[x].is_free = b[x].is_free /\ c[x].next = b[x].next
  BY AbsorbIs DEF Absorbed
<1>2. InUse(c) = InUse(b)
  BY <1>1 DEF InUse
<1>3. \A x \in InUse(b) : c[x].size = b[x].size
  BY <1>1 DEF InUse
<1>4. ASSUME NEW x \in Unmerged(c)
      PROVE  IF x = a THEN n \in Unmerged(b) ELSE x \in Unmerged(b)
  <2>1. x \in DOMAIN c /\ c[x].is_free /\ c[x].next # NIL /\ c[c[x].next].is_free
    BY DEF Unmerged
  <2>2. CASE x = a
    <3>1. b[n].next \in DOMAIN b /\ b[n].next # n /\ b[n].next # a
      BY <1>1, <2>1, <2>2, Neighbours
    <3> QED
      BY <1>1, <2>1, <2>2, <3>1 DEF Unmerged
  <2>3. CASE x # a
    <3>1. b[x].next # NIL /\ b[x].next \in DOMAIN b /\ b[b[x].next].prev = x /\ b[n].prev = a
      BY <1>1, <2>1, <2>3 DEF WellLinked, Forward
    <3>2. b[x].next # n
      BY <2>3, <3>1
    <3>3. b[b[x].next].is_free
      BY <1>1, <2>1, <2>3, <3>1, <3>2
    <3> QED
      BY <1>1, <2>1, <2>3, <3>1, <3>3 DEF Unmerged
  <2> QED
    BY <2>2, <2>3
<1>5. First \in DOMAIN c
  BY AbsorbWellLinked DEF WellLinked, Backward
<1>6. FreshIsFree(b) => FreshIsFree(c)
  BY <1>1, <1>5 DEF FreshIsFree
<1> QED
  BY <1>2, <1>3, <1>4, <1>6

\* The order of the list does not depend on which blocks are free.
LEMMA Relabelled ==
    ASSUME NEW b, WellLinked(b), NEW c, c \in [DOMAIN b -> Headers],
           \A x \in DOMAIN b :
                c[x].size = b[x].size /\ c[x].prev = b[x].prev /\ c[x].next = b[x].next
    PROVE  WellLinked(c)
<1>1. Typed(c)
  BY DEF WellLinked, Typed
<1>2. Ordered(c) /\ Ends(c)
  BY DEF WellLinked, Ordered, Ends
<1>3. Forward(c)
  BY DEF WellLinked, Forward
<1>4. Backward(c)
  BY DEF WellLinked, Backward
<1> QED
  BY <1>1, <1>2, <1>3, <1>4 DEF WellLinked

----------------------------------------------------------------------------
(* The steps keep the invariant *)

LEMMA HeapInitIInv == HeapInit => HeapIInv
<1> SUFFICES ASSUME HeapInit PROVE HeapIInv
  OBVIOUS
<1> DEFINE h == Header(0, TRUE, NIL, NIL)
<1>1. DOMAIN blk = {First} /\ blk[First] = h /\ blk = [x \in {First} |-> h] /\ First \in Nat
  BY DEF HeapInit, First
<1>2. h \in Headers /\ h.size = 0 /\ h.is_free /\ h.prev = NIL /\ h.next = NIL
  BY DEF Header, Headers
<1> HIDE DEF h
<1>3. Typed(blk)
  BY <1>1, <1>2, FS_Singleton DEF Typed
<1>4. Ordered(blk) /\ Forward(blk) /\ Backward(blk) /\ Ends(blk)
  BY <1>1, <1>2 DEF Ordered, Forward, Backward, Ends
<1>5. Unmerged(blk) = {} /\ FreshIsFree(blk) /\ InUse(blk) = {}
  BY <1>1, <1>2 DEF Unmerged, FreshIsFree, InUse
<1>6. DOMAIN live = {} /\ live = [x \in {} |-> 0]
  BY DEF HeapInit
<1>7. Callers(blk, live)
  BY <1>5, <1>6 DEF Callers
<1> QED
  BY <1>3, <1>4, <1>5, <1>7 DEF HeapIInv, WellLinked

\* m is l and the n that the caller of block a is given.
GivenTo(l, a, n, m) ==
    /\ m = [x \in DOMAIN l \cup {Data(a)} |-> m[x]] /\ m[Data(a)] = n
    /\ \A x \in DOMAIN l : x # Data(a) => m[x] = l[x]

\* What the callers hold when kmalloc marks block a and gives it away.
LEMMA GivenKeeps ==
    ASSUME NEW b, NEW c, NEW l, NEW m, NEW a \in Nat, NEW n \in Nat,
           InUse(b) \subseteq Nat, Callers(b, l),
           InUse(c) = InUse(b) \cup {a}, a \notin InUse(b),
           \A x \in InUse(b) : c[x].size = b[x].size,
           n <= c[a].size, c[a].size <= n + Hdr,
           GivenTo(l, a, n, m)
    PROVE  Callers(c, m)
<1>1. DOMAIN l = {Data(x) : x \in InUse(b)} /\ \A x \in DOMAIN l : l[x] \in Nat
  BY DEF Callers
<1>2. DOMAIN m = {Data(x) : x \in InUse(c)}
  BY <1>1 DEF GivenTo
<1>3. \A x \in DOMAIN m : m[x] \in Nat
  BY <1>1 DEF GivenTo
<1>4. ASSUME NEW x \in InUse(c)
      PROVE  m[Data(x)] <= c[x].size /\ c[x].size <= m[Data(x)] + Hdr
  <2>1. CASE x = a
    BY <2>1 DEF GivenTo
  <2>2. CASE x # a
    <3>1. x \in InUse(b) /\ x \in Nat /\ Data(x) # Data(a) /\ Data(x) \in DOMAIN l
      BY <1>1, <2>2, HeapAssumption DEF Data
    <3>2. m[Data(x)] = l[Data(x)] /\ c[x].size = b[x].size
      BY <3>1 DEF GivenTo
    <3> QED
      BY <3>1, <3>2 DEF Callers
  <2> QED
    BY <2>1, <2>2
<1>5. m \in [{Data(x) : x \in InUse(c)} -> Nat]
  BY <1>2, <1>3 DEF GivenTo
<1> QED
  BY <1>4, <1>5 DEF Callers

\* First fit finds a free block that is large enough, if there is one.
LEMMA FirstFitIs ==
    ASSUME HeapIInv, NEW n \in Nat, Fits(n) # {}
    PROVE  /\ FirstFit(n) \in Block /\ blk[FirstFit(n)].is_free
           /\ blk[FirstFit(n)].size >= n /\ blk[FirstFit(n)].size > 0
<1>1. Fits(n) \subseteq Nat
  BY DEF Fits, Block, HeapIInv, WellLinked, Typed
<1>2. \E a \in Fits(n) : \A b \in Fits(n) : a <= b
  BY <1>1, NatMinimum
<1>3. FirstFit(n) \in Fits(n)
  BY <1>2 DEF FirstFit
<1> QED
  BY <1>3 DEF Fits

\* kmalloc gives a free block away whole.
LEMMA TakeWholeIInv ==
    ASSUME HeapIInv, NEW n \in Sizes, TakeWhole(n)
    PROVE  HeapIInv'
<1> DEFINE a == FirstFit(n)
<1>0. n \in Nat /\ Hdr \in Nat
  BY HeapAssumption
<1>1. a \in Block /\ blk[a].is_free /\ blk[a].size >= n /\ blk[a].size > 0
  BY <1>0, FirstFitIs DEF TakeWhole
<1>2. blk \in [Block -> Headers] /\ Block \subseteq Nat
  BY DEF HeapIInv, WellLinked, Typed, Block
<1>3. blk[a].size <= n + Hdr
  BY <1>0, <1>1, <1>2 DEF TakeWhole, Roomy, Headers
<1>4. blk' = [blk EXCEPT ![a].is_free = FALSE] /\ Given(a, n)
  BY DEF TakeWhole
<1> HIDE DEF a
<1>5. /\ DOMAIN blk' = Block /\ blk' \in [Block -> Headers]
      /\ \A x \in Block : /\ blk'[x].size = blk[x].size /\ blk'[x].prev = blk[x].prev
                          /\ blk'[x].next = blk[x].next
                          /\ blk'[x].is_free <=> x # a /\ blk[x].is_free
  <2>1. blk[a] \in Headers
    BY <1>1, <1>2
  <2>2. blk'[a] = [blk[a] EXCEPT !.is_free = FALSE]
    BY <1>1, <1>2, <1>4
  <2>3. /\ blk'[a] \in Headers /\ blk'[a].size = blk[a].size /\ blk'[a].prev = blk[a].prev
        /\ blk'[a].next = blk[a].next /\ blk'[a].is_free = FALSE
    BY <2>1, <2>2 DEF Headers
  <2>4. DOMAIN blk' = Block /\ blk' = [x \in Block |-> blk'[x]]
        /\ \A x \in Block \ {a} : blk'[x] = blk[x]
    BY <1>2, <1>4 DEF Block
  <2> QED
    BY <1>2, <2>3, <2>4
<1>6. WellLinked(blk')
  BY <1>5, Relabelled DEF HeapIInv, Block
<1>7. Unmerged(blk') = {}
  BY <1>5 DEF HeapIInv, Unmerged, WellLinked, Forward, Block
<1>8. FreshIsFree(blk')
  <2>1. First \in Block /\ FreshIsFree(blk)
    BY DEF HeapIInv, WellLinked, Backward, Block
  <2>2. blk[First].size = 0 => First # a
    BY <1>1
  <2> QED
    BY <1>5, <2>1, <2>2 DEF FreshIsFree
<1>9. InUse(blk') = InUse(blk) \cup {a} /\ a \notin InUse(blk) /\ InUse(blk) \subseteq Nat
  BY <1>1, <1>2, <1>5 DEF InUse, Block
<1>10. Callers(blk', live')
  <2>1. a \in Nat /\ n <= blk'[a].size /\ blk'[a].size <= n + Hdr
    BY <1>1, <1>2, <1>3, <1>5
  <2>2. \A x \in InUse(blk) : blk'[x].size = blk[x].size
    BY <1>5 DEF InUse, Block
  <2> QED
    <3>1. Callers(blk, live)
      BY DEF HeapIInv
    <3>2. GivenTo(live, a, n, live')
      BY <1>4 DEF Given, GivenTo
    <3> QED
      BY <1>0, <1>9, <2>1, <2>2, <3>1, <3>2, GivenKeeps
<1> QED
  BY <1>6, <1>7, <1>8, <1>10 DEF HeapIInv

\* What kmalloc's split of the block at a leaves: a block of n units in use, and
\* a free block at r.
SplitInto(c, a, r, n) ==
    /\ r = a + Hdr + n /\ r \notin Block
    /\ c \in [Block \cup {r} -> Headers]
    /\ c[a].size = n /\ ~c[a].is_free /\ c[a].prev = blk[a].prev /\ c[a].next = r
    /\ c[r].size + n + Hdr = blk[a].size /\ c[r].is_free
    /\ c[r].prev = a /\ c[r].next = blk[a].next
    /\ \A x \in Block \ {a} :
         /\ c[x].size = blk[x].size /\ (c[x].is_free <=> blk[x].is_free)
         /\ c[x].next = blk[x].next
         /\ c[x].prev = IF x = blk[a].next THEN r ELSE blk[x].prev

LEMMA SplitIs ==
    ASSUME HeapIInv, NEW n \in Nat, NEW a, a = FirstFit(n), Split(n), NEW c, c = blk'
    PROVE  SplitInto(c, a, Rest(n), n)
<1> DEFINE r == Rest(n)
           k == Header(n, FALSE, blk[a].prev, r)
           h == Header(blk[a].size - n - Hdr, TRUE, a, blk[a].next)
           d == Cut(n)
<1>1. a \in Block /\ blk[a].is_free /\ blk[a].size >= n + Hdr + 1
  BY FirstFitIs DEF Roomy, Split
<1>2. /\ blk \in [Block -> Headers] /\ Block \subseteq Nat /\ a \in Nat
      /\ Hdr \in Nat \ {0} /\ blk[a] \in Headers
  BY <1>1, HeapAssumption DEF HeapIInv, WellLinked, Typed, Block
<1>3. r = a + Hdr + n
  BY DEF Rest, Data
<1>4. r \in Nat /\ r > a /\ r < a + Hdr + blk[a].size
  BY <1>1, <1>2, <1>3 DEF Headers
<1>5. r \notin Block
  <2> SUFFICES ASSUME r \in Block PROVE FALSE
    OBVIOUS
  <2>1. a + Hdr + blk[a].size <= r
    BY <1>1, <1>4 DEF HeapIInv, WellLinked, Ordered, Block
  <2> QED
    BY <1>1, <1>2, <1>4, <2>1 DEF Headers
<1>6. k \in Headers /\ k.size = n /\ k.is_free = FALSE /\ k.prev = blk[a].prev /\ k.next = r
  BY <1>2, <1>4 DEF Header, Headers
<1>7. /\ h \in Headers /\ h.size + n + Hdr = blk[a].size /\ h.is_free = TRUE
      /\ h.prev = a /\ h.next = blk[a].next
  BY <1>1, <1>2 DEF Header, Headers
<1>8. d = [x \in Block \cup {r} |-> IF x = r THEN h ELSE IF x = a THEN k ELSE blk[x]]
  BY DEF Cut
<1> HIDE DEF k, h, r, d
<1>9. /\ d \in [Block \cup {r} -> Headers] /\ d[a] = k /\ d[r] = h
      /\ \A x \in Block \ {a} : d[x] = blk[x]
  BY <1>1, <1>2, <1>4, <1>5, <1>6, <1>7, <1>8
<1>10. blk[a].next \in Block \cup {r} \cup {NIL} /\ NIL \notin Block \cup {r}
       /\ blk[a].next # a /\ blk[a].next # r
  <2>1. blk[a].next # NIL => blk[a].next \in Block /\ blk[a].next > a
    BY <1>1, Neighbours DEF HeapIInv, Block
  <2>2. NIL \notin Nat /\ a # NIL
    BY <1>2 DEF NIL
  <2>3. NIL \notin Block \cup {r}
    BY <1>2, <1>4, <2>2
  <2>4. blk[a].next # a
    BY <1>2, <2>1, <2>2
  <2> QED
    BY <1>5, <2>1, <2>3, <2>4
<1>11. c = SetPrev(d, blk[a].next, r)
  BY DEF r, d, Split
<1>12. /\ c \in [Block \cup {r} -> Headers]
       /\ \A x \in Block \cup {r} :
            /\ c[x].size = d[x].size /\ c[x].is_free = d[x].is_free /\ c[x].next = d[x].next
            /\ c[x].prev = IF x = blk[a].next THEN r ELSE d[x].prev
  <2> DEFINE D == Block \cup {r}
  <2>1. d \in [D -> Headers] /\ NIL \notin D /\ blk[a].next \in D \cup {NIL}
    BY <1>9, <1>10
  <2>2. r \in Nat \cup {NIL}
    BY <1>4
  <2> HIDE DEF D
  <2>3. /\ c \in [D -> Headers]
        /\ \A x \in D :
            /\ c[x].size = d[x].size /\ c[x].is_free = d[x].is_free /\ c[x].next = d[x].next
            /\ c[x].prev = IF x = blk[a].next THEN r ELSE d[x].prev
    <3> DEFINE q == blk[a].next
    <3>1. c = SetPrev(d, q, r) /\ q \in D \cup {NIL}
      BY <1>11, <2>1
    <3> HIDE DEF q
    <3>2. /\ c \in [D -> Headers]
          /\ \A x \in D :
            /\ c[x].size = d[x].size /\ c[x].is_free = d[x].is_free /\ c[x].next = d[x].next
            /\ c[x].prev = IF x = q THEN r ELSE d[x].prev
      BY <2>1, <2>2, <3>1, SetPrevIs
    <3> QED
      BY <3>2 DEF q
  <2> QED
    BY <2>3 DEF D
<1>13. a \in Block \cup {r} /\ r \in Block \cup {r} /\ r # a
  BY <1>1, <1>2, <1>4
<1>14. c[a].size = n /\ ~c[a].is_free /\ c[a].prev = blk[a].prev /\ c[a].next = r
  BY <1>6, <1>9, <1>10, <1>12, <1>13
<1>15. c[r].size + n + Hdr = blk[a].size /\ c[r].is_free /\ c[r].prev = a /\ c[r].next = blk[a].next
  BY <1>7, <1>9, <1>10, <1>12, <1>13
<1>16. \A x \in Block \ {a} :
            /\ c[x].size = blk[x].size /\ (c[x].is_free <=> blk[x].is_free)
            /\ c[x].next = blk[x].next
            /\ c[x].prev = IF x = blk[a].next THEN r ELSE blk[x].prev
  BY <1>9, <1>12
<1>17. c \in [Block \cup {r} -> Headers]
  BY <1>12
<1> QED
  BY <1>3, <1>5, <1>14, <1>15, <1>16, <1>17 DEF r, SplitInto

\* kmalloc cuts the front off a free block.
LEMMA SplitIInv ==
    ASSUME HeapIInv, NEW n \in Sizes, Split(n)
    PROVE  HeapIInv'
<1> DEFINE a == FirstFit(n)
           r == Rest(n)
           c == blk'
<1>0. n \in Nat /\ Hdr \in Nat \ {0}
  BY HeapAssumption
<1>1. a \in Block /\ blk[a].is_free /\ blk[a].size >= n + Hdr + 1
  BY <1>0, FirstFitIs DEF Split, Roomy
<1>2. blk \in [Block -> Headers] /\ Block \subseteq Nat /\ IsFiniteSet(Block) /\ a \in Nat
  BY <1>1 DEF HeapIInv, WellLinked, Typed, Block
<1>3. /\ r = a + Hdr + n /\ r \notin Block
      /\ c \in [Block \cup {r} -> Headers]
      /\ c[a].size = n /\ ~c[a].is_free /\ c[a].prev = blk[a].prev /\ c[a].next = r
      /\ c[r].size + n + Hdr = blk[a].size /\ c[r].is_free
      /\ c[r].prev = a /\ c[r].next = blk[a].next
      /\ \A x \in Block \ {a} :
            /\ c[x].size = blk[x].size /\ (c[x].is_free <=> blk[x].is_free)
            /\ c[x].next = blk[x].next
            /\ c[x].prev = IF x = blk[a].next THEN r ELSE blk[x].prev
  <2>1. SplitInto(blk', FirstFit(n), Rest(n), n)
    BY <1>0, SplitIs
  <2>2. SplitInto(c, a, r, n)
    BY <2>1
  <2> HIDE DEF a, c, r
  <2> QED
    BY <2>2 DEF SplitInto
<1>4. Given(a, n)
  BY DEF Split
<1> HIDE DEF a, r, c
<1>5. DOMAIN c = Block \cup {r} /\ r \in Nat /\ r > a
  BY <1>0, <1>2, <1>3
<1>6. /\ \A x \in Block : x <= a \/ a + Hdr + blk[a].size <= x
      /\ \A x, y \in Block : x < y => x + Hdr + blk[x].size <= y
      /\ blk[a].next = NIL => \A x \in Block : x <= a
      /\ \A x \in Block : blk[x].next # NIL =>
            /\ blk[x].next \in Block /\ blk[x].next = x + Hdr + blk[x].size
            /\ blk[blk[x].next].prev = x
  BY <1>1, <1>2 DEF HeapIInv, WellLinked, Ordered, Forward, Block
<1>7. Typed(c)
  <2>1. IsFiniteSet(Block \cup {r})
    BY <1>2, FS_AddElement
  <2> QED
    BY <1>2, <1>3, <1>5, <2>1 DEF Typed
<1>8. Ordered(c)
  <2> SUFFICES ASSUME NEW x \in DOMAIN c, NEW y \in DOMAIN c, x < y
               PROVE  x + Hdr + c[x].size <= y
    BY DEF Ordered
  <2>1. x \in Nat /\ y \in Nat
    BY <1>2, <1>5
  <2>2. blk[a] \in Headers /\ blk[a].size \in Nat /\ c[r].size \in Nat
    BY <1>1, <1>2, <1>3, <1>5 DEF Headers
  <2>3. CASE x = a
    BY <1>0, <1>2, <1>3, <1>5, <1>6, <2>1, <2>2, <2>3
  <2>4. CASE x = r
    <3>1. y \in Block /\ y # a /\ ~(y <= a)
      BY <1>2, <1>5, <2>1, <2>4
    <3> QED
      BY <1>0, <1>2, <1>3, <1>6, <2>1, <2>2, <2>4, <3>1
  <2>5. CASE x # a /\ x # r
    <3>1. x \in Block /\ c[x].size = blk[x].size /\ blk[x].size \in Nat
      BY <1>2, <1>3, <1>5, <2>5 DEF Headers
    <3>2. CASE y = r
      <4>1. x < a
        BY <1>0, <1>1, <1>2, <1>3, <1>6, <2>1, <2>2, <2>5, <3>1, <3>2
      <4> QED
        BY <1>0, <1>1, <1>2, <1>3, <1>6, <2>1, <3>1, <3>2, <4>1
    <3>3. CASE y # r
      BY <1>5, <1>6, <3>1, <3>3
    <3> QED
      BY <3>2, <3>3
  <2> QED
    BY <2>3, <2>4, <2>5
<1>9. Forward(c)
  <2> SUFFICES ASSUME NEW x \in DOMAIN c
               PROVE  /\ c[x].next = NIL => \A y \in DOMAIN c : y <= x
                      /\ c[x].next # NIL =>
                            /\ c[x].next \in DOMAIN c /\ c[x].next = x + Hdr + c[x].size
                            /\ c[c[x].next].prev = x
    BY DEF Forward
  <2>1. r # NIL
    BY <1>5 DEF NIL
  <2>2. CASE x = a
    BY <1>3, <1>5, <2>1, <2>2
  <2>3. CASE x = r
    <3>1. c[x].next = NIL => \A y \in DOMAIN c : y <= x
      BY <1>2, <1>3, <1>5, <1>6, <2>3
    <3>2. ASSUME c[x].next # NIL
          PROVE  /\ c[x].next \in DOMAIN c /\ c[x].next = x + Hdr + c[x].size
                 /\ c[c[x].next].prev = x
      <4>1. blk[a].next \in Block /\ blk[a].next = a + Hdr + blk[a].size
        BY <1>1, <1>3, <1>6, <2>3, <3>2
      <4>2. blk[a].next # a
        BY <1>1, Neighbours, <1>3, <2>3, <3>2, <1>2 DEF HeapIInv, Block
      <4>3. c[x].size \in Nat /\ blk[a].size \in Nat
        BY <1>1, <1>2, <1>3, <1>5, <2>3 DEF Headers
      <4> QED
        BY <1>0, <1>2, <1>3, <1>5, <2>3, <4>1, <4>2, <4>3
    <3> QED
      BY <3>1, <3>2
  <2>4. CASE x # a /\ x # r
    <3>1. x \in Block /\ c[x].next = blk[x].next /\ c[x].size = blk[x].size /\ x \in Nat
      BY <1>2, <1>3, <1>5, <2>4
    <3>2. c[x].next = NIL => \A y \in DOMAIN c : y <= x
      <4> HAVE c[x].next = NIL
      <4>1. \A y \in Block : y <= x
        BY <3>1 DEF HeapIInv, WellLinked, Forward, Block
      <4>2. a < x
        BY <1>1, <1>2, <2>4, <3>1, <4>1
      <4>3. a + Hdr + blk[a].size <= x
        BY <1>1, <1>6, <3>1, <4>2
      <4>4. r <= x
        BY <1>0, <1>1, <1>2, <1>3, <3>1, <4>3 DEF Headers
      <4> QED
        BY <1>5, <4>1, <4>4
    <3>3. ASSUME c[x].next # NIL
          PROVE  /\ c[x].next \in DOMAIN c /\ c[x].next = x + Hdr + c[x].size
                 /\ c[c[x].next].prev = x
      <4>1. /\ blk[x].next \in Block /\ blk[x].next = x + Hdr + blk[x].size
            /\ blk[blk[x].next].prev = x
        BY <1>6, <3>1, <3>3
      <4>2. blk[x].next = a => c[blk[x].next].prev = x
        BY <1>3, <4>1
      <4>3. blk[x].next # a => blk[x].next # blk[a].next
        <5>1. blk[a].next # NIL => blk[blk[a].next].prev = a
          BY <1>1, <1>6
        <5> QED
          BY <2>4, <3>1, <3>3, <4>1, <5>1
      <4>4. blk[x].next # a => c[blk[x].next].prev = x
        BY <1>3, <4>1, <4>3
      <4> QED
        BY <1>5, <3>1, <4>1, <4>2, <4>4
    <3> QED
      BY <3>2, <3>3
  <2> QED
    BY <2>2, <2>3, <2>4
<1>10. Backward(c)
  <2>1. First \in Block /\ blk[First].prev = NIL /\ First = 0
        /\ \A x \in Block \ {First} : blk[x].prev \in Block /\ blk[blk[x].prev].next = x
    BY DEF HeapIInv, WellLinked, Backward, Block, First
  <2>2. blk[a].next # NIL => blk[a].next > a /\ blk[a].next \in Block
    BY <1>1, Neighbours DEF HeapIInv, Block
  <2>3. c[First].prev = NIL
    <3>1. First # blk[a].next
      BY <1>2, <2>1, <2>2 DEF NIL
    <3> QED
      BY <1>3, <2>1, <3>1
  <2>4. ASSUME NEW x \in DOMAIN c \ {First}
        PROVE  c[x].prev \in DOMAIN c /\ c[c[x].prev].next = x
    <3>1. CASE x = r
      BY <1>1, <1>3, <1>5, <3>1
    <3>2. CASE x # r
      <4>1. x \in Block /\ blk[x].prev \in Block /\ blk[blk[x].prev].next = x
        BY <1>5, <2>1, <2>4, <3>2
      <4>2. CASE x = blk[a].next
        <5>1. x # a /\ c[x].prev = r
          BY <1>2, <1>3, <2>2, <4>1, <4>2 DEF NIL
        <5> QED
          BY <1>3, <1>5, <4>2, <5>1
      <4>3. CASE x # blk[a].next
        <5>1. c[x].prev = blk[x].prev
          BY <1>3, <4>1, <4>3
        <5>2. blk[x].prev # a
          BY <4>1, <4>3
        <5> QED
          BY <1>3, <1>5, <4>1, <5>1, <5>2
      <4> QED
        BY <4>2, <4>3
    <3> QED
      BY <3>1, <3>2
  <2> QED
    BY <1>5, <2>1, <2>3, <2>4 DEF Backward
<1>11. Ends(c)
  <2>1. PICK x \in Block : blk[x].next = NIL
    BY DEF HeapIInv, WellLinked, Ends, Block
  <2>2. CASE x = a
    BY <1>3, <1>5, <2>1, <2>2 DEF Ends
  <2>3. CASE x # a
    BY <1>3, <1>5, <2>1, <2>3 DEF Ends
  <2> QED
    BY <2>2, <2>3
<1>12. Unmerged(c) = {}
  <2> SUFFICES ASSUME NEW x \in DOMAIN c, c[x].is_free, c[x].next # NIL, c[c[x].next].is_free
               PROVE  FALSE
    BY DEF Unmerged
  <2>1. \A y \in Block : blk[y].is_free /\ blk[y].next # NIL => ~blk[blk[y].next].is_free
    BY DEF HeapIInv, Unmerged, Block
  <2>2. x # a
    BY <1>3
  <2>3. CASE x = r
    <3>1. blk[a].next \in Block /\ blk[a].next # a
      BY <1>1, <1>2, <1>3, <2>3, Neighbours DEF HeapIInv, Block
    <3> QED
      BY <1>1, <1>3, <2>1, <2>3, <3>1
  <2>4. CASE x # r
    <3>1. x \in Block /\ blk[x].is_free /\ c[x].next = blk[x].next
      BY <1>3, <1>5, <2>2, <2>4
    <3>2. blk[x].next \in Block /\ blk[x].next # a
      BY <1>3, <1>6, <3>1
    <3> QED
      BY <1>3, <2>1, <3>1, <3>2
  <2> QED
    BY <2>3, <2>4
<1>13. FreshIsFree(c)
  <2>1. First \in Block /\ FreshIsFree(blk) /\ r # NIL
    BY <1>5 DEF HeapIInv, WellLinked, Backward, Block, NIL
  <2> QED
    BY <1>3, <2>1 DEF FreshIsFree
<1>14. Callers(c, live')
  <2>1. InUse(c) = InUse(blk) \cup {a} /\ a \notin InUse(blk) /\ InUse(blk) \subseteq Nat
    BY <1>1, <1>2, <1>3, <1>5 DEF InUse, Block
  <2>2. n <= c[a].size /\ c[a].size <= n + Hdr
    BY <1>0, <1>3
  <2>3. \A x \in InUse(blk) : c[x].size = blk[x].size
    BY <1>1, <1>3 DEF InUse, Block
  <2>4. Callers(blk, live)
    BY DEF HeapIInv
  <2>5. GivenTo(live, a, n, live')
    BY <1>4 DEF Given, GivenTo
  <2> QED
    BY <1>0, <1>2, <2>1, <2>2, <2>3, <2>4, <2>5, GivenKeeps
<1> QED
  BY <1>7, <1>8, <1>9, <1>10, <1>11, <1>12, <1>13, <1>14 DEF HeapIInv, WellLinked, c

\* The last block is the only one without a successor.
LEMMA TailIs ==
    ASSUME HeapIInv
    PROVE  LastBlock \in Block /\ blk[LastBlock].next = NIL /\ \A x \in Block : x <= LastBlock
<1>1. \E a \in Block : blk[a].next = NIL
  BY DEF HeapIInv, WellLinked, Ends, Block
<1>2. LastBlock \in Block /\ blk[LastBlock].next = NIL
  BY <1>1 DEF LastBlock
<1> QED
  BY <1>2 DEF HeapIInv, WellLinked, Forward, Block

\* The first request turns the block of size 0 into the first block in use.
LEMMA ExtendFreshIInv ==
    ASSUME HeapIInv, NEW n \in Sizes, n > 0, Extend(n), Fresh
    PROVE  HeapIInv'
<1>0. n \in Nat /\ Hdr \in Nat \ {0} /\ First \in Nat
  BY HeapAssumption DEF First
<1>1. /\ First \in Block /\ blk[First].prev = NIL /\ blk[First].is_free
      /\ blk \in [Block -> Headers] /\ Block \subseteq Nat
  BY TailIs DEF HeapIInv, WellLinked, Typed, Backward, FreshIsFree, Fresh, Block
<1>2. Block = {First}
  <2>1. LastBlock = First /\ First = 0
    BY DEF Fresh, First
  <2>2. \A x \in Block : x \in Nat /\ x <= 0
    BY <1>1, <2>1, TailIs
  <2>3. \A x \in Block : x = First
    BY <2>1, <2>2
  <2> QED
    BY <1>1, <2>3
<1> DEFINE h == Header(n, FALSE, NIL, NIL)
<1>3. h \in Headers /\ h.size = n /\ ~h.is_free /\ h.prev = NIL /\ h.next = NIL
  BY <1>0 DEF Header, Headers
<1>4. Given(First, n) /\ blk' = [x \in {First} |-> h]
  BY <1>1, <1>2 DEF Extend, Fresh
<1> HIDE DEF h
<1>5. DOMAIN blk' = {First} /\ blk'[First] = h
  BY <1>4
<1>6. Typed(blk')
  BY <1>0, <1>3, <1>4, <1>5, FS_Singleton DEF Typed
<1>7. Ordered(blk') /\ Forward(blk') /\ Backward(blk') /\ Ends(blk')
  BY <1>0, <1>3, <1>5 DEF Ordered, Forward, Backward, Ends
<1>8. Unmerged(blk') = {} /\ FreshIsFree(blk')
  BY <1>0, <1>3, <1>5 DEF Unmerged, FreshIsFree
<1>9. InUse(blk) = {} /\ InUse(blk') = {First}
  BY <1>1, <1>2, <1>3, <1>5 DEF InUse, Block
<1>10. Callers(blk', live')
  <2>1. n <= blk'[First].size /\ blk'[First].size <= n + Hdr
    BY <1>0, <1>3, <1>5
  <2>2. Callers(blk, live)
    BY DEF HeapIInv
  <2>3. GivenTo(live, First, n, live')
    BY <1>4 DEF Given, GivenTo
  <2>4. /\ InUse(blk) \subseteq Nat /\ InUse(blk') = InUse(blk) \cup {First}
        /\ First \notin InUse(blk) /\ \A x \in InUse(blk) : blk'[x].size = blk[x].size
    BY <1>9
  <2> QED
    BY <1>0, <2>1, <2>2, <2>3, <2>4, GivenKeeps
<1> QED
  BY <1>6, <1>7, <1>8, <1>10 DEF HeapIInv, WellLinked

\* Otherwise the heap grows by a block behind the last one.
LEMMA ExtendGrownIInv ==
    ASSUME HeapIInv, NEW n \in Sizes, Extend(n), ~Fresh
    PROVE  HeapIInv'
<1> DEFINE t == LastBlock
           e == End(LastBlock)
           c == blk'
           h == Header(n, FALSE, t, NIL)
           k == [blk[t] EXCEPT !.next = e]
<1>0. n \in Nat /\ Hdr \in Nat \ {0}
  BY HeapAssumption
<1>1. t \in Block /\ blk[t].next = NIL /\ \A x \in Block : x <= t
  BY TailIs
<1>2. /\ blk \in [Block -> Headers] /\ Block \subseteq Nat /\ IsFiniteSet(Block)
      /\ t \in Nat /\ blk[t] \in Headers
  BY <1>1 DEF HeapIInv, WellLinked, Typed, Block
<1>3. e = t + Hdr + blk[t].size
  BY DEF End
<1>4. e \in Nat /\ e > t /\ e \notin Block /\ \A x \in Block : x < e
  <2>1. e \in Nat /\ e > t
    BY <1>0, <1>2, <1>3 DEF Headers
  <2>2. \A x \in Block : x < e
    BY <1>1, <1>2, <2>1
  <2> QED
    BY <2>1, <2>2
<1>5. h \in Headers /\ h.size = n /\ ~h.is_free /\ h.prev = t /\ h.next = NIL
  BY <1>0, <1>2 DEF Header, Headers
<1>6. /\ k \in Headers /\ k.size = blk[t].size /\ k.is_free = blk[t].is_free
      /\ k.prev = blk[t].prev /\ k.next = e
  BY <1>2, <1>4 DEF Headers
<1>7. Given(e, n) /\ c = [x \in Block \cup {e} |-> IF x = e THEN h ELSE IF x = t THEN k ELSE blk[x]]
  BY DEF Extend
<1> HIDE DEF t, e, c, h, k
<1>8. /\ DOMAIN c = Block \cup {e} /\ c \in [DOMAIN c -> Headers]
      /\ c[e].size = n /\ ~c[e].is_free /\ c[e].prev = t /\ c[e].next = NIL
      /\ c[t].next = e
      /\ \A x \in Block : /\ c[x].size = blk[x].size /\ c[x].prev = blk[x].prev
                          /\ c[x].is_free <=> blk[x].is_free
                          /\ x # t => c[x].next = blk[x].next
  BY <1>1, <1>2, <1>4, <1>5, <1>6, <1>7
<1>9. Typed(c)
  <2>1. IsFiniteSet(Block \cup {e})
    BY <1>2, FS_AddElement
  <2> QED
    BY <1>2, <1>4, <1>8, <2>1 DEF Typed
<1>10. Ordered(c)
  <2> SUFFICES ASSUME NEW x \in DOMAIN c, NEW y \in DOMAIN c, x < y
               PROVE  x + Hdr + c[x].size <= y
    BY DEF Ordered
  <2>0. \A u, v \in Block : u < v => u + Hdr + blk[u].size <= v
    BY DEF HeapIInv, WellLinked, Ordered, Block
  <2>1. x \in Block /\ x \in Nat /\ y \in Nat
    <3>1. x \in Nat /\ y \in Nat /\ x # e
      BY <1>2, <1>4, <1>8
    <3> QED
      BY <1>8, <3>1
  <2>2. CASE y = e /\ x = t
    BY <1>3, <1>8, <2>1, <2>2
  <2>3. CASE y = e /\ x # t
    <3>1. x < t /\ x + Hdr + blk[x].size <= t
      BY <1>1, <1>2, <2>0, <2>1, <2>3
    <3>2. c[x].size = blk[x].size /\ blk[x].size \in Nat
      BY <1>2, <1>8, <2>1 DEF Headers
    <3> QED
      BY <1>0, <1>2, <1>4, <2>1, <2>3, <3>1, <3>2
  <2>4. CASE y # e
    BY <1>8, <2>0, <2>1, <2>4
  <2> QED
    BY <2>2, <2>3, <2>4
<1>11. Forward(c)
  <2> SUFFICES ASSUME NEW x \in DOMAIN c
               PROVE  /\ c[x].next = NIL => \A y \in DOMAIN c : y <= x
                      /\ c[x].next # NIL =>
                            /\ c[x].next \in DOMAIN c /\ c[x].next = x + Hdr + c[x].size
                            /\ c[c[x].next].prev = x
    BY DEF Forward
  <2>1. CASE x = e
    BY <1>2, <1>4, <1>8, <2>1
  <2>2. CASE x = t
    <3>1. e # NIL
      BY <1>4 DEF NIL
    <3> QED
      BY <1>1, <1>3, <1>8, <2>2, <3>1
  <2>3. CASE x # e /\ x # t
    <3>1. x \in Block /\ c[x].next = blk[x].next /\ c[x].size = blk[x].size
      BY <1>8, <2>3
    <3>2. blk[x].next # NIL
      <4> SUFFICES ASSUME blk[x].next = NIL PROVE FALSE
        OBVIOUS
      <4>1. t <= x /\ x <= t
        BY <1>1, <3>1 DEF HeapIInv, WellLinked, Forward, Block
      <4>2. x \in Nat /\ t \in Nat
        BY <1>2, <3>1
      <4>3. x = t
        BY <4>1, <4>2
      <4> QED
        BY <2>3, <4>3
    <3>3. /\ blk[x].next \in Block /\ blk[x].next = x + Hdr + blk[x].size
          /\ blk[blk[x].next].prev = x
      BY <3>1, <3>2 DEF HeapIInv, WellLinked, Forward, Block
    <3> QED
      BY <1>8, <3>1, <3>2, <3>3
  <2> QED
    BY <2>1, <2>2, <2>3
<1>12. Backward(c)
  <2>1. First \in Block /\ blk[First].prev = NIL
        /\ \A x \in Block \ {First} : blk[x].prev \in Block /\ blk[blk[x].prev].next = x
    BY DEF HeapIInv, WellLinked, Backward, Block
  <2>2. ASSUME NEW x \in DOMAIN c \ {First}
        PROVE  c[x].prev \in DOMAIN c /\ c[c[x].prev].next = x
    <3>1. CASE x = e
      BY <1>1, <1>8, <3>1
    <3>2. CASE x # e
      <4>1. x \in Block /\ c[x].prev = blk[x].prev /\ blk[x].prev \in Block
            /\ blk[blk[x].prev].next = x
        BY <1>8, <2>1, <2>2, <3>2
      <4>2. blk[x].prev # t
        BY <1>1, <1>2, <4>1 DEF NIL
      <4> QED
        BY <1>8, <4>1, <4>2
    <3> QED
      BY <3>1, <3>2
  <2> QED
    BY <1>8, <2>1, <2>2 DEF Backward
<1>13. Ends(c)
  BY <1>8 DEF Ends
<1>14. Unmerged(c) = {}
  <2> SUFFICES ASSUME NEW x \in DOMAIN c, c[x].is_free, c[x].next # NIL, c[c[x].next].is_free
               PROVE  FALSE
    BY DEF Unmerged
  <2>1. x \in Block /\ x # t
    BY <1>8
  <2>2. blk[x].next \in Block
    BY <1>8, <2>1 DEF HeapIInv, WellLinked, Forward, Block
  <2> QED
    BY <1>8, <2>1, <2>2 DEF HeapIInv, Unmerged, Block
<1>15. FreshIsFree(c)
  <2>1. First \in Block /\ FreshIsFree(blk) /\ e # NIL
    BY <1>4 DEF HeapIInv, WellLinked, Backward, Block, NIL
  <2> QED
    BY <1>8, <2>1 DEF FreshIsFree
<1>16. Callers(c, live')
  <2>1. InUse(c) = InUse(blk) \cup {e} /\ e \notin InUse(blk) /\ InUse(blk) \subseteq Nat
    BY <1>2, <1>4, <1>8 DEF InUse, Block
  <2>2. n <= c[e].size /\ c[e].size <= n + Hdr
    BY <1>0, <1>8
  <2>3. \A x \in InUse(blk) : c[x].size = blk[x].size
    BY <1>8 DEF InUse, Block
  <2>4. Callers(blk, live)
    BY DEF HeapIInv
  <2>5. GivenTo(live, e, n, live')
    BY <1>7 DEF Given, GivenTo
  <2> QED
    BY <1>0, <1>4, <2>1, <2>2, <2>3, <2>4, <2>5, GivenKeeps
<1> QED
  BY <1>9, <1>10, <1>11, <1>12, <1>13, <1>14, <1>15, <1>16 DEF HeapIInv, WellLinked, c

\* kfree: the pieces of the list as the block is marked free, merged with the
\* next block and merged with the previous one.
LEMMA FreeIInv ==
    ASSUME HeapIInv, NEW a \in Block, Free(a)
    PROVE  HeapIInv'
<1> DEFINE b == [blk EXCEPT ![a].is_free = TRUE]
           c == MergeNext(b, a)
           d == MergePrev(c, a)
           p == blk[a].prev
<1>0. /\ blk \in [Block -> Headers] /\ Block \subseteq Nat /\ a \in Nat /\ Hdr \in Nat \ {0}
      /\ Unmerged(blk) = {} /\ FreshIsFree(blk) /\ WellLinked(blk)
  BY HeapAssumption DEF HeapIInv, WellLinked, Typed, Block
<1>1. a \in InUse(blk) /\ blk' = d /\ live' = Restrict(live, DOMAIN live \ {Data(a)})
  <2>1. PICK x \in InUse(blk) : Data(a) = Data(x)
    BY DEF Free, HeapIInv, Callers
  <2>2. x \in Nat /\ a = x
    BY <1>0, <2>1 DEF Data, InUse, Block
  <2> QED
    BY <2>1, <2>2 DEF Free
<1> HIDE DEF b, c, d
<1>2. /\ b \in [Block -> Headers] /\ b[a].is_free
      /\ \A x \in Block : b[x].size = blk[x].size /\ b[x].prev = blk[x].prev /\ b[x].next = blk[x].next
      /\ \A x \in Block \ {a} : b[x] = blk[x]
  <2>1. blk[a] \in Headers
    BY <1>0
  <2>2. b[a] = [blk[a] EXCEPT !.is_free = TRUE]
    BY <1>0 DEF b
  <2>3. /\ b[a] \in Headers /\ b[a].size = blk[a].size /\ b[a].prev = blk[a].prev
        /\ b[a].next = blk[a].next /\ b[a].is_free = TRUE
    BY <2>1, <2>2 DEF Headers
  <2>4. b = [x \in Block |-> b[x]] /\ \A x \in Block \ {a} : b[x] = blk[x]
    BY <1>0 DEF b
  <2>5. b \in [Block -> Headers]
    BY <1>0, <2>3, <2>4
  <2> QED
    BY <2>3, <2>4, <2>5
<1>3. WellLinked(b)
  BY <1>0, <1>2, Relabelled DEF Block
<1>4. InUse(b) = InUse(blk) \ {a} /\ FreshIsFree(b)
  <2>1. First \in Block
    BY <1>0 DEF WellLinked, Backward, Block
  <2> QED
    BY <1>0, <1>2, <2>1 DEF InUse, FreshIsFree, Block
<1>5. \A x \in Unmerged(b) : x = a \/ (x = p /\ p # NIL)
  <2> SUFFICES ASSUME NEW x \in Unmerged(b), x # a
               PROVE  x = p /\ p # NIL
    OBVIOUS
  <2>1. x \in Block /\ blk[x].is_free /\ blk[x].next # NIL /\ b[blk[x].next].is_free
    BY <1>2 DEF Unmerged
  <2>2. blk[x].next \in Block /\ blk[blk[x].next].prev = x
    BY <1>0, <2>1 DEF WellLinked, Forward, Block
  <2>3. blk[x].next = a
    BY <1>0, <1>2, <2>1, <2>2 DEF Unmerged, Block
  <2>4. x # NIL
    BY <1>0, <2>1 DEF NIL
  <2> QED
    BY <2>2, <2>3, <2>4
<1>6. p # NIL => p \in Block /\ p < a /\ blk[p].next = a
  BY <1>0, Neighbours DEF Block
<1>7. /\ WellLinked(c) /\ a \in DOMAIN c /\ c[a].is_free /\ c[a].prev = p
      /\ InUse(c) = InUse(b) /\ \A x \in InUse(b) : c[x].size = b[x].size
      /\ FreshIsFree(c) /\ Unmerged(c) \subseteq {p}
      /\ p # NIL => p \in DOMAIN c /\ (c[p].is_free <=> b[p].is_free)
      /\ p = NIL => Unmerged(c) = {}
  <2> DEFINE n == b[a].next
  <2>1. CASE n # NIL /\ b[n].is_free
    <3>1. c = Absorb(b, a) /\ a \in DOMAIN b
      BY <1>2, <2>1 DEF c, MergeNext
    <3>2. n \in Nat /\ n > a /\ n \in Block
      BY <1>0, <1>2, <1>3, <2>1, Neighbours
    <3>3. n # a /\ (p # NIL => n # p)
      BY <1>0, <1>6, <3>2
    <3>4. n \notin Unmerged(b)
      BY <1>5, <3>3
    <3> DEFINE m == n
    <3>5. m = b[a].next /\ m # NIL /\ b[m].is_free /\ m \notin Unmerged(b)
      BY <2>1, <3>4
    <3> HIDE DEF m
    <3>6. /\ InUse(c) = InUse(b) /\ \A x \in InUse(b) : c[x].size = b[x].size
          /\ \A x \in Unmerged(c) : IF x = a THEN m \in Unmerged(b) ELSE x \in Unmerged(b)
          /\ FreshIsFree(b) => FreshIsFree(c)
      BY <1>2, <1>3, <3>1, <3>5, AbsorbKeeps
    <3>7. /\ DOMAIN c = DOMAIN b \ {m} /\ c[a].is_free /\ c[a].prev = b[a].prev
          /\ \A x \in DOMAIN c \ {a} : c[x].is_free = b[x].is_free
      <4>1. Absorbed(b, a, m, c)
        BY <1>3, <3>1, <3>5, AbsorbIs
      <4> QED
        BY <4>1 DEF Absorbed
    <3>8. WellLinked(c)
      BY <1>3, <3>1, <3>5, AbsorbWellLinked
    <3>9. \A x \in Unmerged(c) : x = p /\ p # NIL
      BY <1>5, <3>5, <3>6
    <3>10. a \in DOMAIN c /\ c[a].prev = p
      BY <1>2, <3>1, <3>3, <3>7 DEF m
    <3>11. p # NIL => p \in DOMAIN c /\ (c[p].is_free <=> b[p].is_free)
      BY <1>0, <1>2, <1>6, <3>3, <3>7 DEF m
    <3> QED
      BY <1>4, <3>6, <3>7, <3>8, <3>9, <3>10, <3>11
  <2>2. CASE ~(n # NIL /\ b[n].is_free)
    <3>1. c = b
      BY <2>2 DEF c, MergeNext
    <3>2. a \notin Unmerged(b)
      BY <2>2 DEF Unmerged
    <3> QED
      BY <1>2, <1>3, <1>4, <1>5, <1>6, <3>1, <3>2
  <2> QED
    BY <2>1, <2>2
<1>8. /\ WellLinked(d) /\ InUse(d) = InUse(b) /\ \A x \in InUse(b) : d[x].size = b[x].size
      /\ FreshIsFree(d) /\ Unmerged(d) = {}
  <2>1. CASE p # NIL /\ c[p].is_free
    <3>1. d = Absorb(c, p) /\ p \in DOMAIN c
      BY <1>7, <2>1 DEF d, MergePrev
    <3>2. a # NIL /\ c[p].next = a /\ a # p
      BY <1>0, <1>6, <1>7, <2>1 DEF WellLinked, Backward, First, NIL
    <3>3. /\ InUse(d) = InUse(c) /\ \A x \in InUse(c) : d[x].size = c[x].size
          /\ \A x \in Unmerged(d) : IF x = p THEN a \in Unmerged(c) ELSE x \in Unmerged(c)
          /\ FreshIsFree(c) => FreshIsFree(d)
      BY <1>7, <2>1, <3>1, <3>2, AbsorbKeeps
    <3>4. WellLinked(d)
      BY <1>7, <3>1, <3>2, AbsorbWellLinked
    <3>5. Unmerged(d) = {}
      BY <1>7, <3>2, <3>3
    <3> QED
      BY <1>7, <3>3, <3>4, <3>5
  <2>2. CASE ~(p # NIL /\ c[p].is_free)
    <3>1. d = c
      BY <1>7, <2>2 DEF d, MergePrev
    <3>2. p \notin Unmerged(c) \/ p = NIL
      BY <2>2 DEF Unmerged
    <3> QED
      BY <1>7, <3>1, <3>2
  <2> QED
    BY <2>1, <2>2
<1>9. Callers(d, live')
  <2>1. /\ live \in [{Data(x) : x \in InUse(blk)} -> Nat]
        /\ \A x \in InUse(blk) : live[Data(x)] <= blk[x].size /\ blk[x].size <= live[Data(x)] + Hdr
    BY DEF HeapIInv, Callers
  <2>2. InUse(d) = InUse(blk) \ {a} /\ InUse(blk) \subseteq Nat
    BY <1>0, <1>4, <1>8 DEF InUse, Block
  <2>3. \A x \in InUse(d) : d[x].size = blk[x].size /\ Data(x) # Data(a)
    <3>1. \A x \in InUse(d) : x \in InUse(blk) /\ x # a /\ x \in Nat /\ d[x].size = blk[x].size
      BY <1>0, <1>2, <1>4, <1>8, <2>2 DEF InUse, Block
    <3>2. a \in Nat /\ Hdr \in Nat
      BY <1>0, <2>2, HeapAssumption
    <3> QED
      BY <3>1, <3>2 DEF Data
  <2>4. DOMAIN live \ {Data(a)} = {Data(x) : x \in InUse(d)}
    BY <2>1, <2>2, <2>3
  <2>5. live' = [y \in {Data(x) : x \in InUse(d)} |-> live[y]]
    BY <1>1, <2>1, <2>4 DEF Restrict
  <2> QED
    BY <2>1, <2>2, <2>3, <2>5 DEF Callers
<1> QED
  BY <1>1, <1>8, <1>9 DEF HeapIInv

----------------------------------------------------------------------------
(* Theorems *)

\* The inductive invariant: the list is linked both ways in address order, no
\* two free neighbours are left by kmalloc or kfree, the blocks in use are the
\* callers' with little more than they asked for, and the block of size 0 the
\* heap starts with stays free until the first request takes it.
THEOREM HeapInvariance == HeapSpec => []HeapIInv
<1>1. ASSUME HeapIInv, [HeapNext]_heapVars
      PROVE  HeapIInv'
  <2>1. ASSUME NEW n \in Sizes, Requested(n), TakeWhole(n) PROVE HeapIInv'
    BY <1>1, <2>1, TakeWholeIInv
  <2>2. ASSUME NEW n \in Sizes, Requested(n), Split(n) PROVE HeapIInv'
    BY <1>1, <2>2, SplitIInv
  <2>3. ASSUME NEW n \in Sizes, Requested(n), Extend(n) PROVE HeapIInv'
    <3>1. CASE Fresh
      BY <1>1, <2>3, <3>1, ExtendFreshIInv DEF Requested
    <3>2. CASE ~Fresh
      BY <1>1, <2>3, <3>2, ExtendGrownIInv
    <3> QED
      BY <3>1, <3>2
  <2>4. ASSUME NEW a \in Block, Free(a) PROVE HeapIInv'
    BY <1>1, <2>4, FreeIInv
  <2>5. CASE UNCHANGED heapVars
    BY <1>1, <2>5 DEF HeapIInv, heapVars
  <2> QED
    BY <1>1, <2>1, <2>2, <2>3, <2>4, <2>5 DEF HeapNext
<1> QED
  BY HeapInitIInv, <1>1, PTL DEF HeapSpec

\* The links of the list agree with the addresses and sizes of the blocks, in
\* both directions and after every kmalloc and kfree: a walk along next finds
\* every block.
THEOREM LinksCorrect == HeapSpec => []LinksAgree
<1>1. ASSUME HeapIInv
      PROVE  LinksAgree
  <2>1. HeapTypeOK
    BY <1>1 DEF HeapIInv, WellLinked, Typed, HeapTypeOK, Headers, Block
  <2>2. First \in Block /\ blk[First].prev = NIL
    BY <1>1 DEF HeapIInv, WellLinked, Backward, Block
  <2>3. \E a \in Block : blk[a].next = NIL
    BY <1>1 DEF HeapIInv, WellLinked, Ends, Block
  <2>4. \A a \in Block :
          /\ blk[a].next = NIL => \A b \in Block : b <= a
          /\ blk[a].next # NIL =>
                blk[a].next \in Block /\ blk[a].next = End(a) /\ blk[blk[a].next].prev = a
          /\ \A b \in Block : a < b => End(a) <= b
    BY <1>1 DEF HeapIInv, WellLinked, Forward, Ordered, End, Block
  <2> QED
    BY <2>1, <2>2, <2>3, <2>4 DEF LinksAgree
<1> QED
  BY HeapInvariance, <1>1, PTL

\* No two neighbours are both free when kmalloc or kfree returns: what has been
\* given back side by side is one block.
THEOREM FreedIsMerged == HeapSpec => []FreeBlocksMerged
<1>1. ASSUME HeapIInv
      PROVE  FreeBlocksMerged
  BY <1>1 DEF HeapIInv, Unmerged, FreeBlocksMerged, Block
<1> QED
  BY HeapInvariance, <1>1, PTL

\* The blocks marked in use are those the callers hold, each as large as asked
\* for and at most a header larger.
THEOREM UsedMatchCallers == HeapSpec => []BlocksMatchCallers
<1>1. ASSUME HeapIInv
      PROVE  BlocksMatchCallers
  BY <1>1 DEF HeapIInv, Callers, InUse, BlocksMatchCallers, Block
<1> QED
  BY HeapInvariance, <1>1, PTL

\* What kmalloc gives away shares no unit of memory with what is handed out.
LEMMA GivenIsAlloc ==
    ASSUME HeapIInv, HeapIInv', NEW n \in Sizes, NEW a \in Nat, a \notin InUse(blk), Given(a, n)
    PROVE  Promise!Alloc
<1>0. n \in Nat /\ Hdr \in Nat \ {0}
  BY HeapAssumption
<1>1. /\ \A x \in InUse(blk) : x \in Nat
      /\ \A x \in InUse(blk') : x \in DOMAIN blk' /\ x \in Nat /\ blk'[x].size \in Nat
  BY DEF HeapIInv, WellLinked, Typed, InUse, Headers
<1>2. /\ DOMAIN live = {Data(x) : x \in InUse(blk)} /\ \A q \in DOMAIN live : live[q] \in Nat
      /\ DOMAIN live' = {Data(x) : x \in InUse(blk')}
      /\ \A x \in InUse(blk') : live'[Data(x)] <= blk'[x].size
  BY DEF HeapIInv, Callers
<1>3. live' = [x \in DOMAIN live \cup {Data(a)} |-> IF x = Data(a) THEN n ELSE live[x]]
  BY DEF Given
<1>4. Data(a) \in DOMAIN live' \ DOMAIN live
  <2>1. \A x \in InUse(blk) : Data(x) # Data(a)
    BY <1>0, <1>1 DEF Data
  <2> QED
    BY <1>2, <1>3, <2>1
<1>5. a \in InUse(blk') /\ n <= blk'[a].size
  <2>1. PICK x \in InUse(blk') : Data(a) = Data(x)
    BY <1>2, <1>4
  <2>2. x = a
    BY <1>0, <1>1, <2>1 DEF Data
  <2> QED
    BY <1>2, <1>3, <2>1, <2>2
<1>6. ASSUME NEW q \in DOMAIN live
      PROVE  Promise!Region(Data(a), n) \cap Promise!Region(q, live[q]) = {}
  <2>1. q \in DOMAIN live' /\ q # Data(a) /\ live'[q] = live[q]
    BY <1>3, <1>4
  <2>2. PICK x \in InUse(blk') : q = Data(x)
    BY <1>2, <2>1
  <2>3. x # a /\ live[q] <= blk'[x].size
    BY <1>2, <2>1, <2>2
  <2>4. x + Hdr + blk'[x].size <= a \/ a + Hdr + blk'[a].size <= x
    <3>1. x < a \/ a < x
      BY <1>1, <2>2, <2>3
    <3> QED
      BY <1>1, <1>5, <3>1 DEF HeapIInv, WellLinked, Ordered
  <2>5. live[q] \in Nat /\ x \in Nat /\ blk'[x].size \in Nat /\ blk'[a].size \in Nat
    BY <1>1, <1>2, <1>5
  <2>6. Data(x) + live[q] <= Data(a) \/ Data(a) + n <= Data(x)
    BY <1>0, <1>5, <2>3, <2>4, <2>5 DEF Data
  <2>7. Data(x) \in Nat /\ Data(a) \in Nat
    BY <1>0, <2>5 DEF Data
  <2> QED
    BY <1>0, <2>2, <2>5, <2>6, <2>7 DEF Promise!Region
<1> QED
  BY <1>3, <1>4, <1>6 DEF Promise!Alloc

\* The heap implements the abstract allocator: no caller ever gets memory that
\* overlaps what another one holds.
THEOREM Refinement == HeapSpec => ImplementsAllocator
<1>1. HeapInit => Promise!Init
  BY DEF HeapInit, Promise!Init
<1>2. ASSUME HeapIInv, HeapIInv', [HeapNext]_heapVars
      PROVE  [Promise!Next]_live
  <2>0. \A x \in Block : x \in Nat
    BY <1>2 DEF HeapIInv, WellLinked, Typed, Block
  <2>1. ASSUME NEW n \in Sizes, TakeWhole(n) \/ Split(n)
        PROVE  Promise!Next
    <3>1. Fits(n) # {} /\ Given(FirstFit(n), n) /\ n \in Nat
      BY <2>1, HeapAssumption DEF TakeWhole, Split, Roomy
    <3>2. FirstFit(n) \in Nat /\ FirstFit(n) \notin InUse(blk)
      BY <1>2, <2>0, <3>1, FirstFitIs DEF InUse
    <3>3. Promise!Alloc
      BY <1>2, <3>1, <3>2, GivenIsAlloc
    <3> QED
      BY <3>3 DEF Promise!Next
  <2>2. ASSUME NEW n \in Sizes, Requested(n), Extend(n)
        PROVE  Promise!Next
    <3> DEFINE a == IF Fresh THEN First ELSE End(LastBlock)
    <3>1. Given(a, n)
      BY <2>2 DEF Extend
    <3>2. CASE Fresh
      <4>1. First \in Nat /\ Given(First, n)
        BY <3>1, <3>2 DEF First
      <4>2. blk[First].is_free
        BY <1>2, <3>2, TailIs DEF Fresh, HeapIInv, FreshIsFree
      <4>3. Promise!Alloc
        BY <1>2, <4>1, <4>2, GivenIsAlloc DEF InUse
      <4> QED
        BY <4>3 DEF Promise!Next
    <3>3. CASE ~Fresh
      <4>1. Given(End(LastBlock), n)
        BY <3>1, <3>3
      <4>2. LastBlock \in Nat /\ blk[LastBlock].size \in Nat /\ Hdr \in Nat \ {0}
        BY <1>2, <2>0, TailIs, HeapAssumption DEF HeapIInv, WellLinked, Typed, Headers, Block
      <4>3. End(LastBlock) \in Nat /\ End(LastBlock) > LastBlock
        BY <4>2 DEF End
      <4>4. End(LastBlock) \notin Block
        BY <1>2, <2>0, <4>2, <4>3, TailIs
      <4>5. Promise!Alloc
        BY <1>2, <4>1, <4>3, <4>4, GivenIsAlloc DEF InUse, Block
      <4> QED
        BY <4>5 DEF Promise!Next
    <3> QED
      BY <3>2, <3>3
  <2>3. ASSUME NEW a \in Block, Free(a)
        PROVE  Promise!Next
    BY <2>3 DEF Free, Promise!Next, Promise!Free, Restrict, Promise!Restrict
  <2>4. CASE UNCHANGED heapVars
    BY <2>4 DEF heapVars
  <2> QED
    BY <1>2, <2>1, <2>2, <2>3, <2>4 DEF HeapNext
<1> QED
  BY <1>1, <1>2, HeapInvariance, PTL DEF HeapSpec, ImplementsAllocator, Promise!Spec
=============================================================================
