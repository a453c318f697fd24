----------------------------- MODULE FileProofs -----------------------------
(***************************************************************************)
(* Proofs about what happens to files: about module FatFs, for disks,       *)
(* sectors and directories of any size, any names and any data, and, in     *)
(* the second half, about module Stream, for any number of streams, paths   *)
(* and clusters.  They share the facts about the operators of FileOps.      *)
(***************************************************************************)
EXTENDS FatFs, Stream, NatFacts, SequenceTheorems

\* An entry of a directory.
Entries == [name : Name \cup {"00", "E5"}, isDir : BOOLEAN, first : Cluster \cup {0}, size : Nat]

----------------------------------------------------------------------------
(* The inductive invariant.  Its parts are stated about any disk d, so that  *)
(* lemmas can compare the disk before a write with the one after it.         *)

Disk == [fat |-> fat, root |-> root, sec |-> sec]

\* A table of n entries: unused ones only at its end, no name twice.
Live(t) == {i \in DOMAIN t : ~Vacant(t[i])}
TableOK(t, n) ==
    /\ t \in [1 .. n -> Entries]
    /\ \A i, j \in 1 .. n : j <= i /\ t[j].name = "00" => t[i].name = "00"
    /\ \A i, j \in Live(t) : t[i].name = t[j].name => i = j
    /\ \A i \in Live(t) : t[i].first \in Cluster

\* The directories, which have a table each.
DirsIn(t) == {i \in Live(t) : t[i].isDir}
Homes(d) == {Root} \cup {d.root[i].first : i \in DirsIn(d.root)}
Table(d, h) == IF h = Root THEN d.root ELSE d.sec[h].slots
TreeOK(d) ==
    /\ TableOK(d.root, RootSlots)
    /\ DOMAIN d.sec = Cluster
    /\ \A i \in DirsIn(d.root) :
          LET x == d.sec[d.root[i].first]
          IN  /\ DOMAIN x = {"slots"}
              /\ TableOK(x.slots, DirSlots) /\ DirsIn(x.slots) = {}
    /\ \A i, j \in DirsIn(d.root) : d.root[i].first = d.root[j].first => i = j

\* The slots in use, and what they hold.
Used(d) == UNION {{<<h, i>> : i \in Live(Table(d, h))} : h \in Homes(d)}
EntryAt(d, l) == Table(d, l[1])[l[2]]
First(d, l) == EntryAt(d, l).first

\* The directory an entry for path p belongs to, and the slot p leads to.
HomeOf(d, p, h) ==
    \/ Len(p) = 1 /\ h = Root
    \/ Len(p) = 2 /\ \E i \in DirsIn(d.root) : d.root[i].name = p[1] /\ d.root[i].first = h
Leads(d, p, l) == l \in Used(d) /\ HomeOf(d, p, l[1]) /\ EntryAt(d, l).name = p[Len(p)]

\* What Chain is for any allocation table f.
Walk(f, c) ==
    LET walk[n \in Nat] ==
            IF n = 0 THEN IF c \in Cluster THEN <<c>> ELSE <<>>
            ELSE LET s == walk[n - 1]
                 IN  IF s # <<>> /\ f[Last(s)] \in Cluster THEN Append(s, f[Last(s)]) ELSE s
    IN  walk[LastCluster - 1]
\* s is a chain from c to its end.
Chained(f, c, s) ==
    /\ s \in Seq(Cluster) /\ s # <<>> /\ s[1] = c
    /\ \A i, j \in 1 .. Len(s) : s[i] = s[j] => i = j
    /\ \A i \in 1 .. Len(s) : f[s[i]] = IF i = Len(s) THEN EOC ELSE s[i + 1]
Sound(f, c) == f[c] = FREE \/ Chained(f, c, Walk(f, c))
Own(d, l) == Range(Walk(d.fat, First(d, l)))
Owned(d) == UNION {Own(d, l) : l \in Used(d)}
ChainsOK(d) ==
    /\ d.fat \in [Cluster -> Cluster \cup {FREE, EOC}]
    /\ \A l \in Used(d) : Sound(d.fat, First(d, l))
    /\ \A l, m \in Used(d) : l # m => Own(d, l) \cap Own(d, m) = {}

\* The slots with an entry whose clusters have begun to be freed.
Half(d) == {l \in Used(d) : d.fat[First(d, l)] = FREE}

\* What only the operation o knows to be allocated.
Extra(d, o) ==
    CASE o.kind = "create" -> {o.first}
      [] o.kind = "write" -> IF o.step = "link" THEN {o.next} ELSE {}
      [] o.kind = "delete" -> IF o.cur \in Cluster /\ o.cur # First(d, o.loc)
                              THEN Range(Walk(d.fat, o.cur)) ELSE {}
      [] OTHER -> {}
Allocated(d) == {c \in Cluster : d.fat[c] # FREE}
AllocationOK(d, o, gone) ==
    /\ Allocated(d) \ Owned(d) = gone \cup Extra(d, o)
    /\ gone \cap Extra(d, o) = {} /\ Owned(d) \cap Extra(d, o) = {}
    /\ gone \subseteq Cluster

\* A directory that is being deleted is empty.
Bare(d, l) == EntryAt(d, l).isDir => Live(Table(d, First(d, l))) = {}

IdleOK(d, o) == o = Idle /\ Half(d) = {}
TornOK(d, o) ==
    \E p \in Path, l \in Used(d) : o = Torn(p) /\ Leads(d, p, l) /\ Half(d) = {l} /\ Bare(d, l)
CreateOK(d, o) ==
    /\ o \in [kind : {"create"}, path : Path, isDir : BOOLEAN, ready : BOOLEAN,
              then : {<<>>} \cup (Nat \X Data), parent : Homes(d), first : Cluster]
    /\ Half(d) = {}
    /\ HomeOf(d, o.path, o.parent)
    /\ ~ \E l \in Used(d) : Leads(d, o.path, l)
    /\ o.isDir => Len(o.path) = 1 /\ o.then = <<>>
    /\ o.isDir /\ o.ready => d.sec[o.first] = Empty
    /\ ~o.isDir => o.ready
    /\ d.fat[o.first] = EOC
DeleteOK(d, o) ==
    /\ o \in [kind : {"delete"}, path : Path, loc : Used(d), cur : Cluster \cup {FREE, EOC}]
    /\ Half(d) \subseteq {o.loc}
    /\ Leads(d, o.path, o.loc) /\ Bare(d, o.loc)
    /\ o.cur = First(d, o.loc) \/ Half(d) = {o.loc}
    /\ o.cur \in Cluster \ {First(d, o.loc)} => Chained(d.fat, o.cur, Walk(d.fat, o.cur))

\* The write of data at off has come to byte pos; cur is the k-th cluster.
WriteOK(d, o, ex) ==
    /\ o \in [kind : {"write"}, path : DOMAIN ex, loc : Used(d), cur : Cluster,
              step : {"data", "next", "link"}, pos : Nat, next : Cluster \cup {FREE, EOC},
              off : Nat, data : Data]
    /\ Half(d) = {}
    /\ Leads(d, o.path, o.loc)
    /\ o.pos <= Len(o.data)
    /\ LET s     == Walk(d.fat, First(d, o.loc))
           start == Seek(ex[o.path], o.off)
           n     == Clusters(ex[o.path])
       IN  /\ o.step = "data" /\ o.pos = Len(o.data) => Len(s) = Needed(ex[o.path], o.off, o.pos)
           /\ o.step = "data" /\ o.pos < Len(o.data) =>
                \E k \in 1 .. Len(s) :
                    /\ o.cur = s[k] /\ start + o.pos = Sec * (k - 1) + ((o.off + o.pos) % Sec)
                    /\ Len(s) = IF n < k THEN k ELSE n
           /\ o.step # "data" =>
                /\ o.pos < Len(o.data) /\ (o.off + o.pos) % Sec = 0
                /\ \E k \in 1 .. Len(s) :
                    /\ o.cur = s[k] /\ start + o.pos = Sec * k
                    /\ Len(s) = IF n < k THEN k ELSE n
                    /\ o.step = "next" => o.next = d.fat[o.cur]
                    /\ o.step = "link" => /\ k = Len(s) /\ o.next \in Cluster
                                          /\ d.fat[o.next] = EOC
OpOK(d, o, ex) ==
    \/ IdleOK(d, o) \/ TornOK(d, o) \/ CreateOK(d, o) \/ DeleteOK(d, o) \/ WriteOK(d, o, ex)

\* What each file should hold, and what the one being written should by now.
FileOK(g) ==
    /\ DOMAIN g = {"size", "byte"} /\ g.size \in Nat
    /\ Len(g.byte) \in Nat /\ DOMAIN g.byte = 1 .. Len(g.byte)
    /\ Clusters(g) >= 1 /\ Len(g.byte) = Sec * Clusters(g)
ByNow(d, o, ex, p) ==
    IF o.kind = "write" /\ o.path = p
    THEN Landed(ex[p], o.off, SubSeq(o.data, 1, o.pos), Len(Walk(d.fat, First(d, o.loc))))
    ELSE ex[p].byte
\* The sectors of s hold the bytes b, where they are known.
ByteAt(d, c, r) == IF "bytes" \in DOMAIN d.sec[c] THEN d.sec[c].bytes[r] ELSE "junk"
Shows(d, s, b) ==
    /\ Len(b) = Sec * Len(s)
    /\ \A k \in 1 .. Len(s), r \in 0 .. Sec - 1 :
          b[Sec * (k - 1) + r + 1] # Stale => ByteAt(d, s[k], r) = b[Sec * (k - 1) + r + 1]
FilesOK(d, o, ex) ==
    /\ DOMAIN ex = {p \in Path : \E l \in Used(d) : Leads(d, p, l) /\ ~EntryAt(d, l).isDir}
    /\ \A p \in DOMAIN ex : FileOK(ex[p])
    /\ \A p \in DOMAIN ex, l \in Used(d) \ Half(d) :
          Leads(d, p, l) => /\ EntryAt(d, l).size = ex[p].size
                            /\ Shows(d, Walk(d.fat, First(d, l)), ByNow(d, o, ex, p))

Holding(d, o, ex, gone) ==
    /\ TreeOK(d)
    /\ ChainsOK(d)
    /\ AllocationOK(d, o, gone)
    /\ OpOK(d, o, ex)
    /\ FilesOK(d, o, ex)
IInv == Holding(Disk, op, expect, lost)
NextDisk == [fat |-> fat', root |-> root', sec |-> sec']

----------------------------------------------------------------------------
(* Bytes and clusters *)

LEMMA SecIs == Sec \in Nat \ {0}
BY SecAssumption

\* Byte r of the k-th of n clusters.
LEMMA Place ==
    ASSUME NEW n \in Nat, NEW k \in 1 .. n, NEW r \in 0 .. Sec - 1
    PROVE  /\ Sec * (k - 1) \in Nat /\ Sec * n \in Nat /\ Sec * k = Sec * (k - 1) + Sec
           /\ Sec * (k - 1) + r + 1 \in 1 .. Sec * n
<1>1. Sec \in Nat \ {0} /\ n \in Nat /\ k \in Int /\ k >= 1 /\ k <= n /\ r \in Int /\ r >= 0 /\ r <= Sec - 1
  BY SecIs
<1>2. Sec * k <= Sec * n
  BY <1>1, Products
<1>3. Sec * k = Sec * (k - 1) + Sec
  BY <1>1
<1>4. Sec * (k - 1) \in Nat /\ Sec * n \in Nat
  <2>1. \A a, b \in Nat : a * b \in Nat
    OBVIOUS
  <2> QED
    BY <1>1, <2>1
<1> DEFINE x == Sec * (k - 1)
           y == Sec * n
<1>5. x + Sec <= y /\ x \in Nat /\ y \in Nat
  BY <1>2, <1>3, <1>4
<1> HIDE DEF x, y
<1>6. x + r + 1 \in 1 .. y
  BY <1>1, <1>5
<1> QED
  BY <1>3, <1>4, <1>6 DEF x, y

\* Bytes of different clusters are different.
LEMMA PlaceUnique ==
    ASSUME NEW k \in Nat, NEW m \in Nat, NEW q \in 0 .. Sec - 1, NEW r \in 0 .. Sec - 1,
           Sec * k + q = Sec * m + r
    PROVE  k = m /\ q = r
<1>1. ASSUME NEW a \in Nat, NEW b \in Nat, NEW u \in 0 .. Sec - 1, NEW v \in 0 .. Sec - 1,
             a < b, Sec * a + u = Sec * b + v
      PROVE  FALSE
  <2>1. Sec \in Nat /\ Sec * (a + 1) <= Sec * b
    BY <1>1, SecIs, Products
  <2>2. Sec * (a + 1) = Sec * a + Sec
    BY SecIs
  <2>3. Sec * a \in Nat /\ Sec * b \in Nat
    <3>1. \A x, y \in Nat : x * y \in Nat
      OBVIOUS
    <3> QED
      BY <3>1, SecIs
  <2> DEFINE x == Sec * a
             y == Sec * b
  <2>4. x + Sec <= y /\ x + u = y + v /\ x \in Nat /\ y \in Nat
    BY <1>1, <2>1, <2>2, <2>3
  <2> HIDE DEF x, y
  <2> QED
    BY <2>1, <2>4
<1>2. k = m
  BY <1>1
<1> QED
  BY <1>2, SecIs

LEMMA PairMin ==
    ASSUME NEW a \in Nat, NEW b \in Nat
    PROVE  Min({a, b}) = IF a <= b THEN a ELSE b
BY DEF Min

LEMMA PairMax ==
    ASSUME NEW a \in Nat, NEW b \in Nat
    PROVE  Max({a, b}) = IF a >= b THEN a ELSE b
BY DEF Max

----------------------------------------------------------------------------
(* Chains *)

Fats == [Cluster -> Cluster \cup {FREE, EOC}]

LEMMA ClusterFacts ==
    /\ IsFiniteSet(Cluster) /\ Cardinality(Cluster) = LastCluster - 1 /\ LastCluster - 1 \in Nat
    /\ Cluster \subseteq Nat /\ FREE \notin Cluster /\ EOC \notin Cluster /\ FREE # EOC
    /\ Root \notin Cluster
<1>1. 2 \in Int /\ LastCluster \in Int /\ LastCluster >= 2
  BY FatAssumption
<1>2. IsFiniteSet(2 .. LastCluster)
      /\ Cardinality(2 .. LastCluster) = IF 2 > LastCluster THEN 0 ELSE LastCluster - 2 + 1
  BY <1>1, FS_Interval
<1> QED
  BY <1>1, <1>2 DEF Cluster, FREE, EOC, Root

\* s is where one gets to from c, up to where it ends.
Follows(f, c, s) ==
    /\ s \in Seq(Cluster) /\ s # <<>> /\ s[1] = c
    /\ \A i \in 1 .. Len(s) - 1 : f[s[i]] = s[i + 1]
    /\ f[s[Len(s)]] \notin Cluster

LEMMA WalkIs ==
    ASSUME NEW f, NEW c, NEW s, Follows(f, c, s), Len(s) <= LastCluster - 1
    PROVE  Walk(f, c) = s
<1> DEFINE n == Len(s)
           part(m) == [i \in 1 .. m |-> s[i]]
           upto(m) == IF m < n THEN m ELSE n
           w == [m \in Nat |-> part(upto(m + 1))]
           walk[m \in Nat] ==
              IF m = 0 THEN IF c \in Cluster THEN <<c>> ELSE <<>>
              ELSE LET t == walk[m - 1]
                   IN  IF t # <<>> /\ f[Last(t)] \in Cluster THEN Append(t, f[Last(t)]) ELSE t
<1>1. n \in Nat /\ n >= 1 /\ s \in [1 .. n -> Cluster] /\ s[1] = c /\ c \in Cluster
  BY DEF Follows
<1>2. \A i \in 1 .. n - 1 : f[s[i]] = s[i + 1]
  BY DEF Follows
<1>3. f[s[n]] \notin Cluster
  BY DEF Follows
<1>0. n \in Nat /\ n >= 1
  BY <1>1
<1>4. ASSUME NEW m \in 1 .. n
      PROVE  /\ part(m) \in Seq(Cluster) /\ Len(part(m)) = m /\ part(m) # <<>>
             /\ Last(part(m)) = s[m]
  <2>1. part(m) \in [1 .. m -> Cluster] /\ m \in Nat
    BY <1>1
  <2>2. part(m) \in Seq(Cluster) /\ Len(part(m)) = m
    BY <2>1
  <2>3. part(m)[m] = s[m]
    BY <1>1
  <2> QED
    BY <2>2, <2>3 DEF Last
<1>5. part(1) = <<c>>
  <2>1. part(1) \in Seq(Cluster) /\ Len(part(1)) = 1 /\ part(1)[1] = c
    BY <1>1, <1>4
  <2> QED
    BY <1>1, <2>1
<1>6. ASSUME NEW m \in 1 .. n - 1
      PROVE  Append(part(m), s[m + 1]) = part(m + 1)
  <2>1. m \in 1 .. n /\ m + 1 \in 1 .. n /\ m \in Nat
    BY <1>1
  <2>2. part(m) \in Seq(Cluster) /\ Len(part(m)) = m /\ part(m + 1) \in Seq(Cluster) /\ Len(part(m + 1)) = m + 1
    BY <1>4, <2>1
  <2>3. s[m + 1] \in Cluster
    BY <1>1, <2>1
  <2>4. \A i \in 1 .. m + 1 : part(m + 1)[i] = IF i = m + 1 THEN s[m + 1] ELSE part(m)[i]
    BY <2>1
  <2> HIDE DEF part
  <2>5. Append(part(m), s[m + 1]) \in Seq(Cluster) /\ Len(Append(part(m), s[m + 1])) = m + 1
        /\ \A i \in 1 .. m + 1 : Append(part(m), s[m + 1])[i] = IF i = m + 1 THEN s[m + 1] ELSE part(m)[i]
    BY <2>2, <2>3
  <2> QED
    BY <2>2, <2>4, <2>5, SeqEqual
<1>7. part(n) = s
  BY <1>1, <1>4, SeqEqual DEF Follows
<1>8. \A m \in Nat : upto(m + 1) \in 1 .. n /\ (m + 1 < n => upto(m + 1) = m + 1) /\ (m + 1 >= n => upto(m + 1) = n)
  <2> HIDE DEF n
  <2> QED
    BY <1>0
<1> HIDE DEF part, upto
<1>9. w[0] = <<c>>
  <2>1. upto(0 + 1) = 1
    BY <1>1 DEF upto
  <2> QED
    BY <1>5, <2>1
<1>10. ASSUME NEW m \in Nat, m # 0
       PROVE  w[m] = LET t == w[m - 1]
                     IN  IF t # <<>> /\ f[Last(t)] \in Cluster THEN Append(t, f[Last(t)]) ELSE t
  <2>0. m - 1 \in Nat /\ (m - 1) + 1 = m
    BY <1>10
  <2> DEFINE t == w[m - 1]
             k == upto(m)
  <2>1. t = part(k) /\ k \in 1 .. n /\ (m < n => k = m) /\ (m >= n => k = n)
    BY <1>8, <2>0
  <2>2. w[m] = part(upto(m + 1))
    OBVIOUS
  <2> HIDE DEF t, k, w
  <2>3. t # <<>> /\ Last(t) = s[k]
    BY <1>4, <2>1
  <2>4. CASE m < n
    <3>1. k \in 1 .. n - 1 /\ k = m /\ upto(m + 1) = m + 1
      <4> HIDE DEF n
      <4> QED
        BY <1>0, <1>8, <1>10, <2>1, <2>4
    <3>2. f[s[k]] = s[k + 1] /\ s[k + 1] \in Cluster
      BY <1>1, <1>2, <3>1
    <3>3. Append(t, f[Last(t)]) = part(k + 1)
      BY <1>6, <2>1, <2>3, <3>1, <3>2
    <3> QED
      BY <2>2, <2>3, <3>1, <3>2, <3>3 DEF t
  <2>5. CASE m >= n
    <3>1. upto(m + 1) = n /\ k = n
      <4> HIDE DEF n
      <4> QED
        BY <1>0, <1>8, <1>10, <2>1, <2>5
    <3>2. f[Last(t)] \notin Cluster
      BY <1>3, <2>3, <3>1
    <3> QED
      BY <2>1, <2>2, <3>1, <3>2 DEF t
  <2> QED
    BY <1>1, <2>4, <2>5
<1>11. w = [m \in Nat |->
              IF m = 0 THEN IF c \in Cluster THEN <<c>> ELSE <<>>
              ELSE LET t == w[m - 1]
                   IN  IF t # <<>> /\ f[Last(t)] \in Cluster THEN Append(t, f[Last(t)]) ELSE t]
  <2> DEFINE Body(m) == IF m = 0 THEN IF c \in Cluster THEN <<c>> ELSE <<>>
                        ELSE LET t == w[m - 1]
                             IN  IF t # <<>> /\ f[Last(t)] \in Cluster THEN Append(t, f[Last(t)]) ELSE t
  <2>1. \A m \in Nat : w[m] = Body(m)
    BY <1>1, <1>9, <1>10
  <2>2. w = [m \in Nat |-> w[m]]
    OBVIOUS
  <2> HIDE DEF w, Body
  <2>3. w = [m \in Nat |-> Body(m)]
    BY <2>1, <2>2
  <2> QED
    BY <2>3 DEF Body
<1> HIDE DEF w
<1>12. walk = [m \in Nat |->
              IF m = 0 THEN IF c \in Cluster THEN <<c>> ELSE <<>>
              ELSE LET t == walk[m - 1]
                   IN  IF t # <<>> /\ f[Last(t)] \in Cluster THEN Append(t, f[Last(t)]) ELSE t]
  BY <1>11
<1>13. Walk(f, c) = walk[LastCluster - 1]
  BY DEF Walk
<1> HIDE DEF walk
<1>14. \A m \in Nat : walk[m] = w[m]
  <2> DEFINE Q == {m \in Nat : walk[m] = w[m]}
  <2>1. 0 \in Q
    BY <1>11, <1>12
  <2>2. ASSUME NEW m \in Nat, m \in Q PROVE m + 1 \in Q
    <3>1. m + 1 \in Nat /\ m + 1 # 0 /\ (m + 1) - 1 = m /\ walk[m] = w[m]
      BY <2>2
    <3> DEFINE t == w[m]
    <3>2. w[m + 1] = IF t # <<>> /\ f[Last(t)] \in Cluster THEN Append(t, f[Last(t)]) ELSE t
      BY <1>11, <3>1
    <3>3. walk[m + 1] = IF t # <<>> /\ f[Last(t)] \in Cluster THEN Append(t, f[Last(t)]) ELSE t
      BY <1>12, <3>1
    <3> QED
      BY <3>1, <3>2, <3>3
  <2> HIDE DEF Q
  <2>3. Nat \subseteq Q
    BY <2>1, <2>2, NatSetInduction
  <2> QED
    BY <2>3 DEF Q
<1>15. LastCluster - 1 \in Nat /\ upto((LastCluster - 1) + 1) = n
  BY <1>1, <1>8, ClusterFacts
<1>16. w[LastCluster - 1] = s
  BY <1>7, <1>15 DEF w
<1> QED
  BY <1>13, <1>14, <1>15, <1>16

\* A chain is no longer than the disk.
LEMMA ChainedIs ==
    ASSUME NEW f, NEW c, NEW s, Chained(f, c, s)
    PROVE  /\ Len(s) \in 1 .. LastCluster - 1 /\ s \in [1 .. Len(s) -> Cluster] /\ c \in Cluster
           /\ Range(s) = {s[i] : i \in 1 .. Len(s)} /\ Range(s) \subseteq Cluster /\ c \in Range(s)
           /\ \A x \in Range(s) : f[x] # FREE
           /\ Walk(f, c) = s
<1> DEFINE n == Len(s)
<1>1. n \in Nat /\ n >= 1 /\ s \in [1 .. n -> Cluster] /\ s[1] = c
  BY DEF Chained
<1>0. n \in Nat /\ n >= 1
  BY <1>1
<1>10. \A i \in 1 .. n : i \in 1 .. n - 1 <=> i # n
  <2> HIDE DEF n
  <2> QED
    BY <1>0
<1>11. \A i \in 1 .. n - 1 : i \in 1 .. n /\ i + 1 \in 1 .. n
  <2> HIDE DEF n
  <2> QED
    BY <1>0
<1>2. IsFiniteSet(1 .. n) /\ Cardinality(1 .. n) = n
  <2>1. 1 \in Int /\ n \in Int
    BY <1>1
  <2>2. IsFiniteSet(1 .. n) /\ Cardinality(1 .. n) = IF 1 > n THEN 0 ELSE n - 1 + 1
    BY <2>1, FS_Interval
  <2> QED
    BY <1>1, <2>2
<1>3. s \in Injection(1 .. n, Cluster)
  BY <1>1 DEF Chained, Injection, IsInjective
<1>4. n <= LastCluster - 1
  BY <1>2, <1>3, ClusterFacts, FS_Injection DEF ExistsInjection
<1>5. Range(s) = {s[i] : i \in 1 .. n} /\ Range(s) \subseteq Cluster /\ c \in Range(s) /\ c \in Cluster
  BY <1>1 DEF Range
<1>6. \A i \in 1 .. n : f[s[i]] # FREE
  <2> SUFFICES ASSUME NEW i \in 1 .. n PROVE f[s[i]] # FREE
    OBVIOUS
  <2>1. CASE i = n
    BY <2>1, ClusterFacts DEF Chained
  <2>2. CASE i # n
    <3>1. i + 1 \in 1 .. n
      BY <1>10, <1>11, <2>2
    <3>2. f[s[i]] = s[i + 1] /\ s[i + 1] \in Cluster
      BY <1>1, <2>2, <3>1 DEF Chained
    <3> QED
      BY <3>2, ClusterFacts
  <2> QED
    BY <2>1, <2>2
<1>7. \A x \in Range(s) : f[x] # FREE
  BY <1>5, <1>6
<1>8. Follows(f, c, s)
  <2>1. \A i \in 1 .. n - 1 : f[s[i]] = s[i + 1]
    BY <1>10, <1>11 DEF Chained
  <2>2. n \in 1 .. n /\ f[s[n]] = EOC
    BY <1>0 DEF Chained
  <2> QED
    BY <1>1, <2>1, <2>2, ClusterFacts DEF Chained, Follows
<1>9. Walk(f, c) = s
  BY <1>4, <1>8, WalkIs
<1> QED
  BY <1>1, <1>4, <1>5, <1>7, <1>9

\* A cluster that leads nowhere is a chain of its own.
LEMMA WalkEnds ==
    ASSUME NEW f, NEW c \in Cluster, f[c] \notin Cluster
    PROVE  Walk(f, c) = <<c>>
<1>1. <<c>> \in Seq(Cluster) /\ Len(<<c>>) = 1 /\ <<c>>[1] = c
  OBVIOUS
<1>2. Follows(f, c, <<c>>)
  BY <1>1 DEF Follows
<1>3. 1 <= LastCluster - 1
  BY FatAssumption
<1> QED
  BY <1>1, <1>2, <1>3, WalkIs

LEMMA SoundIs ==
    ASSUME NEW f, NEW c \in Cluster, Sound(f, c)
    PROVE  /\ Walk(f, c) \in Seq(Cluster) /\ Len(Walk(f, c)) \in Nat /\ Len(Walk(f, c)) >= 1
           /\ Walk(f, c) \in [1 .. Len(Walk(f, c)) -> Cluster] /\ Walk(f, c)[1] = c
           /\ \A i, j \in 1 .. Len(Walk(f, c)) : Walk(f, c)[i] = Walk(f, c)[j] => i = j
           /\ Range(Walk(f, c)) = {Walk(f, c)[i] : i \in 1 .. Len(Walk(f, c))}
           /\ Range(Walk(f, c)) \subseteq Cluster /\ c \in Range(Walk(f, c))
           /\ f[c] = FREE => Walk(f, c) = <<c>> /\ Range(Walk(f, c)) = {c}
           /\ f[c] # FREE => /\ Chained(f, c, Walk(f, c))
                             /\ \A x \in Range(Walk(f, c)) : f[x] # FREE
<1>1. CASE f[c] = FREE
  <2>1. Walk(f, c) = <<c>>
    BY <1>1, ClusterFacts, WalkEnds
  <2>2. /\ <<c>> \in Seq(Cluster) /\ Len(<<c>>) = 1 /\ <<c>>[1] = c
        /\ <<c>> \in [1 .. 1 -> Cluster] /\ 1 .. 1 = {1}
    OBVIOUS
  <2>3. Range(<<c>>) = {c}
    BY <2>2 DEF Range
  <2>4. {<<c>>[i] : i \in 1 .. 1} = {c}
    BY <2>2
  <2> QED
    BY <1>1, <2>1, <2>2, <2>3, <2>4
<1>2. CASE f[c] # FREE
  <2> DEFINE s == Walk(f, c)
  <2>1. Chained(f, c, s)
    BY <1>2 DEF Sound
  <2>2. s \in Seq(Cluster) /\ Len(s) \in Nat /\ Len(s) >= 1 /\ s[1] = c
        /\ \A i, j \in 1 .. Len(s) : s[i] = s[j] => i = j
    <3> HIDE DEF s
    <3> QED
      BY <2>1 DEF Chained
  <2>3. s \in [1 .. Len(s) -> Cluster] /\ Range(s) = {s[i] : i \in 1 .. Len(s)}
        /\ Range(s) \subseteq Cluster /\ c \in Range(s) /\ \A x \in Range(s) : f[x] # FREE
    BY <2>1, ChainedIs
  <2> QED
    BY <1>2, <2>1, <2>2, <2>3
<1> QED
  BY <1>1, <1>2

\* Nothing that happens to other clusters changes a chain.
LEMMA SoundKeeps ==
    ASSUME NEW f, NEW c \in Cluster, Sound(f, c), NEW g, \A x \in Range(Walk(f, c)) : g[x] = f[x]
    PROVE  Walk(g, c) = Walk(f, c) /\ Sound(g, c) /\ g[c] = f[c]
<1>0. g[c] = f[c]
  BY SoundIs
<1>1. CASE f[c] = FREE
  BY <1>0, <1>1, WalkEnds, ClusterFacts DEF Sound
<1>2. CASE f[c] # FREE
  <2> DEFINE s == Walk(f, c)
  <2>1. Chained(f, c, s) /\ Range(s) = {s[i] : i \in 1 .. Len(s)}
    BY <1>2, SoundIs
  <2>2. \A i \in 1 .. Len(s) : g[s[i]] = f[s[i]]
    BY <2>1
  <2>3. Chained(g, c, s)
    <3> HIDE DEF s
    <3> QED
      BY <2>1, <2>2 DEF Chained
  <2>4. Walk(g, c) = s
    BY <2>3, ChainedIs
  <2> QED
    BY <1>0, <2>3, <2>4 DEF Sound
<1> QED
  BY <1>1, <1>2

\* The first cluster of a chain is freed.
LEMMA ChainTail ==
    ASSUME NEW f \in Fats, NEW c, NEW s, Chained(f, c, s),
           NEW g, g[c] = FREE, \A x \in Cluster \ {c} : g[x] = f[x]
    PROVE  /\ f[c] = EOC => Range(s) = {c}
           /\ f[c] # EOC => /\ f[c] \in Cluster /\ f[c] # c
                            /\ Chained(g, f[c], Tail(s)) /\ Range(Tail(s)) = Range(s) \ {c}
<1> DEFINE n == Len(s)
           t == Tail(s)
<1>1. n \in Nat /\ n >= 1 /\ s \in [1 .. n -> Cluster] /\ s[1] = c /\ c \in Cluster /\ s \in Seq(Cluster)
      /\ Range(s) = {s[i] : i \in 1 .. n}
  BY ChainedIs DEF Chained
<1>2. /\ \A i, j \in 1 .. n : s[i] = s[j] => i = j
      /\ \A i \in 1 .. n : f[s[i]] = IF i = n THEN EOC ELSE s[i + 1]
  BY DEF Chained
<1>3. \A x \in Cluster : g[x] = IF x = c THEN FREE ELSE f[x]
  BY <1>1
<1>4. CASE n = 1
  <2>1. f[c] = EOC
    BY <1>1, <1>2, <1>4
  <2>2. 1 .. 1 = {1}
    OBVIOUS
  <2>3. Range(s) = {c}
    BY <1>1, <1>4, <2>2
  <2> QED
    BY <1>3, <2>1, <2>3
<1>5. CASE n # 1
  <2>0. n \in Nat /\ n >= 2 /\ n - 1 \in Nat
    <3> HIDE DEF n
    <3> QED
      BY <1>1, <1>5
  <2>1. f[c] = s[2] /\ s[2] \in Cluster /\ s[2] # s[1]
    <3>1. 1 \in 1 .. n /\ 2 \in 1 .. n
      BY <2>0
    <3>2. f[s[1]] = s[1 + 1] /\ 1 + 1 = 2
      <4> HIDE DEF n
      <4> QED
        BY <1>2, <1>5, <3>1
    <3>3. s[2] \in Cluster /\ s[2] # s[1]
      <4> HIDE DEF n
      <4> QED
        BY <1>1, <1>2, <3>1
    <3> QED
      BY <1>1, <3>2, <3>3
  <2>2. t \in Seq(Cluster) /\ Len(t) = n - 1 /\ \A i \in 1 .. n - 1 : t[i] = s[i + 1]
    <3>1. s # <<>>
      BY DEF Chained
    <3> QED
      BY <1>1, <3>1
  <2>3. t # <<>> /\ t[1] = s[2]
    <3>1. 1 \in 1 .. n - 1 /\ 1 + 1 = 2 /\ n - 1 # 0
      <4> HIDE DEF n
      <4> QED
        BY <2>0
    <3>2. Len(t) # 0
      BY <2>2, <3>1
    <3> HIDE DEF t, n
    <3> QED
      BY <2>2, <3>1, <3>2
  <2>4. \A i, j \in 1 .. n - 1 : t[i] = t[j] => i = j
    <3> SUFFICES ASSUME NEW i \in 1 .. n - 1, NEW j \in 1 .. n - 1, t[i] = t[j] PROVE i = j
      OBVIOUS
    <3>1. i + 1 \in 1 .. n /\ j + 1 \in 1 .. n
      <4> HIDE DEF n
      <4> QED
        BY <2>0
    <3>2. s[i + 1] = s[j + 1]
      BY <2>2
    <3>3. i + 1 = j + 1
      BY <1>2, <3>1, <3>2
    <3> QED
      BY <3>3
  <2>5. \A i \in 1 .. n - 1 : g[t[i]] = IF i = n - 1 THEN EOC ELSE t[i + 1]
    <3> SUFFICES ASSUME NEW i \in 1 .. n - 1 PROVE g[t[i]] = IF i = n - 1 THEN EOC ELSE t[i + 1]
      OBVIOUS
    <3>1. i + 1 \in 1 .. n /\ 1 \in 1 .. n /\ i + 1 # 1 /\ (i + 1 = n <=> i = n - 1)
          /\ (i # n - 1 => i + 1 \in 1 .. n - 1)
      <4> HIDE DEF n
      <4> QED
        BY <2>0
    <3>2. t[i] = s[i + 1] /\ s[i + 1] \in Cluster /\ s[i + 1] # c
      BY <1>1, <1>2, <2>2, <3>1
    <3>3. g[t[i]] = f[s[i + 1]]
      BY <1>3, <3>2
    <3>4. f[s[i + 1]] = IF i + 1 = n THEN EOC ELSE s[(i + 1) + 1]
      BY <1>2, <3>1
    <3> QED
      BY <2>2, <3>1, <3>3, <3>4
  <2>6. Chained(g, f[c], t)
    <3> HIDE DEF t, n
    <3> QED
      BY <2>1, <2>2, <2>3, <2>4, <2>5 DEF Chained
  <2>7. Range(t) = {t[i] : i \in 1 .. n - 1}
    <3> HIDE DEF t
    <3> QED
      BY <2>2, <2>6, ChainedIs
  <2>8. Range(s) \ {c} = Range(t)
    <3>1. ASSUME NEW x \in Range(s), x # c PROVE x \in Range(t)
      <4>1. PICK i \in 1 .. n : x = s[i]
        BY <1>1
      <4>2. i - 1 \in 1 .. n - 1 /\ (i - 1) + 1 = i
        <5>1. i # 1
          BY <1>1, <3>1, <4>1
        <5> HIDE DEF n
        <5> QED
          BY <2>0, <5>1
      <4> QED
        BY <2>2, <2>7, <4>1, <4>2
    <3>2. ASSUME NEW x \in Range(t) PROVE x \in Range(s) /\ x # c
      <4>1. PICK i \in 1 .. n - 1 : x = t[i]
        BY <2>7
      <4>2. i + 1 \in 1 .. n /\ 1 \in 1 .. n /\ i + 1 # 1
        <5> HIDE DEF n
        <5> QED
          BY <2>0
      <4>3. x = s[i + 1]
        BY <2>2, <4>1
      <4> QED
        BY <1>1, <1>2, <4>2, <4>3
    <3> QED
      BY <3>1, <3>2
  <2>9. f[c] \in Cluster /\ f[c] # c /\ f[c] # EOC
    BY <1>1, <2>1, ClusterFacts
  <2> QED
    BY <1>3, <2>6, <2>8, <2>9
<1> QED
  BY <1>4, <1>5

\* A marked cluster is linked to the end of a chain.
LEMMA ChainGrows ==
    ASSUME NEW f \in Fats, NEW c, NEW s, Chained(f, c, s),
           NEW x \in Cluster, x \notin Range(s), f[x] = EOC,
           NEW g, g[s[Len(s)]] = x, \A y \in Cluster \ {s[Len(s)]} : g[y] = f[y]
    PROVE  /\ Chained(g, c, Append(s, x)) /\ Range(Append(s, x)) = Range(s) \cup {x}
           /\ Len(Append(s, x)) = Len(s) + 1 /\ Append(s, x)[Len(s) + 1] = x
           /\ \A i \in 1 .. Len(s) : Append(s, x)[i] = s[i]
<1> DEFINE n == Len(s)
           t == Append(s, x)
<1>1. n \in Nat /\ n >= 1 /\ s \in [1 .. n -> Cluster] /\ s[1] = c /\ c \in Cluster /\ s \in Seq(Cluster)
      /\ Range(s) = {s[i] : i \in 1 .. n}
  BY ChainedIs DEF Chained
<1>2. /\ \A i, j \in 1 .. n : s[i] = s[j] => i = j
      /\ \A i \in 1 .. n : f[s[i]] = IF i = n THEN EOC ELSE s[i + 1]
  BY DEF Chained
<1>3. n \in 1 .. n /\ s[n] \in Cluster
  BY <1>1
<1>4. \A y \in Cluster : g[y] = IF y = s[n] THEN x ELSE f[y]
  BY <1>3
<1>5. t \in Seq(Cluster) /\ Len(t) = n + 1 /\ t[n + 1] = x /\ \A i \in 1 .. n : t[i] = s[i]
  BY <1>1
<1>6. t # <<>> /\ t[1] = c
  BY <1>1, <1>5
<1>7. \A i \in 1 .. n + 1 : i # n + 1 => i \in 1 .. n
  <2> HIDE DEF n
  <2> QED
    BY <1>1
<1>8. \A i, j \in 1 .. n + 1 : t[i] = t[j] => i = j
  <2> SUFFICES ASSUME NEW i \in 1 .. n + 1, NEW j \in 1 .. n + 1, t[i] = t[j] PROVE i = j
    OBVIOUS
  <2>1. \A k \in 1 .. n : s[k] # x
    BY <1>1
  <2>2. CASE i = n + 1 /\ j # n + 1
    BY <1>5, <1>7, <2>1, <2>2
  <2>3. CASE i # n + 1 /\ j = n + 1
    BY <1>5, <1>7, <2>1, <2>3
  <2>4. CASE i # n + 1 /\ j # n + 1
    BY <1>2, <1>5, <1>7, <2>4
  <2> QED
    BY <2>2, <2>3, <2>4
<1>9. \A i \in 1 .. n + 1 : g[t[i]] = IF i = n + 1 THEN EOC ELSE t[i + 1]
  <2> SUFFICES ASSUME NEW i \in 1 .. n + 1 PROVE g[t[i]] = IF i = n + 1 THEN EOC ELSE t[i + 1]
    OBVIOUS
  <2>1. CASE i = n + 1
    <3>1. x # s[n]
      BY <1>1, <1>3
    <3>2. g[x] = EOC
      BY <1>4, <3>1
    <3>3. t[i] = x
      BY <1>5, <2>1
    <3> QED
      BY <2>1, <3>2, <3>3
  <2>2. CASE i = n
    <3> HIDE DEF n, t
    <3>1. i \in 1 .. n /\ i # n + 1
      BY <1>1, <1>3, <2>2
    <3>2. t[i] = s[n]
      BY <1>5, <2>2, <3>1
    <3>3. g[s[n]] = x
      BY <1>3, <1>4
    <3>4. t[i + 1] = x
      BY <1>5, <2>2
    <3> QED
      BY <3>1, <3>2, <3>3, <3>4
  <2>3. CASE i # n /\ i # n + 1
    <3>1. i \in 1 .. n /\ i + 1 \in 1 .. n
      <4> HIDE DEF n
      <4> QED
        BY <1>1, <2>3
    <3>2. t[i] = s[i] /\ t[i + 1] = s[i + 1] /\ s[i] # s[n] /\ s[i] \in Cluster
      BY <1>1, <1>2, <1>3, <1>5, <2>3, <3>1
    <3> QED
      BY <1>2, <1>4, <2>3, <3>1, <3>2
  <2> QED
    BY <2>1, <2>2, <2>3
<1>10. Chained(g, c, t)
  <2> HIDE DEF t, n
  <2> QED
    BY <1>5, <1>6, <1>8, <1>9 DEF Chained
<1>11. Range(t) = Range(s) \cup {x}
  <2>1. Range(t) = {t[i] : i \in 1 .. n + 1}
    <3> HIDE DEF t
    <3> QED
      BY <1>5, <1>10, ChainedIs
  <2>2. n + 1 \in 1 .. n + 1 /\ \A i \in 1 .. n : i \in 1 .. n + 1
    <3> HIDE DEF n
    <3> QED
      BY <1>1
  <2>3. \A y \in Range(t) : y \in Range(s) \cup {x}
    BY <1>1, <1>5, <1>7, <2>1
  <2>4. \A y \in Range(s) \cup {x} : y \in Range(t)
    <3> SUFFICES ASSUME NEW y \in Range(s) \cup {x} PROVE y \in Range(t)
      OBVIOUS
    <3>1. CASE y = x
      BY <1>5, <2>1, <2>2, <3>1
    <3>2. CASE y # x
      <4>1. PICK i \in 1 .. n : y = s[i]
        BY <1>1, <3>2
      <4> QED
        BY <1>5, <2>1, <2>2, <4>1
    <3> QED
      BY <3>1, <3>2
  <2> QED
    BY <2>3, <2>4
<1> QED
  BY <1>4, <1>5, <1>10, <1>11

----------------------------------------------------------------------------
(* Directories and paths *)

LEMMA PathIs ==
    ASSUME NEW p \in Path
    PROVE  /\ p[1] \in Name /\ p[Len(p)] \in Name
           /\ \/ Len(p) = 1 /\ p = <<p[1]>>
              \/ Len(p) = 2 /\ p = <<p[1], p[2]>> /\ p[2] \in Name
BY DEF Path

LEMMA NamesAre == \A n \in Name : n # "00" /\ n # "E5"
BY FatAssumption

LEMMA LiveIs ==
    ASSUME NEW t, NEW n \in Nat, TableOK(t, n)
    PROVE  /\ DOMAIN t = 1 .. n /\ Live(t) \subseteq 1 .. n
           /\ \A i \in 1 .. n : t[i] \in Entries
           /\ \A i \in 1 .. n : i \in Live(t) <=> t[i].name \in Name
           /\ \A i \in Live(t) : t[i].first \in Cluster /\ \A j \in 1 .. i : t[j].name # "00"
<1>1. t \in [1 .. n -> Entries]
  BY DEF TableOK
<1>2. \A i \in 1 .. n : t[i] \in Entries /\ t[i].name \in Name \cup {"00", "E5"}
  BY <1>1 DEF Entries
<1>3. \A i \in 1 .. n : i \in Live(t) <=> t[i].name \in Name
  BY <1>1, <1>2, NamesAre DEF Live, Vacant
<1>4. DOMAIN t = 1 .. n /\ Live(t) \subseteq 1 .. n
  BY <1>1 DEF Live
<1>5. ASSUME NEW i \in Live(t), NEW j \in 1 .. i PROVE t[j].name # "00"
  <2>1. i \in 1 .. n /\ j \in 1 .. n /\ j <= i
    BY <1>4
  <2>2. t[i].name # "00"
    BY <1>3, <2>1, NamesAre
  <2> QED
    BY <2>1, <2>2 DEF TableOK
<1> QED
  BY <1>1, <1>2, <1>3, <1>4, <1>5 DEF TableOK

SizeOf(h) == IF h = Root THEN RootSlots ELSE DirSlots

LEMMA HomesAre ==
    ASSUME NEW d, TreeOK(d)
    PROVE  /\ Root \in Homes(d) /\ Homes(d) \subseteq Cluster \cup {Root}
           /\ \A h \in Homes(d) : TableOK(Table(d, h), SizeOf(h)) /\ SizeOf(h) \in Nat
           /\ \A h \in Homes(d) \ {Root} :
                 /\ DirsIn(Table(d, h)) = {} /\ DOMAIN d.sec[h] = {"slots"} /\ Table(d, h) = d.sec[h].slots
                 /\ \E i \in DirsIn(d.root) : d.root[i].first = h
           /\ \A i \in DirsIn(d.root) : i \in Live(d.root) /\ d.root[i].first \in Homes(d) \ {Root}
<1>1. TableOK(d.root, RootSlots) /\ RootSlots \in Nat /\ DirSlots \in Nat
  BY FatAssumption DEF TreeOK
<1>2. ASSUME NEW i \in DirsIn(d.root)
      PROVE  /\ i \in Live(d.root) /\ d.root[i].first \in Cluster /\ d.root[i].first # Root
             /\ d.root[i].first \in Homes(d)
  <2>1. i \in Live(d.root)
    BY DEF DirsIn
  <2> QED
    BY <1>1, <2>1, LiveIs, ClusterFacts DEF Homes
<1>3. ASSUME NEW h \in Homes(d) \ {Root}
      PROVE  /\ h \in Cluster /\ TableOK(Table(d, h), DirSlots)
             /\ DirsIn(Table(d, h)) = {} /\ DOMAIN d.sec[h] = {"slots"} /\ Table(d, h) = d.sec[h].slots
             /\ \E i \in DirsIn(d.root) : d.root[i].first = h
  <2>1. PICK i \in DirsIn(d.root) : d.root[i].first = h
    BY DEF Homes
  <2> QED
    BY <1>2, <2>1 DEF TreeOK, Table
<1>4. Table(d, Root) = d.root
  BY DEF Table
<1>5. Root \in Homes(d)
  BY DEF Homes
<1>6. \A h \in Homes(d) : TableOK(Table(d, h), SizeOf(h)) /\ SizeOf(h) \in Nat
  BY <1>1, <1>3, <1>4 DEF SizeOf
<1> QED
  BY <1>2, <1>3, <1>5, <1>6

LEMMA UsedIs ==
    ASSUME NEW d, TreeOK(d)
    PROVE  /\ \A l \in Used(d) :
                 /\ l = <<l[1], l[2]>> /\ l[1] \in Homes(d) /\ l[2] \in Live(Table(d, l[1]))
                 /\ First(d, l) \in Cluster /\ EntryAt(d, l) \in Entries /\ EntryAt(d, l).name \in Name
                 /\ l # None
           /\ \A h \in Homes(d) : \A i \in Live(Table(d, h)) : <<h, i>> \in Used(d)
<1>1. ASSUME NEW l \in Used(d)
      PROVE  /\ l = <<l[1], l[2]>> /\ l[1] \in Homes(d) /\ l[2] \in Live(Table(d, l[1]))
             /\ First(d, l) \in Cluster /\ EntryAt(d, l) \in Entries /\ EntryAt(d, l).name \in Name
             /\ l # None
  <2>0. PICK h \in Homes(d) : \E i \in Live(Table(d, h)) : l = <<h, i>>
    BY DEF Used
  <2>1. PICK i \in Live(Table(d, h)) : l = <<h, i>>
    BY <2>0
  <2>2. TableOK(Table(d, h), SizeOf(h)) /\ SizeOf(h) \in Nat
    BY HomesAre
  <2>3. Table(d, h)[i] \in Entries /\ Table(d, h)[i].first \in Cluster /\ Table(d, h)[i].name \in Name
    BY <2>2, LiveIs
  <2>4. l[1] = h /\ l[2] = i /\ l # <<>>
    BY <2>1
  <2>5. EntryAt(d, l) = Table(d, h)[i]
    BY <2>4 DEF EntryAt
  <2> QED
    BY <2>1, <2>3, <2>4, <2>5 DEF First, None
<1>2. \A h \in Homes(d) : \A i \in Live(Table(d, h)) : <<h, i>> \in Used(d)
  BY DEF Used
<1> QED
  BY <1>1, <1>2

\* Each path leads to one slot at most, and to each slot there leads one path.
LEMMA HomeUnique ==
    ASSUME NEW d, TreeOK(d), NEW p \in Path, NEW h, NEW k, HomeOf(d, p, h)
    PROVE  h \in Homes(d) /\ (HomeOf(d, p, k) => h = k)
<1>1. CASE Len(p) = 1
  BY <1>1, HomesAre DEF HomeOf
<1>2. CASE Len(p) # 1
  <2>1. PICK i \in DirsIn(d.root) : d.root[i].name = p[1] /\ d.root[i].first = h
    BY <1>2 DEF HomeOf
  <2>2. ASSUME HomeOf(d, p, k) PROVE h = k
    <3>1. PICK j \in DirsIn(d.root) : d.root[j].name = p[1] /\ d.root[j].first = k
      BY <1>2, <2>2 DEF HomeOf
    <3>2. i \in Live(d.root) /\ j \in Live(d.root)
      BY HomesAre
    <3>3. i = j
      BY <2>1, <3>1, <3>2 DEF TreeOK, TableOK
    <3> QED
      BY <2>1, <3>1, <3>3
  <2> QED
    BY <2>1, <2>2, HomesAre
<1> QED
  BY <1>1, <1>2

LEMMA LeadsUnique ==
    ASSUME NEW d, TreeOK(d), NEW p \in Path, NEW l, Leads(d, p, l)
    PROVE  /\ \A m : Leads(d, p, m) => l = m
           /\ \A q \in Path : Leads(d, q, l) => p = q
<1>1. l \in Used(d) /\ HomeOf(d, p, l[1]) /\ EntryAt(d, l).name = p[Len(p)]
  BY DEF Leads
<1>2. l = <<l[1], l[2]>> /\ l[1] \in Homes(d) /\ l[2] \in Live(Table(d, l[1]))
  BY <1>1, UsedIs
<1>3. ASSUME NEW m, Leads(d, p, m) PROVE l = m
  <2>1. m \in Used(d) /\ HomeOf(d, p, m[1]) /\ EntryAt(d, m).name = p[Len(p)]
    BY <1>3 DEF Leads
  <2>2. m = <<m[1], m[2]>> /\ m[2] \in Live(Table(d, m[1]))
    BY <2>1, UsedIs
  <2>3. l[1] = m[1]
    BY <1>1, <2>1, HomeUnique
  <2>4. TableOK(Table(d, l[1]), SizeOf(l[1]))
    BY <1>2, HomesAre
  <2>5. l[2] = m[2]
    BY <1>1, <1>2, <2>1, <2>2, <2>3, <2>4 DEF TableOK, EntryAt
  <2> QED
    BY <1>2, <2>2, <2>3, <2>5
<1>4. ASSUME NEW q \in Path, Leads(d, q, l) PROVE p = q
  <2>1. HomeOf(d, q, l[1]) /\ p[Len(p)] = q[Len(q)]
    BY <1>1, <1>4 DEF Leads
  <2>2. Root \notin {d.root[i].first : i \in DirsIn(d.root)}
    BY HomesAre
  <2>3. CASE l[1] = Root
    <3>1. Len(p) = 1 /\ Len(q) = 1
      BY <1>1, <2>1, <2>2, <2>3 DEF HomeOf
    <3> QED
      BY <2>1, <3>1, PathIs
  <2>4. CASE l[1] # Root
    <3>1. PICK i \in DirsIn(d.root) : Len(p) = 2 /\ d.root[i].name = p[1] /\ d.root[i].first = l[1]
      BY <1>1, <2>4 DEF HomeOf
    <3>2. PICK j \in DirsIn(d.root) : Len(q) = 2 /\ d.root[j].name = q[1] /\ d.root[j].first = l[1]
      BY <2>1, <2>4 DEF HomeOf
    <3>3. i = j
      BY <3>1, <3>2 DEF TreeOK
    <3>4. p = <<p[1], p[2]>> /\ q = <<q[1], q[2]>>
      BY <3>1, <3>2, PathIs
    <3> QED
      BY <2>1, <3>1, <3>2, <3>3, <3>4
  <2> QED
    BY <2>3, <2>4
<1> QED
  BY <1>3, <1>4

LEMMA LeadsTotal ==
    ASSUME NEW d, TreeOK(d), NEW l \in Used(d)
    PROVE  \E p \in Path : Leads(d, p, l)
<1>1. l[1] \in Homes(d) /\ EntryAt(d, l).name \in Name
  BY UsedIs
<1>2. CASE l[1] = Root
  <2> DEFINE p == <<EntryAt(d, l).name>>
  <2>1. p \in Path /\ Len(p) = 1 /\ p[1] = EntryAt(d, l).name
    BY <1>1 DEF Path
  <2> QED
    BY <1>2, <2>1 DEF Leads, HomeOf
<1>3. CASE l[1] # Root
  <2>1. PICK i \in DirsIn(d.root) : d.root[i].first = l[1]
    BY <1>1, <1>3, HomesAre
  <2>2. d.root[i].name \in Name
    <3>1. i \in Live(d.root) /\ TableOK(d.root, RootSlots) /\ RootSlots \in Nat
      BY HomesAre, FatAssumption DEF TreeOK
    <3> QED
      BY <3>1, LiveIs
  <2> DEFINE p == <<d.root[i].name, EntryAt(d, l).name>>
  <2>3. p \in Path /\ Len(p) = 2 /\ p[1] = d.root[i].name /\ p[2] = EntryAt(d, l).name
    BY <1>1, <2>2 DEF Path
  <2> HIDE DEF p
  <2> QED
    BY <2>1, <2>3 DEF Leads, HomeOf
<1> QED
  BY <1>2, <1>3

\* The operators of the model, in these terms.
LEMMA SlotsAre ==
    ASSUME TreeOK(Disk)
    PROVE  /\ \A h \in Homes(Disk) : Slots(h) = Table(Disk, h)
           /\ \A l \in Used(Disk) : At(l) = EntryAt(Disk, l)
<1>1. ASSUME NEW h \in Homes(Disk) PROVE Slots(h) = Table(Disk, h)
  <2>1. Disk.sec = sec /\ Disk.root = root
    BY DEF Disk
  <2>2. CASE h = Root
    BY <2>1, <2>2 DEF Slots, Table
  <2>3. CASE h # Root
    <3>1. DOMAIN sec[h] = {"slots"} /\ Table(Disk, h) = sec[h].slots
      BY <2>1, <2>3, HomesAre
    <3> QED
      BY <2>3, <3>1 DEF Slots, Holds
  <2> QED
    BY <2>2, <2>3
<1>2. ASSUME NEW l \in Used(Disk) PROVE At(l) = EntryAt(Disk, l)
  BY <1>1, UsedIs DEF At, EntryAt
<1> QED
  BY <1>1, <1>2

LEMMA MinIs ==
    ASSUME NEW S, S \subseteq Nat, S # {}
    PROVE  Min(S) \in S /\ \A n \in S : Min(S) <= n
BY NatMinimum DEF Min

LEMMA FindIs ==
    ASSUME TreeOK(Disk), NEW h \in Homes(Disk), NEW n \in Name
    PROVE  /\ Find(h, n) # None =>
                 \E i \in Live(Table(Disk, h)) : Find(h, n) = <<h, i>> /\ Table(Disk, h)[i].name = n
           /\ \A i \in Live(Table(Disk, h)) : Table(Disk, h)[i].name = n => Find(h, n) = <<h, i>>
<1> DEFINE t == Table(Disk, h)
           hits == {i \in DOMAIN t : t[i].name = n /\ \A j \in 1 .. i : t[j].name # "00"}
<1>1. TableOK(t, SizeOf(h)) /\ SizeOf(h) \in Nat
  BY HomesAre
<1>2. Find(h, n) = IF hits = {} THEN None ELSE <<h, Min(hits)>>
  BY SlotsAre DEF Find
<1> HIDE DEF t
<1>3. hits = {i \in Live(t) : t[i].name = n}
  BY <1>1, LiveIs
<1> HIDE DEF hits
<1>4. ASSUME hits # {} PROVE Min(hits) \in hits
  <2>1. hits \subseteq Nat
    BY <1>1, <1>3, LiveIs
  <2> QED
    BY <1>4, <2>1, MinIs
<1>5. ASSUME NEW i \in Live(t), t[i].name = n PROVE Find(h, n) = <<h, i>>
  <2>1. i \in hits /\ Min(hits) \in hits
    BY <1>3, <1>4, <1>5
  <2>2. Min(hits) = i
    BY <1>1, <1>3, <1>5, <2>1 DEF TableOK
  <2> QED
    BY <1>2, <2>1, <2>2
<1>6. ASSUME Find(h, n) # None
      PROVE  \E i \in Live(t) : Find(h, n) = <<h, i>> /\ t[i].name = n
  BY <1>2, <1>3, <1>4, <1>6
<1> QED
  BY <1>5, <1>6 DEF t

LEMMA ResolveIs ==
    ASSUME TreeOK(Disk), NEW p \in Path
    PROVE  /\ Resolve(p) # None => Leads(Disk, p, Resolve(p))
           /\ \A l : Leads(Disk, p, l) => Resolve(p) = l /\ l # None
<1> DEFINE one == Find(Root, p[1])
<1>1. Root \in Homes(Disk) /\ p[1] \in Name /\ Table(Disk, Root) = root /\ Disk.root = root
  BY HomesAre, PathIs DEF Table, Disk
<1>2. Resolve(p) = IF Len(p) = 1 \/ one = None THEN one
                   ELSE IF At(one).isDir THEN Find(At(one).first, p[2]) ELSE None
  BY DEF Resolve
<1>3. ASSUME one # None
      PROVE  \E i \in Live(root) : /\ one = <<Root, i>> /\ root[i].name = p[1] /\ one \in Used(Disk)
                                   /\ At(one) = root[i] /\ EntryAt(Disk, one) = root[i]
  <2>1. PICK i \in Live(root) : one = <<Root, i>> /\ root[i].name = p[1]
    BY <1>1, <1>3, FindIs
  <2>2. one \in Used(Disk)
    BY <1>1, <2>1, UsedIs
  <2>3. EntryAt(Disk, one) = root[i]
    BY <1>1, <2>1 DEF EntryAt
  <2> HIDE DEF one
  <2> QED
    BY <2>1, <2>2, <2>3, SlotsAre
<1>4. \A i \in Live(root) : root[i].name = p[1] => one = <<Root, i>>
  BY <1>1, FindIs
<1>8. None = <<>> /\ \A a, b : <<a, b>> # None
  BY DEF None
<1> HIDE DEF one
<1>5. ASSUME Resolve(p) # None PROVE Leads(Disk, p, Resolve(p))
  <2>1. one # None
    BY <1>2, <1>5
  <2>2. PICK i \in Live(root) : /\ one = <<Root, i>> /\ root[i].name = p[1] /\ one \in Used(Disk)
                                /\ At(one) = root[i] /\ EntryAt(Disk, one) = root[i]
    BY <1>3, <2>1
  <2>3. CASE Len(p) = 1
    <3>1. one[1] = Root
      BY <2>2
    <3> QED
      BY <1>2, <2>2, <2>3, <3>1 DEF Leads, HomeOf
  <2>4. CASE Len(p) # 1
    <3> DEFINE h == root[i].first
    <3>1. root[i].isDir /\ Resolve(p) = Find(h, p[2]) /\ Len(p) = 2 /\ p[2] \in Name
      BY <1>2, <1>5, <2>1, <2>2, <2>4, PathIs
    <3>2. i \in DirsIn(root)
      BY <3>1 DEF DirsIn
    <3>3. h \in Homes(Disk)
      BY <1>1, <3>2, HomesAre
    <3>4. PICK j \in Live(Table(Disk, h)) : Resolve(p) = <<h, j>> /\ Table(Disk, h)[j].name = p[2]
      BY <1>5, <3>1, <3>3, FindIs
    <3>5. Resolve(p) \in Used(Disk) /\ Resolve(p)[1] = h /\ Resolve(p)[2] = j
      BY <3>3, <3>4, UsedIs
    <3>6. EntryAt(Disk, Resolve(p)).name = p[2]
      BY <3>4, <3>5 DEF EntryAt
    <3> QED
      BY <1>1, <2>2, <3>1, <3>2, <3>5, <3>6 DEF Leads, HomeOf
  <2> QED
    BY <2>3, <2>4
<1>6. ASSUME NEW l, Leads(Disk, p, l) PROVE Resolve(p) = l /\ l # None
  <2>1. l \in Used(Disk) /\ HomeOf(Disk, p, l[1]) /\ EntryAt(Disk, l).name = p[Len(p)]
    BY <1>6 DEF Leads
  <2>2. l = <<l[1], l[2]>> /\ l[1] \in Homes(Disk) /\ l[2] \in Live(Table(Disk, l[1])) /\ l # None
    BY <2>1, UsedIs
  <2>3. CASE Len(p) = 1
    <3>1. l[1] = Root
      BY <2>1, <2>3 DEF HomeOf
    <3>2. root[l[2]].name = p[1] /\ l[2] \in Live(root)
      BY <1>1, <2>1, <2>2, <2>3, <3>1 DEF EntryAt
    <3> QED
      BY <1>2, <1>4, <2>2, <2>3, <3>1, <3>2
  <2>4. CASE Len(p) # 1
    <3>1. PICK i \in DirsIn(root) : Len(p) = 2 /\ root[i].name = p[1] /\ root[i].first = l[1]
      BY <1>1, <2>1, <2>4 DEF HomeOf
    <3>2. i \in Live(root) /\ root[i].isDir
      BY <3>1 DEF DirsIn
    <3>3. one = <<Root, i>> /\ one # None
      BY <1>4, <1>8, <3>1, <3>2
    <3>4. PICK k \in Live(root) : one = <<Root, k>> /\ At(one) = root[k]
      BY <1>3, <3>3
    <3>5. k = i
      BY <3>3, <3>4
    <3>6. Resolve(p) = Find(l[1], p[2])
      BY <1>2, <2>4, <3>1, <3>2, <3>3, <3>4, <3>5
    <3>7. Table(Disk, l[1])[l[2]].name = p[2] /\ p[2] \in Name
      BY <2>1, <3>1, PathIs DEF EntryAt
    <3>8. Find(l[1], p[2]) = <<l[1], l[2]>>
      BY <2>2, <3>7, FindIs
    <3> QED
      BY <2>2, <3>6, <3>8
  <2> QED
    BY <2>3, <2>4
<1> QED
  BY <1>5, <1>6

LEMMA ParentIs ==
    ASSUME TreeOK(Disk), NEW p \in Path, ParentCluster(p) # EOC, ~ParentIsFile(p)
    PROVE  HomeOf(Disk, p, ParentCluster(p))
<1>1. Root \in Homes(Disk) /\ p[1] \in Name /\ Table(Disk, Root) = root /\ Disk.root = root
  BY HomesAre, PathIs DEF Table, Disk
<1>2. CASE Len(p) = 1
  BY <1>2 DEF ParentCluster, HomeOf
<1>3. CASE Len(p) # 1
  <2> DEFINE one == Find(Root, p[1])
  <2>1. Len(p) = 2 /\ one # None /\ ParentCluster(p) = At(one).first /\ At(one).isDir
    BY <1>3, PathIs DEF ParentCluster, ParentIsFile
  <2>2. PICK i \in Live(root) : one = <<Root, i>> /\ root[i].name = p[1]
    BY <1>1, <2>1, FindIs
  <2>3. one \in Used(Disk) /\ one[1] = Root /\ one[2] = i
    BY <1>1, <2>2, UsedIs
  <2>4. At(one) = root[i]
    BY <1>1, <2>3, SlotsAre DEF EntryAt
  <2>5. i \in DirsIn(root)
    BY <2>1, <2>4 DEF DirsIn
  <2> QED
    BY <1>1, <2>1, <2>2, <2>4, <2>5 DEF HomeOf
<1> QED
  BY <1>2, <1>3

----------------------------------------------------------------------------
(* Writes that leave the tree alone *)

LEMMA DirsAre ==
    ASSUME NEW d, TreeOK(d), NEW l \in Used(d), EntryAt(d, l).isDir
    PROVE  /\ l = <<Root, l[2]>> /\ l[1] = Root /\ l[2] \in DirsIn(d.root)
           /\ First(d, l) = d.root[l[2]].first
           /\ First(d, l) \in Homes(d) \ {Root}
<1>1. l = <<l[1], l[2]>> /\ l[1] \in Homes(d) /\ l[2] \in Live(Table(d, l[1]))
  BY UsedIs
<1>2. l[2] \in DirsIn(Table(d, l[1]))
  BY <1>1 DEF DirsIn, EntryAt
<1>3. l[1] = Root
  BY <1>1, <1>2, HomesAre
<1>4. Table(d, Root) = d.root
  BY DEF Table
<1>5. l[2] \in DirsIn(d.root)
  BY <1>2, <1>3, <1>4
<1> QED
  BY <1>1, <1>3, <1>4, <1>5, HomesAre DEF First, EntryAt

\* Homes and the first clusters of entries.
LEMMA HomesOwned ==
    ASSUME NEW d, TreeOK(d), ChainsOK(d)
    PROVE  /\ \A l \in Used(d) : First(d, l) \in Own(d, l) /\ Own(d, l) \subseteq Owned(d)
                                 /\ Own(d, l) \subseteq Cluster
           /\ Homes(d) \ {Root} \subseteq Owned(d)
           /\ Owned(d) \subseteq Cluster
<1>1. ASSUME NEW l \in Used(d)
      PROVE  First(d, l) \in Own(d, l) /\ Own(d, l) \subseteq Owned(d) /\ Own(d, l) \subseteq Cluster
  <2>1. First(d, l) \in Cluster /\ Sound(d.fat, First(d, l))
    BY UsedIs DEF ChainsOK
  <2> QED
    BY <2>1, SoundIs DEF Own, Owned
<1>2. ASSUME NEW h \in Homes(d) \ {Root}
      PROVE  h \in Owned(d)
  <2>1. PICK i \in DirsIn(d.root) : d.root[i].first = h
    BY HomesAre
  <2>2. i \in Live(d.root) /\ Table(d, Root) = d.root /\ Root \in Homes(d)
    BY HomesAre DEF Table
  <2>3. <<Root, i>> \in Used(d)
    BY <2>2, UsedIs
  <2>4. First(d, <<Root, i>>) = h
    BY <2>1, <2>2 DEF First, EntryAt
  <2> QED
    BY <1>1, <2>3, <2>4
<1>3. Owned(d) \subseteq Cluster
  BY <1>1 DEF Owned
<1> QED
  BY <1>1, <1>2, <1>3

SameTree(d, e) ==
    /\ Homes(e) = Homes(d) /\ Used(e) = Used(d)
    /\ \A h \in Homes(d) : Table(e, h) = Table(d, h)
    /\ \A l \in Used(d) :
          /\ EntryAt(e, l) = EntryAt(d, l) /\ First(e, l) = First(d, l)
          /\ Bare(e, l) <=> Bare(d, l)
    /\ \A p, h : HomeOf(e, p, h) <=> HomeOf(d, p, h)
    /\ \A p, l : Leads(e, p, l) <=> Leads(d, p, l)

LEMMA TreeKeeps ==
    ASSUME NEW d, TreeOK(d), NEW e, e.root = d.root, DOMAIN e.sec = Cluster,
           \A h \in Homes(d) \ {Root} : e.sec[h] = d.sec[h]
    PROVE  TreeOK(e) /\ SameTree(d, e)
<1>1. DirsIn(e.root) = DirsIn(d.root) /\ Homes(e) = Homes(d)
  BY DEF Homes
<1>2. \A h \in Homes(d) : Table(e, h) = Table(d, h)
  BY DEF Table
<1>3. Used(e) = Used(d)
  BY <1>1, <1>2 DEF Used
<1>4. \A l \in Used(d) : EntryAt(e, l) = EntryAt(d, l) /\ First(e, l) = First(d, l)
  BY <1>2, UsedIs DEF EntryAt, First
<1>5. \A p, h : HomeOf(e, p, h) <=> HomeOf(d, p, h)
  BY <1>1 DEF HomeOf
<1>6. \A p, l : Leads(e, p, l) <=> Leads(d, p, l)
  BY <1>3, <1>4, <1>5 DEF Leads
<1>7. ASSUME NEW l \in Used(d) PROVE Bare(e, l) <=> Bare(d, l)
  <2>1. EntryAt(d, l).isDir => Table(e, First(d, l)) = Table(d, First(d, l))
    BY <1>2, DirsAre
  <2> QED
    BY <1>4, <2>1 DEF Bare
<1>8. TreeOK(e)
  <2>1. ASSUME NEW i \in DirsIn(e.root) PROVE e.sec[e.root[i].first] = d.sec[d.root[i].first]
    BY <1>1, HomesAre
  <2> QED
    BY <1>1, <2>1 DEF TreeOK
<1> QED
  BY <1>1, <1>2, <1>3, <1>4, <1>5, <1>6, <1>7, <1>8 DEF SameTree

\* Chains that none of the writes is in.
LEMMA ChainsKeep ==
    ASSUME NEW d, TreeOK(d), ChainsOK(d), NEW e, SameTree(d, e), e.fat \in Fats,
           \A c \in Owned(d) : e.fat[c] = d.fat[c]
    PROVE  /\ ChainsOK(e)
           /\ \A l \in Used(d) : /\ Walk(e.fat, First(e, l)) = Walk(d.fat, First(d, l))
                                 /\ Own(e, l) = Own(d, l)
           /\ Owned(e) = Owned(d) /\ Half(e) = Half(d)
<1>1. ASSUME NEW l \in Used(d)
      PROVE  /\ First(e, l) = First(d, l) /\ Sound(e.fat, First(e, l))
             /\ Walk(e.fat, First(e, l)) = Walk(d.fat, First(d, l))
             /\ Own(e, l) = Own(d, l)
             /\ e.fat[First(e, l)] = d.fat[First(d, l)]
  <2> DEFINE c == First(d, l)
  <2>1. First(e, l) = c
    BY DEF SameTree
  <2>2. c \in Cluster /\ Sound(d.fat, c)
    BY UsedIs DEF ChainsOK
  <2>3. \A x \in Range(Walk(d.fat, c)) : e.fat[x] = d.fat[x]
    BY DEF Own, Owned
  <2> HIDE DEF c
  <2>4. Walk(e.fat, c) = Walk(d.fat, c) /\ Sound(e.fat, c) /\ e.fat[c] = d.fat[c]
    BY <2>2, <2>3, SoundKeeps
  <2> QED
    BY <2>1, <2>4 DEF Own, c
<1>2. Used(e) = Used(d)
  BY DEF SameTree
<1>3. ChainsOK(e)
  BY <1>1, <1>2 DEF ChainsOK, Fats
<1> QED
  BY <1>1, <1>2, <1>3 DEF Owned, Half

LEMMA ShowsSame ==
    ASSUME NEW d, NEW e, NEW s, NEW b, NEW a, Shows(d, s, b),
           Len(s) \in Nat, Len(a) = Len(b), \A i \in 1 .. Sec * Len(s) : a[i] = b[i],
           \A k \in 1 .. Len(s) : e.sec[s[k]] = d.sec[s[k]]
    PROVE  Shows(e, s, a)
<1>1. ASSUME NEW k \in 1 .. Len(s), NEW r \in 0 .. Sec - 1
      PROVE  Sec * (k - 1) + r + 1 \in 1 .. Sec * Len(s)
  BY Place
<1> QED
  BY <1>1 DEF Shows, ByteAt

\* What a call that is not writing p leaves of what p should hold by now.
LEMMA FilesKeep ==
    ASSUME NEW d, TreeOK(d), ChainsOK(d), NEW e, SameTree(d, e), NEW o, NEW q, NEW ex,
           FilesOK(d, o, ex), Half(d) \subseteq Half(e),
           \A l \in Used(d) : Walk(e.fat, First(e, l)) = Walk(d.fat, First(d, l)),
           \A c \in Owned(d) : e.sec[c] = d.sec[c],
           \A p \in DOMAIN ex : ByNow(e, q, ex, p) = ByNow(d, o, ex, p)
    PROVE  FilesOK(e, q, ex)
<1>1. ASSUME NEW p \in DOMAIN ex, NEW l \in Used(d) \ Half(e), Leads(d, p, l)
      PROVE  /\ EntryAt(e, l).size = ex[p].size
             /\ Shows(e, Walk(e.fat, First(e, l)), ByNow(e, q, ex, p))
  <2> DEFINE s == Walk(d.fat, First(d, l))
             b == ByNow(d, o, ex, p)
  <2>1. EntryAt(d, l).size = ex[p].size /\ Shows(d, s, b)
    BY <1>1 DEF FilesOK
  <2>2. First(d, l) \in Cluster /\ Sound(d.fat, First(d, l))
    BY UsedIs DEF ChainsOK
  <2>3. Len(s) \in Nat /\ Range(s) = {s[i] : i \in 1 .. Len(s)} /\ Range(s) \subseteq Owned(d)
    BY <2>2, SoundIs DEF Own, Owned
  <2>4. \A k \in 1 .. Len(s) : e.sec[s[k]] = d.sec[s[k]]
    BY <2>3
  <2>5. EntryAt(e, l) = EntryAt(d, l)
    BY DEF SameTree
  <2>6. ByNow(e, q, ex, p) = b /\ Walk(e.fat, First(e, l)) = s
    OBVIOUS
  <2> HIDE DEF s, b
  <2>7. Shows(e, s, b)
    BY <2>1, <2>3, <2>4, ShowsSame
  <2> QED
    BY <2>1, <2>5, <2>6, <2>7
<1>2. Used(e) = Used(d) /\ \A p, l : Leads(e, p, l) <=> Leads(d, p, l)
  BY DEF SameTree
<1>3. \A l \in Used(d) : EntryAt(e, l) = EntryAt(d, l)
  BY DEF SameTree
<1>4. DOMAIN ex = {p \in Path : \E l \in Used(e) : Leads(e, p, l) /\ ~EntryAt(e, l).isDir}
  <2>1. DOMAIN ex = {p \in Path : \E l \in Used(d) : Leads(d, p, l) /\ ~EntryAt(d, l).isDir}
    BY DEF FilesOK
  <2> QED
    BY <1>2, <1>3, <2>1
<1>5. \A p \in DOMAIN ex : FileOK(ex[p])
  BY DEF FilesOK
<1> QED
  BY <1>1, <1>2, <1>4, <1>5 DEF FilesOK

\* What a file holds while the operation on it goes on within the same clusters.
LEMMA ByNowKeeps ==
    ASSUME NEW d, NEW e, NEW o, NEW q, NEW ex, NEW p,
           \/ o.kind # "write" /\ q.kind # "write"
           \/ /\ o.kind = "write" /\ q.kind = "write" /\ q.path = o.path
              /\ q.off = o.off /\ q.data = o.data /\ q.pos = o.pos
              /\ o.path = p => Walk(e.fat, First(e, q.loc)) = Walk(d.fat, First(d, o.loc))
    PROVE  ByNow(e, q, ex, p) = ByNow(d, o, ex, p)
BY DEF ByNow

\* A write to an allocation table entry or a sector that no entry leads to.
LEMMA Apart ==
    ASSUME NEW d, TreeOK(d), ChainsOK(d),
           NEW e, e.root = d.root, DOMAIN e.sec = Cluster, e.fat \in Fats,
           \A c \in Owned(d) : e.fat[c] = d.fat[c] /\ e.sec[c] = d.sec[c]
    PROVE  /\ TreeOK(e) /\ ChainsOK(e) /\ SameTree(d, e)
           /\ \A l \in Used(d) : /\ Walk(e.fat, First(e, l)) = Walk(d.fat, First(d, l))
                                 /\ Own(e, l) = Own(d, l)
           /\ Owned(e) = Owned(d) /\ Half(e) = Half(d)
<1>1. \A h \in Homes(d) \ {Root} : e.sec[h] = d.sec[h]
  BY HomesOwned
<1>2. TreeOK(e) /\ SameTree(d, e)
  BY <1>1, TreeKeeps
<1> QED
  BY <1>2, ChainsKeep

LEMMA Elsewhere ==
    ASSUME NEW d, TreeOK(d), ChainsOK(d), NEW o, NEW q, NEW ex, FilesOK(d, o, ex),
           NEW e, e.root = d.root, DOMAIN e.sec = Cluster, e.fat \in Fats,
           \A c \in Owned(d) : e.fat[c] = d.fat[c] /\ e.sec[c] = d.sec[c]
    PROVE  /\ TreeOK(e) /\ ChainsOK(e) /\ SameTree(d, e)
           /\ \A l \in Used(d) : /\ Walk(e.fat, First(e, l)) = Walk(d.fat, First(d, l))
                                 /\ Own(e, l) = Own(d, l)
           /\ Owned(e) = Owned(d) /\ Half(e) = Half(d)
           /\ (\A p \in DOMAIN ex : ByNow(e, q, ex, p) = ByNow(d, o, ex, p)) => FilesOK(e, q, ex)
<1>1. /\ TreeOK(e) /\ ChainsOK(e) /\ SameTree(d, e)
      /\ \A l \in Used(d) : /\ Walk(e.fat, First(e, l)) = Walk(d.fat, First(d, l))
                            /\ Own(e, l) = Own(d, l)
      /\ Owned(e) = Owned(d) /\ Half(e) = Half(d)
  BY Apart
<1>2. ASSUME \A p \in DOMAIN ex : ByNow(e, q, ex, p) = ByNow(d, o, ex, p) PROVE FilesOK(e, q, ex)
  BY <1>1, <1>2, FilesKeep
<1> QED
  BY <1>1, <1>2

LEMMA Kinds ==
    ASSUME NEW d, NEW o, NEW ex, OpOK(d, o, ex)
    PROVE  /\ o.kind \in {"idle", "torn", "create", "delete", "write"}
           /\ o.kind = "idle" => IdleOK(d, o)
           /\ o.kind = "torn" => TornOK(d, o)
           /\ o.kind = "create" => CreateOK(d, o)
           /\ o.kind = "delete" => DeleteOK(d, o)
           /\ o.kind = "write" => WriteOK(d, o, ex)
<1>1. IdleOK(d, o) => o.kind = "idle"
  BY DEF IdleOK, Idle
<1>2. TornOK(d, o) => o.kind = "torn"
  BY DEF TornOK, Torn
<1>3. CreateOK(d, o) => o.kind = "create"
  BY DEF CreateOK
<1>4. DeleteOK(d, o) => o.kind = "delete"
  BY DEF DeleteOK
<1>5. WriteOK(d, o, ex) => o.kind = "write"
  BY DEF WriteOK
<1> QED
  BY <1>1, <1>2, <1>3, <1>4, <1>5 DEF OpOK

LEMMA DiskIs ==
    /\ Disk.fat = fat /\ Disk.root = root /\ Disk.sec = sec
    /\ NextDisk.fat = fat' /\ NextDisk.root = root' /\ NextDisk.sec = sec'
BY DEF Disk, NextDisk

LEMMA InvIs ==
    ASSUME IInv
    PROVE  /\ TreeOK(Disk) /\ ChainsOK(Disk) /\ AllocationOK(Disk, op, lost)
           /\ OpOK(Disk, op, expect) /\ FilesOK(Disk, op, expect)
           /\ fat \in Fats /\ DOMAIN sec = Cluster
BY DiskIs DEF IInv, Holding, ChainsOK, Fats, TreeOK

LEMMA InitDirHolds ==
    ASSUME IInv, InitDir, UNCHANGED lost
    PROVE  Holding(NextDisk, op', expect', lost')
<1> DEFINE d == Disk
           e == NextDisk
           c == op.first
<1>1. /\ TreeOK(d) /\ ChainsOK(d) /\ AllocationOK(d, op, lost) /\ FilesOK(d, op, expect)
      /\ CreateOK(d, op)
  BY InvIs, Kinds DEF InitDir
<1>2. /\ op.kind = "create" /\ sec' = [sec EXCEPT ![c] = Empty]
      /\ op' = [op EXCEPT !.ready = TRUE]
      /\ UNCHANGED <<fat, root, expect, lost>>
  BY DEF InitDir
<1>3. Extra(d, op) = {c} /\ c \notin Owned(d) /\ c \in Cluster
  BY <1>1, <1>2 DEF Extra, AllocationOK, CreateOK
<1>4. /\ op' \in [kind : {"create"}, path : Path, isDir : BOOLEAN, ready : BOOLEAN,
                  then : {<<>>} \cup (Nat \X Data), parent : Homes(d), first : Cluster]
      /\ op'.kind = "create" /\ op'.first = c /\ op'.path = op.path /\ op'.isDir = op.isDir
      /\ op'.parent = op.parent /\ op'.then = op.then /\ op'.ready
  BY <1>1, <1>2 DEF CreateOK
<1>5. e.root = d.root /\ e.fat = d.fat /\ e.fat \in Fats /\ DOMAIN e.sec = Cluster
      /\ e.sec[c] = Empty /\ \A x \in Owned(d) : e.sec[x] = d.sec[x]
  <2>1. DOMAIN sec = Cluster /\ fat \in Fats
    BY InvIs
  <2>2. Owned(d) \subseteq Cluster
    BY <1>1, HomesOwned
  <2> QED
    BY <1>2, <1>3, <2>1, <2>2, DiskIs
<1>6. \A p \in DOMAIN expect : ByNow(e, op', expect, p) = ByNow(d, op, expect, p)
  BY <1>2, <1>4, ByNowKeeps
<1> HIDE DEF d, e, c
<1>7. TreeOK(e) /\ ChainsOK(e) /\ SameTree(d, e) /\ Owned(e) = Owned(d) /\ Half(e) = Half(d)
      /\ FilesOK(e, op', expect)
  BY <1>1, <1>5, <1>6, Elsewhere
<1>8. AllocationOK(e, op', lost)
  <2>1. Extra(e, op') = {c}
    BY <1>4 DEF Extra
  <2> QED
    BY <1>1, <1>3, <1>5, <1>7, <2>1 DEF AllocationOK, Allocated
<1>9. CreateOK(e, op')
  <2>1. HomeOf(e, op'.path, op'.parent) /\ ~ \E l \in Used(e) : Leads(e, op'.path, l)
    BY <1>1, <1>4, <1>7 DEF CreateOK, SameTree
  <2>2. /\ op'.isDir => Len(op'.path) = 1 /\ op'.then = <<>>
        /\ op'.isDir /\ op'.ready => e.sec[op'.first] = Empty
        /\ ~op'.isDir => op'.ready
        /\ e.fat[op'.first] = EOC
    BY <1>1, <1>4, <1>5 DEF CreateOK, c
  <2>3. Homes(e) = Homes(d) /\ Half(e) = {}
    BY <1>1, <1>7 DEF CreateOK, SameTree
  <2> QED
    BY <1>4, <2>1, <2>2, <2>3 DEF CreateOK
<1> QED
  BY <1>2, <1>7, <1>8, <1>9 DEF Holding, OpOK, e

LEMMA Primed ==
    ASSUME Holding(NextDisk, op', expect', lost')
    PROVE  IInv'
BY DEF IInv, NextDisk, Disk

----------------------------------------------------------------------------
(* Creating a file or a directory *)

\* Marking a free cluster.
LEMMA Claimed ==
    ASSUME NEW d, NEW e, NEW c \in Cluster, d.fat[c] = FREE, e.fat[c] = EOC,
           \A x \in Cluster \ {c} : e.fat[x] = d.fat[x]
    PROVE  Allocated(e) = Allocated(d) \cup {c} /\ c \notin Allocated(d)
<1>1. c \in Allocated(e) /\ c \notin Allocated(d)
  BY ClusterFacts DEF Allocated
<1>2. \A x \in Cluster : x # c => (x \in Allocated(e) <=> x \in Allocated(d))
  BY DEF Allocated
<1>3. Allocated(e) \subseteq Cluster /\ Allocated(d) \subseteq Cluster
  BY DEF Allocated
<1> QED
  BY <1>1, <1>2, <1>3

\* No entry leads to a free cluster but one half deleted.
LEMMA FreeUnowned ==
    ASSUME NEW d, TreeOK(d), ChainsOK(d), Half(d) = {}, NEW c \in Owned(d)
    PROVE  d.fat[c] # FREE
<1>1. PICK l \in Used(d) : c \in Own(d, l)
  BY DEF Owned
<1>2. First(d, l) \in Cluster /\ Sound(d.fat, First(d, l)) /\ d.fat[First(d, l)] # FREE
  BY UsedIs DEF ChainsOK, Half
<1> QED
  BY <1>1, <1>2, SoundIs DEF Own

LEMMA FreeIs ==
    ASSUME FreeClusters # {}
    PROVE  Min(FreeClusters) \in Cluster /\ fat[Min(FreeClusters)] = FREE
<1>1. FreeClusters \subseteq Nat
  BY ClusterFacts DEF FreeClusters
<1>2. Min(FreeClusters) \in FreeClusters
  BY <1>1, MinIs
<1> QED
  BY <1>2 DEF FreeClusters

LEMMA CreatingHolds ==
    ASSUME IInv, NEW path \in Path, NEW isDir \in BOOLEAN, NEW then \in {<<>>} \cup (Nat \X Data),
           ~ParentIsFile(path), isDir => Len(path) = 1 /\ then = <<>>,
           Creating(path, isDir, then), UNCHANGED lost
    PROVE  Holding(NextDisk, op', expect', lost')
<1> DEFINE d == Disk
           e == NextDisk
           c == Min(FreeClusters)
<1>1. /\ TreeOK(d) /\ ChainsOK(d) /\ AllocationOK(d, op, lost) /\ FilesOK(d, op, expect)
      /\ op.kind = "idle" /\ IdleOK(d, op)
  BY InvIs, Kinds DEF Creating, Creatable, Idle
<1>2. /\ fat' = [fat EXCEPT ![c] = EOC] /\ UNCHANGED <<root, sec, expect, lost>>
      /\ op' = [kind |-> "create", path |-> path, isDir |-> isDir, ready |-> ~isDir, then |-> then,
                parent |-> ParentCluster(path), first |-> c]
      /\ Resolve(path) = None /\ ParentCluster(path) # EOC /\ FreeClusters # {}
  BY DEF Creating, Creatable, SetFat
<1>3. c \in Cluster /\ fat[c] = FREE
  BY <1>2, FreeIs
<1> HIDE DEF c
<1>4. c \notin Owned(d)
  BY <1>1, <1>3, FreeUnowned, DiskIs DEF IdleOK
<1>5. /\ e.root = d.root /\ e.fat \in Fats /\ DOMAIN e.sec = Cluster /\ e.sec = d.sec
      /\ e.fat[c] = EOC /\ \A x \in Cluster \ {c} : e.fat[x] = d.fat[x]
      /\ d.fat[c] = FREE
  <2>1. DOMAIN sec = Cluster /\ fat \in Fats
    BY InvIs
  <2>2. fat' \in Fats /\ fat'[c] = EOC /\ \A x \in Cluster \ {c} : fat'[x] = fat[x]
    BY <1>2, <1>3, <2>1 DEF Fats
  <2> QED
    BY <1>2, <1>3, <2>1, <2>2, DiskIs
<1>6. \A p \in DOMAIN expect : ByNow(e, op', expect, p) = ByNow(d, op, expect, p)
  BY <1>1, <1>2, ByNowKeeps
<1> HIDE DEF d, e
<1>7. \A x \in Owned(d) : x \in Cluster \ {c}
  BY <1>1, <1>4, HomesOwned
<1>8. TreeOK(e) /\ ChainsOK(e) /\ SameTree(d, e) /\ Owned(e) = Owned(d) /\ Half(e) = Half(d)
      /\ FilesOK(e, op', expect)
  BY <1>1, <1>5, <1>6, <1>7, Elsewhere
<1>9. AllocationOK(e, op', lost)
  <2>1. Extra(e, op') = {c} /\ Extra(d, op) = {}
    BY <1>1, <1>2 DEF Extra
  <2>2. Allocated(e) = Allocated(d) \cup {c} /\ c \notin Allocated(d)
    BY <1>3, <1>5, Claimed
  <2>3. Allocated(d) \ Owned(d) = lost /\ lost \subseteq Cluster
    BY <1>1, <2>1 DEF AllocationOK
  <2> QED
    BY <1>3, <1>4, <1>8, <2>1, <2>2, <2>3 DEF AllocationOK
<1>10. CreateOK(e, op')
  <2>1. HomeOf(d, path, ParentCluster(path))
    BY <1>1, <1>2, ParentIs DEF d
  <2>2. ParentCluster(path) \in Homes(e) /\ HomeOf(e, path, ParentCluster(path))
    BY <1>1, <1>8, <2>1, HomeUnique DEF SameTree
  <2>3. ~ \E l \in Used(e) : Leads(e, path, l)
    <3>1. \A l : ~Leads(d, path, l)
      BY <1>1, <1>2, ResolveIs DEF d
    <3> QED
      BY <1>8, <3>1 DEF SameTree
  <2>4. op' \in [kind : {"create"}, path : Path, isDir : BOOLEAN, ready : BOOLEAN,
                 then : {<<>>} \cup (Nat \X Data), parent : Homes(e), first : Cluster]
    BY <1>2, <1>3, <2>2
  <2>5. op'.path = path /\ op'.isDir = isDir /\ op'.ready = ~isDir /\ op'.then = then
        /\ op'.parent = ParentCluster(path) /\ op'.first = c
    BY <1>2
  <2>6. Half(e) = {}
    BY <1>1, <1>8 DEF IdleOK
  <2> QED
    BY <1>5, <2>2, <2>3, <2>4, <2>5, <2>6 DEF CreateOK
<1> QED
  BY <1>2, <1>8, <1>9, <1>10 DEF Holding, OpOK, e

\* What adding the entry x at i to a table does.
LEMMA TableAdds ==
    ASSUME NEW n \in Nat, NEW t, TableOK(t, n), NEW i \in 1 .. n, NEW x \in Entries,
           Vacant(t[i]), \A j \in 1 .. n : Vacant(t[j]) => i <= j,
           x.name \in Name, x.first \in Cluster, \A j \in Live(t) : t[j].name # x.name,
           NEW u \in [1 .. n -> Entries], u[i] = x, \A j \in 1 .. n : j # i => u[j] = t[j]
    PROVE  /\ TableOK(u, n) /\ Live(u) = Live(t) \cup {i} /\ i \notin Live(t)
           /\ u[i] = x /\ \A j \in Live(t) : u[j] = t[j]
           /\ DirsIn(u) = DirsIn(t) \cup (IF x.isDir THEN {i} ELSE {})
<1>1. t \in [1 .. n -> Entries] /\ u \in [1 .. n -> Entries]
      /\ u[i] = x /\ \A j \in 1 .. n : j # i => u[j] = t[j]
  BY DEF TableOK
<1>2. ~Vacant(x) /\ x.name # "00"
  BY NamesAre DEF Vacant
<1>3. Live(u) = Live(t) \cup {i} /\ i \notin Live(t)
  BY <1>1, <1>2 DEF Live
<1>4. \A j \in Live(t) : j \in 1 .. n /\ u[j] = t[j]
  BY <1>1, <1>3, LiveIs
<1>5. ASSUME NEW j \in 1 .. n, NEW k \in 1 .. n, j <= k, u[j].name = "00"
      PROVE  u[k].name = "00"
  <2>1. j # i /\ t[j].name = "00"
    BY <1>1, <1>2, <1>5
  <2>2. t[k].name = "00"
    BY <1>5, <2>1 DEF TableOK
  <2>3. i <= j
    BY <2>1 DEF Vacant
  <2>4. k # i
    BY <1>5, <2>1, <2>3
  <2> QED
    BY <1>1, <2>2, <2>4
<1>6. ASSUME NEW j \in Live(u), NEW k \in Live(u), u[j].name = u[k].name
      PROVE  j = k
  <2>1. CASE j = i
    BY <1>1, <1>3, <1>4, <1>6, <2>1
  <2>2. CASE k = i
    BY <1>1, <1>3, <1>4, <1>6, <2>2
  <2>3. CASE j # i /\ k # i
    BY <1>1, <1>3, <1>4, <1>6, <2>3 DEF TableOK
  <2> QED
    BY <2>1, <2>2, <2>3
<1>7. \A j \in Live(u) : u[j].first \in Cluster
  BY <1>1, <1>3, <1>4 DEF TableOK
<1>8. TableOK(u, n)
  BY <1>1, <1>5, <1>6, <1>7 DEF TableOK
<1>9. DirsIn(u) = DirsIn(t) \cup (IF x.isDir THEN {i} ELSE {})
  BY <1>1, <1>3, <1>4 DEF DirsIn
<1> QED
  BY <1>1, <1>3, <1>4, <1>8, <1>9

\* What PutSlot does to a disk.
Put(d, e, h, i, x) ==
    /\ e.fat = d.fat
    /\ e.root = IF h = Root THEN [d.root EXCEPT ![i] = x] ELSE d.root
    /\ e.sec = IF h = Root THEN d.sec ELSE [d.sec EXCEPT ![h].slots[i] = x]

LEMMA PutIs ==
    ASSUME NEW d, TreeOK(d), NEW h \in Homes(d), NEW i \in DOMAIN Table(d, h), NEW x,
           NEW e, Put(d, e, h, i, x)
    PROVE  /\ DOMAIN e.sec = Cluster
           /\ Table(e, h) = [Table(d, h) EXCEPT ![i] = x]
           /\ \A k \in Cluster : k # h => e.sec[k] = d.sec[k]
           /\ h # Root => DOMAIN e.sec[h] = {"slots"} /\ e.root = d.root
           /\ h = Root => e.sec = d.sec
<1>1. DOMAIN d.sec = Cluster
  BY DEF TreeOK
<1>2. CASE h = Root
  BY <1>1, <1>2 DEF Put, Table
<1>3. CASE h # Root
  <2>1. h \in Cluster /\ DOMAIN d.sec[h] = {"slots"} /\ Table(d, h) = d.sec[h].slots
    BY <1>3, HomesAre
  <2>2. e.sec = [d.sec EXCEPT ![h] = [d.sec[h] EXCEPT !.slots = [d.sec[h].slots EXCEPT ![i] = x]]]
    BY <1>3 DEF Put
  <2>3. e.sec[h] = [d.sec[h] EXCEPT !.slots = [d.sec[h].slots EXCEPT ![i] = x]]
    BY <1>1, <2>1, <2>2
  <2>4. DOMAIN e.sec = Cluster /\ \A k \in Cluster : k # h => e.sec[k] = d.sec[k]
    BY <1>1, <2>2
  <2>5. DOMAIN e.sec[h] = {"slots"} /\ e.sec[h].slots = [d.sec[h].slots EXCEPT ![i] = x]
    BY <2>1, <2>3
  <2>6. e.root = d.root
    BY <1>3 DEF Put
  <2> QED
    BY <1>3, <2>1, <2>4, <2>5, <2>6 DEF Table
<1> QED
  BY <1>2, <1>3

LEMMA EmptyIs ==
    /\ DOMAIN Empty = {"slots"} /\ TableOK(Empty.slots, DirSlots)
    /\ Live(Empty.slots) = {} /\ DirsIn(Empty.slots) = {}
<1> DEFINE t == [i \in 1 .. DirSlots |-> Unused]
<1>1. Unused \in Entries /\ Vacant(Unused)
  BY DEF Unused, Entry, Entries, Vacant
<1>2. Empty.slots = t /\ DOMAIN Empty = {"slots"}
  BY DEF Empty
<1>3. Live(t) = {} /\ DirsIn(t) = {}
  BY <1>1 DEF Live, DirsIn
<1>4. \A i \in 1 .. DirSlots : t[i].name = "00"
  BY DEF Unused, Entry
<1>5. t \in [1 .. DirSlots -> Entries]
  BY <1>1
<1>6. TableOK(t, DirSlots)
  BY <1>3, <1>4, <1>5 DEF TableOK
<1> QED
  BY <1>2, <1>3, <1>6

\* The tree with the entry x at i of directory h.
LEMMA TreeGrows ==
    ASSUME NEW d, TreeOK(d), ChainsOK(d), NEW h \in Homes(d), NEW i \in DOMAIN Table(d, h),
           NEW x \in Entries, NEW e, Put(d, e, h, i, x),
           Vacant(Table(d, h)[i]), \A j \in DOMAIN Table(d, h) : Vacant(Table(d, h)[j]) => i <= j,
           x.name \in Name, x.first \in Cluster \ Owned(d),
           \A j \in Live(Table(d, h)) : Table(d, h)[j].name # x.name,
           x.isDir => h = Root /\ d.sec[x.first] = Empty
    PROVE  /\ TreeOK(e) /\ Used(e) = Used(d) \cup {<<h, i>>} /\ <<h, i>> \notin Used(d)
           /\ EntryAt(e, <<h, i>>) = x
           /\ \A l \in Used(d) : EntryAt(e, l) = EntryAt(d, l)
           /\ \A p : \A k \in Homes(d) : HomeOf(e, p, k) <=> HomeOf(d, p, k)
<1> DEFINE t == Table(d, h)
           u == Table(e, h)
           n == SizeOf(h)
<1>1. TableOK(t, n) /\ n \in Nat /\ DOMAIN t = 1 .. n
  BY HomesAre, LiveIs
<1>2. u = [t EXCEPT ![i] = x]
  BY PutIs
<1>3. /\ \A k \in Cluster : k # h => e.sec[k] = d.sec[k]
      /\ h # Root => DOMAIN e.sec[h] = {"slots"} /\ e.root = d.root
      /\ h = Root => e.sec = d.sec
      /\ DOMAIN e.sec = Cluster
  BY PutIs
<1> HIDE DEF t, u
<1>4. /\ TableOK(u, n) /\ Live(u) = Live(t) \cup {i} /\ i \notin Live(t)
      /\ u[i] = x /\ \A j \in Live(t) : u[j] = t[j]
      /\ DirsIn(u) = DirsIn(t) \cup (IF x.isDir THEN {i} ELSE {})
  <2>1. \A j \in 1 .. n : Vacant(t[j]) => i <= j
    BY <1>1 DEF t
  <2>2. i \in 1 .. n /\ Vacant(t[i]) /\ \A j \in Live(t) : t[j].name # x.name
    BY <1>1 DEF t
  <2> QED
    <3> HIDE DEF n
    <3>1. n \in Nat /\ TableOK(t, n) /\ x.first \in Cluster /\ x.name \in Name
      BY <1>1
    <3>2. u \in [1 .. n -> Entries] /\ u[i] = x /\ \A j \in 1 .. n : j # i => u[j] = t[j]
      BY <1>2, <2>2, <3>1 DEF TableOK
    <3> QED
      BY <2>1, <2>2, <3>1, <3>2, TableAdds
<1>5. /\ \A k \in Homes(d) : TableOK(Table(d, k), SizeOf(k))
      /\ \A k \in Homes(d) \ {Root} : DirsIn(Table(d, k)) = {} /\ DOMAIN d.sec[k] = {"slots"}
                                     /\ Table(d, k) = d.sec[k].slots
      /\ Homes(d) \subseteq Cluster \cup {Root} /\ Root \in Homes(d)
  BY HomesAre
<1>6. DOMAIN Empty = {"slots"} /\ TableOK(Empty.slots, DirSlots)
      /\ Live(Empty.slots) = {} /\ DirsIn(Empty.slots) = {}
  BY EmptyIs
<1>7. x.first \notin Homes(d) /\ x.first # Root /\ x.first \in Cluster
  <2>1. Homes(d) \ {Root} \subseteq Owned(d)
    BY HomesOwned
  <2> QED
    BY <2>1, ClusterFacts
\* The tables of the other directories.
<1>8. ASSUME NEW k \in Homes(d), k # h PROVE Table(e, k) = Table(d, k)
  <2>1. CASE k = Root
    BY <1>3, <1>8, <2>1 DEF Table
  <2>2. CASE k # Root
    BY <1>3, <1>5, <1>8, <2>2 DEF Table
  <2> QED
    BY <2>1, <2>2
<1>9. /\ DirsIn(d.root) \subseteq DirsIn(e.root)
      /\ \A j \in DirsIn(d.root) : e.root[j] = d.root[j]
      /\ \A j \in DirsIn(e.root) \ DirsIn(d.root) : j = i /\ e.root[j] = x /\ h = Root /\ x.isDir
      /\ x.isDir => i \in DirsIn(e.root) /\ e.root[i] = x
      /\ TableOK(e.root, RootSlots)
  <2>1. CASE h = Root
    <3>1. t = d.root /\ u = e.root /\ n = RootSlots
      BY <2>1 DEF t, u, Table, SizeOf
    <3>2. \A j \in DirsIn(d.root) : j \in Live(d.root)
      BY DEF DirsIn
    <3> QED
      BY <1>4, <2>1, <3>1, <3>2
  <2>2. CASE h # Root
    BY <1>3, <2>2 DEF TreeOK
  <2> QED
    BY <2>1, <2>2
<1>10. Homes(e) = Homes(d) \cup (IF x.isDir THEN {x.first} ELSE {})
  BY <1>9 DEF Homes
<1>11. x.isDir => Table(e, x.first) = Empty.slots /\ e.sec[x.first] = Empty
  BY <1>3, <1>7 DEF Table
<1>12. Used(e) = Used(d) \cup {<<h, i>>}
  <2>1. \A k \in Homes(d) : \A j \in Live(Table(d, k)) : j \in Live(Table(e, k))
    BY <1>4, <1>8 DEF t, u
  <2>2. \A k \in Homes(d) : \A j \in Live(Table(e, k)) : j \in Live(Table(d, k)) \/ (k = h /\ j = i)
    BY <1>4, <1>8 DEF t, u
  <2>3. \A k \in Homes(e) \ Homes(d) : Live(Table(e, k)) = {}
    BY <1>6, <1>10, <1>11
  <2>4. i \in Live(Table(e, h)) /\ h \in Homes(e) /\ Homes(d) \subseteq Homes(e)
    BY <1>4, <1>10 DEF u
  <2>5. Used(d) \subseteq Used(e)
    BY <2>1, <2>4 DEF Used
  <2>6. <<h, i>> \in Used(e)
    BY <2>4 DEF Used
  <2>7. ASSUME NEW l \in Used(e) PROVE l \in Used(d) \cup {<<h, i>>}
    <3>1. PICK k \in Homes(e) : \E j \in Live(Table(e, k)) : l = <<k, j>>
      BY DEF Used
    <3>2. PICK j \in Live(Table(e, k)) : l = <<k, j>>
      BY <3>1
    <3>3. k \in Homes(d)
      BY <2>3, <3>2
    <3>4. j \in Live(Table(d, k)) \/ (k = h /\ j = i)
      BY <2>2, <3>3
    <3>5. CASE j \in Live(Table(d, k))
      BY <3>2, <3>3, <3>5, UsedIs
    <3> QED
      BY <3>2, <3>4, <3>5
  <2> QED
    BY <2>5, <2>6, <2>7
<1>13. \A l \in Used(d) : EntryAt(e, l) = EntryAt(d, l)
  <2>1. \A l \in Used(d) : l[1] \in Homes(d) /\ l[2] \in Live(Table(d, l[1]))
    BY UsedIs
  <2> QED
    BY <1>4, <1>8, <2>1 DEF EntryAt, t, u
<1>14. EntryAt(e, <<h, i>>) = x /\ <<h, i>> \notin Used(d)
  <2>1. <<h, i>> \in Used(d) => i \in Live(t)
    <3> SUFFICES ASSUME <<h, i>> \in Used(d) PROVE i \in Live(t)
      OBVIOUS
    <3> DEFINE l == <<h, i>>
    <3>1. l[1] = h /\ l[2] = i /\ l \in Used(d)
      OBVIOUS
    <3> HIDE DEF l
    <3> QED
      BY <3>1, UsedIs DEF t
  <2> QED
    BY <1>4, <2>1 DEF EntryAt, u
<1>15. ASSUME NEW p, NEW k \in Homes(d) PROVE HomeOf(e, p, k) <=> HomeOf(d, p, k)
  BY <1>7, <1>9 DEF HomeOf
<1>16. TreeOK(e)
  <2>1. ASSUME NEW j \in DirsIn(e.root)
        PROVE  LET y == e.sec[e.root[j].first]
               IN  DOMAIN y = {"slots"} /\ TableOK(y.slots, DirSlots) /\ DirsIn(y.slots) = {}
    <3>1. CASE j \in DirsIn(d.root)
      <4> DEFINE k == d.root[j].first
      <4>1. k \in Homes(d) \ {Root} /\ e.root[j].first = k
        BY <1>9, <3>1, HomesAre
      <4> HIDE DEF k
      <4>2. k \in Cluster /\ SizeOf(k) = DirSlots
        BY <1>5, <4>1 DEF SizeOf
      <4>3. CASE k = h
        <5>1. h # Root /\ u = e.sec[h].slots /\ ~x.isDir
          BY <4>1, <4>3 DEF Table, u
        <5>2. DirsIn(u) = {}
          BY <1>4, <1>5, <5>1 DEF t
        <5> QED
          BY <1>3, <1>4, <4>1, <4>2, <4>3, <5>1, <5>2
      <4>4. CASE k # h
        <5>1. e.sec[k] = d.sec[k]
          BY <1>3, <4>2, <4>4
        <5> QED
          BY <1>5, <4>1, <4>2, <5>1
      <4> QED
        BY <4>3, <4>4
    <3>2. CASE j \notin DirsIn(d.root)
      BY <1>6, <1>9, <1>11, <3>2
    <3> QED
      BY <3>1, <3>2
  <2>2. ASSUME NEW j \in DirsIn(e.root), NEW k \in DirsIn(e.root), e.root[j].first = e.root[k].first
        PROVE  j = k
    <3>1. \A m \in DirsIn(d.root) : e.root[m].first # x.first
      BY <1>7, <1>9, HomesAre
    <3> QED
      BY <1>9, <2>2, <3>1 DEF TreeOK
  <2> QED
    BY <1>3, <1>9, <2>1, <2>2 DEF TreeOK
<1> QED
  BY <1>12, <1>13, <1>14, <1>15, <1>16

----------------------------------------------------------------------------
(* What writes make of a file *)

LEMMA Naturals2 == \A a, b \in Nat : a * b \in Nat
OBVIOUS

LEMMA Quotient ==
    ASSUME NEW k \in Nat, NEW r \in 0 .. Sec - 1
    PROVE  (Sec * k + r) \div Sec = k /\ (Sec * k + r) % Sec = r
<1> DEFINE a == Sec * k + r
<1>1. Sec \in Nat \ {0} /\ Sec * k \in Nat /\ r \in Nat
  BY SecIs, Naturals2
<1>2. a \in Nat
  BY <1>1
<1>3. a = Sec * k + r
  OBVIOUS
<1> HIDE DEF a
<1>4. a \div Sec \in Nat /\ a % Sec \in 0 .. Sec - 1 /\ a = Sec * (a \div Sec) + (a % Sec)
  <2>1. a \div Sec \in Nat /\ a = Sec * (a \div Sec) + (a % Sec)
    BY <1>1, <1>2, Division
  <2>2. a % Sec \in 0 .. Sec - 1
    BY <1>1, <1>2, Wrapped
  <2> QED
    BY <2>1, <2>2
<1>5. a \div Sec = k /\ a % Sec = r
  BY <1>3, <1>4, PlaceUnique
<1> QED
  BY <1>5 DEF a

LEMMA WholeSectors ==
    ASSUME NEW k \in Nat
    PROVE  (Sec * k) \div Sec = k /\ (Sec * k) % Sec = 0
<1>1. PICK z \in 0 .. Sec - 1 : z = 0
  BY SecIs
<1>2. (Sec * k + z) \div Sec = k /\ (Sec * k + z) % Sec = z
  BY Quotient
<1>3. Sec * k + z = Sec * k
  <2>1. Sec * k \in Nat
    BY SecIs, Naturals2
  <2> QED
    BY <1>1, <2>1
<1> QED
  BY <1>1, <1>2, <1>3

LEMMA DataIs ==
    ASSUME NEW data \in Data
    PROVE  /\ Len(data) \in Nat /\ DOMAIN data = 1 .. Len(data)
           /\ \A pos \in 0 .. Len(data) :
                 /\ DOMAIN SubSeq(data, 1, pos) = 1 .. pos
                 /\ \A j \in 1 .. pos : SubSeq(data, 1, pos)[j] = data[j]
BY FatAssumption

LEMMA FileIs ==
    ASSUME NEW f, FileOK(f)
    PROVE  /\ Clusters(f) \in Nat /\ Clusters(f) >= 1 /\ Len(f.byte) = Sec * Clusters(f)
           /\ Sec * Clusters(f) \in Nat /\ DOMAIN f.byte = 1 .. Sec * Clusters(f)
           /\ f.size \in Nat
<1>1. Len(f.byte) \in Nat /\ Clusters(f) = Len(f.byte) \div Sec
  BY DEF FileOK, Clusters
<1>2. Clusters(f) \in Nat
  BY <1>1, SecIs, Division
<1>3. Sec * Clusters(f) \in Nat
  BY <1>2, SecIs, Naturals2
<1> QED
  BY <1>1, <1>2, <1>3 DEF FileOK

\* A sequence of n clusters.
LEMMA Filled ==
    ASSUME NEW n \in Nat \ {0}, NEW b, b = [i \in 1 .. Sec * n |-> b[i]], NEW size \in Nat
    PROVE  /\ Len(b) = Sec * n /\ FileOK([size |-> size, byte |-> b])
           /\ Clusters([size |-> size, byte |-> b]) = n
<1> DEFINE m == Sec * n
           f == [size |-> size, byte |-> b]
<1>1. m \in Nat
  BY SecIs, Naturals2
<1>2. m \div Sec = n
  BY WholeSectors
<1> HIDE DEF m
<1>3. Len(b) = m /\ DOMAIN b = 1 .. m
  <2>1. Len([i \in 1 .. m |-> b[i]]) = m /\ DOMAIN [i \in 1 .. m |-> b[i]] = 1 .. m
    BY <1>1
  <2> QED
    BY <2>1 DEF m
<1>4. Clusters(f) = n
  BY <1>2, <1>3 DEF Clusters
<1>5. FileOK(f)
  BY <1>1, <1>3, <1>4 DEF FileOK, m
<1> QED
  BY <1>3, <1>4, <1>5 DEF m

LEMMA NewFileIs ==
    /\ FileOK(NewFile) /\ Clusters(NewFile) = 1 /\ NewFile.size = 0
    /\ \A i \in 1 .. Sec : NewFile.byte[i] = Stale
<1> DEFINE b == [i \in 1 .. Sec |-> Stale]
<1>1. NewFile = [size |-> 0, byte |-> b]
  BY DEF NewFile
<1>2. Sec * 1 = Sec
  BY SecIs
<1>3. b = [i \in 1 .. Sec * 1 |-> b[i]]
  BY <1>2
<1>4. \A i \in 1 .. Sec : b[i] = Stale
  OBVIOUS
<1> HIDE DEF b
<1>5. FileOK([size |-> 0, byte |-> b]) /\ Clusters([size |-> 0, byte |-> b]) = 1
  <2>1. 1 \in Nat \ {0} /\ 0 \in Nat
    OBVIOUS
  <2> QED
    BY <1>3, <2>1, Filled
<1> QED
  BY <1>1, <1>4, <1>5

\* The seek stops in cluster k.
LEMMA SeekIs ==
    ASSUME NEW f, FileOK(f), NEW off \in Nat
    PROVE  LET k == Min({(off \div Sec) + 1, Clusters(f)})
           IN  /\ k \in 1 .. Clusters(f) /\ Seek(f, off) = Sec * (k - 1) + (off % Sec)
               /\ off % Sec \in 0 .. Sec - 1 /\ Seek(f, off) \in Nat
<1> DEFINE n == Clusters(f)
           q == off \div Sec
           k == Min({q + 1, n})
<1>1. n \in Nat /\ n >= 1 /\ q \in Nat /\ Sec \in Nat \ {0} /\ off % Sec \in 0 .. Sec - 1
  <2>1. n \in Nat /\ n >= 1 /\ Sec \in Nat \ {0} /\ off \in Int
    BY FileIs, SecIs
  <2>2. q \in Nat
    BY <2>1, Division
  <2>3. off % Sec \in 0 .. Sec - 1
    BY <2>1, Wrapped
  <2> QED
    BY <2>1, <2>2, <2>3
<1>2. Seek(f, off) = (Min({q, n - 1}) * Sec) + (off % Sec)
  BY DEF Seek
<1> HIDE DEF n, q
<1>3. k = IF q + 1 <= n THEN q + 1 ELSE n
  BY <1>1, PairMin
<1>4. Min({q, n - 1}) = IF q <= n - 1 THEN q ELSE n - 1
  BY <1>1, PairMin
<1> HIDE DEF k
<1>5. k \in 1 .. n /\ Min({q, n - 1}) = k - 1 /\ k - 1 \in Nat
  BY <1>1, <1>3, <1>4
<1>6. (k - 1) * Sec = Sec * (k - 1) /\ Sec * (k - 1) \in Nat
  BY <1>1, <1>5, Naturals2
<1>7. Seek(f, off) = Sec * (k - 1) + (off % Sec)
  BY <1>2, <1>5, <1>6
<1>8. Seek(f, off) \in Nat
  BY <1>1, <1>6, <1>7
<1> QED
  BY <1>1, <1>5, <1>7, <1>8 DEF n, q, k

\* A write that begins within the clusters begins where it should.
LEMMA SeekInside ==
    ASSUME NEW f, FileOK(f), NEW off \in Nat, off < Len(f.byte)
    PROVE  Seek(f, off) = off
<1> DEFINE n == Clusters(f)
           q == off \div Sec
           r == off % Sec
<1>1. n \in Nat /\ n >= 1 /\ Len(f.byte) = Sec * n /\ Sec \in Nat \ {0}
  BY FileIs, SecIs
<1>2. q \in Nat /\ r \in Nat /\ off = Sec * q + r /\ Sec * q <= off
  BY <1>1, Division
<1>3. Seek(f, off) = (Min({q, n - 1}) * Sec) + r
  BY DEF Seek
<1> HIDE DEF n, q, r
<1>4. q <= n - 1
  <2>1. q >= n => Sec * n <= Sec * q
    BY <1>1, <1>2, Products
  <2>2. Sec * n \in Nat /\ Sec * q \in Nat
    BY <1>1, <1>2, Naturals2
  <2>3. ~(q >= n)
    BY <1>1, <1>2, <2>1, <2>2
  <2> QED
    BY <1>1, <1>2, <2>3
<1>5. Min({q, n - 1}) = q
  BY <1>1, <1>2, <1>4, PairMin
<1>6. q * Sec = Sec * q
  BY <1>1, <1>2
<1> QED
  BY <1>2, <1>3, <1>5, <1>6

\* The bytes of a file of n clusters after m bytes of data were written at off.
Lands(f, off, data, m, n) ==
    \A i \in 1 .. Sec * n :
       Landed(f, off, data, n)[i] =
          IF i - Seek(f, off) \in 1 .. m THEN data[i - Seek(f, off)]
          ELSE IF i \in 1 .. Sec * Clusters(f) THEN f.byte[i] ELSE Stale
LEMMA LandedIs ==
    ASSUME NEW f, FileOK(f), NEW off \in Nat, NEW data, NEW m \in Nat, DOMAIN data = 1 .. m,
           NEW n \in Nat \ {0}
    PROVE  /\ Landed(f, off, data, n) = [i \in 1 .. Sec * n |-> Landed(f, off, data, n)[i]]
           /\ Len(Landed(f, off, data, n)) = Sec * n
           /\ Lands(f, off, data, m, n)
<1> DEFINE b == Landed(f, off, data, n)
           start == Seek(f, off)
<1>1. n * Sec = Sec * n
  BY SecIs
<1>2. DOMAIN f.byte = 1 .. Sec * Clusters(f)
  BY FileIs
<1>3. b = [i \in 1 .. Sec * n |->
              IF i - start \in 1 .. m THEN data[i - start]
              ELSE IF i \in 1 .. Sec * Clusters(f) THEN f.byte[i] ELSE Stale]
  BY <1>1, <1>2 DEF Landed
<1> HIDE DEF b, start
<1>4. b = [i \in 1 .. Sec * n |-> b[i]]
  BY <1>3
<1>5. Len(b) = Sec * n
  <2>1. 0 \in Nat
    OBVIOUS
  <2> QED
    BY <1>4, <2>1, Filled
<1>6. \A i \in 1 .. Sec * n :
         b[i] = IF i - start \in 1 .. m THEN data[i - start]
                ELSE IF i \in 1 .. Sec * Clusters(f) THEN f.byte[i] ELSE Stale
  BY <1>3
<1> QED
  BY <1>4, <1>5, <1>6 DEF b, start, Lands

LEMMA LandedFile ==
    ASSUME NEW f, FileOK(f), NEW off \in Nat, NEW data, NEW m \in Nat, DOMAIN data = 1 .. m,
           NEW n \in Nat \ {0}, NEW size \in Nat
    PROVE  /\ FileOK([size |-> size, byte |-> Landed(f, off, data, n)])
           /\ Clusters([size |-> size, byte |-> Landed(f, off, data, n)]) = n
<1> DEFINE b == Landed(f, off, data, n)
<1>1. b = [i \in 1 .. Sec * n |-> b[i]]
  BY LandedIs
<1> HIDE DEF b
<1>2. FileOK([size |-> size, byte |-> b]) /\ Clusters([size |-> size, byte |-> b]) = n
  BY <1>1, Filled
<1> QED
  BY <1>2 DEF b

\* A write of nothing within the clusters the file has changes nothing.
LEMMA LandedNone ==
    ASSUME NEW f, FileOK(f), NEW off \in Nat, NEW none, NEW m \in Nat, DOMAIN none = 1 .. m, m < 1
    PROVE  /\ Len(Landed(f, off, none, Clusters(f))) = Len(f.byte)
           /\ \A i \in 1 .. Sec * Clusters(f) : Landed(f, off, none, Clusters(f))[i] = f.byte[i]
<1>1. PICK n \in Nat \ {0} : n = Clusters(f)
  BY FileIs
<1>2. 1 .. m = {}
  OBVIOUS
<1>3. Len(f.byte) = Sec * n
  BY <1>1, FileIs
<1>4. Len(Landed(f, off, none, n)) = Sec * n /\ Lands(f, off, none, m, n)
  BY LandedIs
<1>5. \A i \in 1 .. Sec * n : Landed(f, off, none, n)[i] = f.byte[i]
  BY <1>1, <1>2, <1>4 DEF Lands
<1> QED
  BY <1>1, <1>3, <1>4, <1>5

LEMMA LandedNothing ==
    ASSUME NEW f, FileOK(f), NEW off \in Nat, NEW data \in Data
    PROVE  /\ Len(Landed(f, off, SubSeq(data, 1, 0), Clusters(f))) = Len(f.byte)
           /\ \A i \in 1 .. Sec * Clusters(f) :
                 Landed(f, off, SubSeq(data, 1, 0), Clusters(f))[i] = f.byte[i]
<1> DEFINE none == SubSeq(data, 1, 0)
<1>1. DOMAIN none = 1 .. 0
  BY DataIs
<1> HIDE DEF none
<1>2. \E m \in Nat : m < 1 /\ DOMAIN none = 1 .. m
  BY <1>1
<1> QED
  BY <1>2, LandedNone DEF none

----------------------------------------------------------------------------
(* Adding the entry *)

\* No file has a cluster that is a directory.
LEMMA FileApart ==
    ASSUME NEW d, TreeOK(d), ChainsOK(d), NEW l \in Used(d), ~EntryAt(d, l).isDir
    PROVE  Own(d, l) \cap Homes(d) = {}
<1> SUFFICES ASSUME NEW h \in Homes(d), h \in Own(d, l) PROVE FALSE
  OBVIOUS
<1>1. h # Root
  BY HomesOwned, ClusterFacts
<1>2. PICK i \in DirsIn(d.root) : d.root[i].first = h
  BY <1>1, HomesAre
<1>3. i \in Live(d.root) /\ Table(d, Root) = d.root /\ Root \in Homes(d) /\ d.root[i].isDir
  BY HomesAre DEF Table, DirsIn
<1> DEFINE m == <<Root, i>>
<1>4. m \in Used(d)
  BY <1>3, UsedIs
<1>5. EntryAt(d, m) = d.root[i]
  BY <1>3 DEF EntryAt
<1> HIDE DEF m
<1>6. h \in Own(d, m) /\ m # l
  BY <1>2, <1>3, <1>4, <1>5, HomesOwned DEF First
<1> QED
  BY <1>4, <1>6 DEF ChainsOK

\* A new slot whose chain is one cluster.
LEMMA ChainsGrow ==
    ASSUME NEW d, TreeOK(d), ChainsOK(d), NEW e, e.fat = d.fat, NEW l, l \notin Used(d),
           Used(e) = Used(d) \cup {l}, \A m \in Used(d) : First(e, m) = First(d, m),
           NEW c \in Cluster, First(e, l) = c, c \notin Owned(d), d.fat[c] = EOC
    PROVE  /\ ChainsOK(e) /\ Walk(e.fat, c) = <<c>>
           /\ Own(e, l) = {c} /\ \A m \in Used(d) : Own(e, m) = Own(d, m)
           /\ Owned(e) = Owned(d) \cup {c} /\ Half(e) = Half(d)
<1>1. Walk(e.fat, c) = <<c>>
  BY WalkEnds, ClusterFacts
<1>2. Range(<<c>>) = {c}
  <2>1. DOMAIN <<c>> = {1} /\ <<c>>[1] = c
    OBVIOUS
  <2> QED
    BY <2>1 DEF Range
<1>3. Own(e, l) = {c} /\ \A m \in Used(d) : Own(e, m) = Own(d, m)
  BY <1>1, <1>2 DEF Own
<1>4. Sound(e.fat, c)
  <2>1. <<c>> \in Seq(Cluster) /\ <<c>> # <<>> /\ <<c>>[1] = c /\ Len(<<c>>) = 1
    OBVIOUS
  <2>2. Chained(e.fat, c, <<c>>)
    BY <2>1 DEF Chained
  <2> QED
    BY <1>1, <2>2 DEF Sound
<1>5. ChainsOK(e)
  <2>1. \A m \in Used(e) : Sound(e.fat, First(e, m))
    BY <1>4 DEF ChainsOK
  <2>2. \A m, k \in Used(e) : m # k => Own(e, m) \cap Own(e, k) = {}
    <3>1. \A m \in Used(d) : c \notin Own(d, m)
      BY DEF Owned
    <3> QED
      BY <1>3, <3>1 DEF ChainsOK
  <2> QED
    BY <2>1, <2>2 DEF ChainsOK
<1>6. Owned(e) = Owned(d) \cup {c}
  BY <1>3 DEF Owned
<1>7. Half(e) = Half(d)
  BY ClusterFacts DEF Half
<1> QED
  BY <1>1, <1>3, <1>5, <1>6, <1>7

\* Where a write begins.
LEMMA WriteBegins ==
    ASSUME NEW d, NEW ex, NEW path \in DOMAIN ex, FileOK(ex[path]), Half(d) = {},
           NEW l \in Used(d), Leads(d, path, l), First(d, l) \in Cluster,
           Sound(d.fat, First(d, l)),
           Len(Walk(d.fat, First(d, l))) = Clusters(ex[path]),
           NEW off \in Nat, NEW data \in Data, NEW cur,
           cur = Walk(d.fat, First(d, l))[Min({(off \div Sec) + 1, Clusters(ex[path])})],
           NEW o, o = [kind |-> "write", path |-> path, loc |-> l, cur |-> cur, step |-> "data",
                       pos |-> 0, next |-> EOC, off |-> off, data |-> data]
    PROVE  WriteOK(d, o, ex)
<1> DEFINE s == Walk(d.fat, First(d, l))
           f == ex[path]
<1>1. PICK k \in 1 .. Clusters(f) : /\ k = Min({(off \div Sec) + 1, Clusters(f)})
                                    /\ Seek(f, off) = Sec * (k - 1) + (off % Sec)
                                    /\ Seek(f, off) \in Nat
  BY SeekIs
<1>2. s \in [1 .. Len(s) -> Cluster]
  BY SoundIs
<1>3. cur = s[k] /\ k \in 1 .. Len(s) /\ cur \in Cluster /\ Len(s) = Clusters(f)
  BY <1>1, <1>2
<1>4. Clusters(f) \in Nat /\ Len(data) \in Nat
  BY FileIs, DataIs
<1>5. /\ o.kind = "write" /\ o.path = path /\ o.loc = l /\ o.cur = cur /\ o.step = "data"
      /\ o.pos = 0 /\ o.next = EOC /\ o.off = off /\ o.data = data
  OBVIOUS
<1>6. o \in [kind : {"write"}, path : DOMAIN ex, loc : Used(d), cur : Cluster,
             step : {"data", "next", "link"}, pos : Nat, next : Cluster \cup {FREE, EOC},
             off : Nat, data : Data]
  BY <1>3
<1> HIDE DEF s, f
<1>7. Needed(f, off, 0) = Clusters(f)
  BY DEF Needed
<1>8. Seek(f, off) + 0 = Seek(f, off) /\ off + 0 = off
  BY <1>1
<1>9. 0 <= Len(data)
  BY <1>4
<1>10. Clusters(f) = IF Clusters(f) < k THEN k ELSE Clusters(f)
  BY <1>4
<1>11. \E j \in 1 .. Len(s) :
          /\ o.cur = s[j] /\ Seek(f, o.off) + o.pos = Sec * (j - 1) + ((o.off + o.pos) % Sec)
          /\ Len(s) = IF Clusters(f) < j THEN j ELSE Clusters(f)
  BY <1>1, <1>3, <1>5, <1>8, <1>10
<1>12. o.step = "data" /\ o.pos = Len(o.data) => Len(s) = Needed(f, o.off, o.pos)
  BY <1>3, <1>5, <1>7
<1> QED
  BY <1>5, <1>6, <1>9, <1>11, <1>12 DEF WriteOK, s, f

LEMMA NotAddedHolds ==
    ASSUME IInv, op.kind = "create", NotAdded, UNCHANGED lost
    PROVE  Holding(NextDisk, op', expect', lost')
<1> DEFINE d == Disk
           e == NextDisk
           c == op.first
<1>1. /\ TreeOK(d) /\ ChainsOK(d) /\ AllocationOK(d, op, lost) /\ FilesOK(d, op, expect)
      /\ CreateOK(d, op)
  BY InvIs, Kinds
<1>2. /\ fat' = [fat EXCEPT ![c] = FREE] /\ UNCHANGED <<root, sec, expect, lost>> /\ op' = Idle
  BY DEF NotAdded, SetFat
<1>3. Extra(d, op) = {c} /\ c \notin Owned(d) /\ c \in Cluster /\ c \notin lost
  BY <1>1 DEF Extra, AllocationOK, CreateOK
<1> HIDE DEF c
<1>4. /\ e.root = d.root /\ e.fat \in Fats /\ DOMAIN e.sec = Cluster /\ e.sec = d.sec
      /\ e.fat[c] = FREE /\ \A x \in Cluster \ {c} : e.fat[x] = d.fat[x]
  <2>1. DOMAIN sec = Cluster /\ fat \in Fats
    BY InvIs
  <2>2. fat' \in Fats /\ fat'[c] = FREE /\ \A x \in Cluster \ {c} : fat'[x] = fat[x]
    BY <1>2, <1>3, <2>1 DEF Fats
  <2> QED
    BY <1>2, <1>3, <2>1, <2>2, DiskIs
<1>5. \A p \in DOMAIN expect : ByNow(e, op', expect, p) = ByNow(d, op, expect, p)
  BY <1>2, ByNowKeeps DEF Idle
<1> HIDE DEF d, e
<1>6. \A x \in Owned(d) : x \in Cluster \ {c}
  BY <1>1, <1>3, HomesOwned
<1>7. TreeOK(e) /\ ChainsOK(e) /\ SameTree(d, e) /\ Owned(e) = Owned(d) /\ Half(e) = Half(d)
      /\ FilesOK(e, op', expect)
  BY <1>1, <1>4, <1>5, <1>6, Elsewhere
<1>8. AllocationOK(e, op', lost)
  <2>1. Extra(e, op') = {}
    BY <1>2 DEF Extra, Idle
  <2>2. Allocated(e) = Allocated(d) \ {c}
    BY <1>3, <1>4 DEF Allocated
  <2> QED
    BY <1>1, <1>3, <1>7, <2>1, <2>2 DEF AllocationOK
<1>9. IdleOK(e, op')
  BY <1>1, <1>2, <1>7 DEF IdleOK, CreateOK
<1> QED
  BY <1>2, <1>7, <1>8, <1>9 DEF Holding, OpOK, e

\* The vacant slot that is taken.
LEMMA VacantIs ==
    ASSUME TreeOK(Disk), NEW h \in Homes(Disk), VacantSlots(h) # {}
    PROVE  /\ Min(VacantSlots(h)) \in DOMAIN Table(Disk, h)
           /\ Vacant(Table(Disk, h)[Min(VacantSlots(h))])
           /\ \A j \in DOMAIN Table(Disk, h) : Vacant(Table(Disk, h)[j]) => Min(VacantSlots(h)) <= j
<1> DEFINE t == Table(Disk, h)
           S == VacantSlots(h)
<1>1. S = {i \in DOMAIN t : Vacant(t[i])}
  BY SlotsAre DEF VacantSlots
<1>2. TableOK(t, SizeOf(h)) /\ SizeOf(h) \in Nat
  BY HomesAre
<1>3. DOMAIN t \subseteq Nat
  BY <1>2, LiveIs
<1> HIDE DEF t, S
<1>4. Min(S) \in S /\ \A n \in S : Min(S) <= n
  <2>1. S \subseteq Nat /\ S # {}
    BY <1>1, <1>3 DEF S
  <2> QED
    BY <2>1, MinIs
<1> QED
  BY <1>1, <1>4 DEF t, S

\* The disk e has one more entry than d, at l for path, for a new file or
\* directory in cluster c; q is what goes on after o.
Grown(d, o, ex, e, q, gx, l, path, c) ==
    /\ l \notin Used(d) /\ Used(e) = Used(d) \cup {l} /\ Half(d) = {} /\ Half(e) = {}
    /\ \A m \in Used(d) : EntryAt(e, m) = EntryAt(d, m)
    /\ \A p : \A k \in Homes(d) : HomeOf(e, p, k) <=> HomeOf(d, p, k)
    /\ \A m \in Used(d) : Walk(e.fat, First(e, m)) = Walk(d.fat, First(d, m))
    /\ \A k \in Cluster \ Homes(d) : e.sec[k] = d.sec[k]
    /\ path \in Path /\ Leads(e, path, l) /\ \A m : ~Leads(d, path, m)
    /\ EntryAt(e, l).size = 0 /\ Walk(e.fat, First(e, l)) = <<c>>
    /\ DOMAIN gx = IF EntryAt(e, l).isDir THEN DOMAIN ex ELSE DOMAIN ex \cup {path}
    /\ \A p \in DOMAIN ex :
          /\ gx[p] = ex[p] /\ ByNow(d, o, ex, p) = ex[p].byte /\ ByNow(e, q, gx, p) = ex[p].byte
    /\ ~EntryAt(e, l).isDir =>
          /\ gx[path] = NewFile /\ Len(ByNow(e, q, gx, path)) = Sec
          /\ \A i \in 1 .. Sec : ByNow(e, q, gx, path)[i] = Stale

LEMMA FilesGrow ==
    ASSUME NEW d, TreeOK(d), ChainsOK(d), NEW o, NEW ex, FilesOK(d, o, ex),
           NEW e, TreeOK(e), NEW q, NEW gx, NEW l, NEW path, NEW c \in Cluster,
           Grown(d, o, ex, e, q, gx, l, path, c)
    PROVE  FilesOK(e, q, gx)
<1> USE DEF Grown
<1>1. \A p : \A m \in Used(d) : Leads(e, p, m) <=> Leads(d, p, m)
  <2>1. \A m \in Used(d) : m[1] \in Homes(d)
    BY UsedIs
  <2> QED
    BY <2>1 DEF Leads
<1>2. \A p \in Path : Leads(e, p, l) <=> p = path
  BY LeadsUnique
<1>3. DOMAIN ex = {p \in Path : \E m \in Used(d) : Leads(d, p, m) /\ ~EntryAt(d, m).isDir}
  BY DEF FilesOK
<1>4. path \notin DOMAIN ex
  BY <1>3
<1>5. /\ DOMAIN gx = IF EntryAt(e, l).isDir THEN DOMAIN ex ELSE DOMAIN ex \cup {path}
      /\ \A p \in DOMAIN ex : gx[p] = ex[p]
      /\ ~EntryAt(e, l).isDir => gx[path] = NewFile
  BY <1>4
<1>6. DOMAIN gx = {p \in Path : \E m \in Used(e) : Leads(e, p, m) /\ ~EntryAt(e, m).isDir}
  BY <1>1, <1>2, <1>3, <1>5
<1>7. \A p \in DOMAIN gx : FileOK(gx[p])
  BY <1>5, NewFileIs DEF FilesOK
<1>8. ASSUME NEW p \in DOMAIN gx, NEW m \in Used(e) \ Half(e), Leads(e, p, m)
      PROVE  /\ EntryAt(e, m).size = gx[p].size
             /\ Shows(e, Walk(e.fat, First(e, m)), ByNow(e, q, gx, p))
  <2>1. CASE m = l
    <3>1. p = path /\ ~EntryAt(e, l).isDir
      <4>1. p \in Path /\ p = path
        BY <1>2, <1>6, <1>8, <2>1
      <4>2. EntryAt(e, l).isDir => FALSE
        BY <1>4, <1>5, <4>1
      <4> QED
        BY <4>1, <4>2
    <3> DEFINE b == ByNow(e, q, gx, path)
    <3>2. Len(b) = Sec /\ \A i \in 1 .. Sec : b[i] = Stale
      BY <3>1
    <3> HIDE DEF b
    <3>3. Sec * 1 = Sec /\ Len(<<c>>) = 1 /\ \A r \in 0 .. Sec - 1 : Sec * (1 - 1) + r + 1 \in 1 .. Sec
      BY SecIs
    <3>4. Shows(e, <<c>>, b)
      BY <3>2, <3>3 DEF Shows
    <3> QED
      BY <1>5, <2>1, <3>1, <3>4, NewFileIs DEF b
  <2>2. CASE m # l
    <3>1. m \in Used(d) /\ Leads(d, p, m)
      BY <1>1, <1>8, <2>2
    <3>2. p \in DOMAIN ex
      BY <1>5, <3>1
    <3>3. ~EntryAt(d, m).isDir
      <4>1. PICK k \in Used(d) : Leads(d, p, k) /\ ~EntryAt(d, k).isDir
        BY <1>3, <3>2
      <4>2. p \in Path
        BY <1>3, <3>2
      <4> QED
        BY <3>1, <4>1, <4>2, LeadsUnique
    <3> DEFINE s == Walk(d.fat, First(d, m))
               b == ByNow(d, o, ex, p)
    <3>4. EntryAt(d, m).size = ex[p].size /\ Shows(d, s, b)
      BY <3>1, <3>2 DEF FilesOK
    <3>5. First(d, m) \in Cluster /\ Sound(d.fat, First(d, m))
      BY <3>1, UsedIs DEF ChainsOK
    <3>6. Len(s) \in Nat /\ \A k \in 1 .. Len(s) : s[k] \in Own(d, m)
      BY <3>5, SoundIs DEF Own
    <3>7. \A k \in 1 .. Len(s) : e.sec[s[k]] = d.sec[s[k]]
      BY <3>1, <3>3, <3>6, FileApart, HomesOwned
    <3>8. ByNow(e, q, gx, p) = b /\ Walk(e.fat, First(e, m)) = s
      BY <3>1, <3>2
    <3> HIDE DEF s, b
    <3>9. Shows(e, s, b)
      BY <3>4, <3>6, <3>7, ShowsSame
    <3> QED
      BY <1>5, <3>1, <3>2, <3>4, <3>8, <3>9
  <2> QED
    BY <2>1, <2>2
<1> QED
  BY <1>5, <1>6, <1>7, <1>8 DEF FilesOK

LEMMA AddedHolds ==
    ASSUME IInv, op.kind = "create", op.ready, Added, UNCHANGED lost
    PROVE  Holding(NextDisk, op', expect', lost')
<1> DEFINE d == Disk
           e == NextDisk
           c == op.first
           h == op.parent
           path == op.path
           i == Min(VacantSlots(h))
           l == <<h, i>>
           x == Entry(path[Len(path)], op.isDir, c, 0)
<1>1. /\ TreeOK(d) /\ ChainsOK(d) /\ AllocationOK(d, op, lost) /\ FilesOK(d, op, expect)
      /\ CreateOK(d, op)
  BY InvIs, Kinds
<1>2. /\ VacantSlots(h) # {} /\ PutSlot(h, i, x)
      /\ op' = IF op.then = <<>> THEN Idle
                 ELSE [kind |-> "write", path |-> path, loc |-> l,
                       cur |-> c, step |-> "data", pos |-> 0, next |-> EOC,
                       off |-> op.then[1], data |-> op.then[2]]
      /\ expect' = IF op.isDir THEN expect
                   ELSE [p \in DOMAIN expect \cup {path} |-> IF p = path THEN NewFile ELSE expect[p]]
      /\ lost' = lost
  BY DEF Added
<1>3. /\ op.kind = "create" /\ path \in Path /\ op.isDir \in BOOLEAN /\ h \in Homes(d) /\ c \in Cluster
      /\ op.then \in {<<>>} \cup (Nat \X Data)
      /\ op.isDir => Len(path) = 1 /\ op.then = <<>> /\ d.sec[c] = Empty
      /\ HomeOf(d, path, h) /\ (\A m : ~Leads(d, path, m))
      /\ d.fat[c] = EOC /\ Half(d) = {}
  BY <1>1 DEF CreateOK, Leads
<1>4. Extra(d, op) = {c} /\ c \notin Owned(d) /\ c \notin lost /\ d.fat \in Fats
  BY <1>1, <1>3 DEF Extra, AllocationOK, ChainsOK, Fats
<1>5. Put(d, e, h, i, x)
  BY <1>2, DiskIs DEF PutSlot, Put
<1>6. i \in DOMAIN Table(d, h) /\ Vacant(Table(d, h)[i])
      /\ \A j \in DOMAIN Table(d, h) : Vacant(Table(d, h)[j]) => i <= j
  BY <1>1, <1>2, <1>3, VacantIs
<1>7. /\ x.name = path[Len(path)] /\ x.name \in Name /\ x.isDir = op.isDir /\ x.first = c /\ x.size = 0
      /\ x \in Entries
  BY <1>3, PathIs DEF Entry, Entries
<1>8. l[1] = h /\ l[2] = i
  OBVIOUS
<1> HIDE DEF d, e, c, h, path, i, x
<1>9. \A j \in Live(Table(d, h)) : Table(d, h)[j].name # x.name
  <2> SUFFICES ASSUME NEW j \in Live(Table(d, h)), Table(d, h)[j].name = x.name PROVE FALSE
    OBVIOUS
  <2> DEFINE m == <<h, j>>
  <2>1. m \in Used(d)
    BY <1>1, <1>3, UsedIs
  <2>2. m[1] = h /\ m[2] = j
    OBVIOUS
  <2> HIDE DEF m
  <2>3. Leads(d, path, m)
    BY <1>3, <1>7, <2>1, <2>2 DEF Leads, EntryAt
  <2> QED
    BY <1>3, <2>3
<1>10. x.isDir => h = Root /\ d.sec[x.first] = Empty
  BY <1>1, <1>3, <1>7, HomesAre, PathIs DEF HomeOf
<1>11. /\ TreeOK(e) /\ Used(e) = Used(d) \cup {l} /\ l \notin Used(d)
       /\ EntryAt(e, l) = x
       /\ \A m \in Used(d) : EntryAt(e, m) = EntryAt(d, m)
       /\ \A p : \A k \in Homes(d) : HomeOf(e, p, k) <=> HomeOf(d, p, k)
  BY <1>1, <1>3, <1>4, <1>5, <1>6, <1>7, <1>9, <1>10, TreeGrows
<1>12. e.fat = d.fat /\ \A k \in Cluster \ Homes(d) : e.sec[k] = d.sec[k]
  BY <1>1, <1>3, <1>5, <1>6, PutIs DEF Put
<1> HIDE DEF l
<1>13. First(e, l) = c /\ \A m \in Used(d) : First(e, m) = First(d, m)
  BY <1>7, <1>11 DEF First
<1>14. /\ ChainsOK(e) /\ Walk(e.fat, c) = <<c>>
       /\ Own(e, l) = {c} /\ \A m \in Used(d) : Own(e, m) = Own(d, m)
       /\ Owned(e) = Owned(d) \cup {c} /\ Half(e) = {}
  BY <1>1, <1>3, <1>4, <1>11, <1>12, <1>13, ChainsGrow
<1>15. Leads(e, path, l)
  BY <1>3, <1>7, <1>8, <1>11 DEF Leads
<1>16. op' = Idle \/ /\ op.then \in Nat \X Data /\ ~op.isDir
                     /\ op' = [kind |-> "write", path |-> path, loc |-> l,
                               cur |-> c, step |-> "data", pos |-> 0, next |-> EOC,
                               off |-> op.then[1], data |-> op.then[2]]
  BY <1>2, <1>3
<1>17. ~op.isDir => path \in DOMAIN expect' /\ expect'[path] = NewFile
  BY <1>2
<1>18. \A p \in DOMAIN expect : p # path /\ expect'[p] = expect[p]
  <2>1. path \notin DOMAIN expect
    BY <1>1, <1>3 DEF FilesOK
  <2> QED
    BY <1>2, <2>1
<1>19. \A p \in DOMAIN expect : /\ ByNow(d, op, expect, p) = expect[p].byte
                                /\ ByNow(e, op', expect', p) = expect[p].byte
  <2>1. \A p \in DOMAIN expect : ByNow(d, op, expect, p) = expect[p].byte
    BY <1>3 DEF ByNow
  <2>2. op'.kind # "write" \/ op'.path = path
    BY <1>16 DEF Idle
  <2>3. \A p \in DOMAIN expect : ByNow(e, op', expect', p) = expect[p].byte
    BY <1>18, <2>2 DEF ByNow
  <2> QED
    BY <2>1, <2>3
<1>20. ~op.isDir => /\ Len(ByNow(e, op', expect', path)) = Sec
                    /\ \A j \in 1 .. Sec : ByNow(e, op', expect', path)[j] = Stale
  <2> SUFFICES ASSUME ~op.isDir
               PROVE  /\ Len(ByNow(e, op', expect', path)) = Sec
                      /\ \A j \in 1 .. Sec : ByNow(e, op', expect', path)[j] = Stale
    OBVIOUS
  <2>1. Sec * Clusters(NewFile) = Sec /\ Len(NewFile.byte) = Sec /\ Clusters(NewFile) = 1
    BY NewFileIs, FileIs, SecIs
  <2>2. CASE op' = Idle
    BY <1>17, <2>1, <2>2, NewFileIs DEF ByNow, Idle
  <2>3. CASE op' # Idle
    <3> DEFINE off == op.then[1]
               data == op.then[2]
    <3>1. off \in Nat /\ data \in Data
      BY <1>16, <2>3
    <3>2. op'.kind = "write" /\ op'.path = path /\ op'.loc = l /\ op'.pos = 0 /\ op'.off = off
          /\ op'.data = data
      BY <1>16, <2>3
    <3> HIDE DEF off, data
    <3>3. Len(<<c>>) = 1
      OBVIOUS
    <3>4. ByNow(e, op', expect', path) = Landed(NewFile, off, SubSeq(data, 1, 0), Clusters(NewFile))
      BY <1>13, <1>14, <1>17, <2>1, <3>2, <3>3 DEF ByNow
    <3> QED
      BY <2>1, <3>1, <3>4, LandedNothing, NewFileIs
  <2> QED
    BY <2>2, <2>3
<1>21. FilesOK(e, op', expect')
  <2>1. /\ DOMAIN expect' = IF EntryAt(e, l).isDir THEN DOMAIN expect ELSE DOMAIN expect \cup {path}
        /\ ~EntryAt(e, l).isDir => expect'[path] = NewFile
    BY <1>2, <1>7, <1>11, <1>17
  <2>2. \A m \in Used(d) : Walk(e.fat, First(e, m)) = Walk(d.fat, First(d, m))
    BY <1>12, <1>13
  <2>3. Walk(e.fat, First(e, l)) = <<c>> /\ EntryAt(e, l).size = 0 /\ EntryAt(e, l).isDir = op.isDir
    BY <1>7, <1>11, <1>13, <1>14
  <2> QED
    <3>1. Grown(d, op, expect, e, op', expect', l, path, c)
      BY <1>3, <1>11, <1>12, <1>14, <1>15, <1>18, <1>19, <1>20, <2>1, <2>2, <2>3 DEF Grown
    <3> QED
      BY <1>1, <1>3, <1>11, <3>1, FilesGrow
<1>22. AllocationOK(e, op', lost)
  <2>1. Extra(e, op') = {}
    BY <1>16 DEF Extra, Idle
  <2>2. Allocated(e) = Allocated(d)
    BY <1>12 DEF Allocated
  <2> QED
    BY <1>1, <1>4, <1>14, <2>1, <2>2 DEF AllocationOK
<1>23. OpOK(e, op', expect')
  <2>1. CASE op' = Idle
    BY <1>14, <2>1 DEF OpOK, IdleOK
  <2>2. CASE op' # Idle
    <3> DEFINE off == op.then[1]
               data == op.then[2]
    <3>1. off \in Nat /\ data \in Data /\ ~op.isDir
      BY <1>16, <2>2
    <3>2. op' = [kind |-> "write", path |-> path, loc |-> l,
                 cur |-> c, step |-> "data", pos |-> 0, next |-> EOC, off |-> off, data |-> data]
      BY <1>16, <2>2
    <3> HIDE DEF off, data
    <3>3. Min({(off \div Sec) + 1, Clusters(NewFile)}) = 1
      <4>1. off \div Sec \in Nat
        BY <3>1, SecIs, Division
      <4> QED
        BY <4>1, NewFileIs, PairMin
    <3>4. Walk(e.fat, First(e, l)) = <<c>> /\ Len(<<c>>) = 1 /\ <<c>>[1] = c
      BY <1>13, <1>14
    <3>5. l \in Used(e) /\ First(e, l) \in Cluster /\ Sound(e.fat, First(e, l))
      BY <1>3, <1>11, <1>13, <1>14 DEF ChainsOK
    <3>6. /\ path \in DOMAIN expect' /\ FileOK(expect'[path]) /\ Clusters(expect'[path]) = 1
          /\ expect'[path] = NewFile
      BY <1>17, <3>1, NewFileIs
    <3>7. /\ Len(Walk(e.fat, First(e, l))) = Clusters(expect'[path])
          /\ c = Walk(e.fat, First(e, l))[Min({(off \div Sec) + 1, Clusters(expect'[path])})]
      BY <3>3, <3>4, <3>6
    <3>8. WriteOK(e, op', expect')
      BY <1>14, <1>15, <3>1, <3>2, <3>5, <3>6, <3>7, WriteBegins
    <3> QED
      BY <3>8 DEF OpOK
  <2> QED
    BY <2>1, <2>2
<1> QED
  BY <1>2, <1>11, <1>14, <1>21, <1>22, <1>23 DEF Holding, e

----------------------------------------------------------------------------
(* Deleting *)

LEMMA DiskSame ==
    ASSUME UNCHANGED <<fat, root, sec>>
    PROVE  NextDisk = Disk
BY DEF NextDisk, Disk

LEMMA DeleteHolds ==
    ASSUME IInv, NEW path \in Path, Delete(path), UNCHANGED lost
    PROVE  Holding(NextDisk, op', expect', lost')
<1> DEFINE d == Disk
           l == Resolve(path)
<1>1. /\ TreeOK(d) /\ ChainsOK(d) /\ AllocationOK(d, op, lost) /\ FilesOK(d, op, expect)
      /\ OpOK(d, op, expect)
  BY InvIs
<1>2. /\ op \in {Idle, Torn(path)} /\ l # None /\ ~NonEmptyDir(At(l))
      /\ op' = [kind |-> "delete", path |-> path, loc |-> l, cur |-> At(l).first]
      /\ expect' = expect /\ lost' = lost /\ NextDisk = d
  BY DiskSame DEF Delete
<1> HIDE DEF d, l
<1>3. Leads(d, path, l) /\ l \in Used(d)
  BY <1>1, <1>2, ResolveIs DEF Leads, d, l
<1>4. At(l) = EntryAt(d, l) /\ First(d, l) = At(l).first /\ First(d, l) \in Cluster
  BY <1>1, <1>3, SlotsAre, UsedIs DEF First, d
<1>5. Half(d) \subseteq {l}
  <2>1. CASE op = Idle
    <3>1. op.kind = "idle"
      BY <2>1 DEF Idle
    <3>2. IdleOK(d, op)
      BY <1>1, <3>1, Kinds
    <3> QED
      BY <3>2 DEF IdleOK
  <2>2. CASE op # Idle
    <3>1. op.kind = "torn" /\ op.path = path
      BY <1>2, <2>2 DEF Torn
    <3>2. TornOK(d, op)
      BY <1>1, <3>1, Kinds
    <3>3. PICK p \in Path, m \in Used(d) : op = Torn(p) /\ Leads(d, p, m) /\ Half(d) = {m}
      BY <3>2 DEF TornOK
    <3>4. p = path
      BY <3>1, <3>3 DEF Torn
    <3>5. m = l
      BY <1>1, <1>3, <3>3, <3>4, LeadsUnique
    <3> QED
      BY <3>3, <3>5
  <2> QED
    BY <2>1, <2>2
<1>6. Bare(d, l)
  <2> SUFFICES ASSUME EntryAt(d, l).isDir PROVE Live(Table(d, First(d, l))) = {}
    BY DEF Bare
  <2>1. First(d, l) \in Homes(d)
    BY <1>1, <1>3, DirsAre
  <2>2. Slots(First(d, l)) = Table(d, First(d, l))
    BY <1>1, <2>1, SlotsAre DEF d
  <2> QED
    BY <1>2, <1>4, <2>2 DEF NonEmptyDir, Live
<1>7. /\ op'.kind = "delete" /\ op'.path = path /\ op'.loc = l /\ op'.cur = First(d, l)
      /\ op' \in [kind : {"delete"}, path : Path, loc : Used(d), cur : Cluster \cup {FREE, EOC}]
  BY <1>2, <1>3, <1>4
<1>8. DeleteOK(d, op')
  BY <1>3, <1>5, <1>6, <1>7 DEF DeleteOK
<1>9. op.kind \in {"idle", "torn"}
  BY <1>2 DEF Idle, Torn
<1>10. AllocationOK(d, op', lost)
  <2>1. Extra(d, op) = {} /\ Extra(d, op') = {}
    BY <1>7, <1>9 DEF Extra
  <2> QED
    BY <1>1, <2>1 DEF AllocationOK
<1>11. FilesOK(d, op', expect)
  <2>1. \A p : ByNow(d, op', expect, p) = ByNow(d, op, expect, p)
    BY <1>7, <1>9 DEF ByNow
  <2> QED
    BY <1>1, <2>1 DEF FilesOK
<1> QED
  BY <1>1, <1>2, <1>8, <1>10, <1>11 DEF Holding, OpOK

\* Freeing the first cluster of an entry: its chain is now that cluster alone.
LEMMA FirstFreed ==
    ASSUME NEW d, TreeOK(d), ChainsOK(d), NEW o, FilesOK(d, o, expect), NEW l \in Used(d), Half(d) = {},
           NEW e, e.root = d.root, e.sec = d.sec, e.fat \in Fats, e.fat[First(d, l)] = FREE,
           \A x \in Cluster \ {First(d, l)} : e.fat[x] = d.fat[x],
           NEW q, o.kind # "write", q.kind # "write"
    PROVE  /\ TreeOK(e) /\ ChainsOK(e) /\ SameTree(d, e) /\ Half(e) = {l}
           /\ Own(e, l) = {First(d, l)} /\ Owned(e) = (Owned(d) \ Own(d, l)) \cup {First(d, l)}
           /\ FilesOK(e, q, expect)
<1> DEFINE c == First(d, l)
           s == Walk(d.fat, c)
<1>1. TreeOK(e) /\ SameTree(d, e)
  <2>1. DOMAIN d.sec = Cluster
    BY DEF TreeOK
  <2> QED
    BY <2>1, TreeKeeps
<1>2. c \in Cluster /\ Sound(d.fat, c) /\ d.fat \in Fats /\ d.fat[c] # FREE
  BY UsedIs DEF ChainsOK, Half, Fats
<1>3. c \in Range(s) /\ Range(s) \subseteq Cluster /\ Own(d, l) = Range(s)
  BY <1>2, SoundIs DEF Own
<1> HIDE DEF s
<1>4. e.fat \in Fats /\ e.fat[c] = FREE /\ \A x \in Cluster \ {c} : e.fat[x] = d.fat[x]
  OBVIOUS
<1> HIDE DEF c
<1>5. Used(e) = Used(d) /\ First(e, l) = c /\ \A m \in Used(d) : First(e, m) = First(d, m)
  BY <1>1 DEF SameTree, c
<1>6. Walk(e.fat, c) = <<c>> /\ Sound(e.fat, c)
  BY <1>2, <1>4, WalkEnds, ClusterFacts DEF Sound
<1>7. Own(e, l) = {c}
  BY <1>2, <1>4, <1>5, <1>6, SoundIs DEF Own
<1>8. ASSUME NEW m \in Used(d), m # l
      PROVE  /\ Walk(e.fat, First(e, m)) = Walk(d.fat, First(d, m)) /\ Sound(e.fat, First(e, m))
             /\ Own(e, m) = Own(d, m) /\ e.fat[First(e, m)] = d.fat[First(d, m)]
             /\ c \notin Own(d, m)
  <2> DEFINE b == First(d, m)
  <2>1. b \in Cluster /\ Sound(d.fat, b)
    BY UsedIs DEF ChainsOK
  <2>2. c \notin Own(d, m) /\ Own(d, m) \subseteq Cluster
    BY <1>3, <1>8, HomesOwned DEF ChainsOK
  <2>3. Own(d, m) = Range(Walk(d.fat, b))
    BY DEF Own
  <2> HIDE DEF b
  <2>4. \A x \in Range(Walk(d.fat, b)) : e.fat[x] = d.fat[x]
    BY <1>4, <2>2, <2>3
  <2>5. Walk(e.fat, b) = Walk(d.fat, b) /\ Sound(e.fat, b) /\ e.fat[b] = d.fat[b]
    BY <2>1, <2>4, SoundKeeps
  <2> QED
    BY <1>5, <2>2, <2>5 DEF Own, b
<1>9. ChainsOK(e)
  <2>1. \A m \in Used(e) : Sound(e.fat, First(e, m))
    BY <1>5, <1>6, <1>8
  <2>2. \A m, k \in Used(e) : m # k => Own(e, m) \cap Own(e, k) = {}
    BY <1>5, <1>7, <1>8 DEF ChainsOK
  <2> QED
    BY <1>4, <2>1, <2>2 DEF ChainsOK, Fats
<1>10. Half(e) = {l}
  BY <1>4, <1>5, <1>8 DEF Half
<1>11. Owned(e) = (Owned(d) \ Own(d, l)) \cup {c}
  <2>1. \A m \in Used(d) : m # l => Own(d, m) \cap Own(d, l) = {}
    BY DEF ChainsOK
  <2> QED
    BY <1>5, <1>7, <1>8, <2>1 DEF Owned
<1>12. FilesOK(e, q, expect)
  <2>1. ASSUME NEW p \in DOMAIN expect, NEW m \in Used(e) \ Half(e), Leads(e, p, m)
        PROVE  /\ EntryAt(e, m).size = expect[p].size
               /\ Shows(e, Walk(e.fat, First(e, m)), ByNow(e, q, expect, p))
    <3>1. m \in Used(d) \ Half(d) /\ m # l /\ Leads(d, p, m) /\ EntryAt(e, m) = EntryAt(d, m)
      BY <1>1, <1>10, <2>1 DEF SameTree
    <3>2. ByNow(e, q, expect, p) = ByNow(d, o, expect, p)
      BY DEF ByNow
    <3>3. Walk(e.fat, First(e, m)) = Walk(d.fat, First(d, m))
      BY <1>8, <3>1
    <3>4. /\ EntryAt(d, m).size = expect[p].size
          /\ Shows(d, Walk(d.fat, First(d, m)), ByNow(d, o, expect, p))
      BY <3>1 DEF FilesOK
    <3> QED
      BY <3>1, <3>2, <3>3, <3>4 DEF Shows, ByteAt
  <2>2. DOMAIN expect = {p \in Path : \E m \in Used(e) : Leads(e, p, m) /\ ~EntryAt(e, m).isDir}
    BY <1>1 DEF SameTree, FilesOK
  <2> QED
    BY <2>1, <2>2 DEF FilesOK
<1> QED
  BY <1>1, <1>7, <1>9, <1>10, <1>11, <1>12 DEF c

LEMMA FreeFirstHolds ==
    ASSUME IInv, FreeCluster, op.cur = First(Disk, op.loc), UNCHANGED lost
    PROVE  Holding(NextDisk, op', expect', lost')
<1> DEFINE d == Disk
           e == NextDisk
           l == op.loc
           c == op.cur
           s == Walk(fat, c)
<1>1. /\ TreeOK(d) /\ ChainsOK(d) /\ AllocationOK(d, op, lost) /\ FilesOK(d, op, expect)
      /\ DeleteOK(d, op)
  BY InvIs, Kinds DEF FreeCluster
<1>2. /\ op.kind = "delete" /\ c \in Cluster /\ fat' = [fat EXCEPT ![c] = FREE]
      /\ UNCHANGED <<root, sec, expect, lost>> /\ op' = [op EXCEPT !.cur = fat[c]]
  BY DEF FreeCluster, SetFat
<1>3. l \in Used(d) /\ c = First(d, l) /\ Half(d) \subseteq {l} /\ Leads(d, op.path, l) /\ Bare(d, l)
  BY <1>1 DEF DeleteOK
<1>4. fat \in Fats /\ fat = d.fat
  BY InvIs, DiskIs
<1>5. /\ op' \in [kind : {"delete"}, path : Path, loc : Used(d), cur : Cluster \cup {FREE, EOC}]
      /\ op'.kind = "delete" /\ op'.path = op.path /\ op'.loc = l /\ op'.cur = fat[c]
  BY <1>1, <1>2, <1>4 DEF DeleteOK, Fats
<1>6. Extra(d, op) = {}
  BY <1>2, <1>3 DEF Extra
\* The cluster was freed before power was lost.
<1>7. CASE fat[c] = FREE
  <2>1. NextDisk = d
    <3>1. fat' = fat
      BY <1>2, <1>4, <1>7 DEF Fats
    <3> QED
      BY <1>2, <3>1, DiskSame
  <2>2. op'.cur \notin Cluster
    BY <1>5, <1>7, ClusterFacts
  <2>3. Extra(d, op') = {}
    BY <1>5, <2>2 DEF Extra
  <2>4. AllocationOK(d, op', lost)
    BY <1>1, <1>6, <2>3 DEF AllocationOK
  <2>5. Half(d) = {l}
    BY <1>3, <1>4, <1>7 DEF Half
  <2>6. DeleteOK(d, op')
    BY <1>3, <1>5, <2>2, <2>5 DEF DeleteOK
  <2>7. FilesOK(d, op', expect)
    <3>1. \A p : ByNow(d, op', expect, p) = ByNow(d, op, expect, p)
      BY <1>2, <1>5 DEF ByNow
    <3> QED
      BY <1>1, <3>1 DEF FilesOK
  <2> QED
    BY <1>1, <1>2, <2>1, <2>4, <2>6, <2>7 DEF Holding, OpOK
<1>8. CASE fat[c] # FREE
  <2>1. Half(d) = {}
    BY <1>3, <1>4, <1>8 DEF Half
  <2>2. /\ e.root = d.root /\ e.sec = d.sec
        /\ e.fat \in Fats /\ e.fat[c] = FREE /\ \A x \in Cluster \ {c} : e.fat[x] = d.fat[x]
    <3>1. fat' \in Fats /\ fat'[c] = FREE /\ \A x \in Cluster \ {c} : fat'[x] = fat[x]
      BY <1>2, <1>4 DEF Fats
    <3> QED
      BY <1>2, <3>1, DiskIs
  <2>3. Chained(fat, c, s) /\ Own(d, l) = Range(s) /\ \A x \in Range(s) : fat[x] # FREE
    <3>1. Sound(fat, c)
      BY <1>1, <1>3, <1>4 DEF ChainsOK
    <3> QED
      BY <1>2, <1>3, <1>4, <1>8, <3>1, SoundIs DEF Own
  <2> HIDE DEF s, d, e, c, l
  <2>4. /\ TreeOK(e) /\ ChainsOK(e) /\ SameTree(d, e) /\ Half(e) = {l}
        /\ Own(e, l) = {c} /\ Owned(e) = (Owned(d) \ Own(d, l)) \cup {c}
        /\ FilesOK(e, op', expect)
    BY <1>1, <1>2, <1>3, <1>5, <2>1, <2>2, FirstFreed
  <2>5. /\ fat[c] = EOC => Range(s) = {c}
        /\ fat[c] # EOC => /\ fat[c] \in Cluster /\ fat[c] # c
                           /\ Chained(e.fat, fat[c], Tail(s)) /\ Range(Tail(s)) = Range(s) \ {c}
    BY <1>4, <2>2, <2>3, ChainTail
  <2>6. fat[c] # EOC => Walk(e.fat, fat[c]) = Tail(s)
    BY <2>5, ChainedIs
  <2>7. First(e, l) = c
    BY <1>3, <2>4 DEF SameTree
  <2>8. Extra(e, op') = Range(s) \ {c}
    <3>1. CASE fat[c] = EOC
      BY <1>5, <2>5, <3>1, ClusterFacts DEF Extra
    <3>2. CASE fat[c] # EOC
      BY <1>5, <2>5, <2>6, <2>7, <3>2 DEF Extra
    <3> QED
      BY <3>1, <3>2
  <2>9. AllocationOK(e, op', lost)
    <3>1. Allocated(e) = Allocated(d) \ {c} /\ Range(s) \subseteq Allocated(d)
      <4>2. Range(s) \subseteq Cluster
        BY <2>3, ChainedIs
      <4> QED
        BY <1>4, <2>2, <2>3, <4>2 DEF Allocated
    <3>2. Allocated(d) \ Owned(d) = lost /\ lost \subseteq Cluster
      BY <1>1, <1>6 DEF AllocationOK
    <3>3. Range(s) \subseteq Owned(d)
      BY <1>1, <1>3, <2>3, HomesOwned
    <3>4. c \in Range(s)
      BY <2>3, ChainedIs
    <3> QED
      BY <2>3, <2>4, <2>8, <3>1, <3>2, <3>3, <3>4 DEF AllocationOK
  <2>10. DeleteOK(e, op')
    <3>1. Leads(e, op'.path, l) /\ Bare(e, l) /\ Used(e) = Used(d)
      BY <1>3, <1>5, <2>4 DEF SameTree
    <3>2. op'.cur \in Cluster => Chained(e.fat, op'.cur, Walk(e.fat, op'.cur))
      BY <1>5, <2>5, <2>6, ClusterFacts
    <3> QED
      BY <1>5, <2>4, <3>1, <3>2 DEF DeleteOK
  <2> QED
    BY <1>2, <2>4, <2>9, <2>10 DEF Holding, OpOK, e
<1> QED
  BY <1>7, <1>8

\* Freeing one of the clusters behind the first.
LEMMA FreeRestHolds ==
    ASSUME IInv, FreeCluster, op.cur # First(Disk, op.loc), UNCHANGED lost
    PROVE  Holding(NextDisk, op', expect', lost')
<1> DEFINE d == Disk
           e == NextDisk
           l == op.loc
           c == op.cur
           s == Walk(fat, c)
<1>1. /\ TreeOK(d) /\ ChainsOK(d) /\ AllocationOK(d, op, lost) /\ FilesOK(d, op, expect)
      /\ DeleteOK(d, op)
  BY InvIs, Kinds DEF FreeCluster
<1>2. /\ op.kind = "delete" /\ c \in Cluster /\ fat' = [fat EXCEPT ![c] = FREE]
      /\ UNCHANGED <<root, sec, expect, lost>> /\ op' = [op EXCEPT !.cur = fat[c]]
  BY DEF FreeCluster, SetFat
<1>3. l \in Used(d) /\ c # First(d, l) /\ Half(d) = {l} /\ Leads(d, op.path, l) /\ Bare(d, l)
  BY <1>1 DEF DeleteOK
<1>4. fat \in Fats /\ fat = d.fat
  BY InvIs, DiskIs
<1>5. /\ op' \in [kind : {"delete"}, path : Path, loc : Used(d), cur : Cluster \cup {FREE, EOC}]
      /\ op'.kind = "delete" /\ op'.path = op.path /\ op'.loc = l /\ op'.cur = fat[c]
  BY <1>1, <1>2, <1>4 DEF DeleteOK, Fats
<1>6. Chained(fat, c, s)
  BY <1>1, <1>2, <1>3, <1>4 DEF DeleteOK
<1>7. Extra(d, op) = Range(s)
  BY <1>2, <1>3, <1>4 DEF Extra
<1> HIDE DEF s
<1>8. c \in Range(s) /\ Range(s) \cap Owned(d) = {} /\ Range(s) \subseteq Cluster
  BY <1>1, <1>6, <1>7, ChainedIs DEF AllocationOK
<1>9. /\ e.root = d.root /\ e.sec = d.sec
      /\ e.fat \in Fats /\ DOMAIN e.sec = Cluster
      /\ e.fat[c] = FREE /\ \A x \in Cluster \ {c} : e.fat[x] = d.fat[x]
  <2>1. DOMAIN sec = Cluster
    BY InvIs
  <2>2. fat' \in Fats /\ fat'[c] = FREE /\ \A x \in Cluster \ {c} : fat'[x] = fat[x]
    BY <1>2, <1>4 DEF Fats
  <2> QED
    BY <1>2, <2>1, <2>2, DiskIs
<1> HIDE DEF d, e, c, l
<1>10. \A x \in Owned(d) : x \in Cluster \ {c}
  BY <1>1, <1>8, HomesOwned
<1>11. \A p \in DOMAIN expect : ByNow(e, op', expect, p) = ByNow(d, op, expect, p)
  BY <1>2, <1>5, ByNowKeeps
<1>12. TreeOK(e) /\ ChainsOK(e) /\ SameTree(d, e) /\ Owned(e) = Owned(d) /\ Half(e) = Half(d)
       /\ FilesOK(e, op', expect)
  BY <1>1, <1>9, <1>10, <1>11, Elsewhere
<1>13. /\ fat[c] = EOC => Range(s) = {c}
       /\ fat[c] # EOC => /\ fat[c] \in Cluster /\ fat[c] # c
                          /\ Chained(e.fat, fat[c], Tail(s)) /\ Range(Tail(s)) = Range(s) \ {c}
  BY <1>4, <1>6, <1>9, ChainTail
<1>14. fat[c] # EOC => Walk(e.fat, fat[c]) = Tail(s) /\ fat[c] \in Range(Tail(s))
  BY <1>13, ChainedIs
<1>15. First(e, l) = First(d, l) /\ First(d, l) \in Owned(d)
  BY <1>1, <1>3, <1>12, HomesOwned DEF SameTree
<1>16. Extra(e, op') = Range(s) \ {c}
  <2>1. CASE fat[c] = EOC
    BY <1>5, <1>13, <2>1, ClusterFacts DEF Extra
  <2>2. CASE fat[c] # EOC
    <3>1. fat[c] # First(e, l)
      BY <1>8, <1>13, <1>14, <1>15, <2>2
    <3> QED
      BY <1>5, <1>13, <1>14, <2>2, <3>1 DEF Extra
  <2> QED
    BY <2>1, <2>2
<1>17. AllocationOK(e, op', lost)
  <2>1. Allocated(e) = Allocated(d) \ {c}
    BY <1>9 DEF Allocated
  <2> QED
    BY <1>1, <1>7, <1>8, <1>12, <1>16, <2>1 DEF AllocationOK
<1>18. DeleteOK(e, op')
  <2>1. Leads(e, op'.path, l) /\ Bare(e, l) /\ Used(e) = Used(d)
    BY <1>3, <1>5, <1>12 DEF SameTree
  <2>2. op'.cur \in Cluster => Chained(e.fat, op'.cur, Walk(e.fat, op'.cur))
    BY <1>5, <1>13, <1>14, ClusterFacts
  <2> QED
    BY <1>3, <1>5, <1>12, <2>1, <2>2 DEF DeleteOK
<1> QED
  BY <1>2, <1>12, <1>17, <1>18 DEF Holding, OpOK, e

\* Marking the live entry i of a table deleted.
LEMMA TableDrops ==
    ASSUME NEW n \in Nat, NEW t, TableOK(t, n), NEW i \in Live(t),
           NEW u \in [1 .. n -> Entries], u[i].name = "E5", \A j \in 1 .. n : j # i => u[j] = t[j]
    PROVE  /\ TableOK(u, n) /\ Live(u) = Live(t) \ {i}
           /\ \A j \in Live(u) : u[j] = t[j]
           /\ DirsIn(u) = DirsIn(t) \ {i}
<1>1. t \in [1 .. n -> Entries] /\ i \in 1 .. n
  BY LiveIs DEF TableOK
<1>2. Live(u) = Live(t) \ {i}
  BY <1>1 DEF Live, Vacant
<1>3. \A j \in Live(u) : j \in 1 .. n /\ j # i /\ u[j] = t[j] /\ j \in Live(t)
  BY <1>1, <1>2, LiveIs
<1>4. ASSUME NEW j \in 1 .. n, NEW k \in 1 .. n, j <= k, u[j].name = "00"
      PROVE  u[k].name = "00"
  <2>1. j # i /\ t[j].name = "00"
    BY <1>4
  <2>2. t[k].name = "00"
    BY <1>4, <2>1 DEF TableOK
  <2>3. k # i
    BY <2>2 DEF Live, Vacant
  <2> QED
    BY <2>2, <2>3
<1>5. \A j, k \in Live(u) : u[j].name = u[k].name => j = k
  BY <1>3 DEF TableOK
<1>6. \A j \in Live(u) : u[j].first \in Cluster
  BY <1>3 DEF TableOK
<1>7. TableOK(u, n)
  BY <1>4, <1>5, <1>6 DEF TableOK
<1>8. DirsIn(u) = DirsIn(t) \ {i}
  BY <1>2, <1>3 DEF DirsIn
<1> QED
  BY <1>2, <1>3, <1>7, <1>8

\* The tree without the entry in slot l, which is no directory with entries.
LEMMA TreeShrinks ==
    ASSUME NEW d, TreeOK(d), NEW l \in Used(d), Bare(d, l), NEW x \in Entries, x.name = "E5",
           NEW e, Put(d, e, l[1], l[2], x)
    PROVE  /\ TreeOK(e) /\ Used(e) = Used(d) \ {l} /\ Homes(e) \subseteq Homes(d)
           /\ \A m \in Used(e) : EntryAt(e, m) = EntryAt(d, m)
           /\ \A p : \A k \in Homes(e) : HomeOf(e, p, k) <=> HomeOf(d, p, k)
           /\ \A k \in Cluster \ Homes(d) : e.sec[k] = d.sec[k]
<1> DEFINE h == l[1]
           i == l[2]
           t == Table(d, h)
           u == Table(e, h)
           n == SizeOf(h)
<1>1. l = <<h, i>> /\ h \in Homes(d) /\ i \in Live(t)
  BY UsedIs
<1>2. TableOK(t, n) /\ n \in Nat /\ DOMAIN t = 1 .. n /\ i \in DOMAIN t
  BY <1>1, HomesAre, LiveIs
<1> HIDE DEF h, i
<1>3. /\ u = [t EXCEPT ![i] = x]
      /\ \A k \in Cluster : k # h => e.sec[k] = d.sec[k]
      /\ h # Root => DOMAIN e.sec[h] = {"slots"} /\ e.root = d.root
      /\ h = Root => e.sec = d.sec
      /\ DOMAIN e.sec = Cluster
  BY <1>1, <1>2, PutIs DEF h, i
<1> HIDE DEF t, u, n
<1>4. u \in [1 .. n -> Entries] /\ u[i] = x /\ \A j \in 1 .. n : j # i => u[j] = t[j]
  BY <1>2, <1>3 DEF TableOK
<1>5. /\ TableOK(u, n) /\ Live(u) = Live(t) \ {i}
      /\ \A j \in Live(u) : u[j] = t[j]
      /\ DirsIn(u) = DirsIn(t) \ {i}
  <2>1. u[i].name = "E5"
    BY <1>4
  <2> QED
    BY <1>1, <1>2, <1>4, <2>1, TableDrops
<1>6. /\ \A k \in Homes(d) : TableOK(Table(d, k), SizeOf(k))
      /\ \A k \in Homes(d) \ {Root} : DirsIn(Table(d, k)) = {} /\ DOMAIN d.sec[k] = {"slots"}
                                     /\ Table(d, k) = d.sec[k].slots
      /\ Homes(d) \subseteq Cluster \cup {Root} /\ Root \in Homes(d)
  BY HomesAre
<1>7. ASSUME NEW k \in Homes(d), k # h PROVE Table(e, k) = Table(d, k)
  <2>1. CASE k = Root
    BY <1>3, <1>7, <2>1 DEF Table
  <2>2. CASE k # Root
    BY <1>3, <1>6, <1>7, <2>2 DEF Table
  <2> QED
    BY <2>1, <2>2
<1>8. /\ TableOK(e.root, RootSlots)
      /\ DirsIn(e.root) = IF h = Root THEN DirsIn(d.root) \ {i} ELSE DirsIn(d.root)
      /\ \A j \in DirsIn(e.root) : j \in DirsIn(d.root) /\ e.root[j] = d.root[j]
  <2>1. CASE h = Root
    <3>1. t = d.root /\ u = e.root /\ n = RootSlots
      BY <2>1 DEF t, u, n, Table, SizeOf
    <3>2. \A j \in DirsIn(e.root) : j \in Live(e.root)
      BY DEF DirsIn
    <3> QED
      BY <1>5, <2>1, <3>1, <3>2
  <2>2. CASE h # Root
    BY <1>3, <2>2 DEF TreeOK
  <2> QED
    BY <2>1, <2>2
<1>9. Homes(e) \subseteq Homes(d) /\ Root \in Homes(e)
  BY <1>8 DEF Homes
<1>10. ASSUME NEW k \in Homes(d), k \notin Homes(e) PROVE Live(Table(d, k)) = {}
  <2>1. k # Root
    BY <1>9, <1>10
  <2>2. PICK j \in DirsIn(d.root) : d.root[j].first = k
    BY <1>10, <2>1, HomesAre
  <2>3. j \notin DirsIn(e.root)
    BY <1>8, <1>10, <2>2 DEF Homes
  <2>4. h = Root /\ j = i
    BY <1>8, <2>2, <2>3
  <2>5. EntryAt(d, l) = d.root[j]
    BY <2>4 DEF EntryAt, Table, h, i
  <2>6. EntryAt(d, l).isDir /\ First(d, l) = k
    BY <2>2, <2>5 DEF DirsIn, First
  <2> QED
    BY <2>6 DEF Bare
<1>11. h \in Homes(e)
  BY <1>1, <1>10 DEF t
<1>12. Used(e) = Used(d) \ {l}
  <2>1. ASSUME NEW m \in Used(e) PROVE m \in Used(d) \ {l}
    <3>1. PICK k \in Homes(e) : \E j \in Live(Table(e, k)) : m = <<k, j>>
      BY DEF Used
    <3>2. PICK j \in Live(Table(e, k)) : m = <<k, j>>
      BY <3>1
    <3>3. k \in Homes(d) /\ j \in Live(Table(d, k)) /\ (k = h => j # i)
      BY <1>5, <1>7, <1>9 DEF t, u
    <3> QED
      BY <1>1, <3>2, <3>3, UsedIs
  <2>2. ASSUME NEW m \in Used(d), m # l PROVE m \in Used(e)
    <3>1. m = <<m[1], m[2]>> /\ m[1] \in Homes(d) /\ m[2] \in Live(Table(d, m[1]))
      BY UsedIs
    <3>2. m[1] \in Homes(e)
      BY <1>10, <3>1
    <3>3. m[2] \in Live(Table(e, m[1]))
      <4>1. CASE m[1] = h
        BY <1>1, <1>5, <2>2, <3>1, <4>1 DEF t, u
      <4>2. CASE m[1] # h
        BY <1>7, <3>1, <4>2
      <4> QED
        BY <4>1, <4>2
    <3>4. \E j \in Live(Table(e, m[1])) : m = <<m[1], j>>
      BY <3>1, <3>3
    <3> QED
      BY <3>2, <3>4 DEF Used
  <2> QED
    BY <2>1, <2>2
<1>13. ASSUME NEW m \in Used(e) PROVE EntryAt(e, m) = EntryAt(d, m)
  <2>1. m \in Used(d) /\ m # l /\ m = <<m[1], m[2]>> /\ m[1] \in Homes(d) /\ m[2] \in Live(Table(d, m[1]))
    BY <1>12, UsedIs
  <2>2. CASE m[1] = h
    BY <1>1, <1>5, <2>1, <2>2 DEF t, u, EntryAt
  <2>3. CASE m[1] # h
    BY <1>7, <2>1, <2>3 DEF EntryAt
  <2> QED
    BY <2>2, <2>3
<1>14. ASSUME NEW p, NEW k \in Homes(e) PROVE HomeOf(e, p, k) <=> HomeOf(d, p, k)
  <2>1. ASSUME NEW j \in DirsIn(d.root), d.root[j].first = k PROVE j \in DirsIn(e.root)
    <3>1. k # Root
      BY <2>1, HomesAre
    <3>2. PICK b \in DirsIn(e.root) : e.root[b].first = k
      BY <3>1 DEF Homes
    <3>3. b = j
      BY <1>8, <2>1, <3>2 DEF TreeOK
    <3> QED
      BY <3>2, <3>3
  <2> QED
    BY <1>8, <2>1 DEF HomeOf
<1>15. TreeOK(e)
  <2>1. ASSUME NEW j \in DirsIn(e.root)
        PROVE  LET y == e.sec[e.root[j].first]
               IN  DOMAIN y = {"slots"} /\ TableOK(y.slots, DirSlots) /\ DirsIn(y.slots) = {}
    <3> DEFINE k == d.root[j].first
    <3>1. k \in Homes(d) \ {Root} /\ e.root[j].first = k
      BY <1>8, HomesAre
    <3> HIDE DEF k
    <3>2. k \in Cluster /\ SizeOf(k) = DirSlots
      BY <1>6, <3>1 DEF SizeOf
    <3>3. CASE k = h
      <4>1. h # Root /\ u = e.sec[h].slots
        BY <3>1, <3>3 DEF Table, u
      <4>2. DirsIn(u) = {}
        BY <1>5, <1>6, <3>1, <3>3 DEF t
      <4> QED
        BY <1>3, <1>5, <3>1, <3>2, <3>3, <4>1, <4>2 DEF n
    <3>4. CASE k # h
      <4>1. e.sec[k] = d.sec[k]
        BY <1>3, <3>2, <3>4
      <4> QED
        BY <1>6, <3>1, <3>2, <4>1
    <3> QED
      BY <3>3, <3>4
  <2>2. \A j, k \in DirsIn(e.root) : e.root[j].first = e.root[k].first => j = k
    BY <1>8 DEF TreeOK
  <2> QED
    BY <1>3, <1>8, <2>1, <2>2 DEF TreeOK
<1>16. \A k \in Cluster \ Homes(d) : e.sec[k] = d.sec[k]
  BY <1>1, <1>3
<1> QED
  BY <1>9, <1>12, <1>13, <1>14, <1>15, <1>16

\* The paths below an entry that is a file or an empty directory.
LEMMA PrefixIs ==
    ASSUME NEW p \in Path, NEW q \in Path
    PROVE  IsPrefix(p, q) <=> p = q \/ (Len(p) = 1 /\ Len(q) = 2 /\ p[1] = q[1])
<1>1. ASSUME NEW s \in Path
      PROVE  s \in Seq(Name) /\ (Len(s) = 1 \/ Len(s) = 2)
  <2>1. \A n \in Name : <<n>> \in Seq(Name)
    OBVIOUS
  <2>2. \A m, n \in Name : <<m, n>> \in Seq(Name)
    OBVIOUS
  <2> QED
    BY <2>1, <2>2, PathIs DEF Path
<1>2. ASSUME NEW s \in Path, NEW k \in 1 .. Len(s)
      PROVE  /\ SubSeq(s, 1, k) \in Seq(Name) /\ Len(SubSeq(s, 1, k)) = k
             /\ \A i \in 1 .. k : SubSeq(s, 1, k)[i] = s[i]
  BY <1>1
<1>3. IsPrefix(p, q) <=> Len(p) <= Len(q) /\ SubSeq(p, 1, Len(p)) = SubSeq(q, 1, Len(p))
  BY DEF IsPrefix
<1>4. CASE Len(p) = 1
  <2>1. 1 \in 1 .. Len(p) /\ 1 \in 1 .. Len(q) /\ 1 .. 1 = {1} /\ Len(p) <= Len(q)
    BY <1>1, <1>4
  <2>2. SubSeq(p, 1, 1) = SubSeq(q, 1, 1) => p[1] = q[1]
    BY <1>2, <2>1
  <2>3. p[1] = q[1] => SubSeq(p, 1, 1) = SubSeq(q, 1, 1)
    BY <1>2, <2>1, SeqEqual
  <2>4. Len(q) = 1 => (p[1] = q[1] <=> p = q)
    BY <1>4, PathIs
  <2>5. Len(q) = 2 => p # q
    BY <1>4
  <2> QED
    BY <1>1, <1>3, <1>4, <2>1, <2>2, <2>3, <2>4, <2>5
<1>5. CASE Len(p) = 2
  <2>1. CASE Len(q) = 2
    <3>1. 2 \in 1 .. Len(p) /\ 2 \in 1 .. Len(q) /\ 1 \in 1 .. 2 /\ 2 \in 1 .. 2 /\ Len(p) <= Len(q)
      BY <1>5, <2>1
    <3>2. SubSeq(p, 1, 2) = SubSeq(q, 1, 2) => p[1] = q[1] /\ p[2] = q[2]
      BY <1>2, <3>1
    <3>3. p[1] = q[1] /\ p[2] = q[2] => p = q
      BY <1>5, <2>1, PathIs
    <3> QED
      BY <1>3, <1>5, <3>1, <3>2, <3>3
  <2>2. CASE Len(q) = 1
    BY <1>3, <1>5, <2>2
  <2> QED
    BY <1>1, <2>1, <2>2
<1> QED
  BY <1>1, <1>4, <1>5

LEMMA MarkDeletedHolds ==
    ASSUME IInv, MarkDeleted, UNCHANGED lost
    PROVE  Holding(NextDisk, op', expect', lost')
<1> DEFINE d == Disk
           e == NextDisk
           l == op.loc
           x == [At(l) EXCEPT !.name = "E5"]
           gone == {p \in DOMAIN expect : IsPrefix(op.path, p)}
<1>1. /\ TreeOK(d) /\ ChainsOK(d) /\ AllocationOK(d, op, lost) /\ FilesOK(d, op, expect)
      /\ DeleteOK(d, op)
  BY InvIs, Kinds DEF MarkDeleted
<1>2. /\ op.kind = "delete" /\ op.cur \notin Cluster
      /\ PutSlot(l[1], l[2], x) /\ op' = Idle
      /\ expect' = [p \in DOMAIN expect \ gone |-> expect[p]] /\ lost' = lost
  BY DEF MarkDeleted
<1>3. /\ l \in Used(d) /\ Leads(d, op.path, l) /\ Bare(d, l) /\ op.path \in Path
      /\ Half(d) \subseteq {l} /\ (op.cur = First(d, l) \/ Half(d) = {l})
  BY <1>1 DEF DeleteOK
<1>4. /\ l = <<l[1], l[2]>> /\ l[1] \in Homes(d) /\ l[2] \in Live(Table(d, l[1]))
      /\ First(d, l) \in Cluster /\ EntryAt(d, l) \in Entries /\ At(l) = EntryAt(d, l)
  BY <1>1, <1>3, UsedIs, SlotsAre
<1>5. Half(d) = {l}
  BY <1>2, <1>3, <1>4
<1>6. x \in Entries /\ x.name = "E5"
  BY <1>4 DEF Entries
<1>7. Put(d, e, l[1], l[2], x)
  BY <1>2, DiskIs DEF PutSlot, Put
<1> HIDE DEF d, e, l, x
<1>8. /\ TreeOK(e) /\ Used(e) = Used(d) \ {l} /\ Homes(e) \subseteq Homes(d)
      /\ \A m \in Used(e) : EntryAt(e, m) = EntryAt(d, m)
      /\ \A p : \A k \in Homes(e) : HomeOf(e, p, k) <=> HomeOf(d, p, k)
      /\ \A k \in Cluster \ Homes(d) : e.sec[k] = d.sec[k]
  BY <1>1, <1>3, <1>6, <1>7, TreeShrinks
<1>9. e.fat = d.fat
  BY <1>7 DEF Put
<1>10. \A m \in Used(e) : m \in Used(d) /\ m # l /\ First(e, m) = First(d, m) /\ Own(e, m) = Own(d, m)
  BY <1>8, <1>9 DEF First, Own
<1>11. ChainsOK(e)
  BY <1>1, <1>9, <1>10 DEF ChainsOK
<1>12. Half(e) = {}
  BY <1>5, <1>9, <1>10 DEF Half
<1>13. Owned(d) = Owned(e) \cup {First(d, l)}
  <2>1. d.fat[First(d, l)] = FREE /\ Sound(d.fat, First(d, l))
    BY <1>1, <1>3, <1>5 DEF Half, ChainsOK
  <2>2. Own(d, l) = {First(d, l)}
    BY <1>4, <2>1, SoundIs DEF Own
  <2> QED
    BY <1>3, <1>8, <1>10, <2>2 DEF Owned
<1>14. AllocationOK(e, op', lost)
  <2>1. Extra(d, op) = {} /\ Extra(e, op') = {}
    BY <1>2 DEF Extra, Idle
  <2>2. First(d, l) \notin Allocated(d) /\ Allocated(e) = Allocated(d)
    BY <1>5, <1>9 DEF Allocated, Half
  <2> QED
    BY <1>1, <1>13, <2>1, <2>2 DEF AllocationOK
<1>15. \A p : \A m \in Used(e) : Leads(e, p, m) <=> Leads(d, p, m)
  <2>1. \A m \in Used(e) : m[1] \in Homes(e)
    BY <1>8, UsedIs
  <2> QED
    BY <1>8, <2>1 DEF Leads
<1>16. DOMAIN expect = {p \in Path : \E m \in Used(d) : Leads(d, p, m) /\ ~EntryAt(d, m).isDir}
  BY <1>1 DEF FilesOK
<1>17. ASSUME NEW p \in Path, NEW m \in Used(d), Leads(d, p, m), ~EntryAt(d, m).isDir
       PROVE  IsPrefix(op.path, p) <=> m = l
  <2>1. CASE p = op.path
    <3>1. m = l
      BY <1>1, <1>3, <1>17, <2>1, LeadsUnique
    <3> QED
      BY <2>1, <3>1, PrefixIs
  <2>2. CASE p # op.path
    <3>1. m # l
      BY <1>1, <1>3, <1>17, <2>2, LeadsUnique
    <3>2. ASSUME Len(op.path) = 1, Len(p) = 2, op.path[1] = p[1] PROVE FALSE
      <4>1. m[1] \in Homes(d) /\ m[2] \in Live(Table(d, m[1])) /\ HomeOf(d, p, m[1])
        BY <1>1, <1>17, UsedIs DEF Leads
      <4>2. PICK i \in DirsIn(d.root) : d.root[i].name = p[1] /\ d.root[i].first = m[1]
        BY <3>2, <4>1 DEF HomeOf
      <4>3. l[1] = Root /\ EntryAt(d, l).name = op.path[1]
        BY <1>3, <3>2 DEF Leads, HomeOf
      <4>4. Table(d, Root) = d.root /\ TableOK(d.root, RootSlots) /\ i \in Live(d.root) /\ d.root[i].isDir
        BY <1>1 DEF Table, TreeOK, DirsIn
      <4>5. l[2] \in Live(d.root) /\ d.root[l[2]] = EntryAt(d, l)
        BY <1>4, <4>3, <4>4 DEF EntryAt
      <4>6. l[2] = i
        BY <3>2, <4>2, <4>3, <4>4, <4>5 DEF TableOK
      <4>7. EntryAt(d, l).isDir /\ First(d, l) = m[1]
        BY <4>2, <4>4, <4>5, <4>6 DEF First
      <4> QED
        BY <1>3, <4>1, <4>7 DEF Bare
    <3> QED
      BY <1>3, <2>2, <3>1, <3>2, PrefixIs
  <2> QED
    BY <2>1, <2>2
<1>18. DOMAIN expect' = DOMAIN expect \ gone /\ \A p \in DOMAIN expect \ gone : expect'[p] = expect[p]
  BY <1>2
<1>19. DOMAIN expect' = {p \in Path : \E m \in Used(e) : Leads(e, p, m) /\ ~EntryAt(e, m).isDir}
  <2>1. ASSUME NEW p \in DOMAIN expect \ gone
        PROVE  p \in Path /\ \E m \in Used(e) : Leads(e, p, m) /\ ~EntryAt(e, m).isDir
    <3>1. PICK m \in Used(d) : Leads(d, p, m) /\ ~EntryAt(d, m).isDir
      BY <1>16
    <3>2. m \in Used(e)
      BY <1>8, <1>16, <1>17, <3>1
    <3> QED
      BY <1>8, <1>15, <1>16, <3>1, <3>2
  <2>2. ASSUME NEW p \in Path, NEW m \in Used(e), Leads(e, p, m), ~EntryAt(e, m).isDir
        PROVE  p \in DOMAIN expect \ gone
    <3>1. m \in Used(d) /\ m # l /\ Leads(d, p, m) /\ ~EntryAt(d, m).isDir
      BY <1>8, <1>10, <1>15, <2>2
    <3>2. p \in DOMAIN expect /\ ~IsPrefix(op.path, p)
      BY <1>16, <1>17, <3>1
    <3> QED
      BY <3>2
  <2> HIDE DEF gone
  <2> QED
    BY <1>18, <2>1, <2>2
<1>20. FilesOK(e, op', expect')
  <2>1. ASSUME NEW p \in DOMAIN expect', NEW m \in Used(e) \ Half(e), Leads(e, p, m)
        PROVE  /\ EntryAt(e, m).size = expect'[p].size
               /\ Shows(e, Walk(e.fat, First(e, m)), ByNow(e, op', expect', p))
    <3>1. p \in DOMAIN expect /\ expect'[p] = expect[p] /\ p \in Path
      BY <1>16, <1>18
    <3>2. m \in Used(d) \ Half(d) /\ Leads(d, p, m) /\ EntryAt(e, m) = EntryAt(d, m)
          /\ First(e, m) = First(d, m)
      BY <1>5, <1>8, <1>10, <1>15, <2>1
    <3>3. ~EntryAt(d, m).isDir
      <4>1. PICK k \in Used(d) : Leads(d, p, k) /\ ~EntryAt(d, k).isDir
        BY <1>16, <3>1
      <4> QED
        BY <1>1, <3>1, <3>2, <4>1, LeadsUnique
    <3> DEFINE s == Walk(d.fat, First(d, m))
               b == ByNow(d, op, expect, p)
    <3>4. EntryAt(d, m).size = expect[p].size /\ Shows(d, s, b)
      BY <1>1, <3>1, <3>2 DEF FilesOK
    <3>5. First(d, m) \in Cluster /\ Sound(d.fat, First(d, m))
      BY <1>1, <3>2, UsedIs DEF ChainsOK
    <3>6. Len(s) \in Nat /\ \A k \in 1 .. Len(s) : s[k] \in Own(d, m)
      BY <3>5, SoundIs DEF Own
    <3>7. \A k \in 1 .. Len(s) : e.sec[s[k]] = d.sec[s[k]]
      BY <1>1, <1>8, <3>2, <3>3, <3>6, FileApart, HomesOwned
    <3>8. ByNow(e, op', expect', p) = b
      BY <1>2, <3>1 DEF ByNow, Idle
    <3>9. Walk(e.fat, First(e, m)) = s
      BY <1>9, <3>2
    <3> HIDE DEF s, b
    <3>10. Shows(e, s, b)
      BY <3>4, <3>6, <3>7, ShowsSame
    <3> QED
      BY <3>1, <3>2, <3>4, <3>8, <3>9, <3>10
  <2>2. \A p \in DOMAIN expect' : FileOK(expect'[p])
    BY <1>1, <1>18 DEF FilesOK
  <2> QED
    BY <1>19, <2>1, <2>2 DEF FilesOK
<1>21. IdleOK(e, op')
  BY <1>2, <1>12 DEF IdleOK
<1> QED
  BY <1>2, <1>8, <1>11, <1>14, <1>20, <1>21 DEF Holding, OpOK, e

----------------------------------------------------------------------------
(* Writing *)

LEMMA WritingHolds ==
    ASSUME IInv, op = Idle, NEW path \in Path, NEW off \in Nat, NEW data \in Data,
           Resolve(path) # None, ~At(Resolve(path)).isDir, Writing(path, Resolve(path), off, data),
           UNCHANGED <<fat, root, sec, expect, lost>>
    PROVE  Holding(NextDisk, op', expect', lost')
<1> DEFINE d == Disk
           l == Resolve(path)
           s == Walk(d.fat, First(d, l))
           f == expect[path]
<1>1. /\ TreeOK(d) /\ ChainsOK(d) /\ AllocationOK(d, op, lost) /\ FilesOK(d, op, expect)
      /\ op.kind = "idle" /\ IdleOK(d, op)
  BY InvIs, Kinds DEF Idle
<1>2. Leads(d, path, l) /\ l \in Used(d)
  BY <1>1, ResolveIs DEF Leads
<1>3. At(l) = EntryAt(d, l) /\ First(d, l) \in Cluster
  BY <1>1, <1>2, SlotsAre, UsedIs
<1>4. path \in DOMAIN expect /\ FileOK(f) /\ Half(d) = {}
  BY <1>1, <1>2, <1>3 DEF FilesOK, IdleOK
<1>5. Shows(d, s, f.byte)
  BY <1>1, <1>2, <1>4 DEF FilesOK, ByNow
<1>6. Sound(d.fat, First(d, l))
  BY <1>1, <1>2 DEF ChainsOK
<1>7. Len(s) \in Nat /\ Len(s) >= 1
  BY <1>3, <1>6, SoundIs
<1>8. Len(s) = Clusters(f)
  <2>1. Sec * Len(s) = Sec * Clusters(f) /\ Clusters(f) \in Nat
    BY <1>4, <1>5, FileIs DEF Shows
  <2>2. Sec * Len(s) + 0 = Sec * Clusters(f) + 0 /\ 0 \in 0 .. Sec - 1
    BY <2>1, SecIs
  <2> QED
    BY <1>7, <2>1, <2>2, PlaceUnique
<1>9. op' = [kind |-> "write", path |-> path, loc |-> l,
             cur |-> s[Min({(off \div Sec) + 1, Clusters(f)})],
             step |-> "data", pos |-> 0, next |-> EOC, off |-> off, data |-> data]
  <2>1. Chain(At(l).first) = s
    BY <1>3, DiskIs DEF Chain, Walk, First
  <2> QED
    BY <1>8, <2>1 DEF Writing, SeekCluster
<1>10. NextDisk = d
  BY DiskSame
<1> HIDE DEF d, l, s, f
<1>11. WriteOK(d, op', expect)
  BY <1>2, <1>3, <1>4, <1>6, <1>8, <1>9, WriteBegins DEF s, f
<1>12. AllocationOK(d, op', lost)
  <2>1. Extra(d, op) = {} /\ Extra(d, op') = {}
    BY <1>1, <1>9 DEF Extra
  <2> QED
    BY <1>1, <2>1 DEF AllocationOK
<1>13. FilesOK(d, op', expect)
  <2>1. \A p : p # path => ByNow(d, op', expect, p) = ByNow(d, op, expect, p)
    BY <1>1, <1>9 DEF ByNow
  <2>2. ByNow(d, op', expect, path) = Landed(f, off, SubSeq(data, 1, 0), Clusters(f))
    BY <1>8, <1>9 DEF ByNow, f, s
  <2> DEFINE b == ByNow(d, op', expect, path)
  <2>3. Len(b) = Len(f.byte) /\ \A i \in 1 .. Sec * Clusters(f) : b[i] = f.byte[i]
    BY <1>4, <2>2, LandedNothing
  <2> HIDE DEF b
  <2>4. Shows(d, s, b)
    BY <1>5, <1>7, <1>8, <2>3, ShowsSame
  <2>5. \A m : Leads(d, path, m) => m = l
    BY <1>1, <1>2, LeadsUnique
  <2>6. ASSUME NEW p \in DOMAIN expect, NEW m \in Used(d) \ Half(d), Leads(d, p, m)
        PROVE  /\ EntryAt(d, m).size = expect[p].size
               /\ Shows(d, Walk(d.fat, First(d, m)), ByNow(d, op', expect, p))
    <3>1. /\ EntryAt(d, m).size = expect[p].size
          /\ Shows(d, Walk(d.fat, First(d, m)), ByNow(d, op, expect, p))
      BY <1>1, <2>6 DEF FilesOK
    <3>2. CASE p = path
      BY <2>4, <2>5, <2>6, <3>1, <3>2 DEF s, b
    <3>3. CASE p # path
      BY <2>1, <3>1, <3>3
    <3> QED
      BY <3>2, <3>3
  <2> QED
    BY <1>1, <2>6 DEF FilesOK
<1> QED
  BY <1>1, <1>10, <1>11, <1>12, <1>13 DEF Holding, OpOK, d

LEMMA WriteIs ==
    ASSUME NEW d, TreeOK(d), ChainsOK(d), NEW o, NEW ex, FilesOK(d, o, ex), WriteOK(d, o, ex)
    PROVE  LET l == o.loc
               s == Walk(d.fat, First(d, l))
               f == ex[o.path]
           IN  /\ o.kind = "write" /\ l \in Used(d) /\ Leads(d, o.path, l) /\ Half(d) = {}
               /\ o.path \in DOMAIN ex /\ FileOK(f)
               /\ o.off \in Nat /\ o.data \in Data /\ Len(o.data) \in Nat
               /\ o.pos \in Nat /\ o.pos <= Len(o.data) /\ o.cur \in Cluster
               /\ Seek(f, o.off) \in Nat
               /\ ~EntryAt(d, l).isDir /\ EntryAt(d, l).size = f.size
               /\ First(d, l) \in Cluster /\ Own(d, l) = Range(s) /\ Chained(d.fat, First(d, l), s)
               /\ Len(s) \in Nat \ {0} /\ s \in [1 .. Len(s) -> Cluster]
               /\ Shows(d, s, Landed(f, o.off, SubSeq(o.data, 1, o.pos), Len(s)))
<1> DEFINE l == o.loc
           s == Walk(d.fat, First(d, l))
           f == ex[o.path]
<1>1. /\ o \in [kind : {"write"}, path : DOMAIN ex, loc : Used(d), cur : Cluster,
                step : {"data", "next", "link"}, pos : Nat, next : Cluster \cup {FREE, EOC},
                off : Nat, data : Data]
      /\ Half(d) = {} /\ Leads(d, o.path, l) /\ o.pos <= Len(o.data)
  BY DEF WriteOK
<1>2. /\ o.kind = "write" /\ l \in Used(d) /\ o.path \in DOMAIN ex /\ o.cur \in Cluster
      /\ o.off \in Nat /\ o.data \in Data /\ o.pos \in Nat
  BY <1>1
<1>3. FileOK(f) /\ o.path \in Path
  BY <1>2 DEF FilesOK
<1>4. Len(o.data) \in Nat /\ Seek(f, o.off) \in Nat
  BY <1>2, <1>3, DataIs, SeekIs
<1>5. ~EntryAt(d, l).isDir
  <2>1. PICK k \in Used(d) : Leads(d, o.path, k) /\ ~EntryAt(d, k).isDir
    BY <1>2 DEF FilesOK
  <2> QED
    BY <1>1, <1>3, <2>1, LeadsUnique
<1>6. EntryAt(d, l).size = f.size /\ Shows(d, s, ByNow(d, o, ex, o.path))
  BY <1>1, <1>2 DEF FilesOK
<1>7. ByNow(d, o, ex, o.path) = Landed(f, o.off, SubSeq(o.data, 1, o.pos), Len(s))
  BY <1>2 DEF ByNow
<1>8. First(d, l) \in Cluster /\ Sound(d.fat, First(d, l)) /\ d.fat[First(d, l)] # FREE
  BY <1>1, <1>2, UsedIs DEF ChainsOK, Half
<1>9. /\ Own(d, l) = Range(s) /\ Chained(d.fat, First(d, l), s)
      /\ Len(s) \in Nat /\ Len(s) >= 1 /\ s \in [1 .. Len(s) -> Cluster]
  BY <1>8, SoundIs DEF Own
<1> HIDE DEF l, s, f
<1>10. Shows(d, s, Landed(f, o.off, SubSeq(o.data, 1, o.pos), Len(s)))
  BY <1>6, <1>7
<1> QED
  BY <1>1, <1>2, <1>3, <1>4, <1>5, <1>6, <1>8, <1>9, <1>10 DEF l, s, f

\* From d to e a write to the file in slot l goes on from o to q; other files
\* keep their clusters and what is in them.
Rewritten(d, o, ex, e, q, gx, l) ==
    /\ Used(e) = Used(d) /\ Half(d) = {}
    /\ \A p, m : Leads(e, p, m) <=> Leads(d, p, m)
    /\ \A m \in Used(d) : EntryAt(e, m).isDir = EntryAt(d, m).isDir
    /\ \A m \in Used(d) \ {l} :
          /\ EntryAt(e, m) = EntryAt(d, m) /\ Walk(e.fat, First(e, m)) = Walk(d.fat, First(d, m))
          /\ \A c \in Own(d, m) \ Homes(d) : e.sec[c] = d.sec[c]
    /\ o.kind = "write" /\ o.path \in DOMAIN ex /\ Leads(d, o.path, l)
    /\ q.kind = "write" => q.path = o.path
    /\ DOMAIN gx = DOMAIN ex /\ \A p \in DOMAIN ex : p # o.path => gx[p] = ex[p]
    /\ FileOK(gx[o.path]) /\ EntryAt(e, l).size = gx[o.path].size
    /\ Shows(e, Walk(e.fat, First(e, l)), ByNow(e, q, gx, o.path))

LEMMA FilesWrite ==
    ASSUME NEW d, TreeOK(d), ChainsOK(d), NEW o, NEW ex, FilesOK(d, o, ex),
           NEW e, NEW q, NEW gx, NEW l, Rewritten(d, o, ex, e, q, gx, l)
    PROVE  FilesOK(e, q, gx)
<1> USE DEF Rewritten
<1>1. DOMAIN ex = {p \in Path : \E m \in Used(d) : Leads(d, p, m) /\ ~EntryAt(d, m).isDir}
  BY DEF FilesOK
<1>2. DOMAIN gx = {p \in Path : \E m \in Used(e) : Leads(e, p, m) /\ ~EntryAt(e, m).isDir}
  BY <1>1
<1>3. \A p \in DOMAIN gx : FileOK(gx[p])
  BY DEF FilesOK
<1>4. ASSUME NEW p \in DOMAIN gx, NEW m \in Used(e) \ Half(e), Leads(e, p, m)
      PROVE  /\ EntryAt(e, m).size = gx[p].size
             /\ Shows(e, Walk(e.fat, First(e, m)), ByNow(e, q, gx, p))
  <2>1. p \in Path /\ p \in DOMAIN ex /\ Leads(d, p, m) /\ m \in Used(d) /\ o.path \in Path
    BY <1>1, <1>4
  <2>2. CASE m = l
    <3>1. p = o.path
      BY <2>1, <2>2, LeadsUnique
    <3> QED
      BY <2>2, <3>1
  <2>3. CASE m # l
    <3>1. p # o.path
      BY <2>1, <2>3, LeadsUnique
    <3>2. gx[p] = ex[p] /\ EntryAt(e, m) = EntryAt(d, m)
      BY <2>1, <2>3, <3>1
    <3>3. ~EntryAt(d, m).isDir
      <4>1. PICK k \in Used(d) : Leads(d, p, k) /\ ~EntryAt(d, k).isDir
        BY <1>1, <2>1
      <4> QED
        BY <2>1, <4>1, LeadsUnique
    <3> DEFINE s == Walk(d.fat, First(d, m))
               b == ByNow(d, o, ex, p)
    <3>4. EntryAt(d, m).size = ex[p].size /\ Shows(d, s, b)
      BY <2>1 DEF FilesOK
    <3>5. First(d, m) \in Cluster /\ Sound(d.fat, First(d, m))
      BY <2>1, UsedIs DEF ChainsOK
    <3>6. Len(s) \in Nat /\ \A k \in 1 .. Len(s) : s[k] \in Own(d, m)
      BY <3>5, SoundIs DEF Own
    <3>7. Own(d, m) \cap Homes(d) = {}
      BY <2>1, <3>3, FileApart
    <3>8. \A k \in 1 .. Len(s) : e.sec[s[k]] = d.sec[s[k]]
      BY <2>1, <2>3, <3>6, <3>7
    <3>9. ByNow(e, q, gx, p) = b
      BY <3>1, <3>2 DEF ByNow
    <3>10. Walk(e.fat, First(e, m)) = s
      BY <2>1, <2>3
    <3> HIDE DEF s, b
    <3>11. Shows(e, s, b)
      BY <3>4, <3>6, <3>8, ShowsSame
    <3> QED
      BY <3>2, <3>4, <3>9, <3>10, <3>11
  <2> QED
    BY <2>2, <2>3
<1> QED
  BY <1>2, <1>3, <1>4 DEF FilesOK

\* What is left of the sector or of the data.
ChunkOf(off, pos, len) == Min({Sec - ((off + pos) % Sec), len - pos})
ChunkFits(off, pos, len, n) ==
    /\ n \in Nat /\ n >= 1 /\ (off + pos) % Sec \in 0 .. Sec - 1
    /\ ((off + pos) % Sec) + n <= Sec /\ pos + n <= len
    /\ pos + n < len => n = Sec - ((off + pos) % Sec) /\ (off + (pos + n)) % Sec = 0
LEMMA ChunkIs ==
    ASSUME NEW off \in Nat, NEW pos \in Nat, NEW len \in Nat, pos < len,
           NEW n, n = ChunkOf(off, pos, len)
    PROVE  ChunkFits(off, pos, len, n)
<1> DEFINE r == (off + pos) % Sec
           q == (off + pos) \div Sec
<1>1. Sec \in Nat \ {0} /\ off + pos \in Nat /\ off + pos \in Int
  BY SecIs
<1>2. q \in Nat /\ off + pos = Sec * q + r
  BY <1>1, Division
<1>3. r \in 0 .. Sec - 1
  BY <1>1, Wrapped
<1> HIDE DEF r, q
<1>4. Sec - r \in Nat /\ Sec - r >= 1 /\ len - pos \in Nat /\ len - pos >= 1
  BY <1>1, <1>3
<1>5. n = IF Sec - r <= len - pos THEN Sec - r ELSE len - pos
  BY <1>4, PairMin DEF r, ChunkOf
<1>6. n \in Nat /\ n >= 1 /\ r + n <= Sec /\ pos + n <= len /\ (pos + n < len => n = Sec - r)
  BY <1>1, <1>3, <1>4, <1>5
<1>7. ASSUME n = Sec - r PROVE (off + (pos + n)) % Sec = 0
  <2>1. Sec * (q + 1) = Sec * q + Sec /\ Sec * q \in Nat
    BY <1>1, <1>2, Naturals2
  <2>2. off + (pos + n) = Sec * (q + 1)
    BY <1>1, <1>2, <1>3, <1>6, <1>7, <2>1
  <2>3. q + 1 \in Nat
    BY <1>2
  <2> QED
    BY <2>2, <2>3, WholeSectors
<1> QED
  BY <1>3, <1>6, <1>7 DEF r, ChunkFits

\* Where the bytes of a chunk land: n of them from r on in cluster k.
Hits(f, off, data, pos, n, size, k, r) ==
    /\ FileOK(f) /\ off \in Nat /\ data \in Data /\ pos \in Nat /\ n \in Nat
    /\ n >= 1 /\ pos + n <= Len(data) /\ size \in Nat \ {0} /\ k \in 1 .. size
    /\ r \in 0 .. Sec - 1 /\ r + n <= Sec /\ Seek(f, off) + pos = Sec * (k - 1) + r
LEMMA ChunkLands ==
    ASSUME NEW f, NEW off, NEW data, NEW pos, NEW n, NEW size, NEW k, NEW r,
           Hits(f, off, data, pos, n, size, k, r), NEW m \in 1 .. size, NEW v \in 0 .. Sec - 1
    PROVE  LET i == Sec * (m - 1) + v + 1
               b == Landed(f, off, SubSeq(data, 1, pos + n), size)
           IN  IF m = k /\ v \in r .. r + n - 1 THEN b[i] = data[pos + (v - r) + 1]
               ELSE b[i] = Landed(f, off, SubSeq(data, 1, pos), size)[i]
<1> DEFINE i == Sec * (m - 1) + v + 1
           now == SubSeq(data, 1, pos + n)
           old == SubSeq(data, 1, pos)
           start == Seek(f, off)
           b == Landed(f, off, now, size)
           a == Landed(f, off, old, size)
           base == Sec * (k - 1)
           mine == Sec * (m - 1)
<1>0. /\ FileOK(f) /\ off \in Nat /\ data \in Data /\ pos \in Nat /\ n \in Nat
      /\ n >= 1 /\ pos + n <= Len(data) /\ size \in Nat \ {0} /\ k \in 1 .. size
      /\ r \in 0 .. Sec - 1 /\ r + n <= Sec /\ Seek(f, off) + pos = Sec * (k - 1) + r
  BY DEF Hits
<1> USE <1>0
<1>1. /\ Len(data) \in Nat /\ pos \in 0 .. Len(data) /\ pos + n \in 0 .. Len(data)
      /\ pos + n \in Nat
  BY DataIs
<1>2. /\ \A j \in 1 .. pos + n : now[j] = data[j]
      /\ \A j \in 1 .. pos : old[j] = data[j]
  BY <1>1, DataIs
<1>10. DOMAIN now = 1 .. pos + n
  BY <1>1, DataIs
<1>11. DOMAIN old = 1 .. pos
  BY <1>1, DataIs
<1>12. pos + n \in Nat
  OBVIOUS
<1>3. i \in 1 .. Sec * size /\ mine \in Nat
  BY Place
<1>4. base \in Nat /\ start \in Nat /\ Sec \in Nat \ {0} /\ start + pos = base + r
  BY Place, SeekIs, SecIs
<1>5. i = mine + v + 1
  OBVIOUS
<1> HIDE DEF i, now, old, start
<1>6. \A j \in 1 .. Sec * size :
         b[j] = IF j - start \in 1 .. pos + n THEN now[j - start]
                ELSE IF j \in 1 .. Sec * Clusters(f) THEN f.byte[j] ELSE Stale
  <2>1. Lands(f, off, now, pos + n, size)
    BY <1>10, <1>12, LandedIs
  <2> QED
    BY <2>1 DEF Lands, start
<1>7. \A j \in 1 .. Sec * size :
         a[j] = IF j - start \in 1 .. pos THEN old[j - start]
                ELSE IF j \in 1 .. Sec * Clusters(f) THEN f.byte[j] ELSE Stale
  <2>1. Lands(f, off, old, pos, size)
    BY <1>11, LandedIs
  <2> QED
    BY <2>1 DEF Lands, start
<1> HIDE DEF a, b
<1>8. CASE m = k /\ v \in r .. r + n - 1
  <2>1. mine = base
    BY <1>8
  <2> HIDE DEF mine, base
  <2>2. i - start = pos + (v - r) + 1 /\ i - start \in 1 .. pos + n
    BY <1>3, <1>4, <1>5, <1>8, <2>1
  <2>3. b[i] = now[i - start] /\ now[i - start] = data[i - start]
    BY <1>2, <1>3, <1>6, <2>2
  <2> QED
    BY <1>8, <2>2, <2>3 DEF i, b, now
<1>9. CASE ~(m = k /\ v \in r .. r + n - 1)
  <2>1. ~(i - start \in pos + 1 .. pos + n)
    <3> SUFFICES ASSUME i - start \in pos + 1 .. pos + n PROVE FALSE
      OBVIOUS
    <3> DEFINE w == i - 1 - base
    <3> HIDE DEF mine, base
    <3>1. w \in r .. r + n - 1 /\ w \in 0 .. Sec - 1 /\ base + w = mine + v
      BY <1>3, <1>4, <1>5
    <3> HIDE DEF w
    <3>2. k - 1 \in Nat /\ m - 1 \in Nat
      OBVIOUS
    <3>3. Sec * (k - 1) + w = Sec * (m - 1) + v
      BY <3>1 DEF mine, base
    <3>4. k - 1 = m - 1 /\ w = v
      BY <3>1, <3>2, <3>3, PlaceUnique
    <3> QED
      BY <1>9, <3>1, <3>4
  <2> HIDE DEF mine, base
  <2>2. i \in Int /\ start \in Int
    BY <1>3, <1>4, <1>5
  <2>3. i - start \in 1 .. pos + n <=> i - start \in 1 .. pos
    BY <1>1, <2>1, <2>2
  <2>4. i - start \in 1 .. pos => now[i - start] = old[i - start]
    BY <1>2, <2>3
  <2>5. b[i] = a[i]
    BY <1>3, <1>6, <1>7, <2>3, <2>4
  <2> QED
    BY <1>9, <2>5 DEF i, a, b, now, old
<1> QED
  BY <1>8, <1>9

\* A write goes on with the bytes of the next cluster of the chain.
NextCur(o, q) == q = [o EXCEPT !.cur = o.next, !.step = "data"] /\ o.next \in Cluster

LEMMA DataStep ==
    ASSUME NEW d, NEW o, NEW ex, WriteOK(d, o, ex), o.step # "data", FileOK(ex[o.path]),
           NEW e, SameTree(d, e), Half(e) = {}, NEW q,
           NextCur(o, q), NEW t, t = Walk(e.fat, First(e, o.loc)),
           NEW k \in Nat, Seek(ex[o.path], o.off) + o.pos = Sec * k,
           k + 1 \in 1 .. Len(t), t[k + 1] = o.next,
           Len(t) = IF Clusters(ex[o.path]) < k + 1 THEN k + 1 ELSE Clusters(ex[o.path])
    PROVE  WriteOK(e, q, ex)
<1> DEFINE f == ex[o.path]
<1>1. /\ o \in [kind : {"write"}, path : DOMAIN ex, loc : Used(d), cur : Cluster,
                step : {"data", "next", "link"}, pos : Nat, next : Cluster \cup {FREE, EOC},
                off : Nat, data : Data]
      /\ Leads(d, o.path, o.loc) /\ o.pos < Len(o.data) /\ o.pos <= Len(o.data)
      /\ (o.off + o.pos) % Sec = 0
  BY DEF WriteOK
<1>2. /\ q \in [kind : {"write"}, path : DOMAIN ex, loc : Used(d), cur : Cluster,
                step : {"data", "next", "link"}, pos : Nat, next : Cluster \cup {FREE, EOC},
                off : Nat, data : Data]
      /\ q.path = o.path /\ q.loc = o.loc /\ q.cur = o.next /\ q.step = "data"
      /\ q.pos = o.pos /\ q.off = o.off /\ q.data = o.data
  BY <1>1 DEF NextCur
<1>3. Used(e) = Used(d) /\ Leads(e, q.path, q.loc)
  BY <1>1, <1>2 DEF SameTree
<1>4. q.pos < Len(q.data) /\ q.pos <= Len(q.data)
  BY <1>1, <1>2
<1>5. o.pos # Len(o.data)
  BY <1>1, DataIs
<1>6. k + 1 \in 1 .. Len(t) /\ t[k + 1] = o.next
      /\ Len(t) = IF Clusters(f) < k + 1 THEN k + 1 ELSE Clusters(f)
  OBVIOUS
<1>7. Seek(f, o.off) + o.pos = Sec * ((k + 1) - 1) + ((o.off + o.pos) % Sec)
  <2>1. Sec * k \in Nat /\ (k + 1) - 1 = k
    BY SecIs, Naturals2
  <2> QED
    BY <1>1, <2>1
<1> HIDE DEF f
<1>8. \E j \in 1 .. Len(t) :
         /\ q.cur = t[j] /\ Seek(f, q.off) + q.pos = Sec * (j - 1) + ((q.off + q.pos) % Sec)
         /\ Len(t) = IF Clusters(f) < j THEN j ELSE Clusters(f)
  <2>1. /\ q.cur = t[k + 1]
        /\ Seek(f, q.off) + q.pos = Sec * ((k + 1) - 1) + ((q.off + q.pos) % Sec)
    BY <1>2, <1>6, <1>7
  <2> QED
    BY <1>6, <2>1
<1> QED
  BY <1>2, <1>3, <1>4, <1>5, <1>8 DEF WriteOK, f

LEMMA NextClusterHolds ==
    ASSUME IInv, NextCluster, UNCHANGED lost
    PROVE  Holding(NextDisk, op', expect', lost')
<1> DEFINE d == Disk
           s == Walk(d.fat, First(d, op.loc))
           f == expect[op.path]
<1>1. /\ TreeOK(d) /\ ChainsOK(d) /\ AllocationOK(d, op, lost) /\ FilesOK(d, op, expect)
      /\ WriteOK(d, op, expect)
  BY InvIs, Kinds DEF NextCluster
<1>2. /\ op.kind = "write" /\ op.step = "next" /\ op.next \in Cluster
      /\ op' = [op EXCEPT !.cur = op.next, !.step = "data"] /\ expect' = expect /\ lost' = lost
      /\ NextDisk = d
  BY DiskSame DEF NextCluster
<1>3. FileOK(f) /\ Half(d) = {} /\ Chained(d.fat, First(d, op.loc), s) /\ Len(s) \in Nat
  BY <1>1, WriteIs
<1>4. PICK k \in 1 .. Len(s) : /\ op.cur = s[k] /\ Seek(f, op.off) + op.pos = Sec * k
                               /\ Len(s) = IF Clusters(f) < k THEN k ELSE Clusters(f)
                               /\ op.next = d.fat[op.cur]
  BY <1>1, <1>2 DEF WriteOK
<1> HIDE DEF s, f, d
<1>5. k # Len(s) /\ op.next = s[k + 1]
  BY <1>2, <1>3, <1>4, ClusterFacts DEF Chained
<1>6. k + 1 \in 1 .. Len(s) /\ Len(s) = IF Clusters(f) < k + 1 THEN k + 1 ELSE Clusters(f)
  BY <1>3, <1>4, <1>5, FileIs
<1>7. SameTree(d, d)
  BY DEF SameTree
<1>8. WriteOK(d, op', expect)
  <2>1. NextCur(op, op') /\ k \in Nat /\ op.step # "data"
    BY <1>2 DEF NextCur
  <2> QED
    BY <1>1, <1>3, <1>4, <1>5, <1>6, <1>7, <2>1, DataStep DEF s, f
<1>9. /\ op'.kind = "write" /\ op'.path = op.path /\ op'.loc = op.loc /\ op'.pos = op.pos
      /\ op'.off = op.off /\ op'.data = op.data /\ op'.step = "data"
  BY <1>1, <1>2 DEF WriteOK
<1>10. \A p \in DOMAIN expect : ByNow(d, op', expect, p) = ByNow(d, op, expect, p)
  BY <1>2, <1>9 DEF ByNow
<1>11. FilesOK(d, op', expect)
  BY <1>1, <1>7, <1>10, FilesKeep
<1>12. AllocationOK(d, op', lost)
  <2>1. Extra(d, op) = {} /\ Extra(d, op') = {}
    BY <1>2, <1>9 DEF Extra
  <2> QED
    BY <1>1, <2>1 DEF AllocationOK
<1> QED
  BY <1>1, <1>2, <1>8, <1>11, <1>12 DEF Holding, OpOK

\* A cluster is marked for the write to go on in.
LEMMA AllocateNextHolds ==
    ASSUME IInv, AllocateNext, UNCHANGED lost
    PROVE  Holding(NextDisk, op', expect', lost')
<1> DEFINE d == Disk
           e == NextDisk
           c == Min(FreeClusters)
           l == op.loc
           s == Walk(d.fat, First(d, l))
           f == expect[op.path]
<1>1. /\ TreeOK(d) /\ ChainsOK(d) /\ AllocationOK(d, op, lost) /\ FilesOK(d, op, expect)
      /\ WriteOK(d, op, expect)
  BY InvIs, Kinds DEF AllocateNext, TakeFree
<1>2. /\ op.kind = "write" /\ op.step = "next" /\ op.next \notin Cluster /\ FreeClusters # {}
      /\ op' = [op EXCEPT !.next = c, !.step = "link"] /\ UNCHANGED <<root, sec, expect, lost>>
      /\ fat' = [fat EXCEPT ![c] = EOC]
  BY DEF AllocateNext, TakeFree, SetFat
<1>3. c \in Cluster /\ d.fat[c] = FREE
  BY <1>2, FreeIs, DiskIs
<1>4. FileOK(f) /\ Half(d) = {} /\ Chained(d.fat, First(d, l), s) /\ Len(s) \in Nat /\ l \in Used(d)
  BY <1>1, WriteIs
<1> HIDE DEF c
<1>5. /\ e.root = d.root /\ e.sec = d.sec /\ e.fat \in Fats /\ DOMAIN e.sec = Cluster
      /\ e.fat[c] = EOC /\ \A x \in Cluster \ {c} : e.fat[x] = d.fat[x]
  <2>1. DOMAIN sec = Cluster /\ fat \in Fats
    BY InvIs
  <2>2. fat' \in Fats /\ fat'[c] = EOC /\ \A x \in Cluster \ {c} : fat'[x] = fat[x]
    BY <1>2, <1>3, <2>1 DEF Fats
  <2> QED
    BY <1>2, <2>1, <2>2, DiskIs
<1>6. PICK k \in 1 .. Len(s) : /\ op.cur = s[k] /\ Seek(f, op.off) + op.pos = Sec * k
                               /\ Len(s) = IF Clusters(f) < k THEN k ELSE Clusters(f)
                               /\ op.next = d.fat[op.cur]
  BY <1>1, <1>2 DEF WriteOK
<1>7. /\ op \in [kind : {"write"}, path : DOMAIN expect, loc : Used(d), cur : Cluster,
                 step : {"data", "next", "link"}, pos : Nat, next : Cluster \cup {FREE, EOC},
                 off : Nat, data : Data]
      /\ Leads(d, op.path, l) /\ op.pos < Len(op.data) /\ op.pos <= Len(op.data)
      /\ (op.off + op.pos) % Sec = 0
  BY <1>1, <1>2 DEF WriteOK
<1>8. /\ op' \in [kind : {"write"}, path : DOMAIN expect, loc : Used(d), cur : Cluster,
                  step : {"data", "next", "link"}, pos : Nat, next : Cluster \cup {FREE, EOC},
                  off : Nat, data : Data]
      /\ op'.path = op.path /\ op'.loc = l /\ op'.cur = op.cur /\ op'.step = "link"
      /\ op'.pos = op.pos /\ op'.off = op.off /\ op'.data = op.data /\ op'.next = c
      /\ op'.kind = "write"
  BY <1>2, <1>3, <1>7
<1> HIDE DEF d, e, s, f
<1>9. k = Len(s)
  <2>1. k # Len(s) => s[k + 1] \in Cluster /\ d.fat[s[k]] = s[k + 1]
    BY <1>4, <1>6 DEF Chained
  <2> QED
    BY <1>2, <1>6, <2>1
<1>10. \A x \in Owned(d) : x \in Cluster \ {c}
  BY <1>1, <1>3, <1>4, FreeUnowned, HomesOwned
<1>11. /\ TreeOK(e) /\ ChainsOK(e) /\ SameTree(d, e) /\ Owned(e) = Owned(d) /\ Half(e) = Half(d)
       /\ \A m \in Used(d) : Walk(e.fat, First(e, m)) = Walk(d.fat, First(d, m))
  <2>1. \A x \in Owned(d) : e.fat[x] = d.fat[x] /\ e.sec[x] = d.sec[x]
    BY <1>5, <1>10
  <2>2. e.root = d.root /\ DOMAIN e.sec = Cluster /\ e.fat \in Fats
    BY <1>5
  <2> QED
    BY <1>1, <2>1, <2>2, Apart
<1>15. Walk(e.fat, First(e, l)) = s
  BY <1>4, <1>11 DEF s
<1>12. \A p \in DOMAIN expect : ByNow(e, op', expect, p) = ByNow(d, op, expect, p)
  BY <1>2, <1>8, <1>15 DEF ByNow, s
<1>16. FilesOK(e, op', expect)
  BY <1>1, <1>5, <1>11, <1>12, FilesKeep
<1>13. AllocationOK(e, op', lost)
  <2>1. Extra(d, op) = {} /\ Extra(e, op') = {c}
    BY <1>2, <1>8 DEF Extra
  <2>2. Allocated(e) = Allocated(d) \cup {c} /\ c \notin Allocated(d)
    BY <1>3, <1>5, Claimed
  <2>3. Owned(e) = Owned(d)
    BY <1>11
  <2>5. c \in Cluster /\ c \notin Owned(d)
    BY <1>3, <1>10
  <2>4. Allocated(d) \ Owned(d) = lost /\ lost \subseteq Cluster
    BY <1>1, <2>1 DEF AllocationOK
  <2> QED
    BY <2>1, <2>2, <2>3, <2>4, <2>5 DEF AllocationOK
<1>14. WriteOK(e, op', expect)
  <2>1. Used(e) = Used(d) /\ Leads(e, op'.path, op'.loc)
    BY <1>7, <1>8, <1>11 DEF SameTree
  <2>2. \E j \in 1 .. Len(s) :
           /\ op'.cur = s[j] /\ Seek(f, op'.off) + op'.pos = Sec * j
           /\ Len(s) = IF Clusters(f) < j THEN j ELSE Clusters(f)
           /\ j = Len(s) /\ op'.next \in Cluster /\ e.fat[op'.next] = EOC
    BY <1>3, <1>5, <1>6, <1>8, <1>9
  <2>3. op'.pos < Len(op'.data) /\ op'.pos <= Len(op'.data) /\ (op'.off + op'.pos) % Sec = 0
    BY <1>7, <1>8
  <2>4. Walk(e.fat, First(e, op'.loc)) = s /\ expect[op'.path] = f
    BY <1>8, <1>15 DEF f
  <2> QED
    BY <1>4, <1>8, <1>11, <2>1, <2>2, <2>3, <2>4 DEF WriteOK
<1> QED
  BY <1>2, <1>11, <1>13, <1>14, <1>16 DEF Holding, OpOK, e

\* One cluster more, of which nothing is known.
LEMMA ShowsMore ==
    ASSUME NEW f, FileOK(f), NEW off \in Nat, NEW data, NEW pos \in Nat, DOMAIN data = 1 .. pos,
           NEW d, NEW e, e.sec = d.sec, NEW s, NEW t, NEW n \in Nat \ {0}, n = Len(s),
           Len(t) = n + 1, \A k \in 1 .. n : t[k] = s[k],
           Clusters(f) <= n, Seek(f, off) + pos = Sec * n,
           Shows(d, s, Landed(f, off, data, n))
    PROVE  Shows(e, t, Landed(f, off, data, n + 1))
<1> DEFINE a == Landed(f, off, data, n)
           b == Landed(f, off, data, n + 1)
           start == Seek(f, off)
<1>1. n + 1 \in Nat \ {0} /\ start \in Nat /\ start + pos = Sec * n
  <2>1. n + 1 \in Nat \ {0}
    OBVIOUS
  <2>2. start \in Nat
    BY SeekIs
  <2> QED
    BY <2>1, <2>2
<1>2. /\ Lands(f, off, data, pos, n) /\ Len(a) = Sec * n
      /\ Lands(f, off, data, pos, n + 1) /\ Len(b) = Sec * (n + 1)
  <2>1. Lands(f, off, data, pos, n) /\ Len(a) = Sec * n
    BY LandedIs
  <2>2. Lands(f, off, data, pos, n + 1) /\ Len(b) = Sec * (n + 1)
    BY <1>1, LandedIs
  <2> QED
    BY <2>1, <2>2
<1>3. Clusters(f) \in Nat /\ Sec * Clusters(f) \in Nat
  BY FileIs
<1>4. Sec * Clusters(f) <= Sec * n
  BY <1>3, SecIs, Products
<1> HIDE DEF a, b, start
<1>5. ASSUME NEW k \in 1 .. n + 1, NEW r \in 0 .. Sec - 1, b[Sec * (k - 1) + r + 1] # Stale
      PROVE  k \in 1 .. n /\ a[Sec * (k - 1) + r + 1] = b[Sec * (k - 1) + r + 1]
  <2> DEFINE i == Sec * (k - 1) + r + 1
  <2>1. i \in 1 .. Sec * (n + 1) /\ Sec * (k - 1) \in Nat /\ i \in Int
    BY <1>1, Place
  <2>2. b[i] = IF i - start \in 1 .. pos THEN data[i - start]
               ELSE IF i \in 1 .. Sec * Clusters(f) THEN f.byte[i] ELSE Stale
    BY <1>2, <2>1 DEF Lands, b, start
  <2>3. CASE k \in 1 .. n
    <3>1. i \in 1 .. Sec * n
      BY <2>3, Place
    <3>2. a[i] = IF i - start \in 1 .. pos THEN data[i - start]
                 ELSE IF i \in 1 .. Sec * Clusters(f) THEN f.byte[i] ELSE Stale
      BY <1>2, <3>1 DEF Lands, a, start
    <3> QED
      BY <2>2, <2>3, <3>2
  <2>4. CASE k \notin 1 .. n
    <3>1. k - 1 = n
      BY <2>4
    <3>2. i = Sec * n + r + 1
      BY <3>1
    <3> HIDE DEF i
    <3>3. Sec * n \in Nat /\ r \in Nat
      BY SecIs, Naturals2
    <3>4. i - start = pos + r + 1 /\ i > Sec * n
      BY <1>1, <3>2, <3>3
    <3>5. i - start \notin 1 .. pos /\ i \notin 1 .. Sec * Clusters(f)
      BY <1>3, <1>4, <2>1, <3>3, <3>4
    <3> QED
      BY <1>5, <2>2, <3>5 DEF i
  <2> QED
    BY <2>3, <2>4
<1>6. ASSUME NEW k \in 1 .. n + 1, NEW r \in 0 .. Sec - 1, b[Sec * (k - 1) + r + 1] # Stale
      PROVE  ByteAt(e, t[k], r) = b[Sec * (k - 1) + r + 1]
  <2>1. k \in 1 .. n /\ a[Sec * (k - 1) + r + 1] = b[Sec * (k - 1) + r + 1]
    BY <1>5, <1>6
  <2>2. ByteAt(d, s[k], r) = a[Sec * (k - 1) + r + 1]
    BY <1>6, <2>1 DEF Shows, a
  <2>3. t[k] = s[k]
    BY <2>1
  <2> QED
    BY <2>1, <2>2, <2>3 DEF ByteAt
<1>7. Shows(e, t, b)
  BY <1>2, <1>6 DEF Shows
<1> QED
  BY <1>7 DEF b

LEMMA LinkNextHolds ==
    ASSUME IInv, LinkNext, UNCHANGED lost
    PROVE  Holding(NextDisk, op', expect', lost')
<1> DEFINE d == Disk
           e == NextDisk
           c == op.next
           l == op.loc
           s == Walk(d.fat, First(d, l))
           t == Append(s, c)
           f == expect[op.path]
<1>1. /\ TreeOK(d) /\ ChainsOK(d) /\ AllocationOK(d, op, lost) /\ FilesOK(d, op, expect)
      /\ WriteOK(d, op, expect)
  BY InvIs, Kinds DEF LinkNext
<1>2. /\ op.kind = "write" /\ op.step = "link"
      /\ op' = [op EXCEPT !.cur = c, !.step = "data"] /\ UNCHANGED <<root, sec, expect, lost>>
      /\ fat' = [fat EXCEPT ![op.cur] = c]
  BY DEF LinkNext, SetFat
<1>3. /\ FileOK(f) /\ Half(d) = {} /\ Chained(d.fat, First(d, l), s) /\ Len(s) \in Nat \ {0}
      /\ l \in Used(d) /\ Leads(d, op.path, l) /\ op.path \in DOMAIN expect
      /\ op.off \in Nat /\ op.data \in Data /\ op.pos \in Nat /\ op.pos <= Len(op.data)
      /\ Len(op.data) \in Nat /\ op.cur \in Cluster
      /\ Own(d, l) = Range(s) /\ First(d, l) \in Cluster
      /\ EntryAt(d, l).size = f.size
      /\ Shows(d, s, Landed(f, op.off, SubSeq(op.data, 1, op.pos), Len(s)))
  BY <1>1, WriteIs
<1>4. PICK k \in 1 .. Len(s) : /\ op.cur = s[k] /\ Seek(f, op.off) + op.pos = Sec * k
                               /\ Len(s) = IF Clusters(f) < k THEN k ELSE Clusters(f)
                               /\ k = Len(s) /\ c \in Cluster /\ d.fat[c] = EOC
  BY <1>1, <1>2 DEF WriteOK
<1>5. op.cur = s[Len(s)] /\ Seek(f, op.off) + op.pos = Sec * Len(s)
      /\ Clusters(f) <= Len(s) /\ c \in Cluster /\ d.fat[c] = EOC
  BY <1>3, <1>4, FileIs
<1>6. Extra(d, op) = {c} /\ c \notin Owned(d)
  BY <1>1, <1>2 DEF Extra, AllocationOK
<1>7. /\ e.root = d.root /\ e.sec = d.sec /\ e.fat \in Fats /\ DOMAIN e.sec = Cluster
      /\ e.fat[op.cur] = c /\ \A x \in Cluster \ {op.cur} : e.fat[x] = d.fat[x]
      /\ d.fat \in Fats
  <2>1. DOMAIN sec = Cluster /\ fat \in Fats
    BY InvIs
  <2>2. fat' \in Fats /\ fat'[op.cur] = c /\ \A x \in Cluster \ {op.cur} : fat'[x] = fat[x]
    BY <1>2, <1>3, <1>5, <2>1 DEF Fats
  <2> QED
    BY <1>2, <2>1, <2>2, DiskIs
<1> HIDE DEF d, e, c, s
<1>8. c \notin Range(s)
  BY <1>1, <1>3, <1>6, HomesOwned
<1>9. /\ Chained(e.fat, First(d, l), t) /\ Range(t) = Range(s) \cup {c}
      /\ Len(t) = Len(s) + 1 /\ t[Len(s) + 1] = c /\ \A i \in 1 .. Len(s) : t[i] = s[i]
  <2>1. e.fat[s[Len(s)]] = c /\ \A x \in Cluster \ {s[Len(s)]} : e.fat[x] = d.fat[x]
    BY <1>5, <1>7
  <2> QED
    BY <1>3, <1>5, <1>7, <1>8, <2>1, ChainGrows
<1> HIDE DEF t
<1>10. TreeOK(e) /\ SameTree(d, e)
  BY <1>1, <1>7, TreeKeeps
<1>11. /\ Used(e) = Used(d) /\ First(e, l) = First(d, l) /\ Homes(e) = Homes(d)
       /\ \A m \in Used(d) : EntryAt(e, m) = EntryAt(d, m) /\ First(e, m) = First(d, m)
       /\ \A p, m : Leads(e, p, m) <=> Leads(d, p, m)
  BY <1>3, <1>10 DEF SameTree
<1>12. Walk(e.fat, First(e, l)) = t /\ Own(e, l) = Own(d, l) \cup {c} /\ Sound(e.fat, First(e, l))
  <2>1. Walk(e.fat, First(d, l)) = t
    BY <1>9, ChainedIs
  <2> QED
    BY <1>3, <1>9, <1>11, <2>1 DEF Own, Sound
<1>13. op.cur \in Own(d, l)
  <2>1. Range(s) = {s[i] : i \in 1 .. Len(s)}
    BY <1>3, ChainedIs
  <2> QED
    BY <1>3, <1>5, <2>1
<1>14. ASSUME NEW m \in Used(d) \ {l}
       PROVE  /\ Walk(e.fat, First(e, m)) = Walk(d.fat, First(d, m)) /\ Own(e, m) = Own(d, m)
              /\ Sound(e.fat, First(e, m)) /\ e.fat[First(e, m)] = d.fat[First(d, m)]
  <2> DEFINE a == First(d, m)
  <2>1. a \in Cluster /\ Sound(d.fat, a) /\ First(e, m) = a
    BY <1>1, <1>11, UsedIs DEF ChainsOK
  <2>2. Own(d, m) \subseteq Cluster /\ op.cur \notin Own(d, m)
    BY <1>1, <1>3, <1>13, HomesOwned DEF ChainsOK
  <2>3. \A x \in Range(Walk(d.fat, a)) : e.fat[x] = d.fat[x]
    BY <1>7, <2>2 DEF Own
  <2> HIDE DEF a
  <2>4. Walk(e.fat, a) = Walk(d.fat, a) /\ Sound(e.fat, a) /\ e.fat[a] = d.fat[a]
    BY <2>1, <2>3, SoundKeeps
  <2> QED
    BY <2>1, <2>4 DEF Own, a
<1>15. ChainsOK(e)
  <2>1. \A m, n \in Used(d) : m # n => Own(d, m) \cap Own(d, n) = {} /\ c \notin Own(d, m)
    BY <1>1, <1>6, HomesOwned DEF ChainsOK
  <2> QED
    BY <1>3, <1>7, <1>11, <1>12, <1>14, <2>1 DEF ChainsOK, Fats
<1>16. Half(e) = {}
  <2>1. \A m \in Used(d) \ {l} : e.fat[First(e, m)] # FREE
    BY <1>3, <1>14 DEF Half
  <2>2. e.fat[First(e, l)] # FREE
    <3>1. d.fat[First(d, l)] # FREE
      BY <1>3 DEF Half
    <3> QED
      BY <1>3, <1>5, <1>7, <1>11, <3>1, ClusterFacts
  <2> QED
    BY <1>11, <2>1, <2>2 DEF Half
<1>17. Owned(e) = Owned(d) \cup {c}
  BY <1>3, <1>11, <1>12, <1>14 DEF Owned
<1>18. /\ op'.kind = "write" /\ op'.path = op.path /\ op'.loc = l /\ op'.pos = op.pos
       /\ op'.off = op.off /\ op'.data = op.data /\ op'.step = "data"
  BY <1>1, <1>2 DEF WriteOK
<1>19. AllocationOK(e, op', lost)
  <2>1. Extra(e, op') = {}
    BY <1>18 DEF Extra
  <2>2. Allocated(e) = Allocated(d)
    <3>1. d.fat[op.cur] # FREE
      BY <1>3, <1>13, ChainedIs
    <3> QED
      BY <1>3, <1>5, <1>7, <3>1, ClusterFacts DEF Allocated
  <2> QED
    BY <1>1, <1>5, <1>6, <1>17, <2>1, <2>2 DEF AllocationOK
<1>20. WriteOK(e, op', expect)
  <2>1. NextCur(op, op') /\ op.step # "data" /\ Len(s) \in Nat
    BY <1>2, <1>3, <1>5 DEF NextCur, c
  <2>2. /\ Len(s) + 1 \in 1 .. Len(t) /\ t[Len(s) + 1] = op.next
        /\ Len(t) = IF Clusters(f) < Len(s) + 1 THEN Len(s) + 1 ELSE Clusters(f)
    BY <1>3, <1>5, <1>9, FileIs DEF c
  <2>3. t = Walk(e.fat, First(e, op.loc))
    BY <1>12
  <2> HIDE DEF l, f
  <2> QED
    BY <1>1, <1>3, <1>5, <1>10, <1>16, <2>1, <2>2, <2>3, DataStep DEF f
<1>21. Shows(e, t, Landed(f, op.off, SubSeq(op.data, 1, op.pos), Len(s) + 1))
  <2> DEFINE now == SubSeq(op.data, 1, op.pos)
  <2>1. DOMAIN now = 1 .. op.pos
    BY <1>3, DataIs
  <2> HIDE DEF now, f
  <2>2. Len(s) \in Nat \ {0} /\ Shows(d, s, Landed(f, op.off, now, Len(s)))
    BY <1>3 DEF now
  <2>3. Shows(e, t, Landed(f, op.off, now, Len(s) + 1))
    BY <1>3, <1>5, <1>7, <1>9, <2>1, <2>2, ShowsMore
  <2> QED
    BY <2>3 DEF now
<1>22. Shows(e, Walk(e.fat, First(e, l)), ByNow(e, op', expect, op.path))
  BY <1>9, <1>12, <1>18, <1>21 DEF ByNow
<1>23. Rewritten(d, op, expect, e, op', expect, l)
  <2>1. EntryAt(e, l).size = expect[op.path].size
    BY <1>3, <1>11
  <2> QED
    BY <1>2, <1>3, <1>7, <1>11, <1>14, <1>18, <1>22, <2>1 DEF Rewritten
<1>24. FilesOK(e, op', expect)
  BY <1>1, <1>23, FilesWrite
<1> QED
  BY <1>2, <1>10, <1>15, <1>19, <1>20, <1>24 DEF Holding, OpOK, e

\* What the write needs when its last byte lands in cluster k.
LEMMA NeededIs ==
    ASSUME NEW f, FileOK(f), NEW off \in Nat, NEW len \in Nat \ {0}, NEW k \in Nat \ {0},
           NEW u \in 0 .. Sec - 1, Seek(f, off) + len = Sec * (k - 1) + u + 1
    PROVE  Needed(f, off, len) = IF Clusters(f) < k THEN k ELSE Clusters(f)
<1> DEFINE a == Seek(f, off) + len + Sec - 1
<1>1. Sec \in Nat \ {0} /\ k - 1 \in Nat /\ Seek(f, off) \in Nat
  <2>1. Seek(f, off) \in Nat
    BY SeekIs
  <2> QED
    BY <2>1, SecIs
<1>2. Sec * (k - 1) \in Nat /\ Sec * k = Sec * (k - 1) + Sec
  BY <1>1, Naturals2
<1>3. a = Sec * k + u
  BY <1>1, <1>2
<1>4. Needed(f, off, len) = Max({Clusters(f), a \div Sec})
  BY DEF Needed
<1> HIDE DEF a
<1>5. a \div Sec = k
  BY <1>3, Quotient
<1>6. Clusters(f) \in Nat
  BY FileIs
<1> QED
  BY <1>4, <1>5, <1>6, PairMax

\* A write has the clusters for its bytes.
LEMMA EnoughClusters ==
    ASSUME NEW f, FileOK(f), NEW off \in Nat, NEW len \in Nat, NEW n, n = Needed(f, off, len)
    PROVE  /\ n \in Nat \ {0} /\ Clusters(f) <= n
           /\ len > 0 => Seek(f, off) + len <= Sec * n
<1>1. Clusters(f) \in Nat /\ Clusters(f) >= 1 /\ Sec \in Nat \ {0} /\ Seek(f, off) \in Nat
  BY FileIs, SecIs, SeekIs
<1>2. CASE len = 0
  BY <1>1, <1>2 DEF Needed
<1>3. CASE len # 0
  <2> DEFINE a == Seek(f, off) + len + Sec - 1
             q == a \div Sec
  <2>1. a \in Nat
    BY <1>1
  <2>2. n = Max({Clusters(f), q})
    BY <1>3 DEF Needed
  <2> HIDE DEF a
  <2>3. q \in Nat /\ a < Sec * q + Sec
    BY <1>1, <2>1, Division
  <2> HIDE DEF q
  <2>4. n = IF Clusters(f) >= q THEN Clusters(f) ELSE q
    BY <1>1, <2>2, <2>3, PairMax
  <2>5. n \in Nat /\ q <= n /\ Clusters(f) <= n /\ n \in Int /\ q \in Int
    BY <1>1, <2>3, <2>4
  <2>6. Sec * q <= Sec * n
    BY <1>1, <2>5, Products
  <2>7. Sec * q \in Nat /\ Sec * n \in Nat
    BY <1>1, <2>3, <2>5, Naturals2
  <2> DEFINE u == Sec * q
             v == Sec * n
  <2>8. u \in Nat /\ v \in Nat /\ u <= v /\ a < u + Sec
    BY <2>3, <2>6, <2>7
  <2> HIDE DEF u, v
  <2>9. Seek(f, off) + len <= v
    BY <1>1, <2>8 DEF a
  <2> QED
    BY <1>1, <2>5, <2>9 DEF v
<1> QED
  BY <1>2, <1>3

LEMMA WriteChunkHolds ==
    ASSUME IInv, WriteChunk, UNCHANGED lost
    PROVE  Holding(NextDisk, op', expect', lost')
<1> DEFINE d == Disk
           e == NextDisk
           l == op.loc
           s == Walk(d.fat, First(d, l))
           f == expect[op.path]
           r == (op.off + op.pos) % Sec
           n == Chunk
           c == op.cur
           new == [i \in 0 .. Sec - 1 |->
                     IF i \in r .. r + n - 1 THEN op.data[op.pos + (i - r) + 1] ELSE Bytes(c)[i]]
<1>1. /\ TreeOK(d) /\ ChainsOK(d) /\ AllocationOK(d, op, lost) /\ FilesOK(d, op, expect)
      /\ WriteOK(d, op, expect)
  BY InvIs, Kinds DEF WriteChunk, ChunkAt
<1>2. /\ op.kind = "write" /\ op.step = "data" /\ op.pos < Len(op.data)
      /\ sec' = [sec EXCEPT ![c] = [bytes |-> new]]
      /\ op' = [op EXCEPT !.pos = op.pos + n, !.next = fat[c],
                          !.step = IF op.pos + n < Len(op.data) THEN "next" ELSE "data"]
      /\ UNCHANGED <<fat, root, expect, lost>>
  BY DEF WriteChunk, ChunkAt
<1>3. /\ FileOK(f) /\ Half(d) = {} /\ Chained(d.fat, First(d, l), s) /\ Len(s) \in Nat \ {0}
      /\ s \in [1 .. Len(s) -> Cluster]
      /\ l \in Used(d) /\ Leads(d, op.path, l) /\ op.path \in DOMAIN expect
      /\ op.off \in Nat /\ op.data \in Data /\ op.pos \in Nat /\ op.pos <= Len(op.data)
      /\ Len(op.data) \in Nat /\ c \in Cluster
      /\ Own(d, l) = Range(s) /\ First(d, l) \in Cluster
      /\ EntryAt(d, l).size = f.size /\ ~EntryAt(d, l).isDir
      /\ Shows(d, s, Landed(f, op.off, SubSeq(op.data, 1, op.pos), Len(s)))
      /\ Seek(f, op.off) \in Nat
  BY <1>1, WriteIs
<1>4. PICK k \in 1 .. Len(s) : /\ c = s[k] /\ Seek(f, op.off) + op.pos = Sec * (k - 1) + r
                               /\ Len(s) = IF Clusters(f) < k THEN k ELSE Clusters(f)
  BY <1>1, <1>2 DEF WriteOK
<1>5. /\ n \in Nat /\ n >= 1 /\ r \in 0 .. Sec - 1 /\ r + n <= Sec /\ op.pos + n <= Len(op.data)
      /\ op.pos + n < Len(op.data) => n = Sec - r /\ (op.off + (op.pos + n)) % Sec = 0
  <2>1. n = ChunkOf(op.off, op.pos, Len(op.data))
    BY DEF Chunk, ChunkOf
  <2>2. op.off \in Nat /\ op.pos \in Nat /\ Len(op.data) \in Nat /\ op.pos < Len(op.data)
    BY <1>2, <1>3
  <2> HIDE DEF n, d, e, l, s, f, c, new
  <2>3. ChunkFits(op.off, op.pos, Len(op.data), n)
    BY <2>1, <2>2, ChunkIs
  <2> QED
    BY <2>3 DEF ChunkFits
<1>6. /\ op \in [kind : {"write"}, path : DOMAIN expect, loc : Used(d), cur : Cluster,
                 step : {"data", "next", "link"}, pos : Nat, next : Cluster \cup {FREE, EOC},
                 off : Nat, data : Data]
      /\ fat \in [Cluster -> Cluster \cup {FREE, EOC}] /\ d.fat = fat
  BY <1>1, InvIs, DiskIs DEF WriteOK, Fats
<1> HIDE DEF n, r, new
<1>7. fat[c] \in Cluster \cup {FREE, EOC} /\ op.pos + n \in Nat
  BY <1>3, <1>5, <1>6
<1>8. /\ op' \in [kind : {"write"}, path : DOMAIN expect, loc : Used(d), cur : Cluster,
                  step : {"data", "next", "link"}, pos : Nat, next : Cluster \cup {FREE, EOC},
                  off : Nat, data : Data]
      /\ op'.kind = "write" /\ op'.path = op.path /\ op'.loc = l /\ op'.cur = c
      /\ op'.pos = op.pos + n /\ op'.off = op.off /\ op'.data = op.data /\ op'.next = fat[c]
      /\ op'.step = IF op.pos + n < Len(op.data) THEN "next" ELSE "data"
  BY <1>2, <1>6, <1>7
<1>9. /\ e.root = d.root /\ e.fat = d.fat /\ e.fat \in Fats /\ DOMAIN e.sec = Cluster
      /\ e.sec[c] = [bytes |-> new] /\ \A x \in Cluster \ {c} : e.sec[x] = d.sec[x]
  <2>1. DOMAIN sec = Cluster /\ fat \in Fats
    BY InvIs
  <2> QED
    BY <1>2, <1>3, <2>1, DiskIs
<1>10. ASSUME NEW v \in 0 .. Sec - 1
       PROVE  /\ ByteAt(e, c, v) = IF v \in r .. r + n - 1 THEN op.data[op.pos + (v - r) + 1]
                                   ELSE ByteAt(d, c, v)
  <2>1. ByteAt(e, c, v) = new[v]
    BY <1>9 DEF ByteAt
  <2>2. Bytes(c)[v] = ByteAt(d, c, v)
    BY DiskIs DEF Bytes, ByteAt
  <2> QED
    BY <2>1, <2>2 DEF new
<1> HIDE DEF d, e, s, f
<1>11. c \in Own(d, l) /\ Own(d, l) \cap Homes(d) = {}
  <2>1. Range(s) = {s[i] : i \in 1 .. Len(s)}
    BY <1>3, ChainedIs
  <2> QED
    BY <1>1, <1>3, <1>4, <2>1, FileApart
<1>12. TreeOK(e) /\ SameTree(d, e)
  <2>1. \A h \in Homes(d) \ {Root} : h \in Cluster /\ h # c
    BY <1>1, <1>11, HomesAre
  <2> QED
    BY <1>1, <1>9, <2>1, TreeKeeps
<1>13. /\ ChainsOK(e)
       /\ \A m \in Used(d) : /\ Walk(e.fat, First(e, m)) = Walk(d.fat, First(d, m))
                             /\ Own(e, m) = Own(d, m)
       /\ Owned(e) = Owned(d) /\ Half(e) = {}
  BY <1>1, <1>3, <1>9, <1>12, ChainsKeep
<1>14. AllocationOK(e, op', lost)
  <2>1. Extra(d, op) = {} /\ Extra(e, op') = {} /\ Allocated(e) = Allocated(d)
    BY <1>2, <1>8, <1>9 DEF Extra, Allocated
  <2> QED
    BY <1>1, <1>13, <2>1 DEF AllocationOK
<1>15. Walk(e.fat, First(e, op'.loc)) = s /\ expect[op'.path] = f
  BY <1>3, <1>8, <1>13 DEF s, f
<1>16. k \in Nat \ {0} /\ k - 1 \in Nat /\ Sec * (k - 1) \in Nat /\ Sec * k = Sec * (k - 1) + Sec
       /\ Sec * k \in Nat /\ Sec \in Nat \ {0}
  <2>1. k \in Nat \ {0} /\ k - 1 \in Nat
    BY <1>3
  <2> QED
    BY <2>1, SecIs, Naturals2
<1>24. /\ Seek(f, op.off) \in Nat /\ op.pos \in Nat /\ Len(op.data) \in Nat
       /\ Seek(f, op.off) + op.pos = Sec * (k - 1) + r
  BY <1>3, <1>4 DEF f
<1>25. /\ n \in Nat /\ n >= 1 /\ r \in 0 .. Sec - 1 /\ r + n <= Sec
       /\ op.pos + n <= Len(op.data) /\ op.pos + n < Len(op.data) => n = Sec - r
  BY <1>5
<1>17. op.pos + n = Len(op.data) => Len(s) = Needed(f, op.off, op.pos + n)
  <2> SUFFICES ASSUME op.pos + n = Len(op.data) PROVE Len(s) = Needed(f, op.off, op.pos + n)
    OBVIOUS
  <2> DEFINE u == r + n - 1
  <2>1. u \in 0 .. Sec - 1 /\ op.pos + n \in Nat \ {0}
    BY <1>16, <1>24, <1>25
  <2>2. Seek(f, op.off) + (op.pos + n) = Sec * (k - 1) + u + 1
    BY <1>16, <1>24, <1>25
  <2> HIDE DEF u
  <2>3. Needed(f, op.off, op.pos + n) = IF Clusters(f) < k THEN k ELSE Clusters(f)
    BY <1>3, <1>16, <2>1, <2>2, NeededIs
  <2> QED
    BY <1>4, <2>3
<1>18. op.pos + n < Len(op.data) => Seek(f, op.off) + (op.pos + n) = Sec * k
  <2> SUFFICES ASSUME op.pos + n < Len(op.data) PROVE Seek(f, op.off) + (op.pos + n) = Sec * k
    OBVIOUS
  <2> DEFINE start == Seek(f, op.off)
             a == Sec * (k - 1)
             b == Sec * k
  <2>1. n = Sec - r /\ start \in Nat /\ a \in Nat /\ b = a + Sec /\ start + op.pos = a + r
    BY <1>16, <1>24, <1>25
  <2>2. Sec \in Int /\ r \in Int /\ op.pos \in Int /\ n \in Int
    BY <1>16, <1>24, <1>25
  <2> HIDE DEF start, a, b
  <2>3. start + (op.pos + n) = b
    BY <2>1, <2>2
  <2> QED
    BY <2>3 DEF start, b
<1>19. WriteOK(e, op', expect)
  <2>1. Used(e) = Used(d) /\ Leads(e, op'.path, op'.loc)
    BY <1>3, <1>8, <1>12 DEF SameTree
  <2>2. op'.pos <= Len(op'.data)
    BY <1>5, <1>8
  <2>3. op'.step = "data" <=> op'.pos = Len(op'.data)
    BY <1>3, <1>5, <1>8
  <2>4. op'.step = "data" => Len(s) = Needed(f, op'.off, op'.pos)
    BY <1>8, <1>17, <2>3
  <2>5. op'.step # "data" =>
           /\ op'.step = "next" /\ op'.pos < Len(op'.data) /\ (op'.off + op'.pos) % Sec = 0
           /\ \E j \in 1 .. Len(s) :
                 /\ op'.cur = s[j] /\ Seek(f, op'.off) + op'.pos = Sec * j
                 /\ Len(s) = IF Clusters(f) < j THEN j ELSE Clusters(f)
                 /\ op'.next = e.fat[op'.cur]
    BY <1>4, <1>5, <1>6, <1>8, <1>9, <1>18
  <2>6. op'.step \in {"data", "next"} /\ ~(op'.pos < Len(op'.data) /\ op'.pos = Len(op'.data))
    BY <1>3, <1>5, <1>8
  <2> QED
    BY <1>8, <1>13, <1>15, <2>1, <2>2, <2>3, <2>4, <2>5, <2>6 DEF WriteOK
<1>20. Shows(e, s, Landed(f, op.off, SubSeq(op.data, 1, op.pos + n), Len(s)))
  <2> DEFINE a == Landed(f, op.off, SubSeq(op.data, 1, op.pos), Len(s))
             b == Landed(f, op.off, SubSeq(op.data, 1, op.pos + n), Len(s))
  <2>1. Len(b) = Sec * Len(s)
    <3> DEFINE m == op.pos + n
               now == SubSeq(op.data, 1, m)
    <3>1. DOMAIN now = 1 .. m
      BY <1>3, <1>5, <1>7, DataIs
    <3>2. FileOK(f) /\ op.off \in Nat /\ m \in Nat /\ Len(s) \in Nat \ {0}
      BY <1>3, <1>7 DEF f
    <3> DEFINE at == op.off
               w  == Len(s)
    <3>3. DOMAIN now = 1 .. m /\ FileOK(f) /\ at \in Nat /\ m \in Nat /\ w \in Nat \ {0}
      BY <3>1, <3>2
    <3> HIDE DEF now, m, f, at, w
    <3>4. Len(Landed(f, at, now, w)) = Sec * w
      BY <3>3, LandedIs
    <3> QED
      BY <3>4 DEF now, m, f, at, w
  <2>2. ASSUME NEW m \in 1 .. Len(s), NEW v \in 0 .. Sec - 1
        PROVE  LET i == Sec * (m - 1) + v + 1
               IN  IF m = k /\ v \in r .. r + n - 1 THEN b[i] = op.data[op.pos + (v - r) + 1]
                   ELSE b[i] = a[i]
    <3>1. Hits(f, op.off, op.data, op.pos, n, Len(s), k, r)
      BY <1>3, <1>5, <1>24 DEF f, Hits
    <3> QED
      BY <3>1, ChunkLands
  <2> HIDE DEF a, b
  <2>3. ASSUME NEW m \in 1 .. Len(s), NEW v \in 0 .. Sec - 1, b[Sec * (m - 1) + v + 1] # Stale
        PROVE  ByteAt(e, s[m], v) = b[Sec * (m - 1) + v + 1]
    <3> DEFINE i == Sec * (m - 1) + v + 1
    <3>1. IF m = k /\ v \in r .. r + n - 1 THEN b[i] = op.data[op.pos + (v - r) + 1] ELSE b[i] = a[i]
      BY <2>2
    <3>2. a[i] # Stale => ByteAt(d, s[m], v) = a[i]
      BY <1>3 DEF Shows, a, f
    <3> HIDE DEF i
    <3>3. b[i] # Stale
      BY <2>3 DEF i
    <3>4. m = k => s[m] = c
      BY <1>4
    <3>5. m # k => s[m] # c /\ s[m] \in Cluster
      BY <1>3, <1>4 DEF Chained
    <3>6. m # k => ByteAt(e, s[m], v) = ByteAt(d, s[m], v)
      BY <1>9, <3>5 DEF ByteAt
    <3>7. ByteAt(e, s[m], v) = b[i]
      BY <1>10, <3>1, <3>2, <3>3, <3>4, <3>6
    <3> QED
      BY <3>7 DEF i
  <2>4. Shows(e, s, b)
    BY <2>1, <2>3 DEF Shows
  <2> QED
    BY <2>4 DEF b
<1>21. Shows(e, Walk(e.fat, First(e, l)), ByNow(e, op', expect, op.path))
  BY <1>8, <1>15, <1>20 DEF ByNow
<1>22. Rewritten(d, op, expect, e, op', expect, l)
  <2>1. /\ Used(e) = Used(d) /\ \A p, m : Leads(e, p, m) <=> Leads(d, p, m)
        /\ \A m \in Used(d) : EntryAt(e, m) = EntryAt(d, m)
    BY <1>12 DEF SameTree
  <2>2. EntryAt(e, l).size = expect[op.path].size
    BY <1>3, <2>1 DEF f
  <2>3. ASSUME NEW m \in Used(d) \ {l}, NEW x \in Own(d, m) PROVE e.sec[x] = d.sec[x]
    <3>1. x \in Cluster /\ x # c
      BY <1>1, <1>3, <1>11, <2>3, HomesOwned DEF ChainsOK
    <3> QED
      BY <1>9, <3>1
  <2>4. FileOK(expect[op.path])
    BY <1>3 DEF f
  <2> QED
    BY <1>2, <1>3, <1>8, <1>13, <1>21, <2>1, <2>2, <2>3, <2>4 DEF Rewritten
<1>23. FilesOK(e, op', expect)
  BY <1>1, <1>22, FilesWrite
<1> QED
  BY <1>2, <1>12, <1>13, <1>14, <1>19, <1>23 DEF Holding, OpOK, e

----------------------------------------------------------------------------
(* Writing the size *)

\* e is the tree of d with x as the entry in slot l.
Rewrites(d, e, l, x) ==
    /\ TreeOK(e) /\ Used(e) = Used(d) /\ Homes(e) = Homes(d)
    /\ EntryAt(e, l) = x /\ \A m \in Used(d) \ {l} : EntryAt(e, m) = EntryAt(d, m)
    /\ \A p, m : Leads(e, p, m) <=> Leads(d, p, m)
    /\ \A k \in Cluster \ Homes(d) : e.sec[k] = d.sec[k]
    /\ DOMAIN e.sec = Cluster

\* The entry of a file with another size.
LEMMA TreeResizes ==
    ASSUME NEW d, TreeOK(d), NEW l \in Used(d), ~EntryAt(d, l).isDir, NEW x \in Entries,
           x.name = EntryAt(d, l).name, x.isDir = EntryAt(d, l).isDir, x.first = First(d, l),
           NEW e, Put(d, e, l[1], l[2], x)
    PROVE  Rewrites(d, e, l, x)
<1> DEFINE h == l[1]
           i == l[2]
           t == Table(d, h)
           u == Table(e, h)
           n == SizeOf(h)
<1>1. l = <<h, i>> /\ h \in Homes(d) /\ i \in Live(t) /\ EntryAt(d, l).name \in Name
  BY UsedIs
<1>2. TableOK(t, n) /\ n \in Nat /\ DOMAIN t = 1 .. n /\ i \in DOMAIN t
  BY <1>1, HomesAre, LiveIs
<1>17. t[i].name = x.name /\ t[i].isDir = x.isDir /\ t[i].first = x.first /\ ~t[i].isDir
       /\ x.name \in Name
  BY <1>1 DEF EntryAt, First
<1> HIDE DEF h, i
<1>3. /\ u = [t EXCEPT ![i] = x]
      /\ \A k \in Cluster : k # h => e.sec[k] = d.sec[k]
      /\ h # Root => DOMAIN e.sec[h] = {"slots"} /\ e.root = d.root
      /\ h = Root => e.sec = d.sec
      /\ DOMAIN e.sec = Cluster
  BY <1>1, <1>2, PutIs DEF h, i
<1> HIDE DEF t, u, n
<1>4. u \in [1 .. n -> Entries] /\ u[i] = x /\ \A j \in 1 .. n : j # i => u[j] = t[j]
  BY <1>2, <1>3 DEF TableOK
<1>5. /\ TableOK(u, n) /\ Live(u) = Live(t) /\ DirsIn(u) = DirsIn(t)
      /\ \A j \in DirsIn(u) : u[j] = t[j]
  <2>1. \A j \in 1 .. n : u[j].name = t[j].name /\ u[j].isDir = t[j].isDir /\ u[j].first = t[j].first
    BY <1>4, <1>17
  <2>2. DOMAIN u = 1 .. n /\ DOMAIN t = 1 .. n
    BY <1>2, <1>4
  <2>3. Live(u) = Live(t)
    BY <2>1, <2>2 DEF Live, Vacant
  <2>4. DirsIn(u) = DirsIn(t)
    BY <2>1, <2>2, <2>3 DEF DirsIn, Live
  <2>5. TableOK(u, n)
    BY <1>2, <1>4, <2>1, <2>2, <2>3 DEF TableOK, Live
  <2>6. \A j \in DirsIn(t) : j \in 1 .. n /\ j # i
    BY <1>17, <2>2 DEF DirsIn, Live
  <2> QED
    BY <1>4, <2>3, <2>4, <2>5, <2>6
<1>6. /\ \A k \in Homes(d) : TableOK(Table(d, k), SizeOf(k))
      /\ \A k \in Homes(d) \ {Root} : DirsIn(Table(d, k)) = {} /\ DOMAIN d.sec[k] = {"slots"}
                                     /\ Table(d, k) = d.sec[k].slots
      /\ Homes(d) \subseteq Cluster \cup {Root} /\ Root \in Homes(d)
  BY HomesAre
<1>7. ASSUME NEW k \in Homes(d), k # h PROVE Table(e, k) = Table(d, k)
  <2>1. CASE k = Root
    BY <1>3, <1>7, <2>1 DEF Table
  <2>2. CASE k # Root
    BY <1>3, <1>6, <1>7, <2>2 DEF Table
  <2> QED
    BY <2>1, <2>2
<1>8. /\ TableOK(e.root, RootSlots) /\ DirsIn(e.root) = DirsIn(d.root)
      /\ \A j \in DirsIn(e.root) : e.root[j] = d.root[j]
  <2>1. CASE h = Root
    <3>1. t = d.root /\ u = e.root /\ n = RootSlots
      BY <2>1 DEF t, u, n, Table, SizeOf
    <3> QED
      BY <1>5, <3>1
  <2>2. CASE h # Root
    BY <1>3, <2>2 DEF TreeOK
  <2> QED
    BY <2>1, <2>2
<1>9. Homes(e) = Homes(d) /\ \A p, k : HomeOf(e, p, k) <=> HomeOf(d, p, k)
  BY <1>8 DEF Homes, HomeOf
<1>10. \A k \in Homes(d) : Live(Table(e, k)) = Live(Table(d, k))
  BY <1>5, <1>7 DEF t, u
<1>11. Used(e) = Used(d)
  BY <1>9, <1>10 DEF Used
<1>12. EntryAt(e, l) = x
  <2>1. EntryAt(e, l) = u[i]
    BY DEF EntryAt, u, h, i
  <2> QED
    BY <1>4, <2>1
<1>13. ASSUME NEW m \in Used(d), m # l PROVE EntryAt(e, m) = EntryAt(d, m)
  <2>1. m = <<m[1], m[2]>> /\ m[1] \in Homes(d) /\ m[2] \in Live(Table(d, m[1]))
    BY UsedIs
  <2>2. CASE m[1] = h
    <3>1. m[2] # i /\ m[2] \in 1 .. n
      BY <1>1, <1>2, <1>13, <2>1, <2>2 DEF t, Live
    <3> QED
      BY <1>4, <2>2, <3>1 DEF t, u, EntryAt
  <2>3. CASE m[1] # h
    BY <1>7, <2>1, <2>3 DEF EntryAt
  <2> QED
    BY <2>2, <2>3
<1>14. ASSUME NEW p, NEW m PROVE Leads(e, p, m) <=> Leads(d, p, m)
  <2>1. m \in Used(d) => EntryAt(e, m).name = EntryAt(d, m).name
    BY <1>12, <1>13
  <2> QED
    BY <1>9, <1>11, <2>1 DEF Leads
<1>15. TreeOK(e)
  <2>1. ASSUME NEW j \in DirsIn(e.root)
        PROVE  LET y == e.sec[e.root[j].first]
               IN  DOMAIN y = {"slots"} /\ TableOK(y.slots, DirSlots) /\ DirsIn(y.slots) = {}
    <3> DEFINE k == d.root[j].first
    <3>1. k \in Homes(d) \ {Root} /\ e.root[j].first = k
      BY <1>8, HomesAre
    <3> HIDE DEF k
    <3>2. k \in Cluster /\ SizeOf(k) = DirSlots
      BY <1>6, <3>1 DEF SizeOf
    <3>3. CASE k = h
      <4>1. h # Root /\ u = e.sec[h].slots
        BY <3>1, <3>3 DEF Table, u
      <4>2. DirsIn(u) = {}
        BY <1>5, <1>6, <3>1, <3>3 DEF t
      <4> QED
        BY <1>3, <1>5, <3>1, <3>2, <3>3, <4>1, <4>2 DEF n
    <3>4. CASE k # h
      <4>1. e.sec[k] = d.sec[k]
        BY <1>3, <3>2, <3>4
      <4> QED
        BY <1>6, <3>1, <3>2, <4>1
    <3> QED
      BY <3>3, <3>4
  <2>2. \A j, k \in DirsIn(e.root) : e.root[j].first = e.root[k].first => j = k
    BY <1>8 DEF TreeOK
  <2> QED
    BY <1>3, <1>8, <2>1, <2>2 DEF TreeOK
<1>16. \A k \in Cluster \ Homes(d) : e.sec[k] = d.sec[k]
  BY <1>1, <1>3
<1> QED
  BY <1>3, <1>9, <1>11, <1>12, <1>13, <1>14, <1>15, <1>16 DEF Rewrites

LEMMA Resized ==
    ASSUME NEW y \in Entries, NEW z \in Nat, NEW x, x = [y EXCEPT !.size = z]
    PROVE  /\ x \in Entries /\ x.name = y.name /\ x.isDir = y.isDir /\ x.first = y.first
           /\ x.size = z
BY DEF Entries

\* A call that has written all its data has made the file what Written says.
AllLanded(f, off, data, pos, n, g) ==
    /\ FileOK(g) /\ g.size = Max({f.size, off + Len(data)}) /\ Len(g.byte) = Sec * n
    /\ Len(Landed(f, off, SubSeq(data, 1, pos), n)) = Sec * n
    /\ \A i \in 1 .. Sec * n : g.byte[i] = Landed(f, off, SubSeq(data, 1, pos), n)[i]
LEMMA LandedAll ==
    ASSUME NEW f, FileOK(f), NEW off \in Nat, NEW data \in Data, NEW pos, pos = Len(data),
           NEW n \in Nat \ {0}, n = Needed(f, off, pos), NEW g, g = Written(f, off, data)
    PROVE  AllLanded(f, off, data, pos, n, g)
<1> DEFINE m == Max({f.size, off + Len(data)})
           all == SubSeq(data, 1, pos)
<1>1. pos \in Nat /\ DOMAIN data = 1 .. pos /\ DOMAIN all = 1 .. pos /\ off + pos \in Nat
      /\ \A j \in 1 .. pos : all[j] = data[j]
  BY DataIs
<1>2. m \in Nat
  <2>1. f.size \in Nat /\ off + Len(data) \in Nat
    BY <1>1, FileIs
  <2> QED
    BY <2>1, PairMax
<1>3. g = [size |-> m, byte |-> Landed(f, off, data, n)]
  BY DEF Written
<1> HIDE DEF m, all
<1>4. FileOK(g)
  <2>1. FileOK([size |-> m, byte |-> Landed(f, off, data, n)])
    BY <1>1, <1>2, LandedFile
  <2> QED
    BY <1>3, <2>1
<1>5. g.size = m /\ g.byte = Landed(f, off, data, n)
  BY <1>3
<1>6. Lands(f, off, data, pos, n) /\ Len(Landed(f, off, data, n)) = Sec * n
  BY <1>1, LandedIs
<1>7. Lands(f, off, all, pos, n) /\ Len(Landed(f, off, all, n)) = Sec * n
  BY <1>1, LandedIs
<1>8. \A i \in 1 .. Sec * n : Landed(f, off, data, n)[i] = Landed(f, off, all, n)[i]
  BY <1>1, <1>6, <1>7 DEF Lands
<1> QED
  BY <1>4, <1>5, <1>6, <1>7, <1>8 DEF m, all, AllLanded

LEMMA UpdateSizeHolds ==
    ASSUME IInv, UpdateSize, UNCHANGED lost
    PROVE  Holding(NextDisk, op', expect', lost')
<1> DEFINE d == Disk
           e == NextDisk
           l == op.loc
           s == Walk(d.fat, First(d, l))
           f == expect[op.path]
           g == Written(f, op.off, op.data)
           x == [At(l) EXCEPT !.size = Max({At(l).size, op.off + Len(op.data)})]
<1>1. /\ TreeOK(d) /\ ChainsOK(d) /\ AllocationOK(d, op, lost) /\ FilesOK(d, op, expect)
      /\ WriteOK(d, op, expect)
  BY InvIs, Kinds DEF UpdateSize
<1>2. /\ op.kind = "write" /\ op.pos = Len(op.data) /\ PutSlot(l[1], l[2], x)
      /\ op' = Idle /\ expect' = [expect EXCEPT ![op.path] = g] /\ lost' = lost
  BY DEF UpdateSize
<1>3. /\ FileOK(f) /\ Half(d) = {} /\ Chained(d.fat, First(d, l), s) /\ Len(s) \in Nat \ {0}
      /\ s \in [1 .. Len(s) -> Cluster]
      /\ l \in Used(d) /\ Leads(d, op.path, l) /\ op.path \in DOMAIN expect
      /\ op.off \in Nat /\ op.data \in Data /\ op.pos \in Nat
      /\ Len(op.data) \in Nat
      /\ Own(d, l) = Range(s) /\ First(d, l) \in Cluster
      /\ EntryAt(d, l).size = f.size /\ ~EntryAt(d, l).isDir
      /\ Shows(d, s, Landed(f, op.off, SubSeq(op.data, 1, op.pos), Len(s)))
  BY <1>1, WriteIs
<1>4. op.step = "data" /\ Len(s) = Needed(f, op.off, op.pos)
  <2>1. op.step = "data"
    <3>1. op.step # "data" => op.pos < Len(op.data)
      BY <1>1 DEF WriteOK
    <3> QED
      BY <1>2, <1>3, <3>1
  <2> QED
    BY <1>1, <1>2, <2>1 DEF WriteOK
<1> HIDE DEF s, f, g
<1>5. /\ FileOK(g) /\ g.size = Max({f.size, op.off + Len(op.data)}) /\ Len(g.byte) = Sec * Len(s)
      /\ Len(Landed(f, op.off, SubSeq(op.data, 1, op.pos), Len(s))) = Sec * Len(s)
      /\ \A i \in 1 .. Sec * Len(s) :
            g.byte[i] = Landed(f, op.off, SubSeq(op.data, 1, op.pos), Len(s))[i]
  <2>1. g = Written(f, op.off, op.data)
    BY DEF g
  <2>2. AllLanded(f, op.off, op.data, op.pos, Len(s), g)
    BY <1>2, <1>3, <1>4, <2>1, LandedAll
  <2> QED
    BY <2>2 DEF AllLanded
<1>6. At(l) = EntryAt(d, l) /\ EntryAt(d, l) \in Entries
  BY <1>1, <1>3, SlotsAre, UsedIs
<1>7. x \in Entries /\ x.name = EntryAt(d, l).name /\ x.isDir = EntryAt(d, l).isDir
      /\ x.first = First(d, l) /\ x.size = g.size
  <2>1. At(l).size = f.size /\ g.size \in Nat
    BY <1>3, <1>5, <1>6 DEF FileOK
  <2>2. x = [At(l) EXCEPT !.size = g.size]
    BY <1>5, <2>1
  <2> HIDE DEF x
  <2>3. x \in Entries /\ x.name = At(l).name /\ x.isDir = At(l).isDir /\ x.first = At(l).first
        /\ x.size = g.size
    BY <1>6, <2>1, <2>2, Resized
  <2> QED
    BY <1>6, <2>3 DEF First
<1>8. Put(d, e, l[1], l[2], x)
  BY <1>2, DiskIs DEF PutSlot, Put
<1> HIDE DEF d, e, l, x
<1>9. /\ TreeOK(e) /\ Used(e) = Used(d) /\ Homes(e) = Homes(d)
      /\ EntryAt(e, l) = x /\ \A m \in Used(d) \ {l} : EntryAt(e, m) = EntryAt(d, m)
      /\ \A p, m : Leads(e, p, m) <=> Leads(d, p, m)
      /\ \A k \in Cluster \ Homes(d) : e.sec[k] = d.sec[k]
      /\ DOMAIN e.sec = Cluster
  <2>1. TreeOK(d) /\ l \in Used(d) /\ ~EntryAt(d, l).isDir
    BY <1>1, <1>3
  <2>2. Rewrites(d, e, l, x)
    BY <1>7, <1>8, <2>1, TreeResizes
  <2> QED
    BY <2>2 DEF Rewrites
<1>10. e.fat = d.fat
  BY <1>8 DEF Put
<1>11. \A m \in Used(d) : First(e, m) = First(d, m) /\ Own(e, m) = Own(d, m)
                         /\ Walk(e.fat, First(e, m)) = Walk(d.fat, First(d, m))
                         /\ EntryAt(e, m).isDir = EntryAt(d, m).isDir
  <2>1. First(e, l) = First(d, l) /\ EntryAt(e, l).isDir = EntryAt(d, l).isDir
    BY <1>7, <1>9 DEF First
  <2>2. \A m \in Used(d) : First(e, m) = First(d, m) /\ EntryAt(e, m).isDir = EntryAt(d, m).isDir
    BY <1>9, <2>1 DEF First
  <2> QED
    BY <1>10, <2>2 DEF Own
<1>12. ChainsOK(e) /\ Half(e) = {} /\ Owned(e) = Owned(d)
  BY <1>1, <1>3, <1>9, <1>10, <1>11 DEF ChainsOK, Half, Owned
<1>13. AllocationOK(e, op', lost)
  <2>1. Extra(d, op) = {} /\ Extra(e, op') = {} /\ Allocated(e) = Allocated(d)
    BY <1>2, <1>4, <1>10 DEF Extra, Idle, Allocated
  <2> QED
    BY <1>1, <1>12, <2>1 DEF AllocationOK
<1>14. /\ DOMAIN expect' = DOMAIN expect /\ expect'[op.path] = g
       /\ \A p \in DOMAIN expect : p # op.path => expect'[p] = expect[p]
  BY <1>2, <1>3
<1>15. Shows(e, Walk(e.fat, First(e, l)), ByNow(e, op', expect', op.path))
  <2>1. ByNow(e, op', expect', op.path) = g.byte
    BY <1>2, <1>14 DEF ByNow, Idle
  <2>2. \A k \in 1 .. Len(s) : e.sec[s[k]] = d.sec[s[k]]
    <3>1. Own(d, l) \cap Homes(d) = {}
      BY <1>1, <1>3, FileApart
    <3>2. \A k \in 1 .. Len(s) : s[k] \in Own(d, l) /\ s[k] \in Cluster
      <4>1. Range(s) = {s[i] : i \in 1 .. Len(s)}
        BY <1>3, ChainedIs
      <4> QED
        BY <1>3, <4>1
    <3> QED
      BY <1>9, <3>1, <3>2
  <2> DEFINE b == Landed(f, op.off, SubSeq(op.data, 1, op.pos), Len(s))
             a == g.byte
  <2>3. Shows(d, s, b) /\ Len(a) = Len(b) /\ \A i \in 1 .. Sec * Len(s) : a[i] = b[i]
    BY <1>3, <1>5
  <2> HIDE DEF a, b
  <2>4. Shows(e, s, a)
    BY <1>3, <2>2, <2>3, ShowsSame
  <2>5. Walk(e.fat, First(e, l)) = s
    BY <1>3, <1>11 DEF s
  <2> QED
    BY <2>1, <2>4, <2>5 DEF a
<1>16. Rewritten(d, op, expect, e, op', expect', l)
  <2>1. ASSUME NEW m \in Used(d) \ {l}, NEW c \in Own(d, m) \ Homes(d) PROVE e.sec[c] = d.sec[c]
    <3>1. c \in Cluster
      BY <1>1, HomesOwned
    <3> QED
      BY <1>9, <3>1
  <2>2. EntryAt(e, l).size = expect'[op.path].size /\ FileOK(expect'[op.path])
    BY <1>5, <1>7, <1>9, <1>14
  <2>3. op'.kind # "write"
    BY <1>2 DEF Idle
  <2> QED
    BY <1>2, <1>3, <1>9, <1>11, <1>14, <1>15, <2>1, <2>2, <2>3 DEF Rewritten
<1>17. FilesOK(e, op', expect')
  BY <1>1, <1>16, FilesWrite
<1>18. IdleOK(e, op')
  BY <1>2, <1>12 DEF IdleOK
<1> QED
  BY <1>2, <1>9, <1>12, <1>13, <1>17, <1>18 DEF Holding, OpOK, e

----------------------------------------------------------------------------
(* Calls that end early *)

\* The file as far as it has been written.
LEMMA InterruptedHolds ==
    ASSUME IInv, op.kind = "write", Interrupted, NEW q, q = Idle
    PROVE  FilesOK(Disk, q, expect') /\ IdleOK(Disk, q)
<1> DEFINE d == Disk
           l == op.loc
           s == Walk(d.fat, First(d, l))
           f == expect[op.path]
           now == SubSeq(op.data, 1, op.pos)
           b == Landed(f, op.off, now, Len(s))
           g == CutShort(f, op.off, now, Len(s))
<1>1. /\ TreeOK(d) /\ ChainsOK(d) /\ FilesOK(d, op, expect) /\ WriteOK(d, op, expect)
  BY InvIs, Kinds
<1>2. /\ FileOK(f) /\ Half(d) = {} /\ Len(s) \in Nat \ {0}
      /\ l \in Used(d) /\ Leads(d, op.path, l) /\ op.path \in DOMAIN expect
      /\ op.off \in Nat /\ op.data \in Data /\ op.pos \in Nat /\ op.pos <= Len(op.data)
      /\ Len(op.data) \in Nat /\ EntryAt(d, l).size = f.size
      /\ Shows(d, s, b)
  BY <1>1, WriteIs
<1>3. Chain(At(l).first) = s
  <2>1. At(l) = EntryAt(d, l)
    BY <1>1, <1>2, SlotsAre
  <2> QED
    BY <2>1, DiskIs DEF Chain, Walk, First
<1> HIDE DEF s
<1>4. expect' = [expect EXCEPT ![op.path] = g]
  BY <1>3 DEF Interrupted
<1>5. DOMAIN now = 1 .. op.pos
  BY <1>2, DataIs
<1> HIDE DEF d, l, f, now
<1>6. FileOK(g) /\ g.size = f.size /\ g.byte = b
  <2>1. g = [f EXCEPT !.byte = b]
    BY DEF CutShort
  <2>2. FileOK([size |-> f.size, byte |-> b])
    <3>1. f.size \in Nat
      BY <1>2, FileIs
    <3> QED
      BY <1>2, <1>5, <3>1, LandedFile
  <2>3. DOMAIN f = {"size", "byte"}
    BY <1>2 DEF FileOK
  <2> HIDE DEF b, g
  <2>4. DOMAIN g = {"size", "byte"} /\ g.size = f.size /\ g.byte = b
    BY <2>1, <2>3
  <2> QED
    BY <2>2, <2>4 DEF FileOK, Clusters
<1> HIDE DEF b, g
<1>7. /\ DOMAIN expect' = DOMAIN expect /\ expect'[op.path] = g
      /\ \A p \in DOMAIN expect : p # op.path => expect'[p] = expect[p]
  BY <1>2, <1>4
<1>8. q.kind # "write"
  BY DEF Idle
<1>9. Rewritten(d, op, expect, d, q, expect', l)
  <2>1. ByNow(d, q, expect', op.path) = b
    BY <1>6, <1>7, <1>8 DEF ByNow
  <2>2. Shows(d, Walk(d.fat, First(d, l)), ByNow(d, q, expect', op.path))
    BY <1>2, <2>1 DEF s
  <2>3. FileOK(expect'[op.path]) /\ EntryAt(d, l).size = expect'[op.path].size
    BY <1>2, <1>6, <1>7
  <2> QED
    BY <1>2, <1>7, <1>8, <2>2, <2>3 DEF Rewritten
<1>10. FilesOK(d, q, expect')
  BY <1>1, <1>9, FilesWrite
<1> QED
  BY <1>2, <1>10 DEF IdleOK, d

LEMMA DiskFullHolds ==
    ASSUME IInv, DiskFull, UNCHANGED lost
    PROVE  Holding(NextDisk, op', expect', lost')
<1>1. /\ TreeOK(Disk) /\ ChainsOK(Disk) /\ AllocationOK(Disk, op, lost)
  BY InvIs
<1>2. /\ op.kind = "write" /\ op.step = "next" /\ op' = Idle /\ Interrupted /\ lost' = lost
      /\ NextDisk = Disk
  BY DiskSame DEF DiskFull
<1>3. FilesOK(Disk, op', expect') /\ IdleOK(Disk, op')
  BY <1>2, InterruptedHolds
<1>4. AllocationOK(Disk, op', lost')
  <2>1. Extra(Disk, op) = {} /\ Extra(Disk, op') = {}
    BY <1>2 DEF Extra, Idle
  <2> QED
    BY <1>1, <1>2, <2>1 DEF AllocationOK
<1> QED
  BY <1>1, <1>2, <1>3, <1>4 DEF Holding, OpOK

\* What the paths lead to is what is in use, so that what they do not lead to is
\* what losses of power have cost and what the operation alone knows.
LEMMA LostIs ==
    ASSUME IInv
    PROVE  /\ Locs = Used(Disk)
           /\ \A l \in Used(Disk) : ClustersOf(l) = Own(Disk, l)
           /\ Lost = lost \cup Extra(Disk, op)
<1>1. TreeOK(Disk) /\ ChainsOK(Disk) /\ AllocationOK(Disk, op, lost)
  BY InvIs
<1>2. Locs = Used(Disk)
  <2>1. ASSUME NEW p \in Found PROVE Resolve(p) \in Used(Disk)
    BY <1>1, ResolveIs DEF Found, Leads
  <2>2. ASSUME NEW l \in Used(Disk) PROVE l \in Locs
    <3>1. PICK p \in Path : Leads(Disk, p, l)
      BY <1>1, LeadsTotal
    <3>2. Resolve(p) = l /\ l # None
      BY <1>1, <3>1, ResolveIs
    <3> QED
      BY <3>2 DEF Locs, Found
  <2> QED
    BY <2>1, <2>2 DEF Locs
<1>3. ASSUME NEW l \in Used(Disk) PROVE ClustersOf(l) = Own(Disk, l)
  <2>1. At(l) = EntryAt(Disk, l)
    BY <1>1, SlotsAre
  <2>2. Chain(At(l).first) = Walk(Disk.fat, First(Disk, l))
    BY <2>1, DiskIs DEF Chain, Walk, First
  <2> QED
    BY <2>2 DEF ClustersOf, Own, Range
<1>4. Lost = Allocated(Disk) \ Owned(Disk)
  <2>1. UNION {ClustersOf(l) : l \in Locs} = Owned(Disk)
    BY <1>2, <1>3 DEF Owned
  <2> QED
    BY <2>1, DiskIs DEF Lost, Allocated
<1> QED
  BY <1>1, <1>2, <1>3, <1>4 DEF AllocationOK

LEMMA CrashHolds ==
    ASSUME IInv, Crash
    PROVE  Holding(NextDisk, op', expect', lost')
<1> DEFINE d == Disk
<1>1. /\ TreeOK(d) /\ ChainsOK(d) /\ AllocationOK(d, op, lost) /\ FilesOK(d, op, expect)
      /\ OpOK(d, op, expect)
  BY InvIs
<1>2. /\ op.kind \in {"create", "delete", "write"} /\ lost' = Lost /\ NextDisk = d
      /\ op' = IF op.kind = "delete" /\ fat[At(op.loc).first] = FREE THEN Torn(op.path) ELSE Idle
      /\ IF op.kind = "write" THEN Interrupted ELSE expect' = expect
  BY DiskSame DEF Crash
<1>3. op'.kind \in {"idle", "torn"}
  BY <1>2 DEF Idle, Torn
<1>4. AllocationOK(d, op', lost')
  <2>1. Extra(d, op') = {}
    BY <1>3 DEF Extra
  <2>2. lost' = Allocated(d) \ Owned(d) /\ lost' \subseteq Cluster
    BY <1>1, <1>2, LostIs DEF AllocationOK, Allocated
  <2> QED
    BY <2>1, <2>2 DEF AllocationOK
<1>5. ASSUME op.kind # "write" PROVE FilesOK(d, op', expect')
  <2>1. \A p \in DOMAIN expect : ByNow(d, op', expect, p) = ByNow(d, op, expect, p)
    BY <1>3, <1>5 DEF ByNow
  <2>2. SameTree(d, d)
    BY DEF SameTree
  <2> HIDE DEF d
  <2>3. FilesOK(d, op', expect)
    BY <1>1, <2>1, <2>2, FilesKeep
  <2> QED
    BY <1>2, <1>5, <2>3
<1>6. CASE op.kind = "write"
  <2>1. op' = Idle /\ Interrupted
    BY <1>2, <1>6
  <2>2. FilesOK(d, op', expect') /\ IdleOK(d, op')
    BY <1>6, <2>1, InterruptedHolds
  <2> QED
    BY <1>1, <1>2, <1>4, <2>2 DEF Holding, OpOK
<1>7. CASE op.kind = "create"
  <2>1. CreateOK(d, op) /\ op' = Idle
    BY <1>1, <1>2, <1>7, Kinds
  <2>2. IdleOK(d, op')
    BY <2>1 DEF IdleOK, CreateOK
  <2> QED
    BY <1>1, <1>2, <1>4, <1>5, <1>7, <2>2 DEF Holding, OpOK
<1>8. CASE op.kind = "delete"
  <2>1. DeleteOK(d, op)
    BY <1>1, <1>8, Kinds
  <2>2. /\ op.path \in Path /\ op.loc \in Used(d) /\ Half(d) \subseteq {op.loc}
        /\ Leads(d, op.path, op.loc) /\ Bare(d, op.loc)
    BY <2>1 DEF DeleteOK
  <2>3. fat[At(op.loc).first] = FREE <=> op.loc \in Half(d)
    <3>1. At(op.loc) = EntryAt(d, op.loc)
      BY <1>1, <2>2, SlotsAre
    <3> QED
      BY <2>2, <3>1, DiskIs DEF Half, First
  <2>4. OpOK(d, op', expect')
    <3>1. CASE op.loc \in Half(d)
      <4>1. op' = Torn(op.path) /\ Half(d) = {op.loc}
        BY <1>2, <1>8, <2>2, <2>3, <3>1
      <4>2. TornOK(d, op')
        BY <2>2, <4>1 DEF TornOK
      <4> QED
        BY <4>2 DEF OpOK
    <3>2. CASE op.loc \notin Half(d)
      <4>1. op' = Idle /\ Half(d) = {}
        BY <1>2, <1>8, <2>2, <2>3, <3>2
      <4>2. IdleOK(d, op')
        BY <4>1 DEF IdleOK
      <4> QED
        BY <4>2 DEF OpOK
    <3> QED
      BY <3>1, <3>2
  <2> QED
    BY <1>1, <1>2, <1>4, <1>5, <1>8, <2>4 DEF Holding
<1> QED
  BY <1>2, <1>6, <1>7, <1>8

----------------------------------------------------------------------------
(* The invariant holds of a formatted disk, and every step keeps it. *)

LEMMA InitIInv == Init => IInv
<1> SUFFICES ASSUME Init PROVE IInv
  OBVIOUS
<1> DEFINE d == Disk
<1>1. /\ d.fat = [c \in Cluster |-> FREE]
      /\ d.root = [i \in 1 .. RootSlots |-> Unused]
      /\ d.sec = [c \in Cluster |-> [bytes |-> [i \in 0 .. Sec - 1 |-> "junk"]]]
      /\ op = Idle /\ expect = <<>> /\ lost = {}
  BY DiskIs DEF Init
<1> HIDE DEF d
<1>2. Unused \in Entries /\ Unused.name = "00"
  BY DEF Unused, Entry, Entries
<1>3. Live(d.root) = {} /\ DirsIn(d.root) = {}
  BY <1>1, <1>2 DEF Live, DirsIn, Vacant
<1>4. TableOK(d.root, RootSlots)
  <2>1. d.root \in [1 .. RootSlots -> Entries] /\ \A i \in 1 .. RootSlots : d.root[i].name = "00"
    BY <1>1, <1>2
  <2> QED
    BY <1>3, <2>1 DEF TableOK
<1>5. TreeOK(d)
  BY <1>1, <1>3, <1>4 DEF TreeOK
<1>6. Homes(d) = {Root} /\ Used(d) = {}
  <2>1. Homes(d) = {Root} /\ Table(d, Root) = d.root
    BY <1>3 DEF Homes, Table
  <2> QED
    BY <1>3, <2>1 DEF Used
<1>7. ChainsOK(d) /\ Owned(d) = {} /\ Half(d) = {}
  BY <1>1, <1>6 DEF ChainsOK, Owned, Half
<1>8. AllocationOK(d, op, lost)
  <2>1. Allocated(d) = {} /\ Extra(d, op) = {}
    BY <1>1 DEF Allocated, Extra, Idle
  <2> QED
    BY <1>1, <1>7, <2>1 DEF AllocationOK
<1>9. OpOK(d, op, expect)
  BY <1>1, <1>7 DEF OpOK, IdleOK
<1>10. FilesOK(d, op, expect)
  <2>1. DOMAIN expect = {}
    BY <1>1
  <2> QED
    BY <1>6, <2>1 DEF FilesOK
<1> QED
  BY <1>5, <1>7, <1>8, <1>9, <1>10 DEF IInv, Holding, d

\* A call that creates: what the programs are said to leave out is needed here,
\* for a path below a file would make the file's data a directory.
LEMMA CallHolds ==
    ASSUME IInv, Call, UNCHANGED lost
    PROVE  Holding(NextDisk, op', expect', lost')
<1>1. PICK path \in Path :
          \/ CreateFile(path) \/ MakeDir(path) \/ Delete(path)
          \/ \E data \in Data : AppendFile(path, data)
          \/ \E data \in Data, off \in Offsets : WriteAt(path, off, data)
  BY DEF Call
<1>2. TreeOK(Disk)
  BY InvIs
<1>3. CASE CreateFile(path)
  BY <1>3, CreatingHolds DEF CreateFile
<1>4. CASE MakeDir(path)
  <2>1. ~ParentIsFile(path) /\ Len(path) = 1
    BY <1>4 DEF MakeDir, ParentIsFile
  <2> QED
    BY <1>4, <2>1, CreatingHolds DEF MakeDir
<1>5. CASE Delete(path)
  BY <1>5, DeleteHolds
<1>6. ASSUME NEW off \in Nat, NEW data \in Data, WriteAt(path, off, data)
      PROVE  Holding(NextDisk, op', expect', lost')
  <2>1. CASE /\ op = Idle /\ Resolve(path) # None /\ ~At(Resolve(path)).isDir
             /\ Writing(path, Resolve(path), off, data)
             /\ UNCHANGED <<fat, root, sec, expect, promised>>
    BY <2>1, WritingHolds
  <2>2. CASE ~ParentIsFile(path) /\ Creating(path, FALSE, <<off, data>>)
    <3>1. <<off, data>> \in {<<>>} \cup (Nat \X Data)
      OBVIOUS
    <3> QED
      BY <2>2, <3>1, CreatingHolds
  <2> QED
    BY <1>6, <2>1, <2>2 DEF WriteAt
<1>7. ASSUME NEW data \in Data, AppendFile(path, data)
      PROVE  Holding(NextDisk, op', expect', lost')
  <2> DEFINE l == Resolve(path)
  <2>1. l # None /\ WriteAt(path, At(l).size, data)
    BY <1>7 DEF AppendFile
  <2>2. l \in Used(Disk)
    BY <1>2, <2>1, ResolveIs DEF Leads
  <2>3. At(l) \in Entries
    BY <1>2, <2>2, SlotsAre, UsedIs
  <2>4. At(l).size \in Nat
    BY <2>3 DEF Entries
  <2> HIDE DEF l
  <2> QED
    BY <1>6, <2>1, <2>4
<1>8. ASSUME NEW data \in Data, NEW off \in Offsets, WriteAt(path, off, data)
      PROVE  Holding(NextDisk, op', expect', lost')
  BY <1>6, <1>8, FatAssumption
<1> QED
  BY <1>1, <1>3, <1>4, <1>5, <1>7, <1>8

LEMMA NextIInv == IInv /\ [Next]_vars => IInv' \/ Overrun
<1> SUFFICES ASSUME IInv, [Next]_vars, ~Overrun PROVE IInv'
  OBVIOUS
<1>1. CASE UNCHANGED vars
  BY <1>1 DEF vars, IInv, Disk
<1>2. CASE Crash
  BY <1>2, CrashHolds, Primed
<1>3. ASSUME UNCHANGED lost,
             \/ Call \/ InitDir \/ AddEntry \/ FreeCluster \/ MarkDeleted
             \/ WriteChunk \/ NextCluster \/ AllocateNext \/ LinkNext \/ DiskFull \/ UpdateSize
      PROVE  Holding(NextDisk, op', expect', lost')
  <2>1. CASE Call
    BY <1>3, <2>1, CallHolds
  <2>2. CASE InitDir
    BY <1>3, <2>2, InitDirHolds
  <2>3. CASE AddEntry
    <3>1. CASE Added
      BY <1>3, <2>3, <3>1, AddedHolds DEF AddEntry
    <3>2. CASE NotAdded
      BY <1>3, <2>3, <3>2, NotAddedHolds DEF AddEntry
    <3> QED
      BY <2>3, <3>1, <3>2 DEF AddEntry
  <2>4. CASE FreeCluster
    BY <1>3, <2>4, FreeFirstHolds, FreeRestHolds
  <2>5. CASE MarkDeleted
    BY <1>3, <2>5, MarkDeletedHolds
  <2>6. CASE WriteChunk
    BY <1>3, <2>6, WriteChunkHolds
  <2>7. CASE NextCluster
    BY <1>3, <2>7, NextClusterHolds
  <2>8. CASE AllocateNext
    BY <1>3, <2>8, AllocateNextHolds
  <2>9. CASE LinkNext
    BY <1>3, <2>9, LinkNextHolds
  <2>10. CASE DiskFull
    BY <1>3, <2>10, DiskFullHolds
  <2>11. CASE UpdateSize
    BY <1>3, <2>11, UpdateSizeHolds
  <2> QED
    BY <1>3, <2>1, <2>2, <2>3, <2>4, <2>5, <2>6, <2>7, <2>8, <2>9, <2>10, <2>11
<1> QED
  BY <1>1, <1>2, <1>3, Primed DEF Next

----------------------------------------------------------------------------
(* What the invariant says between two operations *)

\* A path that leads to an entry whose clusters have not begun to be freed.
LEMMA WholeIs ==
    ASSUME IInv, Settled, NEW p \in Whole
    PROVE  /\ p \in Path /\ Leads(Disk, p, Resolve(p)) /\ Resolve(p) \in Used(Disk) \ Half(Disk)
           /\ At(Resolve(p)) = EntryAt(Disk, Resolve(p))
           /\ Chain(At(Resolve(p)).first) = Walk(Disk.fat, First(Disk, Resolve(p)))
           /\ Chained(Disk.fat, First(Disk, Resolve(p)), Walk(Disk.fat, First(Disk, Resolve(p))))
<1> DEFINE d == Disk
           l == Resolve(p)
<1>1. TreeOK(d) /\ ChainsOK(d) /\ OpOK(d, op, expect)
  BY InvIs
<1>2. p \in Path /\ l # None /\ op # Torn(p)
  BY DEF Whole, Found
<1>3. Leads(d, p, l) /\ l \in Used(d)
  BY <1>1, <1>2, ResolveIs DEF Leads
<1>4. l \notin Half(d)
  <2>1. CASE op.kind = "idle"
    BY <1>1, <2>1, Kinds DEF IdleOK
  <2>2. CASE op.kind = "torn"
    <3>1. TornOK(d, op)
      BY <1>1, <2>2, Kinds
    <3>2. PICK q \in Path, m \in Used(d) : op = Torn(q) /\ Leads(d, q, m) /\ Half(d) = {m}
      BY <3>1 DEF TornOK
    <3>3. q # p
      BY <1>2, <3>2
    <3>4. m # l
      BY <1>1, <1>2, <1>3, <3>2, <3>3, LeadsUnique
    <3> QED
      BY <3>2, <3>4
  <2> QED
    BY <2>1, <2>2 DEF Settled
<1>5. At(l) = EntryAt(d, l)
  BY <1>1, <1>3, SlotsAre
<1>6. Chain(At(l).first) = Walk(d.fat, First(d, l))
  BY <1>5, DiskIs DEF Chain, Walk, First
<1>7. First(d, l) \in Cluster /\ Sound(d.fat, First(d, l)) /\ d.fat[First(d, l)] # FREE
  BY <1>1, <1>3, <1>4, UsedIs DEF ChainsOK, Half
<1>8. Chained(d.fat, First(d, l), Walk(d.fat, First(d, l)))
  BY <1>7 DEF Sound
<1> QED
  BY <1>2, <1>3, <1>4, <1>5, <1>6, <1>8

LEMMA IInvTyped == IInv => TypeOK
<1> SUFFICES ASSUME IInv PROVE TypeOK
  OBVIOUS
<1>1. TreeOK(Disk) /\ OpOK(Disk, op, expect) /\ fat \in Fats /\ Disk.root = root /\ Disk.sec = sec
  BY InvIs, DiskIs
<1>2. TableOK(root, RootSlots)
  BY <1>1 DEF TreeOK
<1>3. root \in [1 .. RootSlots -> Entries]
  BY <1>2 DEF TableOK
<1>4. ASSUME NEW i \in DOMAIN root, root[i].isDir, ~Vacant(root[i]) PROVE Holds(root[i].first)
  <2>1. i \in DirsIn(root)
    BY <1>4 DEF DirsIn, Live
  <2>2. DOMAIN sec[root[i].first] = {"slots"}
    BY <1>1, <2>1 DEF TreeOK
  <2> QED
    BY <2>2 DEF Holds
<1>5. \A i \in DOMAIN root : root[i].first \in Cluster \cup {0} /\ root[i].size \in Nat
  BY <1>3 DEF Entries
<1>6. op.kind \in {"idle", "torn", "create", "delete", "write"}
  BY <1>1, Kinds
<1> QED
  BY <1>1, <1>3, <1>4, <1>5, <1>6 DEF TypeOK, Fats

LEMMA ChainEnds ==
    ASSUME NEW f, NEW c, NEW s, Chained(f, c, s)
    PROVE  /\ s # <<>> /\ DOMAIN s = 1 .. Len(s) /\ f[s[Len(s)]] = EOC
           /\ \A i \in 1 .. Len(s) : f[s[i]] # FREE
<1>1. /\ Len(s) \in 1 .. LastCluster - 1 /\ s \in [1 .. Len(s) -> Cluster]
      /\ Range(s) = {s[i] : i \in 1 .. Len(s)} /\ \A x \in Range(s) : f[x] # FREE
  BY ChainedIs
<1>2. s # <<>> /\ \A i \in 1 .. Len(s) : f[s[i]] = IF i = Len(s) THEN EOC ELSE s[i + 1]
  BY DEF Chained
<1>3. Len(s) \in 1 .. Len(s)
  BY <1>1
<1> QED
  BY <1>1, <1>2, <1>3

LEMMA IInvIntact == IInv => ChainsIntact
<1> SUFFICES ASSUME IInv PROVE ChainsIntact
  OBVIOUS
<1>1. TreeOK(Disk) /\ ChainsOK(Disk)
  BY InvIs
<1>2. ASSUME Settled, NEW p \in Whole
      PROVE  LET chain == Chain(At(Resolve(p)).first) IN
             /\ chain # <<>>
             /\ \A i \in DOMAIN chain : fat[chain[i]] # FREE
             /\ fat[chain[Len(chain)]] = EOC
  <2> DEFINE s == Walk(Disk.fat, First(Disk, Resolve(p)))
  <2>1. Chain(At(Resolve(p)).first) = s /\ Chained(Disk.fat, First(Disk, Resolve(p)), s)
    BY <1>2, WholeIs
  <2> HIDE DEF s
  <2>2. /\ s # <<>> /\ DOMAIN s = 1 .. Len(s) /\ Disk.fat[s[Len(s)]] = EOC
        /\ \A i \in 1 .. Len(s) : Disk.fat[s[i]] # FREE
    BY <2>1, ChainEnds
  <2> QED
    BY <2>1, <2>2, DiskIs
<1>3. ASSUME NEW p \in Found, NEW q \in Found, p # q
      PROVE  ClustersOf(Resolve(p)) \cap ClustersOf(Resolve(q)) = {}
  <2>1. /\ p \in Path /\ Leads(Disk, p, Resolve(p)) /\ Resolve(p) \in Used(Disk)
        /\ q \in Path /\ Leads(Disk, q, Resolve(q)) /\ Resolve(q) \in Used(Disk)
    BY <1>1, ResolveIs DEF Found, Leads
  <2>2. Resolve(p) # Resolve(q)
    BY <1>1, <1>3, <2>1, LeadsUnique
  <2>3. /\ ClustersOf(Resolve(p)) = Own(Disk, Resolve(p))
        /\ ClustersOf(Resolve(q)) = Own(Disk, Resolve(q))
    BY <2>1, LostIs
  <2> QED
    BY <1>1, <2>1, <2>2, <2>3 DEF ChainsOK
<1> QED
  BY <1>2, <1>3, IInvTyped DEF ChainsIntact

LEMMA IInvNoneLost == IInv => NoClusterLost
<1> SUFFICES ASSUME IInv, Settled PROVE Lost = lost
  BY DEF NoClusterLost
<1>1. Extra(Disk, op) = {}
  BY DEF Settled, Extra
<1> QED
  BY <1>1, LostIs

\* The cluster and the offset in it of a byte.
LEMMA PlaceOf ==
    ASSUME NEW n \in Nat, NEW i \in 1 .. Sec * n
    PROVE  /\ ((i - 1) \div Sec) + 1 \in 1 .. n /\ (i - 1) % Sec \in 0 .. Sec - 1
           /\ i = Sec * ((((i - 1) \div Sec) + 1) - 1) + ((i - 1) % Sec) + 1
<1> DEFINE q == (i - 1) \div Sec
           r == (i - 1) % Sec
<1>1. Sec \in Nat \ {0} /\ Sec * n \in Nat /\ i - 1 \in Nat /\ i \in Int
  BY SecIs, Naturals2
<1>2. q \in Nat /\ i - 1 = Sec * q + r /\ Sec * q <= i - 1
  BY <1>1, Division
<1>3. r \in 0 .. Sec - 1
  BY <1>1, Wrapped
<1> HIDE DEF q, r
<1>4. q < n
  <2> SUFFICES ASSUME n <= q PROVE FALSE
    BY <1>2
  <2>1. Sec * n <= Sec * q
    BY <1>1, <1>2, Products
  <2>2. Sec * q \in Nat
    BY <1>1, <1>2, Naturals2
  <2> QED
    BY <1>1, <1>2, <2>1, <2>2
<1>5. q + 1 \in 1 .. n /\ (q + 1) - 1 = q
  BY <1>2, <1>4
<1>6. i = Sec * q + r + 1
  <2>1. Sec * q \in Nat
    BY <1>1, <1>2, Naturals2
  <2> QED
    BY <1>1, <1>2, <1>3, <2>1
<1> QED
  BY <1>3, <1>5, <1>6 DEF q, r

LEMMA IInvFollows == IInv => FollowsFileOps
<1> SUFFICES ASSUME IInv, Settled
             PROVE  /\ DOMAIN expect = {p \in Found : ~At(Resolve(p)).isDir}
                    /\ \A p \in DOMAIN expect \cap Whole :
                          LET file == OnDisk(At(Resolve(p)))
                          IN  /\ file.size = expect[p].size
                              /\ Len(file.byte) = Len(expect[p].byte)
                              /\ \A i \in DOMAIN file.byte :
                                    expect[p].byte[i] # Stale => file.byte[i] = expect[p].byte[i]
  BY DEF FollowsFileOps
<1> DEFINE d == Disk
<1>1. TreeOK(d) /\ ChainsOK(d) /\ FilesOK(d, op, expect) /\ op.kind # "write"
  BY InvIs DEF Settled
<1>2. DOMAIN expect = {p \in Path : \E l \in Used(d) : Leads(d, p, l) /\ ~EntryAt(d, l).isDir}
  BY <1>1 DEF FilesOK
<1>3. DOMAIN expect = {p \in Found : ~At(Resolve(p)).isDir}
  <2>1. ASSUME NEW p \in DOMAIN expect PROVE p \in Found /\ ~At(Resolve(p)).isDir
    <3>1. PICK l \in Used(d) : Leads(d, p, l) /\ ~EntryAt(d, l).isDir
      BY <1>2
    <3>2. p \in Path /\ Resolve(p) = l /\ l # None /\ At(l) = EntryAt(d, l)
      BY <1>1, <1>2, <3>1, ResolveIs, SlotsAre
    <3> QED
      BY <3>1, <3>2 DEF Found
  <2>2. ASSUME NEW p \in Found, ~At(Resolve(p)).isDir PROVE p \in DOMAIN expect
    <3>1. p \in Path /\ Leads(d, p, Resolve(p)) /\ Resolve(p) \in Used(d)
      BY <1>1, ResolveIs DEF Found, Leads
    <3>2. At(Resolve(p)) = EntryAt(d, Resolve(p))
      BY <1>1, <3>1, SlotsAre
    <3> QED
      BY <1>2, <2>2, <3>1, <3>2
  <2> QED
    BY <2>1, <2>2
<1>4. ASSUME NEW p \in DOMAIN expect, p \in Whole
      PROVE  LET file == OnDisk(At(Resolve(p)))
             IN  /\ file.size = expect[p].size
                 /\ Len(file.byte) = Len(expect[p].byte)
                 /\ \A i \in DOMAIN file.byte :
                       expect[p].byte[i] # Stale => file.byte[i] = expect[p].byte[i]
  <2> DEFINE l == Resolve(p)
             s == Walk(d.fat, First(d, l))
             want == expect[p].byte
             file == OnDisk(At(l))
             n == Sec * Len(s)
  <2>1. /\ Leads(d, p, l) /\ l \in Used(d) \ Half(d) /\ At(l) = EntryAt(d, l)
        /\ Chain(At(l).first) = s /\ Chained(d.fat, First(d, l), s)
    BY <1>4, WholeIs
  <2>2. EntryAt(d, l).size = expect[p].size /\ Shows(d, s, want)
    <3>1. ByNow(d, op, expect, p) = want
      BY <1>1 DEF ByNow
    <3> QED
      BY <1>1, <2>1, <3>1 DEF FilesOK
  <2>3. Len(s) \in Nat
    BY <2>1, ChainedIs
  <2>4. file.size = At(l).size
        /\ file.byte = [i \in 1 .. n |-> Bytes(s[((i - 1) \div Sec) + 1])[(i - 1) % Sec]]
    BY <2>1 DEF OnDisk
  <2>5. n \in Nat /\ Len(want) = n
    BY <2>2, <2>3, SecIs, Naturals2 DEF Shows
  <2> HIDE DEF n, s, want, file, l
  <2>6. DOMAIN file.byte = 1 .. n /\ Len(file.byte) = n
    BY <2>4, <2>5
  <2>7. ASSUME NEW i \in 1 .. n, want[i] # Stale PROVE file.byte[i] = want[i]
    <3> DEFINE k == ((i - 1) \div Sec) + 1
               r == (i - 1) % Sec
    <3>1. file.byte[i] = Bytes(s[k])[r]
      BY <2>4
    <3>2. k \in 1 .. Len(s) /\ r \in 0 .. Sec - 1 /\ i = Sec * (k - 1) + r + 1
      BY <2>3, PlaceOf DEF n
    <3> HIDE DEF k, r
    <3>3. ByteAt(d, s[k], r) = want[i]
      BY <2>2, <2>7, <3>2 DEF Shows
    <3>4. Bytes(s[k])[r] = ByteAt(d, s[k], r)
      BY <3>2, DiskIs DEF Bytes, ByteAt
    <3> QED
      BY <3>1, <3>3, <3>4
  <2> QED
    BY <2>1, <2>2, <2>4, <2>5, <2>6, <2>7 DEF file, want, l
<1> QED
  BY <1>3, <1>4

----------------------------------------------------------------------------
(* What the callers were promised *)

\* What c holds at the positions of b, b has too, and calls have written it.
KeptIn(b, c) == \A i \in DOMAIN b : i \in DOMAIN c /\ c[i] = b[i] /\ b[i] # Stale
PromisesOK(ex, pr) ==
    /\ DOMAIN pr = DOMAIN ex
    /\ \A p \in DOMAIN pr :
          /\ pr[p].size = ex[p].size
          /\ pr[p].placed => KeptIn(pr[p].byte, ex[p].byte)

\* A write that does not go astray puts every byte where its caller means it.
LEMMA OverlayKept ==
    ASSUME NEW f, FileOK(f), NEW b, KeptIn(b, f.byte), NEW off \in Nat, NEW data, NEW m \in Nat,
           DOMAIN data = 1 .. m, Len(data) = m, \A j \in 1 .. m : data[j] # Stale,
           ~Astray(f, off, data), NEW n \in Nat \ {0}, Clusters(f) <= n,
           m > 0 => Seek(f, off) + m <= Sec * n
    PROVE  KeptIn(Overlay(b, off, data), Landed(f, off, data, n))
<1> DEFINE c == Landed(f, off, data, n)
           a == Overlay(b, off, data)
           k == Clusters(f)
           u == Sec * k
           v == Sec * n
<1>1. k \in Nat /\ DOMAIN f.byte = 1 .. u /\ Len(f.byte) = u /\ u \in Nat /\ v \in Nat /\ u <= v
  <2>1. k \in Nat /\ DOMAIN f.byte = 1 .. u /\ Len(f.byte) = u /\ u \in Nat
    BY FileIs
  <2>2. v \in Nat
    BY SecIs, Naturals2
  <2>3. k \in Int /\ n \in Int /\ k <= n
    BY <2>1
  <2> HIDE DEF k
  <2>4. u <= v
    BY <2>3, SecIs, Products
  <2> QED
    BY <2>1, <2>2, <2>4 DEF k
<1>2. DOMAIN c = 1 .. v /\ Lands(f, off, data, m, n)
  <2>1. c = [i \in 1 .. v |-> c[i]] /\ Lands(f, off, data, m, n)
    BY LandedIs
  <2> HIDE DEF c
  <2> QED
    BY <2>1
<1>3. m > 0 => Seek(f, off) = off
  <2> SUFFICES ASSUME m > 0 PROVE Seek(f, off) = off
    OBVIOUS
  <2>1. data # <<>>
    <3>1. 1 \in DOMAIN data
      OBVIOUS
    <3> QED
      BY <3>1
  <2>2. off < Len(f.byte)
    BY <1>1, <2>1 DEF Astray
  <2> QED
    BY <2>2, SeekInside
<1>4. /\ DOMAIN a = DOMAIN b \cup (off + 1 .. off + m)
      /\ \A i \in DOMAIN a : a[i] = IF i - off \in 1 .. m THEN data[i - off] ELSE b[i]
  BY DEF Overlay
<1>5. \A i \in DOMAIN b : i \in 1 .. u /\ f.byte[i] = b[i] /\ b[i] # Stale
  BY <1>1 DEF KeptIn
<1>6. \A i \in 1 .. v :
         c[i] = IF i - Seek(f, off) \in 1 .. m THEN data[i - Seek(f, off)]
                ELSE IF i \in 1 .. u THEN f.byte[i] ELSE Stale
  BY <1>2 DEF Lands
<1>7. m > 0 => off + m <= v
  BY <1>3
<1> HIDE DEF a, c, u, v, k
<1>8. ASSUME NEW i \in DOMAIN a, i - off \in 1 .. m, i \in Int
      PROVE  i \in 1 .. v /\ c[i] = a[i] /\ a[i] # Stale
  <2>1. m > 0 /\ i \in 1 .. v
    BY <1>1, <1>7, <1>8
  <2> QED
    BY <1>3, <1>4, <1>6, <1>8, <2>1
<1>9. ASSUME NEW i \in DOMAIN a, i \in Int, i - off \notin 1 .. m
      PROVE  i \in 1 .. v /\ c[i] = a[i] /\ a[i] # Stale
  <2>1. i \in DOMAIN b
    BY <1>4, <1>9
  <2>2. i \in 1 .. u /\ i \in 1 .. v
    BY <1>1, <1>5, <2>1
  <2>3. i - Seek(f, off) \notin 1 .. m
    <3>1. CASE m > 0
      BY <1>3, <1>9, <3>1
    <3>2. CASE ~(m > 0)
      BY <3>2
    <3> QED
      BY <3>1, <3>2
  <2> QED
    BY <1>4, <1>5, <1>6, <1>9, <2>1, <2>2, <2>3
<1>10. \A i \in DOMAIN a : i \in Int
  BY <1>4, <1>5
<1> QED
  BY <1>2, <1>8, <1>9, <1>10 DEF KeptIn, a, c

\* data is written at off of file q, which has n clusters then.
Adds(ex, pr, exx, prr, q, off, data, n) ==
    /\ DOMAIN exx = DOMAIN ex /\ DOMAIN prr = DOMAIN pr
    /\ \A p \in DOMAIN ex : p # q => exx[p] = ex[p] /\ prr[p] = pr[p]
    /\ exx[q].size = prr[q].size
    /\ exx[q].byte = Landed(ex[q], off, data, n)
    /\ prr[q].byte = Overlay(pr[q].byte, off, data)
    /\ prr[q].placed => pr[q].placed /\ ~Astray(ex[q], off, data)
LEMMA KeepHolds ==
    ASSUME NEW ex, NEW pr, PromisesOK(ex, pr), NEW q \in DOMAIN ex, FileOK(ex[q]),
           NEW off \in Nat, NEW data, NEW m \in Nat,
           DOMAIN data = 1 .. m, Len(data) = m, \A j \in 1 .. m : data[j] # Stale,
           NEW n \in Nat \ {0}, Clusters(ex[q]) <= n,
           m > 0 => Seek(ex[q], off) + m <= Sec * n,
           NEW exx, NEW prr, Adds(ex, pr, exx, prr, q, off, data, n)
    PROVE  PromisesOK(exx, prr)
<1>1. /\ DOMAIN pr = DOMAIN ex /\ DOMAIN exx = DOMAIN ex /\ DOMAIN prr = DOMAIN pr
      /\ \A p \in DOMAIN ex : p # q => exx[p] = ex[p] /\ prr[p] = pr[p]
  BY DEF PromisesOK, Adds
<1>2. exx[q].size = prr[q].size
  BY DEF Adds
<1>3. ASSUME prr[q].placed PROVE KeptIn(prr[q].byte, exx[q].byte)
  <2>1. pr[q].placed /\ ~Astray(ex[q], off, data)
    BY <1>3 DEF Adds
  <2>2. KeptIn(pr[q].byte, ex[q].byte)
    BY <2>1 DEF PromisesOK
  <2>3. KeptIn(Overlay(pr[q].byte, off, data), Landed(ex[q], off, data, n))
    BY <2>1, <2>2, OverlayKept
  <2> QED
    BY <2>3 DEF Adds
<1> QED
  BY <1>1, <1>2, <1>3 DEF PromisesOK

\* The clusters of the file being written.
LEMMA ClustersSoFar ==
    ASSUME IInv, op.kind = "write"
    PROVE  LET f == expect[op.path]
               n == Len(Chain(At(op.loc).first))
           IN  /\ op.path \in DOMAIN expect /\ FileOK(f)
               /\ op.off \in Nat /\ op.pos \in Nat /\ op.data \in Data
               /\ op.pos <= Len(op.data) /\ Len(op.data) \in Nat
               /\ n \in Nat \ {0} /\ Clusters(f) <= n
               /\ op.pos > 0 => Seek(f, op.off) + op.pos <= Sec * n
<1> DEFINE d == Disk
           l == op.loc
           s == Walk(d.fat, First(d, l))
           f == expect[op.path]
           start == Seek(f, op.off)
<1>1. /\ TreeOK(d) /\ ChainsOK(d) /\ FilesOK(d, op, expect) /\ WriteOK(d, op, expect)
  BY InvIs, Kinds
<1>2. /\ FileOK(f) /\ Len(s) \in Nat \ {0} /\ l \in Used(d) /\ op.path \in DOMAIN expect
      /\ op.off \in Nat /\ op.data \in Data /\ op.pos \in Nat /\ op.pos <= Len(op.data)
      /\ Len(op.data) \in Nat /\ start \in Nat
  BY <1>1, WriteIs
<1>3. Chain(At(l).first) = s
  <2>1. At(l) = EntryAt(d, l)
    BY <1>1, <1>2, SlotsAre
  <2> QED
    BY <2>1, DiskIs DEF Chain, Walk, First
<1>4. /\ op.step = "data" /\ op.pos = Len(op.data) => Len(s) = Needed(f, op.off, op.pos)
      /\ op.step = "data" /\ op.pos < Len(op.data) =>
            \E k \in 1 .. Len(s) :
               /\ start + op.pos = Sec * (k - 1) + ((op.off + op.pos) % Sec)
               /\ Len(s) = IF Clusters(f) < k THEN k ELSE Clusters(f)
      /\ op.step # "data" =>
            \E k \in 1 .. Len(s) :
               start + op.pos = Sec * k /\ Len(s) = IF Clusters(f) < k THEN k ELSE Clusters(f)
  BY <1>1 DEF WriteOK
<1>5. Clusters(f) \in Nat /\ Sec \in Nat \ {0} /\ Sec * Len(s) \in Nat
  <2>1. Clusters(f) \in Nat /\ Sec \in Nat \ {0}
    BY <1>2, FileIs, SecIs
  <2> QED
    BY <1>2, <2>1, Naturals2
<1> DEFINE n == Len(s)
           pos == op.pos
           off == op.off
           v == Sec * n
<1>6. n \in Nat \ {0} /\ v \in Nat /\ start \in Nat /\ pos \in Nat /\ off \in Nat /\ Sec \in Nat \ {0}
      /\ Clusters(f) \in Nat
  BY <1>2, <1>5
<1> HIDE DEF s, f, n, start, v, pos, off
<1>7. CASE op.step = "data" /\ op.pos = Len(op.data)
  <2>1. n = Needed(f, off, pos)
    BY <1>4, <1>7 DEF n, off, pos
  <2>2. Clusters(f) <= n /\ (pos > 0 => Seek(f, off) + pos <= Sec * n)
    BY <1>2, <1>6, <2>1, EnoughClusters
  <2> QED
    BY <1>2, <1>3, <1>6, <2>2 DEF n, f, off, pos
<1>8. ASSUME NEW k \in 1 .. n, start + pos <= Sec * k, n = IF Clusters(f) < k THEN k ELSE Clusters(f)
      PROVE  Clusters(f) <= n /\ start + pos <= v
  <2>1. Clusters(f) <= n /\ k <= n /\ k \in Nat /\ k \in Int /\ n \in Int
    BY <1>6, <1>8
  <2>2. Sec * k <= Sec * n
    BY <1>6, <2>1, Products
  <2>3. Sec * k \in Nat
    BY <1>6, <2>1, Naturals2
  <2> DEFINE w == Sec * k
  <2>4. w \in Nat /\ w <= v /\ start + pos <= w
    BY <1>8, <2>2, <2>3 DEF v
  <2> HIDE DEF w
  <2> QED
    BY <1>6, <2>1, <2>4
<1>9. CASE op.step = "data" /\ op.pos < Len(op.data)
  <2>1. PICK k \in 1 .. n : /\ start + pos = Sec * (k - 1) + ((off + pos) % Sec)
                            /\ n = IF Clusters(f) < k THEN k ELSE Clusters(f)
    BY <1>4, <1>9 DEF n, pos, off
  <2> DEFINE r == (off + pos) % Sec
             w == Sec * (k - 1)
  <2>2. r \in 0 .. Sec - 1
    BY <1>6, Wrapped
  <2>3. w \in Nat /\ Sec * k = w + Sec
    <3>1. k - 1 \in Nat
      BY <1>6
    <3> QED
      BY <1>6, <3>1, Naturals2
  <2>4. start + pos = w + r
    BY <2>1
  <2> HIDE DEF r, w
  <2>5. start + pos <= Sec * k
    <3> DEFINE z == Sec * k
    <3>1. z = w + Sec
      BY <2>3
    <3> HIDE DEF z
    <3>2. start + pos <= z
      BY <1>6, <2>2, <2>3, <2>4, <3>1
    <3> QED
      BY <3>2 DEF z
  <2>6. Clusters(f) <= n /\ start + pos <= v
    BY <1>8, <2>1, <2>5
  <2> QED
    BY <1>2, <1>3, <1>6, <2>6 DEF n, f, start, pos, off, v
<1>10. CASE op.step # "data"
  <2>1. PICK k \in 1 .. n : start + pos = Sec * k /\ n = IF Clusters(f) < k THEN k ELSE Clusters(f)
    BY <1>4, <1>10 DEF n, pos
  <2>2. start + pos <= Sec * k
    <3> DEFINE z == Sec * k
    <3>1. start + pos = z /\ start + pos \in Nat
      BY <1>6, <2>1
    <3> HIDE DEF z
    <3>2. start + pos <= z
      BY <3>1
    <3> QED
      BY <3>2 DEF z
  <2>3. Clusters(f) <= n /\ start + pos <= v
    BY <1>8, <2>1, <2>2
  <2> QED
    BY <1>2, <1>3, <1>6, <2>3 DEF n, f, start, pos, off, v
<1> QED
  BY <1>2, <1>7, <1>9, <1>10

\* Stale is not among what programs write.
LEMMA Written2 ==
    ASSUME NEW data \in Data, NEW m \in 0 .. Len(data)
    PROVE  /\ DOMAIN SubSeq(data, 1, m) = 1 .. m /\ Len(SubSeq(data, 1, m)) = m
           /\ \A j \in 1 .. m : SubSeq(data, 1, m)[j] # Stale
<1>1. data \in Seq(Range(data)) /\ Stale \notin Range(data)
  BY FatAssumption
<1>2. DOMAIN data = 1 .. Len(data) /\ Len(data) \in Nat
  BY DataIs
<1>3. \A j \in 1 .. Len(data) : data[j] # Stale
  BY <1>1, <1>2 DEF Range
<1>4. /\ DOMAIN SubSeq(data, 1, m) = 1 .. m /\ Len(SubSeq(data, 1, m)) = m
      /\ \A j \in 1 .. m : SubSeq(data, 1, m)[j] = data[j]
  BY <1>1, <1>2
<1> QED
  BY <1>2, <1>3, <1>4

LEMMA InterruptedKeeps ==
    ASSUME IInv, PromisesOK(expect, promised), op.kind = "write", Interrupted
    PROVE  PromisesOK(expect', promised')
<1> DEFINE q == op.path
           f == expect[q]
           off == op.off
           m == op.pos
           data == SubSeq(op.data, 1, m)
           n == Len(Chain(At(op.loc).first))
           g == CutShort(f, off, data, n)
<1>1. /\ q \in DOMAIN expect /\ FileOK(f) /\ off \in Nat /\ m \in Nat /\ op.data \in Data
      /\ m \in 0 .. Len(op.data) /\ n \in Nat \ {0} /\ Clusters(f) <= n
      /\ m > 0 => Seek(f, off) + m <= Sec * n
  <2>1. m \in Nat /\ m <= Len(op.data) /\ Len(op.data) \in Nat
    BY ClustersSoFar
  <2> QED
    BY <2>1, ClustersSoFar
<1>2. DOMAIN data = 1 .. m /\ Len(data) = m /\ \A j \in 1 .. m : data[j] # Stale
  BY <1>1, Written2
<1>3. g.size = f.size /\ g.byte = Landed(f, off, data, n)
  <2>1. DOMAIN f = {"size", "byte"}
    BY <1>1 DEF FileOK
  <2> QED
    BY <2>1 DEF CutShort
<1>4. promised[q].size = f.size
  BY <1>1 DEF PromisesOK
<1>5. /\ expect' = [expect EXCEPT ![q] = g]
      /\ promised' = [promised EXCEPT ![q] = Promise(promised[q].size, Overlay(@.byte, off, data),
                                                     @.placed /\ ~Astray(expect[q], off, data))]
  BY DEF Interrupted, Keep
<1> HIDE DEF q, off, m, data, n, g
<1>6. Adds(expect, promised, expect', promised', q, off, data, n)
  <2>1. DOMAIN promised = DOMAIN expect
    BY DEF PromisesOK
  <2> QED
    BY <1>1, <1>3, <1>4, <1>5, <2>1 DEF Adds, Promise, f
<1> QED
  BY <1>1, <1>2, <1>6, KeepHolds DEF f

LEMMA UpdateSizeKeeps ==
    ASSUME IInv, PromisesOK(expect, promised), UpdateSize
    PROVE  PromisesOK(expect', promised')
<1> DEFINE q == op.path
           f == expect[q]
           off == op.off
           data == op.data
           m == Len(data)
           n == Needed(f, off, m)
           g == Written(f, off, data)
<1>1. /\ q \in DOMAIN expect /\ FileOK(f) /\ off \in Nat /\ data \in Data
      /\ m \in 0 .. Len(data) /\ m \in Nat
  <2>1. op.kind = "write"
    BY DEF UpdateSize
  <2>2. Len(data) \in Nat /\ m = Len(data)
    BY <2>1, ClustersSoFar
  <2> QED
    BY <2>1, <2>2, ClustersSoFar
<1>2. n \in Nat \ {0} /\ Clusters(f) <= n /\ (m > 0 => Seek(f, off) + m <= Sec * n)
  BY <1>1, EnoughClusters
<1>3. DOMAIN data = 1 .. m /\ \A j \in 1 .. m : data[j] # Stale
  <2>1. data \in Seq(Range(data)) /\ Stale \notin Range(data)
    BY <1>1, FatAssumption
  <2>2. DOMAIN data = 1 .. m
    BY <1>1, DataIs
  <2> QED
    BY <2>1, <2>2 DEF Range
<1>4. g.size = Max({f.size, off + m}) /\ g.byte = Landed(f, off, data, n)
  BY DEF Written
<1>5. promised[q].size = f.size
  BY <1>1 DEF PromisesOK
<1>6. /\ expect' = [expect EXCEPT ![q] = g]
      /\ promised' = [promised EXCEPT ![q] =
                         Promise(Max({promised[q].size, off + m}), Overlay(@.byte, off, data),
                                 @.placed /\ ~Astray(expect[q], off, data))]
  BY DEF UpdateSize, Keep
<1>7. Max({promised[q].size, off + m}) = g.size
  BY <1>4, <1>5
<1>8. Len(data) = m
  OBVIOUS
<1> HIDE DEF q, off, m, data, n, g
<1>9. Adds(expect, promised, expect', promised', q, off, data, n)
  <2>1. DOMAIN promised = DOMAIN expect
    BY DEF PromisesOK
  <2> QED
    BY <1>1, <1>4, <1>6, <1>7, <2>1 DEF Adds, Promise, f
<1> QED
  BY <1>1, <1>2, <1>3, <1>8, <1>9, KeepHolds DEF f

\* The promises are kept by every step.
LEMMA NextKeeps ==
    ASSUME IInv, PromisesOK(expect, promised), [Next]_vars
    PROVE  PromisesOK(expect', promised')
<1>1. ASSUME UNCHANGED <<expect, promised>> PROVE PromisesOK(expect', promised')
  BY <1>1 DEF PromisesOK
<1>2. CASE Crash
  <2>1. CASE op.kind = "write"
    BY <1>2, <2>1, InterruptedKeeps DEF Crash
  <2>2. CASE op.kind # "write"
    BY <1>1, <1>2, <2>2 DEF Crash
  <2> QED
    BY <2>1, <2>2
<1>3. CASE DiskFull
  BY <1>3, InterruptedKeeps DEF DiskFull
<1>4. CASE UpdateSize
  BY <1>4, UpdateSizeKeeps
<1>5. CASE AddEntry
  <2>1. CASE NotAdded
    BY <1>1, <2>1 DEF NotAdded
  <2>2. CASE Added /\ op.isDir
    BY <1>1, <2>2 DEF Added
  <2>3. CASE Added /\ ~op.isDir
    <3>1. /\ expect' = [p \in DOMAIN expect \cup {op.path} |->
                           IF p = op.path THEN NewFile ELSE expect[p]]
          /\ promised' = [p \in DOMAIN promised \cup {op.path} |->
                             IF p = op.path THEN NewPromise ELSE promised[p]]
      BY <2>3 DEF Added
    <3>2. NewPromise.size = NewFile.size /\ KeptIn(NewPromise.byte, NewFile.byte)
      BY DEF NewPromise, Promise, NewFile, KeptIn
    <3> QED
      BY <3>1, <3>2 DEF PromisesOK
  <2> QED
    BY <1>5, <2>1, <2>2, <2>3 DEF AddEntry
<1>6. CASE MarkDeleted
  <2>1. PICK gone : /\ expect' = [p \in DOMAIN expect \ gone |-> expect[p]]
                    /\ promised' = [p \in DOMAIN promised \ gone |-> promised[p]]
    BY <1>6 DEF MarkDeleted
  <2> QED
    BY <2>1 DEF PromisesOK
<1>7. CASE Call
  <2>1. PICK path \in Path :
            \/ CreateFile(path) \/ MakeDir(path) \/ Delete(path)
            \/ \E data \in Data : AppendFile(path, data)
            \/ \E data \in Data, off \in Offsets : WriteAt(path, off, data)
    BY <1>7 DEF Call
  <2>2. UNCHANGED <<expect, promised>>
    BY <2>1 DEF CreateFile, MakeDir, Delete, AppendFile, WriteAt, Creating
  <2> QED
    BY <1>1, <2>2
<1>8. CASE \/ InitDir \/ FreeCluster \/ WriteChunk \/ NextCluster \/ AllocateNext \/ LinkNext
           \/ Overrun \/ UNCHANGED vars
  <2>1. UNCHANGED <<expect, promised>>
    BY <1>8 DEF InitDir, FreeCluster, WriteChunk, ChunkAt, NextCluster, AllocateNext, TakeFree,
                LinkNext, Overrun, vars
  <2> QED
    BY <1>1, <2>1
<1> QED
  BY <1>2, <1>3, <1>4, <1>5, <1>6, <1>7, <1>8 DEF Next

LEMMA PromisesReadBack ==
    ASSUME IInv, PromisesOK(expect, promised)
    PROVE  FilesReadBack
<1> SUFFICES ASSUME Settled
             PROVE  /\ DOMAIN promised = {p \in Found : ~At(Resolve(p)).isDir}
                    /\ \A p \in DOMAIN promised \cap Whole : promised[p].placed => AsPromised(p)
  BY DEF FilesReadBack
<1>1. /\ DOMAIN expect = {p \in Found : ~At(Resolve(p)).isDir}
      /\ \A p \in DOMAIN expect \cap Whole :
            LET file == OnDisk(At(Resolve(p)))
            IN  /\ file.size = expect[p].size
                /\ Len(file.byte) = Len(expect[p].byte)
                /\ \A i \in DOMAIN file.byte :
                      expect[p].byte[i] # Stale => file.byte[i] = expect[p].byte[i]
  BY IInvFollows DEF FollowsFileOps
<1>2. DOMAIN promised = DOMAIN expect
  BY DEF PromisesOK
<1>3. ASSUME NEW p \in DOMAIN promised, p \in Whole, promised[p].placed PROVE AsPromised(p)
  <2> DEFINE file == OnDisk(At(Resolve(p)))
             b == promised[p].byte
             f == expect[p]
  <2>1. promised[p].size = f.size /\ KeptIn(b, f.byte)
    BY <1>2, <1>3 DEF PromisesOK
  <2>2. /\ file.size = f.size /\ Len(file.byte) = Len(f.byte)
        /\ \A i \in DOMAIN file.byte : f.byte[i] # Stale => file.byte[i] = f.byte[i]
    BY <1>1, <1>2, <1>3
  <2>3. DOMAIN f.byte = DOMAIN file.byte
    <3>1. FileOK(f)
      BY <1>2, InvIs DEF FilesOK
    <3>2. DOMAIN f.byte = 1 .. Len(f.byte)
      BY <3>1 DEF FileOK
    <3>3. Len(Chain(At(Resolve(p)).first)) \in Nat
      BY <1>3, WholeIs, ChainedIs
    <3>4. DOMAIN file.byte = 1 .. Len(file.byte)
      <4> DEFINE n == Sec * Len(Chain(At(Resolve(p)).first))
      <4>1. n \in Nat
        BY <3>3, SecIs, Naturals2
      <4>2. DOMAIN file.byte = 1 .. n
        BY DEF OnDisk
      <4>3. Len(file.byte) = n
        BY <4>1 DEF OnDisk
      <4> QED
        BY <4>2, <4>3
    <3> QED
      BY <2>2, <3>2, <3>4
  <2> HIDE DEF f, b, file
  <2>4. \A i \in DOMAIN b : i \in DOMAIN file.byte /\ file.byte[i] = b[i]
    BY <2>1, <2>2, <2>3 DEF KeptIn
  <2> QED
    BY <2>1, <2>2, <2>4 DEF AsPromised, file, b
<1> QED
  BY <1>1, <1>2, <1>3

----------------------------------------------------------------------------
(* The theorems *)

\* A disk that has run over its end stays as it is.
Ended == TypeOK /\ op.kind = "overrun"
DiskInv == (IInv /\ PromisesOK(expect, promised)) \/ Ended

LEMMA EndedStays == Ended /\ [Next]_vars => Ended'
<1> SUFFICES ASSUME Ended, [Next]_vars PROVE Ended'
  OBVIOUS
<1>1. op.kind = "overrun" /\ op # Idle /\ ~Settled
  BY DEF Ended, Idle, Settled
<1>2. ~Next
  <2>1. ~Call /\ ~Crash /\ ~InitDir /\ ~AddEntry
    BY <1>1 DEF Call, Crash, InitDir, AddEntry
  <2>2. ~FreeCluster /\ ~MarkDeleted /\ ~WriteChunk /\ ~NextCluster
    BY <1>1 DEF FreeCluster, MarkDeleted, WriteChunk, ChunkAt, NextCluster
  <2>3. ~AllocateNext /\ ~LinkNext /\ ~UpdateSize /\ ~DiskFull /\ ~Overrun
    BY <1>1 DEF AllocateNext, TakeFree, LinkNext, UpdateSize, DiskFull, Overrun, Creatable
  <2> QED
    BY <2>1, <2>2, <2>3 DEF Next
<1>3. UNCHANGED vars
  BY <1>2
<1>4. UNCHANGED <<fat, root, sec, op>>
  BY <1>3 DEF vars
<1> QED
  BY <1>4 DEF Ended, TypeOK, Holds

LEMMA InitDiskInv == Init => DiskInv
<1> SUFFICES ASSUME Init PROVE DiskInv
  OBVIOUS
<1>1. PromisesOK(expect, promised)
  BY DEF Init, PromisesOK
<1> QED
  BY <1>1, InitIInv DEF DiskInv

LEMMA NextDiskInv == DiskInv /\ [Next]_vars => DiskInv'
<1> SUFFICES ASSUME DiskInv, [Next]_vars PROVE DiskInv'
  OBVIOUS
<1>1. CASE Ended
  BY <1>1, EndedStays DEF DiskInv
<1>2. ASSUME IInv, PromisesOK(expect, promised) PROVE DiskInv'
  <2>1. CASE Overrun
    <3>1. UNCHANGED <<fat, root, sec>> /\ op'.kind = "overrun"
      BY <2>1 DEF Overrun
    <3>2. TypeOK
      BY <1>2, IInvTyped
    <3>3. Ended'
      BY <3>1, <3>2 DEF Ended, TypeOK, Holds
    <3> QED
      BY <3>3 DEF DiskInv
  <2>2. CASE ~Overrun
    <3>1. IInv'
      BY <1>2, <2>2, NextIInv
    <3>2. PromisesOK(expect', promised')
      BY <1>2, NextKeeps
    <3> QED
      BY <3>1, <3>2 DEF DiskInv
  <2> QED
    BY <2>1, <2>2
<1> QED
  BY <1>1, <1>2 DEF DiskInv

\* Every reachable state satisfies DiskInv: directories, chains, the FAT, the
\* contents of the files and what was promised of them fit together, and with how
\* far the operation under way has got, on disks of every size and after every
\* loss of power, until an operation goes on behind the end of the disk.
THEOREM Invariance == Spec => []DiskInv
<1> QED
  BY InitDiskInv, NextDiskInv, PTL DEF Spec

LEMMA EndedUnsettled == Ended => ~Settled
BY DEF Ended, Settled

\* Between two operations every entry's chain is allocated and ends, and no two
\* entries share a cluster, for disks of every size and all sequences of calls and
\* losses of power: writing one file never changes another.
THEOREM Intact == Spec => []ChainsIntact
<1>1. DiskInv => ChainsIntact
  <2>1. Ended => ChainsIntact
    BY EndedUnsettled DEF Ended, ChainsIntact
  <2> QED
    BY <2>1, IInvIntact DEF DiskInv
<1> QED
  BY <1>1, Invariance, PTL

\* Operations that run to their end lose no cluster: what is allocated and in no
\* entry's chain is what losses of power have cost.
THEOREM NoneLost == Spec => []NoClusterLost
<1>1. DiskInv => NoClusterLost
  BY EndedUnsettled, IInvNoneLost DEF DiskInv, NoClusterLost
<1> QED
  BY <1>1, Invariance, PTL

\* FatFs, one sector write at a time and with losses of power in between, does to
\* every file what FileOps says the code makes of it in one step.
THEOREM FollowsOps == Spec => []FollowsFileOps
<1>1. DiskInv => FollowsFileOps
  BY EndedUnsettled, IInvFollows DEF DiskInv, FollowsFileOps
<1> QED
  BY <1>1, Invariance, PTL

\* Between two operations the files that exist are the ones created and not
\* deleted, and each to which no write has gone astray has the promised size and
\* holds at every position the byte that was written there last.
THEOREM ReadsBack == Spec => []FilesReadBack
<1>1. DiskInv => FilesReadBack
  <2>1. Ended => FilesReadBack
    BY EndedUnsettled DEF FilesReadBack
  <2> QED
    BY <2>1, PromisesReadBack DEF DiskInv
<1> QED
  BY <1>1, Invariance, PTL

----------------------------------------------------------------------------
(* Streams.  The inductive invariant: what the files are (FilesFine), that  *)
(* the pool holds the program's streams (PoolOK), and what may be said of   *)
(* the file of each (Vouched).                                              *)

Letter == {Stale} \cup UNION {Range(data) : data \in Strings}
TextFile(f) == FileOK(f) /\ f.byte \in Seq(Letter)
FilesFine(fs) ==
    /\ DOMAIN fs \subseteq Paths /\ IsFiniteSet(DOMAIN fs)
    /\ \A p \in DOMAIN fs : TextFile(fs[p])
    /\ Cardinality(Taken(fs)) <= DiskClusters

OpenFile == [valid : {TRUE}, path : Paths, mode : {"r", "w", "a"}, pos : 0 .. MaxPos]
PoolOK ==
    /\ pool \in [Slot -> OpenFile \cup {Closed}]
    /\ held = {s \in Slot : pool[s].valid}

\* File f starts with b, within its size.
Starts(f, b) ==
    /\ Len(b) <= f.size /\ Len(b) <= Len(f.byte)
    /\ \A i \in 1 .. Len(b) : f.byte[i] = b[i]
\* A stream x in mode "w" stands behind b, one in mode "a" at the end of the file.
Vouched(fs, x, b) ==
    /\ x.mode # "r"
    /\ x.mode = "w" => /\ x.pos = Len(b)
                       /\ Len(b) > 0 => x.path \in DOMAIN fs /\ Starts(fs[x.path], b)
    /\ x.mode = "a" => IF x.path \in DOMAIN fs
                       THEN Starts(fs[x.path], b) /\ Len(b) = fs[x.path].size
                       ELSE Len(b) = 0
BeginsOK ==
    /\ begins \in [Slot -> Seq(Letter) \cup {Unknown}]
    /\ \A s \in Slot \ held : begins[s] = <<>>
    /\ \A s \in held : begins[s] # Unknown => Vouched(files, pool[s], begins[s])

StreamIInv == FilesFine(files) /\ PoolOK /\ BeginsOK

----------------------------------------------------------------------------
(* What a write makes of a file *)

LEMMA StringIs ==
    ASSUME NEW data \in Strings \cup {<<>>}
    PROVE  /\ data \in Seq(Letter) /\ Len(data) \in Nat /\ DOMAIN data = 1 .. Len(data)
           /\ \A i \in 1 .. Len(data) : data[i] \in Letter
<1>1. CASE data = <<>>
  BY <1>1
<1>2. CASE data \in Strings
  <2>1. data \in Seq(Range(data))
    BY <1>2, StreamAssumption
  <2>2. Range(data) \subseteq Letter
    BY <1>2 DEF Letter
  <2>3. Len(data) \in Nat /\ DOMAIN data = 1 .. Len(data) /\ \A i \in 1 .. Len(data) : data[i] \in Range(data)
    BY <2>1
  <2>4. data \in Seq(Letter)
    BY <2>1, <2>2
  <2> QED
    BY <2>2, <2>3, <2>4
<1> QED
  BY <1>1, <1>2

\* The bytes that can be read.
LEMMA ReadableIs ==
    ASSUME NEW f, TextFile(f)
    PROVE  /\ Readable(f) \in Seq(Letter)
           /\ Len(Readable(f)) = IF f.size <= Len(f.byte) THEN f.size ELSE Len(f.byte)
           /\ \A i \in 1 .. Len(Readable(f)) : Readable(f)[i] = f.byte[i]
<1> DEFINE n == Min({f.size, Len(f.byte)})
<1>1. f.size \in Nat /\ Len(f.byte) \in Nat /\ f.byte \in Seq(Letter)
  BY DEF TextFile, FileOK
<1>2. n = IF f.size <= Len(f.byte) THEN f.size ELSE Len(f.byte)
  BY <1>1, PairMin
<1>3. Readable(f) = SubSeq(f.byte, 1, n)
  BY DEF Readable
<1> HIDE DEF n
<1>4. n \in Nat /\ n <= Len(f.byte)
  BY <1>1, <1>2
<1>5. /\ SubSeq(f.byte, 1, n) \in Seq(Letter) /\ Len(SubSeq(f.byte, 1, n)) = n
      /\ \A i \in 1 .. n : SubSeq(f.byte, 1, n)[i] = f.byte[i]
  BY <1>1, <1>4
<1> QED
  BY <1>2, <1>3, <1>5

\* That f starts with b is that b is a prefix of what can be read.
LEMMA StartsIs ==
    ASSUME NEW f, TextFile(f), NEW b \in Seq(Letter), Starts(f, b)
    PROVE  IsPrefix(b, Readable(f)) /\ (Len(b) = f.size => b = Readable(f))
<1> DEFINE r == Readable(f)
<1>1. r \in Seq(Letter) /\ Len(b) \in Nat /\ Len(r) \in Nat
  BY ReadableIs
<1>2. Len(b) <= Len(r)
  BY ReadableIs DEF Starts
<1>3. \A i \in 1 .. Len(b) : b[i] = r[i]
  <2>1. \A i \in 1 .. Len(b) : i \in 1 .. Len(r)
    BY <1>1, <1>2
  <2> QED
    BY <2>1, ReadableIs DEF Starts
<1>4. Len(b) = f.size => Len(b) = Len(r)
  BY ReadableIs DEF Starts
<1> HIDE DEF r
<1>5. SubSeq(b, 1, Len(b)) = SubSeq(r, 1, Len(b))
  <2> DEFINE n == Len(b)
             u == SubSeq(b, 1, n)
             v == SubSeq(r, 1, n)
  <2>1. u \in Seq(Letter) /\ v \in Seq(Letter) /\ Len(u) = n /\ Len(v) = n
    BY <1>1, <1>2
  <2>2. \A i \in 1 .. n : u[i] = b[i] /\ v[i] = r[i]
    BY <1>1, <1>2
  <2> HIDE DEF u, v
  <2> QED
    BY <1>3, <2>1, <2>2, SeqEqual DEF u, v
<1>6. Len(b) = f.size => b = r
  BY <1>1, <1>3, <1>4, SeqEqual
<1> QED
  BY <1>2, <1>5, <1>6 DEF IsPrefix, r


\* What a write of data at off, accepted or not, has made of f.
Outcome(f, off, data, ok, g) ==
    /\ TextFile(g) /\ Len(f.byte) <= Len(g.byte)
    /\ f.size <= g.size
    /\ ok => off + Len(data) <= g.size /\ (g.size = f.size \/ g.size = off + Len(data))
    /\ ~ok => g.size = f.size
    /\ off < Len(f.byte) =>
          /\ \A i \in 1 .. off : g.byte[i] = f.byte[i]
          /\ ok => /\ off + Len(data) <= Len(g.byte)
                   /\ \A i \in 1 .. Len(data) : g.byte[off + i] = data[i]

\* The bytes of a file of n clusters.
LEMMA LandedText ==
    ASSUME NEW f, TextFile(f), NEW off \in Nat, NEW data \in Strings \cup {<<>>},
           NEW n \in Nat \ {0}, Clusters(f) <= n,
           NEW size \in Nat, NEW g, g = [size |-> size, byte |-> Landed(f, off, data, n)]
    PROVE  /\ TextFile(g) /\ Clusters(g) = n /\ Len(g.byte) = Sec * n /\ Len(f.byte) <= Len(g.byte)
           /\ g.size = size /\ Lands(f, off, data, Len(data), n) /\ g.byte = Landed(f, off, data, n)
<1> DEFINE b == Landed(f, off, data, n)
           m == Len(data)
<1>1. FileOK(f) /\ m \in Nat /\ DOMAIN data = 1 .. m /\ \A i \in 1 .. m : data[i] \in Letter
  BY StringIs DEF TextFile
<1> HIDE DEF m
<1>2. /\ b = [i \in 1 .. Sec * n |-> b[i]] /\ Len(b) = Sec * n /\ Lands(f, off, data, m, n)
  BY <1>1, LandedIs
<1>3. FileOK(g) /\ Clusters(g) = n
  BY <1>1, LandedFile
<1>4. g.byte = b /\ g.size = size
  OBVIOUS
<1>5. \A i \in 1 .. Sec * n : b[i] \in Letter
  <2> SUFFICES ASSUME NEW i \in 1 .. Sec * n PROVE b[i] \in Letter
    OBVIOUS
  <2>1. b[i] = IF i - Seek(f, off) \in 1 .. m THEN data[i - Seek(f, off)]
               ELSE IF i \in 1 .. Sec * Clusters(f) THEN f.byte[i] ELSE Stale
    BY <1>2 DEF Lands
  <2>2. i \in 1 .. Sec * Clusters(f) => f.byte[i] \in Letter
    <3>1. f.byte \in Seq(Letter)
      BY DEF TextFile
    <3>2. \A j \in 1 .. Len(f.byte) : f.byte[j] \in Letter
      BY <3>1
    <3>3. Len(f.byte) = Sec * Clusters(f)
      BY <1>1, FileIs
    <3> QED
      BY <3>2, <3>3
  <2>3. Stale \in Letter
    BY DEF Letter
  <2> QED
    BY <1>1, <2>1, <2>2, <2>3
<1>6. b \in Seq(Letter)
  <2> DEFINE k == Sec * n
  <2>1. k \in Nat
    BY SecIs, Naturals2
  <2>2. b = [i \in 1 .. k |-> b[i]] /\ \A i \in 1 .. k : b[i] \in Letter
    BY <1>2, <1>5
  <2> HIDE DEF b, k
  <2>3. [i \in 1 .. k |-> b[i]] \in Seq(Letter)
    BY <2>1, <2>2
  <2> QED
    BY <2>2, <2>3
<1>7. Len(f.byte) <= Len(b)
  <2>1. Len(f.byte) = Sec * Clusters(f) /\ Clusters(f) \in Int /\ n \in Int /\ Sec \in Nat
    BY <1>1, FileIs, SecIs
  <2>2. Sec * Clusters(f) <= Sec * n
    BY <2>1, Products
  <2> QED
    BY <1>2, <2>1, <2>2
<1> QED
  BY <1>2, <1>3, <1>4, <1>6, <1>7 DEF TextFile, m

\* A write with n clusters leaves what is before it, and holds the data if the
\* clusters are enough.
LEMMA LandedInside ==
    ASSUME NEW f, TextFile(f), NEW off \in Nat, off < Len(f.byte), NEW data \in Strings \cup {<<>>},
           NEW n \in Nat \ {0}, Clusters(f) <= n, NEW g,
           Lands(f, off, data, Len(data), n), g.byte = Landed(f, off, data, n)
    PROVE  /\ \A i \in 1 .. off : g.byte[i] = f.byte[i]
           /\ off + Len(data) <= Sec * n =>
                 \A i \in 1 .. Len(data) : g.byte[off + i] = data[i]
<1> DEFINE m == Len(data)
           v == Sec * n
           u == Sec * Clusters(f)
<1>1. FileOK(f) /\ m \in Nat /\ Seek(f, off) = off
  BY StringIs, SeekInside DEF TextFile
<1>2. u \in Nat /\ v \in Nat /\ u <= v /\ off < u
  <2>1. Len(f.byte) = Sec * Clusters(f) /\ Clusters(f) \in Int /\ Clusters(f) \in Nat /\ n \in Int
        /\ n \in Nat /\ Sec \in Nat
    BY <1>1, FileIs, SecIs
  <2>2. Sec * Clusters(f) <= Sec * n
    BY <2>1, Products
  <2>3. Sec * Clusters(f) \in Nat /\ Sec * n \in Nat
    BY <2>1, Naturals2
  <2> QED
    BY <2>1, <2>2, <2>3
<1>3. \A i \in 1 .. v : g.byte[i] = IF i - off \in 1 .. m THEN data[i - off]
                                    ELSE IF i \in 1 .. u THEN f.byte[i] ELSE Stale
  BY <1>1 DEF Lands
<1> HIDE DEF m, u, v
<1>4. ASSUME NEW i \in 1 .. off PROVE g.byte[i] = f.byte[i]
  <2>1. i \in 1 .. v /\ i \in 1 .. u /\ i - off \notin 1 .. m
    BY <1>1, <1>2
  <2> QED
    BY <1>3, <2>1
<1>5. ASSUME off + m <= v, NEW i \in 1 .. m PROVE g.byte[off + i] = data[i]
  <2>1. off + i \in 1 .. v /\ (off + i) - off = i
    BY <1>1, <1>2, <1>5
  <2> QED
    BY <1>3, <2>1
<1> QED
  BY <1>4, <1>5 DEF m, v

LEMMA WrittenIs ==
    ASSUME NEW f, TextFile(f), NEW off \in Nat, NEW data \in Strings \cup {<<>>},
           NEW g, g = Written(f, off, data)
    PROVE  Outcome(f, off, data, TRUE, g) /\ Clusters(g) = Needed(f, off, Len(data))
<1> DEFINE m == Len(data)
           size == Max({f.size, off + m})
           n == Needed(f, off, m)
<1>1. FileOK(f) /\ m \in Nat /\ f.size \in Nat
  BY StringIs DEF TextFile, FileOK
<1>2. size \in Nat /\ size = IF f.size >= off + m THEN f.size ELSE off + m
  <2>1. off + m \in Nat
    BY <1>1
  <2> QED
    BY <1>1, <2>1, PairMax
<1>3. g = [size |-> size, byte |-> Landed(f, off, data, n)]
  BY DEF Written
<1> HIDE DEF m, n, size
<1>4. n \in Nat \ {0} /\ Clusters(f) <= n /\ (m > 0 => Seek(f, off) + m <= Sec * n)
  BY <1>1, EnoughClusters DEF n
<1>5. /\ TextFile(g) /\ Clusters(g) = n /\ Len(g.byte) = Sec * n /\ Len(f.byte) <= Len(g.byte)
      /\ g.size = size /\ Lands(f, off, data, m, n) /\ g.byte = Landed(f, off, data, n)
  BY <1>2, <1>3, <1>4, LandedText DEF m
<1>6. ASSUME off < Len(f.byte)
      PROVE  /\ \A i \in 1 .. off : g.byte[i] = f.byte[i]
             /\ off + m <= Len(g.byte) /\ \A i \in 1 .. m : g.byte[off + i] = data[i]
  <2>1. Seek(f, off) = off
    BY <1>1, <1>6, SeekInside
  <2>2. Len(f.byte) \in Nat /\ Len(g.byte) \in Nat
    BY <1>5 DEF TextFile, FileOK
  <2>3. off + m <= Len(g.byte)
    BY <1>1, <1>4, <1>5, <1>6, <2>1, <2>2
  <2>4. off + m <= Sec * n
    BY <1>5, <2>3
  <2>5. \A i \in 1 .. off : g.byte[i] = f.byte[i]
    BY <1>4, <1>5, <1>6, LandedInside DEF m
  <2>6. \A i \in 1 .. m : g.byte[off + i] = data[i]
    BY <1>4, <1>5, <1>6, <2>4, LandedInside DEF m
  <2> QED
    BY <2>3, <2>5, <2>6
<1>7. f.size <= g.size /\ off + m <= g.size /\ (g.size = f.size \/ g.size = off + m)
  BY <1>1, <1>2, <1>5
<1> QED
  BY <1>5, <1>6, <1>7 DEF Outcome, m, n

\* A write that was cut short with n clusters.
Cuts(f, off, data, n, ok, g) ==
    /\ TextFile(f) /\ off \in Nat /\ data \in Strings \cup {<<>>}
    /\ n \in Nat \ {0} /\ Clusters(f) <= n /\ ok = FALSE /\ g = CutShort(f, off, data, n)
LEMMA CutShortIs ==
    ASSUME NEW f, NEW off, NEW data, NEW n, NEW ok, NEW g, Cuts(f, off, data, n, ok, g)
    PROVE  Outcome(f, off, data, ok, g) /\ Clusters(g) = n
<1> DEFINE b == Landed(f, off, data, n)
<1>0. /\ TextFile(f) /\ off \in Nat /\ data \in Strings \cup {<<>>}
      /\ n \in Nat \ {0} /\ Clusters(f) <= n /\ g = CutShort(f, off, data, n)
  BY DEF Cuts
<1>1. FileOK(f) /\ f.size \in Nat /\ DOMAIN f = {"size", "byte"}
  BY <1>0 DEF TextFile, FileOK
<1>2. g = [f EXCEPT !.byte = b]
  BY <1>0 DEF CutShort
<1>3. g.size = f.size /\ g.byte = b /\ DOMAIN g = {"size", "byte"}
  BY <1>1, <1>2
<1> DEFINE h == [size |-> f.size, byte |-> b]
<1>4. /\ TextFile(h) /\ Clusters(h) = n /\ Len(h.byte) = Sec * n /\ Len(f.byte) <= Len(h.byte)
      /\ h.size = f.size /\ Lands(f, off, data, Len(data), n) /\ h.byte = b
  BY <1>0, <1>1, LandedText
<1> HIDE DEF h, b
<1>5. g.size = h.size /\ g.byte = h.byte
  BY <1>3, <1>4
<1>6. TextFile(g) /\ Clusters(g) = n
  <2>1. Clusters(g) = n
    BY <1>4, <1>5 DEF Clusters
  <2>2. FileOK(g)
    BY <1>3, <1>4, <1>5, <2>1 DEF TextFile, FileOK
  <2> QED
    BY <1>4, <1>5, <2>1, <2>2 DEF TextFile
<1>7. ASSUME off < Len(f.byte) PROVE \A i \in 1 .. off : g.byte[i] = f.byte[i]
  <2>1. Lands(f, off, data, Len(data), n) /\ g.byte = Landed(f, off, data, n)
    BY <1>3, <1>4 DEF b
  <2>2. /\ TextFile(f) /\ off \in Nat /\ data \in Strings \cup {<<>>}
        /\ n \in Nat \ {0} /\ Clusters(f) <= n
    BY <1>0
  <2> QED
    BY <1>7, <2>1, <2>2, LandedInside
<1> QED
  BY <1>1, <1>3, <1>4, <1>5, <1>6, <1>7 DEF Cuts, Outcome

----------------------------------------------------------------------------
(* The clusters taken *)

Portion(fs, p) == {p} \X (1 .. Clusters(fs[p]))

LEMMA PortionIs ==
    ASSUME NEW fs, NEW p, Clusters(fs[p]) \in Nat
    PROVE  IsFiniteSet(Portion(fs, p)) /\ Cardinality(Portion(fs, p)) = Clusters(fs[p])
<1> DEFINE n == Clusters(fs[p])
<1>1. IsFiniteSet({p}) /\ Cardinality({p}) = 1
  BY FS_Singleton
<1>2. IsFiniteSet(1 .. n) /\ Cardinality(1 .. n) = n
  <2>1. PICK one \in Int : one = 1
    OBVIOUS
  <2>2. n \in Int /\ n >= 0
    OBVIOUS
  <2> HIDE DEF n
  <2>3. IsFiniteSet(one .. n) /\ Cardinality(one .. n) = IF one > n THEN 0 ELSE n - one + 1
    BY <2>1, <2>2, FS_Interval
  <2>4. (IF one > n THEN 0 ELSE n - one + 1) = n
    BY <2>1, <2>2
  <2> QED
    BY <2>1, <2>3, <2>4
<1> HIDE DEF n
<1> DEFINE A == {p}
           B == 1 .. n
<1>3. IsFiniteSet(A \X B) /\ Cardinality(A \X B) = 1 * n
  <2>1. IsFiniteSet(A) /\ Cardinality(A) = 1 /\ IsFiniteSet(B) /\ Cardinality(B) = n
    BY <1>1, <1>2
  <2> HIDE DEF A, B
  <2>2. IsFiniteSet(A \X B) /\ Cardinality(A \X B) = Cardinality(A) * Cardinality(B)
    BY <2>1, FS_Product
  <2> QED
    BY <2>1, <2>2
<1>4. n \in Nat
  BY DEF n
<1>5. 1 * n = n
  BY <1>4
<1> QED
  BY <1>3, <1>5 DEF Portion, n

Sized(fs) == IsFiniteSet(DOMAIN fs) /\ \A p \in DOMAIN fs : Clusters(fs[p]) \in Nat

LEMMA TakenFinite ==
    ASSUME NEW fs, Sized(fs), NEW D, D \subseteq DOMAIN fs
    PROVE  /\ IsFiniteSet(UNION {Portion(fs, p) : p \in D})
           /\ Cardinality(UNION {Portion(fs, p) : p \in D}) \in Nat
<1> DEFINE f == [p \in D |-> Portion(fs, p)]
           T == {Portion(fs, p) : p \in D}
<1>1. IsFiniteSet(D)
  BY FS_Subset DEF Sized
<1>2. f \in Surjection(D, T)
  <2>1. f \in [D -> T]
    OBVIOUS
  <2>2. \A t \in T : \E p \in D : f[p] = t
    OBVIOUS
  <2> QED
    BY <2>1, <2>2 DEF Surjection
<1>3. \A t \in T : IsFiniteSet(t)
  BY PortionIs DEF Sized
<1> HIDE DEF f, T
<1>4. IsFiniteSet(T)
  BY <1>1, <1>2, FS_Surjection
<1>5. IsFiniteSet(UNION T)
  BY <1>3, <1>4, FS_UNION
<1> QED
  BY <1>5, FS_CardinalityType DEF T

\* Those of p and those of all other files.
Others(fs, p) == Cardinality(UNION {Portion(fs, q) : q \in DOMAIN fs \ {p}})
LEMMA TakenSplits ==
    ASSUME NEW fs, Sized(fs), NEW p
    PROVE  /\ Others(fs, p) \in Nat /\ Cardinality(Taken(fs)) \in Nat
           /\ p \in DOMAIN fs => Cardinality(Taken(fs)) = Others(fs, p) + Clusters(fs[p])
           /\ p \notin DOMAIN fs => Cardinality(Taken(fs)) = Others(fs, p)
<1> DEFINE R == UNION {Portion(fs, q) : q \in DOMAIN fs \ {p}}
           S == Portion(fs, p)
<1>1. Taken(fs) = UNION {Portion(fs, q) : q \in DOMAIN fs}
  BY DEF Taken, Portion
<1>2. IsFiniteSet(R) /\ Cardinality(R) \in Nat
  BY TakenFinite
<1>3. IsFiniteSet(Taken(fs)) /\ Cardinality(Taken(fs)) \in Nat
  BY <1>1, TakenFinite
<1>4. CASE p \in DOMAIN fs
  <2>1. Taken(fs) = R \cup S
    BY <1>1, <1>4
  <2>2. \A x \in S : x[1] = p
    BY DEF Portion
  <2>3. \A x \in R : x[1] # p
    BY DEF Portion
  <2>4. R \cap S = {}
    BY <2>2, <2>3
  <2>5. IsFiniteSet(S) /\ Cardinality(S) = Clusters(fs[p]) /\ Clusters(fs[p]) \in Nat
    BY <1>4, PortionIs DEF Sized
  <2> HIDE DEF R, S
  <2>6. Cardinality(R \cup S) = Cardinality(R) + Cardinality(S) - Cardinality(R \cap S)
    BY <1>2, <2>5, FS_Union
  <2>7. Cardinality(R \cap S) = 0
    BY <2>4, FS_EmptySet
  <2>8. Cardinality(Taken(fs)) = Cardinality(R) + Clusters(fs[p])
    BY <1>2, <2>1, <2>5, <2>6, <2>7
  <2> QED
    BY <1>2, <1>3, <1>4, <2>8 DEF R, Others
<1>5. CASE p \notin DOMAIN fs
  <2>1. DOMAIN fs \ {p} = DOMAIN fs
    BY <1>5
  <2>2. Taken(fs) = R
    BY <1>1, <2>1
  <2> QED
    BY <1>2, <1>3, <1>5, <2>2 DEF Others
<1> QED
  BY <1>4, <1>5

\* h is fs with another file, or another content, for p.
Replaced(fs, p, g, h) ==
    DOMAIN h = DOMAIN fs \cup {p} /\ h[p] = g /\ \A q \in DOMAIN fs \ {p} : h[q] = fs[q]
LEMMA TakenWith ==
    ASSUME NEW fs, Sized(fs), NEW p, NEW g, Clusters(g) \in Nat, NEW h, h = With(fs, p, g)
    PROVE  /\ Replaced(fs, p, g, h) /\ Sized(h)
           /\ Cardinality(Taken(h)) = Others(fs, p) + Clusters(g)
<1>1. DOMAIN h = DOMAIN fs \cup {p} /\ h[p] = g /\ \A q \in DOMAIN fs \ {p} : h[q] = fs[q]
  BY DEF With
<1>2. Sized(h)
  <2>1. IsFiniteSet(DOMAIN fs \cup {p})
    BY FS_AddElement DEF Sized
  <2> QED
    BY <1>1, <2>1 DEF Sized
<1>3. Others(h, p) = Others(fs, p)
  <2>1. DOMAIN h \ {p} = DOMAIN fs \ {p}
    BY <1>1
  <2>2. \A q \in DOMAIN fs \ {p} : Portion(h, q) = Portion(fs, q)
    BY <1>1 DEF Portion
  <2>3. {Portion(h, q) : q \in DOMAIN h \ {p}} = {Portion(fs, q) : q \in DOMAIN fs \ {p}}
    BY <2>1, <2>2
  <2> QED
    BY <2>3 DEF Others
<1>4. Cardinality(Taken(h)) = Others(h, p) + Clusters(h[p])
  BY <1>1, <1>2, TakenSplits
<1> QED
  BY <1>1, <1>2, <1>3, <1>4 DEF Replaced

----------------------------------------------------------------------------
(* The file system calls *)

LEMMA FineIs ==
    ASSUME NEW fs, FilesFine(fs)
    PROVE  /\ Sized(fs) /\ Free(fs) \in Nat /\ Free(fs) = DiskClusters - Cardinality(Taken(fs))
           /\ DiskClusters \in Nat /\ Cardinality(Taken(fs)) \in Nat
           /\ \A p \in DOMAIN fs : p \in Paths /\ TextFile(fs[p]) /\ FileOK(fs[p])
<1>1. Sized(fs)
  BY FileIs DEF FilesFine, Sized, TextFile
<1>2. Cardinality(Taken(fs)) \in Nat
  BY <1>1, TakenSplits
<1>3. DiskClusters \in Nat
  BY StreamAssumption
<1>4. Free(fs) \in Nat
  BY <1>2, <1>3 DEF FilesFine, Free
<1> QED
  BY <1>1, <1>2, <1>3, <1>4 DEF FilesFine, Free, TextFile

\* h differs from fs in nothing but p.
SameBut(fs, p, h) ==
    \A q : q # p => (q \in DOMAIN h <=> q \in DOMAIN fs) /\ (q \in DOMAIN fs => h[q] = fs[q])

LEMMA RemovedIs ==
    ASSUME NEW fs, FilesFine(fs), NEW p, NEW h, h = Removed(fs, p)
    PROVE  FilesFine(h) /\ SameBut(fs, p, h)
<1>1. DOMAIN h = DOMAIN fs \ {p} /\ \A q \in DOMAIN h : h[q] = fs[q]
  BY DEF Removed, Restrict
<1>2. Sized(fs) /\ IsFiniteSet(DOMAIN h)
  BY <1>1, FineIs, FS_Subset DEF Sized
<1>3. Sized(h)
  BY <1>1, <1>2 DEF Sized
<1>4. Others(h, p) = Others(fs, p)
  <2>1. DOMAIN h \ {p} = DOMAIN fs \ {p}
    BY <1>1
  <2>2. \A q \in DOMAIN fs \ {p} : Portion(h, q) = Portion(fs, q)
    BY <1>1 DEF Portion
  <2>3. {Portion(h, q) : q \in DOMAIN h \ {p}} = {Portion(fs, q) : q \in DOMAIN fs \ {p}}
    BY <2>1, <2>2
  <2> QED
    BY <2>3 DEF Others
<1>5. Cardinality(Taken(h)) = Others(fs, p)
  BY <1>1, <1>3, <1>4, TakenSplits
<1>6. Others(fs, p) <= Cardinality(Taken(fs))
  <2>1. Others(fs, p) \in Nat
    BY <1>2, TakenSplits
  <2>2. CASE p \in DOMAIN fs
    <3>1. Cardinality(Taken(fs)) = Others(fs, p) + Clusters(fs[p]) /\ Clusters(fs[p]) \in Nat
      BY <1>2, <2>2, TakenSplits DEF Sized
    <3> QED
      BY <2>1, <3>1
  <2>3. CASE p \notin DOMAIN fs
    BY <1>2, <2>1, <2>3, TakenSplits
  <2> QED
    BY <2>2, <2>3
<1>7. Cardinality(Taken(h)) <= DiskClusters
  <2>1. Cardinality(Taken(fs)) \in Nat /\ Others(fs, p) \in Nat /\ DiskClusters \in Nat
    BY <1>2, TakenSplits, StreamAssumption
  <2>2. Cardinality(Taken(fs)) <= DiskClusters
    BY DEF FilesFine
  <2> QED
    BY <1>5, <1>6, <2>1, <2>2
<1> QED
  BY <1>1, <1>2, <1>7 DEF FilesFine, SameBut

\* A file for which there is room.
Room(fs, p) == Free(fs) + (IF p \in DOMAIN fs THEN Clusters(fs[p]) ELSE 0)
LEMMA RoomFor ==
    ASSUME NEW fs, FilesFine(fs), NEW p \in Paths, NEW g, TextFile(g), Clusters(g) <= Room(fs, p),
           NEW h, h = With(fs, p, g)
    PROVE  FilesFine(h) /\ Replaced(fs, p, g, h)
<1>1. Sized(fs) /\ Free(fs) = DiskClusters - Cardinality(Taken(fs)) /\ DiskClusters \in Nat
  BY FineIs
<1>2. Clusters(g) \in Nat
  BY FileIs DEF TextFile
<1>3. /\ Replaced(fs, p, g, h) /\ Sized(h)
      /\ Cardinality(Taken(h)) = Others(fs, p) + Clusters(g)
  BY <1>1, <1>2, TakenWith
<1>4. Others(fs, p) + Clusters(g) <= DiskClusters
  <2>1. Others(fs, p) \in Nat /\ Cardinality(Taken(fs)) \in Nat
    BY <1>1, TakenSplits
  <2>2. CASE p \in DOMAIN fs
    <3>1. Cardinality(Taken(fs)) = Others(fs, p) + Clusters(fs[p]) /\ Clusters(fs[p]) \in Nat
      BY <1>1, <2>2, TakenSplits DEF Sized
    <3>2. Clusters(g) <= Free(fs) + Clusters(fs[p])
      BY <2>2 DEF Room
    <3> QED
      BY <1>1, <1>2, <2>1, <3>1, <3>2
  <2>3. CASE p \notin DOMAIN fs
    <3>1. Cardinality(Taken(fs)) = Others(fs, p)
      BY <1>1, <2>3, TakenSplits
    <3>2. Clusters(g) <= Free(fs) + 0
      BY <2>3 DEF Room
    <3> QED
      BY <1>1, <1>2, <2>1, <3>1, <3>2
  <2> QED
    BY <2>2, <2>3
<1>5. Cardinality(Taken(h)) <= DiskClusters
  BY <1>3, <1>4
<1>6. /\ DOMAIN h \subseteq Paths /\ IsFiniteSet(DOMAIN h)
      /\ \A q \in DOMAIN h : TextFile(h[q])
  BY <1>3 DEF FilesFine, Sized, Replaced
<1> QED
  BY <1>3, <1>5, <1>6 DEF FilesFine

LEMMA NewText == TextFile(NewFile) /\ Clusters(NewFile) = 1 /\ NewFile.size = 0
                 /\ Len(NewFile.byte) = Sec
<1>1. NewFile.byte = [i \in 1 .. Sec |-> Stale]
  BY DEF NewFile
<1>2. [i \in 1 .. Sec |-> Stale] \in Seq(Letter) /\ Len([i \in 1 .. Sec |-> Stale]) = Sec
  BY SecIs DEF Letter
<1> QED
  BY <1>1, <1>2, NewFileIs DEF TextFile

\* What creating p makes of fs.
Made(fs, p, h) ==
    /\ FilesFine(h)
    /\ DOMAIN fs \subseteq DOMAIN h /\ DOMAIN h \subseteq DOMAIN fs \cup {p}
    /\ \A q \in DOMAIN fs : h[q] = fs[q]
    /\ p \in DOMAIN h /\ p \notin DOMAIN fs => h[p] = NewFile
LEMMA CreatedIs ==
    ASSUME NEW fs, FilesFine(fs), NEW p \in Paths, NEW h, h = Created(fs, p)
    PROVE  Made(fs, p, h)
<1>1. CASE p \in DOMAIN fs \/ Free(fs) = 0
  <2>1. h = fs
    BY <1>1 DEF Created
  <2> QED
    BY <2>1 DEF Made
<1>2. CASE ~(p \in DOMAIN fs \/ Free(fs) = 0)
  <2>1. h = With(fs, p, NewFile)
    BY <1>2 DEF Created
  <2>2. Clusters(NewFile) <= Room(fs, p)
    BY <1>2, FineIs, NewText DEF Room
  <2>3. FilesFine(h) /\ Replaced(fs, p, NewFile, h)
    BY <2>1, <2>2, NewText, RoomFor
  <2> QED
    BY <1>2, <2>3 DEF Made, Replaced
<1> QED
  BY <1>1, <1>2

\* What a write to p makes of fs.
Wrote(fs, p, off, data, ok, h) ==
    /\ FilesFine(h) /\ DOMAIN h = DOMAIN fs /\ \A q \in DOMAIN fs \ {p} : h[q] = fs[q]
    /\ ok \in BOOLEAN
    /\ IF p \in DOMAIN fs THEN Outcome(fs[p], off, data, ok, h[p]) ELSE ~ok
LEMMA WriteToIs ==
    ASSUME NEW fs, FilesFine(fs), NEW p \in Paths, NEW off \in Nat,
           NEW data \in Strings \cup {<<>>}, NEW r, r = WriteTo(fs, p, off, data)
    PROVE  Wrote(fs, p, off, data, r.ok, r.files)
<1> DEFINE f == fs[p]
           most == Clusters(f) + Free(fs)
<1>1. CASE p \notin DOMAIN fs
  <2>1. r = [ok |-> FALSE, files |-> fs]
    BY <1>1 DEF WriteTo
  <2>2. r.ok = FALSE /\ r.files = fs
    BY <2>1
  <2> QED
    BY <1>1, <2>2 DEF Wrote
<1>2. CASE p \in DOMAIN fs
  <2>1. TextFile(f) /\ FileOK(f) /\ Clusters(f) \in Nat /\ Clusters(f) >= 1 /\ Free(fs) \in Nat
        /\ Len(data) \in Nat
    BY <1>2, FineIs, FileIs, StringIs
  <2>2. CASE Needed(f, off, Len(data)) <= most
    <3> DEFINE g == Written(f, off, data)
    <3>1. r = [ok |-> TRUE, files |-> With(fs, p, g)]
      BY <1>2, <2>2 DEF WriteTo
    <3>2. r.ok = TRUE /\ r.files = With(fs, p, g)
      BY <3>1
    <3>3. Outcome(f, off, data, TRUE, g) /\ Clusters(g) = Needed(f, off, Len(data))
      BY <2>1, WrittenIs
    <3> HIDE DEF g
    <3>4. Clusters(g) <= Room(fs, p)
      BY <1>2, <2>1, <2>2, <3>3 DEF Room
    <3>5. TextFile(g)
      BY <3>3 DEF Outcome
    <3>6. FilesFine(r.files) /\ Replaced(fs, p, g, r.files)
      BY <3>2, <3>4, <3>5, RoomFor
    <3> QED
      BY <1>2, <3>2, <3>3, <3>6 DEF Wrote, Replaced
  <2>4. PICK n \in Nat \ {0} : n = most /\ Clusters(f) <= n
    BY <2>1
  <2>3. CASE ~(Needed(f, off, Len(data)) <= most)
    <3> DEFINE g == CutShort(f, off, data, n)
    <3>1. r = [ok |-> FALSE, files |-> With(fs, p, g)]
      BY <1>2, <2>3, <2>4 DEF WriteTo
    <3>2. r.ok = FALSE /\ r.files = With(fs, p, g)
      BY <3>1
    <3>3. Outcome(f, off, data, r.ok, g) /\ Clusters(g) = n
      <4>1. Cuts(f, off, data, n, r.ok, g)
        BY <2>1, <2>4, <3>2 DEF Cuts
      <4> HIDE DEF f, g, most
      <4> QED
        BY <4>1, CutShortIs
    <3> HIDE DEF g
    <3>4. Clusters(g) <= Room(fs, p)
      BY <1>2, <2>1, <2>4, <3>3 DEF Room
    <3>5. TextFile(g)
      BY <3>3 DEF Outcome
    <3>6. FilesFine(r.files) /\ Replaced(fs, p, g, r.files)
      BY <3>2, <3>4, <3>5, RoomFor
    <3> QED
      BY <1>2, <3>2, <3>3, <3>6 DEF Wrote, Replaced
  <2> QED
    BY <2>2, <2>3
<1> QED
  BY <1>1, <1>2

----------------------------------------------------------------------------
(* What is known of a stream's file *)

LEMMA StillStarts ==
    ASSUME NEW f, NEW off \in Nat, NEW data, NEW ok, NEW g, Outcome(f, off, data, ok, g),
           TextFile(f), off < Len(f.byte),
           NEW b \in Seq(Letter), Starts(f, b), Len(b) <= off
    PROVE  Starts(g, b)
<1>1. /\ Len(b) \in Nat /\ f.size \in Nat /\ g.size \in Nat
      /\ Len(f.byte) \in Nat /\ Len(g.byte) \in Nat
  BY DEF Outcome, TextFile, FileOK
<1>2. Len(b) <= g.size /\ Len(b) <= Len(g.byte)
  BY <1>1 DEF Outcome, Starts
<1>3. \A i \in 1 .. Len(b) : i \in 1 .. off
  BY <1>1
<1>4. \A i \in 1 .. Len(b) : g.byte[i] = b[i]
  BY <1>3 DEF Outcome, Starts
<1> QED
  BY <1>2, <1>4 DEF Starts

\* An accepted write right behind b.
Accepted(f, off, data, ok, g, b) ==
    /\ Outcome(f, off, data, ok, g) /\ ok /\ TextFile(f)
    /\ off \in Nat /\ off < Len(f.byte) /\ data \in Seq(Letter)
    /\ b \in Seq(Letter) /\ Starts(f, b) /\ Len(b) = off
LEMMA NowStarts ==
    ASSUME NEW f, NEW off, NEW data, NEW ok, NEW g, NEW b, Accepted(f, off, data, ok, g, b)
    PROVE  /\ Starts(g, b \o data) /\ b \o data \in Seq(Letter)
           /\ Len(b \o data) = off + Len(data)
<1> DEFINE m == Len(data)
           c == b \o data
<1>0. off \in Nat /\ data \in Seq(Letter) /\ b \in Seq(Letter) /\ Len(b) = off
  BY DEF Accepted
<1>1. /\ Len(b) \in Nat /\ m \in Nat /\ g.size \in Nat /\ Len(g.byte) \in Nat
  BY <1>0 DEF Accepted, Outcome, TextFile, FileOK
<1>2. c \in Seq(Letter) /\ Len(c) = off + m
  BY <1>0
<1>3. \A i \in 1 .. off + m : c[i] = IF i <= off THEN b[i] ELSE data[i - off]
  BY <1>0
<1>4. off + m <= g.size /\ off + m <= Len(g.byte)
  BY DEF Accepted, Outcome
<1>5. \A i \in 1 .. off : g.byte[i] = b[i]
  BY DEF Accepted, Outcome, Starts
<1>6. \A i \in 1 .. m : g.byte[off + i] = data[i]
  BY DEF Accepted, Outcome
<1> HIDE DEF m, c
<1>7. ASSUME NEW i \in 1 .. off + m PROVE g.byte[i] = c[i]
  <2>1. CASE i <= off
    BY <1>0, <1>3, <1>5, <2>1
  <2>2. CASE i > off
    <3>1. PICK j \in 1 .. m : i = off + j /\ j = i - off
      BY <1>0, <1>1, <2>2
    <3>2. g.byte[i] = data[j]
      BY <1>6, <3>1
    <3>3. c[i] = data[j]
      <4>1. ~(i <= off) /\ i - off = j
        BY <1>0, <1>1, <2>2, <3>1
      <4> QED
        BY <1>3, <4>1
    <3> QED
      BY <3>2, <3>3
  <2> QED
    BY <1>0, <1>1, <2>1, <2>2
<1> QED
  BY <1>0, <1>2, <1>4, <1>7 DEF Starts, c, m

LEMMA EmptyStarts ==
    ASSUME NEW f, TextFile(f), NEW b, Len(b) = 0
    PROVE  Starts(f, b)
BY DEF TextFile, FileOK, Starts

LEMMA SameButIs ==
    /\ \A fs, p, h : Made(fs, p, h) => SameBut(fs, p, h)
    /\ \A fs, p, off, data, ok, h : Wrote(fs, p, off, data, ok, h) => SameBut(fs, p, h)
    /\ \A fs, p, h, k : SameBut(fs, p, h) /\ SameBut(h, p, k) => SameBut(fs, p, k)
<1>1. ASSUME NEW fs, NEW p, NEW h, Made(fs, p, h) PROVE SameBut(fs, p, h)
  BY <1>1 DEF Made, SameBut
<1>2. ASSUME NEW fs, NEW p, NEW off, NEW data, NEW ok, NEW h, Wrote(fs, p, off, data, ok, h)
      PROVE  SameBut(fs, p, h)
  BY <1>2 DEF Wrote, SameBut
<1>3. ASSUME NEW fs, NEW p, NEW h, NEW k, SameBut(fs, p, h), SameBut(h, p, k) PROVE SameBut(fs, p, k)
  BY <1>3 DEF SameBut
<1> QED
  BY <1>1, <1>2, <1>3

LEMMA VouchedElsewhere ==
    ASSUME NEW fs, NEW p, NEW h, SameBut(fs, p, h), NEW x, x.path # p, NEW b, Vouched(fs, x, b)
    PROVE  Vouched(h, x, b)
<1> DEFINE q == x.path
<1>1. (q \in DOMAIN h <=> q \in DOMAIN fs) /\ (q \in DOMAIN fs => h[q] = fs[q])
  BY DEF SameBut
<1> QED
  BY <1>1 DEF Vouched

LEMMA VouchedMade ==
    ASSUME NEW fs, NEW p, NEW h, Made(fs, p, h), NEW x, NEW b, Vouched(fs, x, b)
    PROVE  Vouched(h, x, b)
<1> DEFINE q == x.path
<1>1. CASE q \in DOMAIN fs
  BY <1>1 DEF Made, Vouched
<1>2. CASE q \notin DOMAIN fs
  <2>1. CASE q \notin DOMAIN h
    BY <1>2, <2>1 DEF Vouched
  <2>2. CASE q \in DOMAIN h
    <3>1. h[q] = NewFile
      BY <1>2, <2>2 DEF Made
    <3>2. TextFile(h[q]) /\ h[q].size = 0
      BY <3>1, NewText
    <3>3. x.mode = "w" => ~(Len(b) > 0)
      BY <1>2 DEF Vouched
    <3>4. x.mode = "a" => Len(b) = 0 /\ Starts(h[q], b)
      BY <1>2, <3>2, EmptyStarts DEF Vouched
    <3> QED
      BY <2>2, <3>2, <3>3, <3>4 DEF Vouched
  <2> QED
    BY <2>1, <2>2
<1> QED
  BY <1>1, <1>2

\* An append that begins at the end of the file.
LEMMA VouchedAppend ==
    ASSUME NEW fs, FilesFine(fs), NEW p \in DOMAIN fs, NEW off, off = fs[p].size,
           off < Len(fs[p].byte), NEW data \in Strings, NEW ok, NEW h,
           Wrote(fs, p, off, data, ok, h),
           NEW x, x.path = p, NEW b \in Seq(Letter), Vouched(fs, x, b)
    PROVE  Vouched(h, x, IF ok /\ x.mode = "a" THEN b \o data ELSE b)
<1> DEFINE f == fs[p]
           g == h[p]
<1>1. TextFile(f) /\ off \in Nat /\ data \in Seq(Letter) /\ Len(data) \in Nat /\ Len(b) \in Nat
  <2>1. TextFile(f)
    BY FineIs
  <2> QED
    BY <2>1, StringIs DEF TextFile, FileOK
<1>2. Outcome(f, off, data, ok, g) /\ p \in DOMAIN h /\ ok \in BOOLEAN
  BY DEF Wrote
<1>3. g.size \in Nat
  BY <1>2 DEF Outcome, TextFile, FileOK
<1>4. off < Len(f.byte)
  OBVIOUS
<1>5. x.mode # "r"
  BY DEF Vouched
<1>6. CASE x.mode = "w"
  <2>1. x.pos = Len(b) /\ (Len(b) > 0 => Starts(f, b))
    BY <1>6 DEF Vouched
  <2>2. Len(b) > 0 => Starts(g, b)
    <3>1. SUFFICES ASSUME Len(b) > 0 PROVE Starts(g, b)
      OBVIOUS
    <3>2. Starts(f, b)
      BY <2>1, <3>1
    <3>3. Len(b) <= off
      BY <3>2 DEF Starts
    <3> HIDE DEF f, g
    <3> QED
      BY <1>1, <1>2, <1>4, <3>2, <3>3, StillStarts
  <2> QED
    BY <1>2, <1>6, <2>1, <2>2 DEF Vouched
<1>7. CASE x.mode = "a"
  <2>1. Starts(f, b) /\ Len(b) = off
    BY <1>7 DEF Vouched
  <2>2. CASE ok
    <3>1. Starts(g, b \o data) /\ Len(b \o data) = off + Len(data)
      <4>1. Accepted(f, off, data, ok, g, b)
        BY <1>1, <1>2, <1>4, <2>1, <2>2 DEF Accepted
      <4> QED
        BY <4>1, NowStarts
    <3>2. off + Len(data) = g.size
      BY <1>1, <1>2, <1>3, <2>2 DEF Outcome
    <3> QED
      BY <1>2, <1>7, <2>2, <3>1, <3>2 DEF Vouched
  <2>3. CASE ~ok
    <3>1. Starts(g, b)
      <4>1. Len(b) <= off
        BY <1>1, <2>1
      <4> HIDE DEF f, g
      <4> QED
        BY <1>1, <1>2, <1>4, <2>1, <4>1, StillStarts
    <3>2. g.size = off
      BY <1>2, <2>3 DEF Outcome
    <3> QED
      BY <1>2, <1>7, <2>1, <2>3, <3>1, <3>2 DEF Vouched
  <2> QED
    BY <2>2, <2>3
<1>8. x.mode = "w" \/ x.mode = "a" \/ (x.mode # "r" /\ x.mode # "w" /\ x.mode # "a")
  BY <1>5
<1>9. CASE x.mode # "w" /\ x.mode # "a"
  BY <1>5, <1>9 DEF Vouched
<1> QED
  BY <1>6, <1>7, <1>8, <1>9

\* A write where the stream stands, to a file that may have been created for it.
LEMMA VouchedWrite ==
    ASSUME NEW fs, FilesFine(fs), NEW p, NEW off \in Nat, NEW data \in Strings, NEW ok, NEW h,
           Wrote(fs, p, off, data, ok, h),
           p \in DOMAIN fs => off < Len(fs[p].byte),
           NEW x, x.path = p, x.mode = "w", x.pos = off, NEW b \in Seq(Letter), Vouched(fs, x, b),
           NEW y, y.path = p, y.mode = "w", y.pos = IF ok THEN off + Len(data) ELSE off
    PROVE  Vouched(h, y, IF ok THEN b \o data ELSE b)
<1> DEFINE f == fs[p]
           g == h[p]
<1>1. data \in Seq(Letter) /\ Len(data) \in Nat /\ Len(b) = off /\ Len(b) \in Nat
  BY StringIs DEF Vouched
<1>2. Len(b) > 0 => p \in DOMAIN fs /\ Starts(f, b)
  BY DEF Vouched
<1>3. CASE p \notin DOMAIN fs
  <2>1. ~ok /\ Len(b) = 0
    BY <1>1, <1>2, <1>3 DEF Wrote
  <2> QED
    BY <1>1, <2>1 DEF Vouched
<1>4. CASE p \in DOMAIN fs
  <2>1. TextFile(f) /\ off < Len(f.byte)
    BY <1>4, FineIs
  <2>2. Outcome(f, off, data, ok, g) /\ p \in DOMAIN h /\ ok \in BOOLEAN
    BY <1>4 DEF Wrote
  <2>3. Starts(f, b)
    BY <1>1, <1>2, <2>1, EmptyStarts
  <2> HIDE DEF f, g
  <2>4. CASE ok
    <3>1. Starts(g, b \o data) /\ Len(b \o data) = off + Len(data)
      <4>1. Accepted(f, off, data, ok, g, b)
        BY <1>1, <2>1, <2>2, <2>3, <2>4 DEF Accepted
      <4> QED
        BY <4>1, NowStarts
    <3> QED
      BY <2>2, <2>4, <3>1 DEF Vouched, g
  <2>5. CASE ~ok
    <3>1. Len(b) <= off
      BY <1>1
    <3>2. Starts(g, b)
      BY <1>1, <2>1, <2>2, <2>3, <3>1, StillStarts
    <3> QED
      BY <1>1, <2>2, <2>5, <3>2 DEF Vouched, g
  <2> QED
    BY <2>4, <2>5
<1> QED
  BY <1>3, <1>4

----------------------------------------------------------------------------
(* The pool *)

LEMMA PoolIs ==
    ASSUME PoolOK, NEW s \in held
    PROVE  /\ s \in Slot /\ pool[s] \in OpenFile
           /\ pool[s].path \in Paths /\ pool[s].mode \in {"r", "w", "a"}
           /\ pool[s].pos \in 0 .. MaxPos /\ pool[s].pos \in Nat
<1>1. s \in Slot /\ pool[s].valid /\ pool[s] \in OpenFile \cup {Closed}
  BY DEF PoolOK
<1>2. pool[s] \in OpenFile
  BY <1>1 DEF Closed
<1>3. /\ pool[s].path \in Paths /\ pool[s].mode \in {"r", "w", "a"}
      /\ pool[s].pos \in 0 .. MaxPos
  BY <1>2 DEF OpenFile
<1>4. \A i \in 0 .. MaxPos : i \in Nat
  BY StreamAssumption
<1> QED
  BY <1>1, <1>2, <1>3, <1>4

LEMMA FreeFilesIs ==
    ASSUME PoolOK, FreeFiles # {}
    PROVE  Min(FreeFiles) \in Slot \ held
<1>1. FreeFiles \subseteq Nat
  BY DEF FreeFiles, Slot
<1>2. \E m \in FreeFiles : \A n \in FreeFiles : m <= n
  BY <1>1, NatMinimum
<1>3. Min(FreeFiles) \in FreeFiles
  BY <1>2 DEF Min
<1> QED
  BY <1>3 DEF FreeFiles, PoolOK

\* What fopen does to the pool.
LEMMA FopenIs ==
    ASSUME PoolOK, NEW path \in Paths, NEW mode \in {"r", "w", "a"}, Fopen(path, mode),
           NEW s, s = Min(FreeFiles)
    PROVE  /\ s \in Slot \ held /\ PoolOK' /\ held' = held \cup {s}
           /\ pool'[s].mode = mode /\ pool'[s].path = path /\ pool'[s].pos = 0
           /\ \A t \in held : pool'[t] = pool[t]
<1>1. s \in Slot \ held
  BY FreeFilesIs DEF Fopen
<1>2. pool \in [Slot -> OpenFile \cup {Closed}] /\ held = {t \in Slot : pool[t].valid}
  BY DEF PoolOK
<1>3. pool' = [pool EXCEPT ![s] = Opened(path, mode)] /\ held' = held \cup {s}
  BY DEF Fopen
<1>4. pool'[s] = Opened(path, mode) /\ \A t \in Slot \ {s} : pool'[t] = pool[t]
  BY <1>1, <1>2, <1>3
<1>5. Opened(path, mode) \in OpenFile
  <2>1. 0 \in 0 .. MaxPos
    BY StreamAssumption
  <2> QED
    BY <2>1 DEF Opened, OpenFile
<1>6. pool'[s].valid = TRUE /\ pool'[s].mode = mode /\ pool'[s].path = path /\ pool'[s].pos = 0
  BY <1>4 DEF Opened
<1>7. pool' \in [Slot -> OpenFile \cup {Closed}]
  BY <1>1, <1>2, <1>3, <1>5
<1>8. held' = {t \in Slot : pool'[t].valid}
  BY <1>1, <1>2, <1>3, <1>4, <1>6
<1>9. \A t \in held : pool'[t] = pool[t]
  BY <1>1, <1>2, <1>4
<1> QED
  BY <1>1, <1>3, <1>6, <1>7, <1>8, <1>9 DEF PoolOK

LEMMA ClosedIs ==
    ASSUME PoolOK, NEW s \in Slot, pool' = [pool EXCEPT ![s] = Closed], held' = held \ {s}
    PROVE  PoolOK' /\ \A t \in held' : pool'[t] = pool[t]
<1>1. pool \in [Slot -> OpenFile \cup {Closed}] /\ held = {t \in Slot : pool[t].valid}
  BY DEF PoolOK
<1>2. pool'[s] = Closed /\ \A t \in Slot \ {s} : pool'[t] = pool[t]
  BY <1>1
<1>3. pool' \in [Slot -> OpenFile \cup {Closed}]
  BY <1>1
<1>4. ~pool'[s].valid
  BY <1>2 DEF Closed
<1>5. held' = {t \in Slot : pool'[t].valid}
  BY <1>1, <1>2, <1>4
<1> QED
  BY <1>1, <1>2, <1>3, <1>5 DEF PoolOK

\* A stream that moves.
LEMMA MovedIs ==
    ASSUME PoolOK, NEW s \in held, NEW pos \in 0 .. MaxPos,
           pool' = [pool EXCEPT ![s].pos = pos], held' = held
    PROVE  /\ PoolOK' /\ \A t \in held \ {s} : pool'[t] = pool[t]
           /\ pool'[s].mode = pool[s].mode /\ pool'[s].path = pool[s].path /\ pool'[s].pos = pos
<1>1. pool \in [Slot -> OpenFile \cup {Closed}] /\ held = {t \in Slot : pool[t].valid}
  BY DEF PoolOK
<1>2. s \in Slot /\ pool[s] \in OpenFile
  BY PoolIs
<1> DEFINE x == pool[s]
           y == [x EXCEPT !.pos = pos]
<1>3. y \in OpenFile /\ y.mode = x.mode /\ y.path = x.path /\ y.pos = pos /\ y.valid = TRUE
  BY <1>2 DEF OpenFile
<1>4. pool' = [pool EXCEPT ![s] = y]
  OBVIOUS
<1> HIDE DEF y
<1>5. pool'[s] = y /\ \A t \in Slot \ {s} : pool'[t] = pool[t]
  BY <1>1, <1>2, <1>4
<1>6. pool' \in [Slot -> OpenFile \cup {Closed}]
  BY <1>1, <1>3, <1>4
<1>7. pool[s].valid
  BY <1>1
<1>8. held' = {t \in Slot : pool'[t].valid}
  BY <1>1, <1>2, <1>3, <1>5, <1>7
<1> QED
  BY <1>1, <1>3, <1>5, <1>6, <1>8 DEF PoolOK

----------------------------------------------------------------------------
(* The steps *)

LEMMA BeginsAre ==
    ASSUME PoolOK, BeginsOK
    PROVE  /\ begins \in [Slot -> Seq(Letter) \cup {Unknown}]
           /\ \A t \in Slot \ held : begins[t] = <<>>
           /\ \A t \in held : begins[t] # Unknown =>
                 begins[t] \in Seq(Letter) /\ Vouched(files, pool[t], begins[t])
           /\ <<>> \in Seq(Letter)
<1>1. \A t \in held : t \in Slot
  BY DEF PoolOK
<1>2. \A t \in Slot : begins[t] \in Seq(Letter) \cup {Unknown}
  BY DEF BeginsOK
<1>3. \A t \in held : begins[t] # Unknown => begins[t] \in Seq(Letter)
  BY <1>1, <1>2
<1> QED
  BY <1>3 DEF BeginsOK

\* Only what is known of the file of path is given up.
LEMMA DisturbedIs ==
    ASSUME PoolOK, BeginsOK, NEW A, A \subseteq Slot, NEW b, b = Disturbed(A)
    PROVE  /\ b \in [Slot -> Seq(Letter) \cup {Unknown}]
           /\ \A t \in Slot : b[t] = IF t \in A THEN Unknown ELSE begins[t]
BY BeginsAre DEF Disturbed

LEMMA KeepsFopenRead ==
    ASSUME StreamIInv, NEW path \in Paths, FopenRead(path)
    PROVE  StreamIInv'
<1> DEFINE s == Min(FreeFiles)
<1>1. PoolOK /\ BeginsOK /\ FilesFine(files) /\ files' = files
  BY DEF StreamIInv, FopenRead
<1>2. /\ s \in Slot \ held /\ PoolOK' /\ held' = held \cup {s}
      /\ \A t \in held : pool'[t] = pool[t]
  BY <1>1, FopenIs DEF FopenRead
<1>3. begins' = [begins EXCEPT ![s] = Unknown]
  BY DEF FopenRead
<1> HIDE DEF s
<1>4. begins'[s] = Unknown /\ \A t \in Slot \ {s} : begins'[t] = begins[t]
  BY <1>1, <1>2, <1>3, BeginsAre
<1>5. begins' \in [Slot -> Seq(Letter) \cup {Unknown}]
  BY <1>1, <1>2, <1>3, BeginsAre
<1>6. \A t \in Slot \ held' : begins'[t] = <<>>
  BY <1>1, <1>2, <1>4, BeginsAre
<1>7. \A t \in held' : begins'[t] # Unknown => Vouched(files', pool'[t], begins'[t])
  BY <1>1, <1>2, <1>4, BeginsAre, PoolIs
<1>8. BeginsOK'
  BY <1>5, <1>6, <1>7 DEF BeginsOK
<1>9. FilesFine(files)'
  BY <1>1
<1> QED
  BY <1>2, <1>8, <1>9 DEF StreamIInv

LEMMA KeepsFopenFails ==
    ASSUME StreamIInv, NEW path \in Paths, FopenFails(path)
    PROVE  StreamIInv'
<1> DEFINE s == Min(FreeFiles)
<1>1. PoolOK /\ BeginsOK /\ FilesFine(files) /\ files' = files /\ begins' = begins /\ held' = held
  BY DEF StreamIInv, FopenFails
<1>2. s \in Slot \ held
  BY <1>1, FreeFilesIs DEF FopenFails
<1>3. pool' = [pool EXCEPT ![s] = Closed] /\ held' = held \ {s}
  BY <1>1, <1>2 DEF FopenFails
<1> HIDE DEF s
<1>4. PoolOK' /\ \A t \in held' : pool'[t] = pool[t]
  BY <1>1, <1>2, <1>3, ClosedIs
<1>5. BeginsOK'
  BY <1>1, <1>4 DEF BeginsOK
<1> QED
  BY <1>1, <1>4, <1>5 DEF StreamIInv

LEMMA KeepsFclose ==
    ASSUME StreamIInv, NEW s, Fclose(s)
    PROVE  StreamIInv'
<1>1. PoolOK /\ BeginsOK /\ FilesFine(files) /\ files' = files /\ s \in held /\ s \in Slot
  BY PoolIs DEF StreamIInv, Fclose
<1>2. /\ pool' = [pool EXCEPT ![s] = Closed] /\ held' = held \ {s}
      /\ begins' = [begins EXCEPT ![s] = <<>>]
  BY DEF Fclose
<1>3. PoolOK' /\ \A t \in held' : pool'[t] = pool[t]
  BY <1>1, <1>2, ClosedIs
<1>4. begins'[s] = <<>> /\ \A t \in Slot \ {s} : begins'[t] = begins[t]
  BY <1>1, <1>2, BeginsAre
<1>5. begins' \in [Slot -> Seq(Letter) \cup {Unknown}]
  BY <1>1, <1>2, BeginsAre
<1>6. \A t \in Slot \ held' : begins'[t] = <<>>
  BY <1>1, <1>2, <1>4, BeginsAre
<1>7. \A t \in held' : begins'[t] # Unknown => Vouched(files', pool'[t], begins'[t])
  BY <1>1, <1>2, <1>3, <1>4, BeginsAre, PoolIs
<1>8. BeginsOK'
  BY <1>5, <1>6, <1>7 DEF BeginsOK
<1> QED
  BY <1>1, <1>3, <1>8 DEF StreamIInv

LEMMA KeepsFseek ==
    ASSUME StreamIInv, NEW s, NEW pos \in Seeks, Fseek(s, pos)
    PROVE  StreamIInv'
<1>1. PoolOK /\ BeginsOK /\ FilesFine(files) /\ files' = files /\ held' = held /\ s \in held /\ s \in Slot
  BY PoolIs DEF StreamIInv, Fseek
<1>2. pos \in 0 .. MaxPos
  BY StreamAssumption
<1>3. /\ PoolOK' /\ \A t \in held \ {s} : pool'[t] = pool[t]
      /\ pool'[s].mode = pool[s].mode /\ pool'[s].path = pool[s].path
  BY <1>1, <1>2, MovedIs DEF Fseek
<1>4. begins' = IF pool[s].mode = "a" THEN begins ELSE [begins EXCEPT ![s] = Unknown]
  BY DEF Fseek
<1>5. /\ begins'[s] = IF pool[s].mode = "a" THEN begins[s] ELSE Unknown
      /\ \A t \in Slot \ {s} : begins'[t] = begins[t]
      /\ begins' \in [Slot -> Seq(Letter) \cup {Unknown}]
  BY <1>1, <1>4, BeginsAre
<1>6. \A t \in Slot \ held' : begins'[t] = <<>>
  BY <1>1, <1>5, BeginsAre
<1>7. ASSUME NEW t \in held', begins'[t] # Unknown PROVE Vouched(files', pool'[t], begins'[t])
  <2>1. CASE t # s
    BY <1>1, <1>3, <1>5, <1>7, <2>1, BeginsAre, PoolIs
  <2>2. CASE t = s
    <3>1. pool[s].mode = "a" /\ begins'[s] = begins[s]
      BY <1>5, <1>7, <2>2
    <3>2. Vouched(files, pool[s], begins[s])
      BY <1>1, <1>7, <2>2, <3>1, BeginsAre
    <3>3. Vouched(files, pool'[s], begins[s])
      BY <1>3, <3>1, <3>2 DEF Vouched
    <3> QED
      BY <1>1, <2>2, <3>1, <3>3
  <2> QED
    BY <2>1, <2>2
<1>8. BeginsOK'
  BY <1>5, <1>6, <1>7 DEF BeginsOK
<1> QED
  BY <1>1, <1>3, <1>8 DEF StreamIInv

LEMMA KeepsRemoveFile ==
    ASSUME StreamIInv, NEW path \in Paths, RemoveFile(path)
    PROVE  StreamIInv'
<1>1. /\ PoolOK /\ BeginsOK /\ FilesFine(files)
      /\ files' = Removed(files, path) /\ pool' = pool /\ held' = held
      /\ begins' = Disturbed(On(path))
  BY DEF StreamIInv, RemoveFile
<1>2. FilesFine(files') /\ SameBut(files, path, files')
  <2> DEFINE h == Removed(files, path)
  <2>1. FilesFine(h) /\ SameBut(files, path, h)
    BY <1>1, RemovedIs
  <2> HIDE DEF h
  <2> QED
    BY <1>1, <2>1 DEF h
<1>3. On(path) \subseteq Slot /\ \A t \in held : t \in Slot
  BY <1>1, PoolIs DEF On
<1>4. /\ begins' \in [Slot -> Seq(Letter) \cup {Unknown}]
      /\ \A t \in Slot : begins'[t] = IF t \in On(path) THEN Unknown ELSE begins[t]
  BY <1>1, <1>3, DisturbedIs
<1>5. \A t \in Slot \ held' : begins'[t] = <<>>
  BY <1>1, <1>4, BeginsAre DEF On
<1>6. ASSUME NEW t \in held', begins'[t] # Unknown PROVE Vouched(files', pool'[t], begins'[t])
  <2>1. t \in held /\ t \in Slot /\ t \notin On(path) /\ begins'[t] = begins[t]
    BY <1>1, <1>3, <1>4, <1>6
  <2>2. pool[t].path # path
    BY <2>1 DEF On
  <2>3. Vouched(files, pool[t], begins[t])
    BY <1>1, <1>6, <2>1, BeginsAre
  <2> QED
    BY <1>1, <1>2, <2>1, <2>2, <2>3, VouchedElsewhere
<1>7. BeginsOK'
  BY <1>4, <1>5, <1>6 DEF BeginsOK
<1>8. PoolOK'
  BY <1>1 DEF PoolOK
<1>9. FilesFine(files)'
  BY <1>2
<1> QED
  BY <1>7, <1>8, <1>9 DEF StreamIInv

LEMMA KeepsFopenAppend ==
    ASSUME StreamIInv, NEW path \in Paths, FopenAppend(path)
    PROVE  StreamIInv'
<1> DEFINE s == Min(FreeFiles)
           h == Created(files, path)
           b == IF path \notin DOMAIN h THEN <<>>
                ELSE IF h[path].size <= Len(h[path].byte) THEN Readable(h[path])
                ELSE Unknown
<1>1. PoolOK /\ BeginsOK /\ FilesFine(files) /\ files' = h
  BY DEF StreamIInv, FopenAppend
<1>2. /\ s \in Slot \ held /\ PoolOK' /\ held' = held \cup {s}
      /\ pool'[s].mode = "a" /\ pool'[s].path = path
      /\ \A t \in held : pool'[t] = pool[t]
  BY <1>1, FopenIs DEF FopenAppend
<1>3. begins' = [begins EXCEPT ![s] = b]
  BY DEF FopenAppend
<1>4. Made(files, path, h) /\ FilesFine(h)
  BY <1>1, CreatedIs DEF Made
<1>5. b \in Seq(Letter) \cup {Unknown} /\ (b # Unknown => Vouched(h, pool'[s], b))
  <2>1. CASE path \notin DOMAIN h
    <3>1. b = <<>> /\ Len(b) = 0 /\ b \in Seq(Letter)
      BY <2>1
    <3> QED
      BY <1>2, <2>1, <3>1 DEF Vouched
  <2>2. CASE path \in DOMAIN h /\ ~(h[path].size <= Len(h[path].byte))
    BY <2>2
  <2>3. CASE path \in DOMAIN h /\ h[path].size <= Len(h[path].byte)
    <3> DEFINE f == h[path]
    <3>1. TextFile(f) /\ f.size <= Len(f.byte) /\ b = Readable(f)
      BY <1>4, <2>3 DEF FilesFine
    <3> HIDE DEF b, f
    <3>2. b \in Seq(Letter) /\ Len(b) = f.size /\ \A i \in 1 .. Len(b) : b[i] = f.byte[i]
      BY <3>1, ReadableIs
    <3>3. f.size \in Nat
      BY <3>1 DEF TextFile, FileOK
    <3>4. Starts(f, b)
      BY <3>1, <3>2, <3>3 DEF Starts
    <3> QED
      BY <1>2, <2>3, <3>2, <3>4 DEF Vouched, f
  <2> QED
    BY <2>1, <2>2, <2>3
<1> HIDE DEF s, h, b
<1>6. begins'[s] = b /\ \A t \in Slot \ {s} : begins'[t] = begins[t]
  BY <1>1, <1>2, <1>3, BeginsAre
<1>7. begins' \in [Slot -> Seq(Letter) \cup {Unknown}]
  BY <1>1, <1>2, <1>3, <1>5, BeginsAre
<1>8. \A t \in Slot \ held' : begins'[t] = <<>>
  BY <1>1, <1>2, <1>6, BeginsAre
<1>9. ASSUME NEW t \in held', begins'[t] # Unknown PROVE Vouched(files', pool'[t], begins'[t])
  <2>1. CASE t = s
    BY <1>1, <1>5, <1>6, <1>9, <2>1
  <2>2. CASE t # s
    <3>1. t \in held /\ t \in Slot
      BY <1>1, <1>2, <2>2, PoolIs
    <3>2. begins'[t] = begins[t] /\ pool'[t] = pool[t]
      BY <1>2, <1>6, <2>2, <3>1
    <3>3. Vouched(files, pool[t], begins[t])
      BY <1>1, <1>9, <3>1, <3>2, BeginsAre
    <3>4. Vouched(h, pool[t], begins[t])
      BY <1>4, <3>3, VouchedMade
    <3> QED
      BY <1>1, <3>2, <3>4
  <2> QED
    BY <2>1, <2>2
<1>10. BeginsOK'
  BY <1>7, <1>8, <1>9 DEF BeginsOK
<1>11. FilesFine(files)'
  BY <1>1, <1>4
<1> QED
  BY <1>2, <1>10, <1>11 DEF StreamIInv

LEMMA KeepsFopenWrite ==
    ASSUME StreamIInv, NEW path \in Paths, NEW esi \in Esi, FopenWrite(path, esi)
    PROVE  StreamIInv'
<1> DEFINE s == Min(FreeFiles)
           h == Removed(files, path)
           k == Created(h, path)
           l == Created(k, path)
           r == WriteTo(l, path, esi, <<>>)
           told == Disturbed(On(path))
<1>1. PoolOK /\ BeginsOK /\ FilesFine(files) /\ files' = r.files
  BY DEF StreamIInv, FopenWrite, FileWrite
<1>2. /\ s \in Slot \ held /\ PoolOK' /\ held' = held \cup {s}
      /\ pool'[s].mode = "w" /\ pool'[s].path = path /\ pool'[s].pos = 0
      /\ \A t \in held : pool'[t] = pool[t]
  BY <1>1, FopenIs DEF FopenWrite
<1>3. begins' = [told EXCEPT ![s] = <<>>]
  BY DEF FopenWrite
<1>4. FilesFine(files') /\ SameBut(files, path, files')
  <2>1. FilesFine(h) /\ SameBut(files, path, h)
    BY <1>1, RemovedIs
  <2> HIDE DEF h
  <2>2. FilesFine(k) /\ SameBut(h, path, k)
    <3>1. Made(h, path, k)
      BY <2>1, CreatedIs
    <3> HIDE DEF k
    <3> QED
      BY <3>1, SameButIs DEF Made
  <2> HIDE DEF k
  <2>3. FilesFine(l) /\ SameBut(k, path, l)
    <3>1. Made(k, path, l)
      BY <2>2, CreatedIs
    <3> HIDE DEF l
    <3> QED
      BY <3>1, SameButIs DEF Made
  <2> HIDE DEF l
  <2>4. FilesFine(r.files) /\ SameBut(l, path, r.files)
    <3>1. esi \in Nat /\ <<>> \in Strings \cup {<<>>}
      BY StreamAssumption
    <3>2. Wrote(l, path, esi, <<>>, r.ok, r.files)
      BY <2>3, <3>1, WriteToIs
    <3> HIDE DEF r
    <3> QED
      BY <3>2, SameButIs DEF Wrote
  <2> HIDE DEF r
  <2> QED
    BY <1>1, <2>1, <2>2, <2>3, <2>4, SameButIs
<1>5. On(path) \subseteq Slot /\ \A t \in held : t \in Slot
  BY <1>1, PoolIs DEF On
<1>6. /\ told \in [Slot -> Seq(Letter) \cup {Unknown}]
      /\ \A t \in Slot : told[t] = IF t \in On(path) THEN Unknown ELSE begins[t]
  BY <1>1, <1>5, DisturbedIs
<1> HIDE DEF s, told, r
<1>7. begins'[s] = <<>> /\ \A t \in Slot \ {s} : begins'[t] = told[t]
  BY <1>2, <1>3, <1>6
<1>8. begins' \in [Slot -> Seq(Letter) \cup {Unknown}]
  <2>1. <<>> \in Seq(Letter)
    OBVIOUS
  <2> QED
    BY <1>2, <1>3, <1>6, <2>1
<1>9. \A t \in Slot \ held' : begins'[t] = <<>>
  BY <1>1, <1>2, <1>6, <1>7, BeginsAre DEF On
<1>10. ASSUME NEW t \in held', begins'[t] # Unknown PROVE Vouched(files', pool'[t], begins'[t])
  <2>1. CASE t = s
    BY <1>2, <1>7, <2>1 DEF Vouched
  <2>2. CASE t # s
    <3>1. t \in held /\ t \in Slot
      BY <1>2, <1>5, <2>2
    <3>2. begins'[t] = begins[t] /\ pool'[t] = pool[t] /\ t \notin On(path)
      BY <1>2, <1>6, <1>7, <1>10, <2>2, <3>1
    <3>3. pool[t].path # path
      BY <3>1, <3>2 DEF On
    <3>4. Vouched(files, pool[t], begins[t])
      BY <1>1, <1>10, <3>1, <3>2, BeginsAre
    <3> QED
      BY <1>4, <3>2, <3>3, <3>4, VouchedElsewhere
  <2> QED
    BY <2>1, <2>2
<1>11. BeginsOK'
  BY <1>8, <1>9, <1>10 DEF BeginsOK
<1>12. FilesFine(files)'
  BY <1>4
<1> QED
  BY <1>2, <1>11, <1>12 DEF StreamIInv

LEMMA KeepsWriteAppending ==
    ASSUME StreamIInv, NEW s \in held, NEW data \in Strings, WriteAppending(s, data)
    PROVE  StreamIInv'
<1> DEFINE path == pool[s].path
           off  == IF path \in DOMAIN files THEN files[path].size ELSE 0
           call == WriteTo(files, path, off, data)
<1>1. /\ PoolOK /\ BeginsOK /\ FilesFine(files)
      /\ pool' = pool /\ held' = held /\ files' = call.files
  BY DEF StreamIInv, WriteAppending, FileAppend
<1>2. path \in Paths /\ On(path) \subseteq Slot /\ \A t \in held : t \in Slot
  BY <1>1, PoolIs DEF On
<1>3. off \in Nat
  BY <1>1, FineIs DEF FileOK
<1>4. Wrote(files, path, off, data, call.ok, files')
  <2> HIDE DEF path, off
  <2> QED
    BY <1>1, <1>2, <1>3, WriteToIs
<1>5. begins' = IF Misplaced(path, off) THEN Disturbed(On(path))
                ELSE [t \in Slot |->
                         IF call.ok /\ begins[t] # Unknown /\ t \in On(path) /\ pool[t].mode = "a"
                         THEN begins[t] \o data ELSE begins[t]]
  <2>1. begins' = IF Misplaced(path, off) THEN Disturbed(On(path))
                  ELSE [t \in Slot |->
                           IF /\ call.ok /\ begins[t] # Unknown
                              /\ t \in On(path) /\ pool[t].mode = "a"
                           THEN begins[t] \o data ELSE begins[t]]
    BY DEF WriteAppending, FileAppend
  <2> HIDE DEF call, off, path
  <2> QED
    BY <2>1
<1>6. path \in DOMAIN files /\ ~Misplaced(path, off) => off = files[path].size /\ off < Len(files[path].byte)
  BY <1>1, <1>3, FineIs DEF Misplaced, FileOK
<1> DEFINE ok == call.ok
<1>7. begins' = IF Misplaced(path, off) THEN Disturbed(On(path))
                ELSE [t \in Slot |->
                         IF ok /\ begins[t] # Unknown /\ t \in On(path) /\ pool[t].mode = "a"
                         THEN begins[t] \o data ELSE begins[t]]
  BY <1>5
<1>8. Wrote(files, path, off, data, ok, files')
  BY <1>4
<1> HIDE DEF path, off, call, ok
<1>9. FilesFine(files') /\ SameBut(files, path, files')
  BY <1>8, SameButIs DEF Wrote
<1>10. /\ begins' \in [Slot -> Seq(Letter) \cup {Unknown}]
       /\ \A t \in Slot : t \notin On(path) => begins'[t] = begins[t]
       /\ \A t \in On(path) : begins'[t] # Unknown =>
             /\ ~Misplaced(path, off) /\ begins[t] # Unknown
             /\ begins'[t] = IF ok /\ pool[t].mode = "a" THEN begins[t] \o data ELSE begins[t]
  <2>1. CASE Misplaced(path, off)
    BY <1>1, <1>2, <1>7, <2>1, DisturbedIs
  <2>2. CASE ~Misplaced(path, off)
    <3>1. begins' = [t \in Slot |->
                        IF ok /\ begins[t] # Unknown /\ t \in On(path) /\ pool[t].mode = "a"
                        THEN begins[t] \o data ELSE begins[t]]
      BY <1>7, <2>2
    <3>2. data \in Seq(Letter)
      BY StringIs
    <3>3. \A t \in Slot : begins[t] # Unknown => begins[t] \in Seq(Letter) /\ begins[t] \o data \in Seq(Letter)
      BY <1>1, <3>2, BeginsAre
    <3>4. begins' \in [Slot -> Seq(Letter) \cup {Unknown}]
      <4>1. \A t \in Slot : (IF ok /\ begins[t] # Unknown /\ t \in On(path) /\ pool[t].mode = "a"
                             THEN begins[t] \o data ELSE begins[t]) \in Seq(Letter) \cup {Unknown}
        BY <1>1, <3>3, BeginsAre
      <4> QED
        BY <3>1, <4>1
    <3> QED
      BY <1>2, <2>2, <3>1, <3>4
  <2> QED
    BY <2>1, <2>2
<1>11. \A t \in Slot \ held' : begins'[t] = <<>>
  BY <1>1, <1>10, BeginsAre DEF On
<1>12. ASSUME NEW t \in held', begins'[t] # Unknown PROVE Vouched(files', pool'[t], begins'[t])
  <2>1. t \in held /\ t \in Slot
    BY <1>1, <1>2
  <2>2. CASE t \notin On(path)
    <3>1. begins'[t] = begins[t] /\ pool[t].path # path
      BY <1>10, <2>1, <2>2 DEF On
    <3>2. Vouched(files, pool[t], begins[t])
      BY <1>1, <1>12, <2>1, <3>1, BeginsAre
    <3> QED
      BY <1>1, <1>9, <3>1, <3>2, VouchedElsewhere
  <2>3. CASE t \in On(path)
    <3> DEFINE x == pool[t]
               b == begins[t]
    <3>1. /\ ~Misplaced(path, off) /\ begins[t] # Unknown
          /\ begins'[t] = IF ok /\ pool[t].mode = "a" THEN begins[t] \o data ELSE begins[t]
      BY <1>10, <1>12, <2>3
    <3>2. Vouched(files, x, b) /\ b \in Seq(Letter) /\ x.path = path
      BY <1>1, <2>1, <2>3, <3>1, BeginsAre DEF On
    <3> HIDE DEF x, b
    <3>3. Vouched(files', x, IF ok /\ x.mode = "a" THEN b \o data ELSE b)
      <4>1. CASE path \in DOMAIN files
        <5>1. off = files[path].size /\ off < Len(files[path].byte)
          BY <1>6, <3>1, <4>1
        <5> QED
          BY <1>1, <1>8, <3>2, <4>1, <5>1, VouchedAppend
      <4>2. CASE path \notin DOMAIN files
        <5>1. ~ok /\ DOMAIN files' = DOMAIN files
          BY <1>8, <4>2 DEF Wrote
        <5>2. Vouched(files', x, b)
          BY <3>2, <4>2, <5>1 DEF Vouched
        <5> QED
          BY <5>1, <5>2
      <4> QED
        BY <4>1, <4>2
    <3> QED
      BY <1>1, <3>1, <3>3 DEF x, b
  <2> QED
    BY <2>2, <2>3
<1>13. BeginsOK'
  BY <1>10, <1>11, <1>12 DEF BeginsOK
<1>14. PoolOK'
  BY <1>1 DEF PoolOK
<1>15. FilesFine(files)'
  BY <1>9
<1> QED
  BY <1>13, <1>14, <1>15 DEF StreamIInv

LEMMA KeepsWriteAtPos ==
    ASSUME StreamIInv, NEW s \in held, NEW data \in Strings, WriteAtPos(s, data)
    PROVE  StreamIInv'
<1> DEFINE path == pool[s].path
           pos  == pool[s].pos
           made == Created(files, path)
           call == WriteTo(made, path, pos, data)
           told == Disturbed(On(path) \ {s})
           ok   == call.ok
<1>1. /\ PoolOK /\ BeginsOK /\ FilesFine(files)
      /\ held' = held /\ files' = call.files /\ pos + Len(data) <= MaxPos
  BY DEF StreamIInv, WriteAtPos, WriteAndAdvance, FileWrite
<1>2. /\ path \in Paths /\ pos \in Nat /\ s \in Slot
      /\ On(path) \subseteq Slot /\ \A t \in held : t \in Slot
  BY <1>1, PoolIs DEF On
<1>3. pool' = IF ok THEN [pool EXCEPT ![s].pos = @ + Len(data)] ELSE pool
  BY DEF WriteAtPos, WriteAndAdvance, FileWrite
<1>4. begins' = IF Misplaced(path, pos) THEN Disturbed(On(path))
                ELSE IF ok /\ begins[s] # Unknown THEN [told EXCEPT ![s] = @ \o data] ELSE told
  BY DEF WriteAtPos, WriteAndAdvance, FileWrite
<1>5. Made(files, path, made) /\ FilesFine(made)
  <2> HIDE DEF path
  <2> QED
    BY <1>1, <1>2, CreatedIs DEF Made
<1>6. Wrote(made, path, pos, data, ok, files')
  <2> HIDE DEF path, pos, made
  <2> QED
    BY <1>1, <1>2, <1>5, WriteToIs
<1>7. pool[s].mode # "a"
  BY DEF WriteAtPos, WriteAndAdvance
<1> HIDE DEF call, ok, made, told
<1>8. FilesFine(files') /\ SameBut(files, path, files') /\ ok \in BOOLEAN
  <2>1. SameBut(files, path, made) /\ SameBut(made, path, files')
    BY <1>5, <1>6, SameButIs
  <2>2. SameBut(files, path, files')
    BY <2>1, SameButIs
  <2> QED
    BY <1>6, <2>2 DEF Wrote
<1>9. /\ PoolOK' /\ \A t \in held \ {s} : pool'[t] = pool[t]
      /\ pool'[s].mode = pool[s].mode /\ pool'[s].path = path
      /\ pool'[s].pos = IF ok THEN pos + Len(data) ELSE pos
  <2>1. CASE ok
    <3>1. Len(data) \in Nat
      BY StringIs
    <3>2. pos + Len(data) \in 0 .. MaxPos
      BY <1>1, <1>2, <3>1, StreamAssumption
    <3>3. PICK v \in 0 .. MaxPos : v = pos + Len(data)
      BY <3>2
    <3>4. pool' = [pool EXCEPT ![s].pos = v]
      <4>1. pool' = [pool EXCEPT ![s].pos = pool[s].pos + Len(data)]
        BY <1>3, <2>1
      <4> QED
        BY <3>3, <4>1
    <3>5. /\ PoolOK' /\ \A t \in held \ {s} : pool'[t] = pool[t]
          /\ pool'[s].mode = pool[s].mode /\ pool'[s].path = pool[s].path /\ pool'[s].pos = v
      BY <1>1, <3>4, MovedIs
    <3> QED
      BY <2>1, <3>3, <3>5
  <2>2. CASE ~ok
    <3>1. pool' = pool
      BY <1>3, <2>2
    <3>2. PoolOK'
      BY <1>1, <3>1 DEF PoolOK
    <3> QED
      BY <2>2, <3>1, <3>2
  <2> QED
    BY <2>1, <2>2
<1>10. /\ told \in [Slot -> Seq(Letter) \cup {Unknown}]
       /\ \A t \in Slot : told[t] = IF t \in On(path) \ {s} THEN Unknown ELSE begins[t]
  <2>1. On(path) \ {s} \subseteq Slot
    BY <1>2
  <2> QED
    BY <1>1, <2>1, DisturbedIs DEF told
<1>11. s \in On(path)
  BY DEF On
<1> HIDE DEF path
<1>12. /\ begins' \in [Slot -> Seq(Letter) \cup {Unknown}]
       /\ \A t \in Slot : t \notin On(path) => begins'[t] = begins[t]
       /\ \A t \in On(path) \ {s} : begins'[t] = Unknown
       /\ begins'[s] # Unknown =>
             /\ ~Misplaced(path, pos) /\ begins[s] # Unknown
             /\ begins'[s] = IF ok THEN begins[s] \o data ELSE begins[s]
  <2>1. CASE Misplaced(path, pos)
    BY <1>1, <1>2, <1>4, <1>11, <2>1, DisturbedIs
  <2>2. CASE ~Misplaced(path, pos) /\ ~(ok /\ begins[s] # Unknown)
    <3>1. begins' = told
      BY <1>4, <2>2
    <3> QED
      BY <1>2, <1>8, <1>10, <2>2, <3>1
  <2>3. CASE ~Misplaced(path, pos) /\ ok /\ begins[s] # Unknown
    <3>1. told[s] = begins[s]
      BY <1>2, <1>10
    <3>2. begins' = [told EXCEPT ![s] = begins[s] \o data]
      BY <1>4, <2>3, <3>1
    <3>3. begins[s] \o data \in Seq(Letter)
      BY <1>1, <2>3, BeginsAre, StringIs
    <3>4. begins' \in [Slot -> Seq(Letter) \cup {Unknown}]
      BY <1>10, <3>2, <3>3
    <3>5. begins'[s] = begins[s] \o data /\ \A t \in Slot \ {s} : begins'[t] = told[t]
      BY <1>2, <1>10, <3>2
    <3> QED
      BY <1>2, <1>10, <1>11, <2>3, <3>4, <3>5
  <2> QED
    BY <2>1, <2>2, <2>3
<1>13. \A t \in Slot \ held' : begins'[t] = <<>>
  BY <1>1, <1>12, BeginsAre DEF On
<1>14. ASSUME begins'[s] # Unknown PROVE Vouched(files', pool'[s], begins'[s])
  <2> DEFINE x == pool[s]
             y == pool'[s]
             b == begins[s]
  <2>1. /\ ~Misplaced(path, pos) /\ begins[s] # Unknown
        /\ begins'[s] = IF ok THEN b \o data ELSE b
    BY <1>12, <1>14
  <2>2. Vouched(files, x, b) /\ b \in Seq(Letter)
    BY <1>1, <2>1, BeginsAre
  <2>3. x.path = path /\ x.pos = pos /\ x.mode = "w"
    <3>1. x.mode \in {"r", "w", "a"}
      BY <1>1, PoolIs
    <3>2. x.mode # "r"
      BY <2>2 DEF Vouched
    <3> QED
      BY <1>7, <3>1, <3>2 DEF path
  <2>4. y.path = path /\ y.mode = "w" /\ y.pos = IF ok THEN pos + Len(data) ELSE pos
    BY <1>9, <2>3
  <2> HIDE DEF x, y, b, pos
  <2>5. Vouched(made, x, b)
    BY <1>5, <2>2, VouchedMade
  <2>6. path \in DOMAIN made => pos < Len(made[path].byte)
    <3>1. CASE path \in DOMAIN files
      <4>1. made[path] = files[path] /\ Len(files[path].byte) \in Nat
        BY <1>1, <1>5, <3>1, FineIs DEF Made, FileOK
      <4> QED
        BY <1>2, <2>1, <3>1, <4>1 DEF Misplaced
    <3>2. CASE path \notin DOMAIN files /\ path \in DOMAIN made
      <4>1. made[path] = NewFile /\ Len(made[path].byte) = Sec
        BY <1>5, <3>2, NewText DEF Made
      <4>2. Len(b) = 0 /\ pos = Len(b)
        <5>1. ~(Len(b) > 0) /\ pos = Len(b)
          BY <2>2, <2>3, <3>2 DEF Vouched
        <5>2. Len(b) \in Nat
          BY <2>2
        <5> QED
          BY <5>1, <5>2
      <4> QED
        BY <4>1, <4>2, SecIs
    <3> QED
      BY <3>1, <3>2
  <2>7. Vouched(files', y, IF ok THEN b \o data ELSE b)
    BY <1>2, <1>5, <1>6, <2>2, <2>3, <2>4, <2>5, <2>6, VouchedWrite
  <2> QED
    BY <2>1, <2>7 DEF y, b
<1>15. ASSUME NEW t \in held', begins'[t] # Unknown PROVE Vouched(files', pool'[t], begins'[t])
  <2>1. t \in held /\ t \in Slot
    BY <1>1, <1>2
  <2>2. CASE t = s
    BY <1>14, <1>15, <2>2
  <2>3. CASE t # s
    <3>1. t \notin On(path)
      BY <1>12, <1>15, <2>3
    <3>2. begins'[t] = begins[t] /\ pool[t].path # path /\ pool'[t] = pool[t]
      BY <1>9, <1>12, <2>1, <2>3, <3>1 DEF On
    <3>3. Vouched(files, pool[t], begins[t])
      BY <1>1, <1>15, <2>1, <3>2, BeginsAre
    <3> QED
      BY <1>8, <3>2, <3>3, VouchedElsewhere
  <2> QED
    BY <2>2, <2>3
<1>16. BeginsOK'
  BY <1>12, <1>13, <1>15 DEF BeginsOK
<1>17. FilesFine(files)'
  BY <1>8
<1> QED
  BY <1>9, <1>16, <1>17 DEF StreamIInv

----------------------------------------------------------------------------
(* The theorems *)

LEMMA StreamTypes == StreamIInv => StreamTypeOK
<1> SUFFICES ASSUME StreamIInv PROVE StreamTypeOK
  OBVIOUS
<1>1. FilesFine(files) /\ PoolOK
  BY DEF StreamIInv
<1>2. DOMAIN files \subseteq Paths
  BY <1>1 DEF FilesFine
<1>3. ASSUME NEW p \in DOMAIN files PROVE files[p].size \in Nat /\ Len(files[p].byte) % Sec = 0
  <2> DEFINE f == files[p]
             n == Clusters(f)
             l == Len(f.byte)
  <2>1. FileOK(f)
    BY <1>1, FineIs
  <2>2. f.size \in Nat /\ l \in Nat /\ l = Sec * n /\ n = l \div Sec
    BY <2>1 DEF FileOK, Clusters
  <2> HIDE DEF f, l, n
  <2>3. l % Sec \in Nat /\ l = Sec * (l \div Sec) + (l % Sec)
    BY <2>2, SecIs, Division
  <2> DEFINE u == Sec * n
             v == l % Sec
  <2>4. l = u /\ l = u + v /\ v \in Nat /\ l \in Nat
    BY <2>2, <2>3
  <2> HIDE DEF u, v
  <2>5. v = 0
    BY <2>4
  <2> QED
    BY <2>2, <2>5 DEF f, l, v
<1>4. ASSUME NEW s \in Slot, pool[s].valid
      PROVE  pool[s].path \in Paths /\ pool[s].mode \in {"r", "w", "a"} /\ pool[s].pos \in 0 .. MaxPos
  <2>1. s \in held
    BY <1>1, <1>4 DEF PoolOK
  <2> QED
    BY <1>1, <2>1, PoolIs
<1>5. held \subseteq Slot
  BY <1>1 DEF PoolOK
<1> QED
  BY <1>2, <1>3, <1>4, <1>5 DEF StreamTypeOK

LEMMA StreamStarts == StreamInit => StreamIInv
<1> SUFFICES ASSUME StreamInit PROVE StreamIInv
  OBVIOUS
<1>1. FilesFine(files)
  <2>1. DOMAIN files = {}
    BY DEF StreamInit
  <2>2. Taken(files) = {}
    BY <2>1 DEF Taken
  <2>3. Cardinality(Taken(files)) = 0 /\ IsFiniteSet(DOMAIN files)
    BY <2>1, <2>2, FS_EmptySet
  <2> QED
    BY <2>1, <2>3, StreamAssumption DEF FilesFine
<1>2. PoolOK
  <2>1. pool \in [Slot -> OpenFile \cup {Closed}] /\ \A s \in Slot : pool[s] = Closed
    BY DEF StreamInit
  <2>2. ~Closed.valid
    BY DEF Closed
  <2> QED
    BY <2>1, <2>2 DEF StreamInit, PoolOK
<1>3. BeginsOK
  <2>1. <<>> \in Seq(Letter)
    OBVIOUS
  <2> QED
    BY <2>1 DEF StreamInit, BeginsOK
<1> QED
  BY <1>1, <1>2, <1>3 DEF StreamIInv

LEMMA StreamSteps == StreamIInv /\ [StreamNext]_streamVars => StreamIInv'
<1> SUFFICES ASSUME StreamIInv, [StreamNext]_streamVars PROVE StreamIInv'
  OBVIOUS
<1>1. ASSUME NEW path \in Paths, FopenRead(path) PROVE StreamIInv'
  BY <1>1, KeepsFopenRead
<1>2. ASSUME NEW path \in Paths, FopenFails(path) PROVE StreamIInv'
  BY <1>2, KeepsFopenFails
<1>3. ASSUME NEW path \in Paths, FopenAppend(path) PROVE StreamIInv'
  BY <1>3, KeepsFopenAppend
<1>4. ASSUME NEW path \in Paths, NEW esi \in Esi, FopenWrite(path, esi) PROVE StreamIInv'
  BY <1>4, KeepsFopenWrite
<1>5. ASSUME NEW path \in Paths, RemoveFile(path) PROVE StreamIInv'
  BY <1>5, KeepsRemoveFile
<1>6. ASSUME NEW s \in Slot, Fclose(s) PROVE StreamIInv'
  BY <1>6, KeepsFclose
<1>7. ASSUME NEW s \in Slot, NEW data \in Strings, Fwrite(s, data) PROVE StreamIInv'
  BY <1>7, KeepsWriteAppending, KeepsWriteAtPos DEF Fwrite
<1>8. ASSUME NEW s \in Slot, NEW pos \in Seeks, Fseek(s, pos) PROVE StreamIInv'
  BY <1>8, KeepsFseek
<1>9. ASSUME UNCHANGED streamVars PROVE StreamIInv'
  BY <1>9 DEF streamVars, StreamIInv, PoolOK, BeginsOK
<1> QED
  BY <1>1, <1>2, <1>3, <1>4, <1>5, <1>6, <1>7, <1>8, <1>9 DEF StreamNext

\* The pool is that of the program's streams, the disk is not overcommitted, and
\* each file is as what is known of its streams says, in every state.
THEOREM StreamInvariance == StreamSpec => []StreamIInv
<1>1. StreamInit => StreamIInv
  BY StreamStarts
<1>2. StreamIInv /\ [StreamNext]_streamVars => StreamIInv'
  BY StreamSteps
<1> QED
  BY <1>1, <1>2, PTL DEF StreamSpec

\* No slot of the FILE pool is lost by a failed fopen or kept by fclose: those in
\* use are the streams the program has open.
THEOREM SlotsMatchCallers == StreamSpec => []StreamsMatchCallers
<1>1. StreamIInv => StreamsMatchCallers
  <2> SUFFICES ASSUME StreamIInv PROVE StreamsMatchCallers
    OBVIOUS
  <2>1. held = {s \in Slot : pool[s].valid}
    BY DEF StreamIInv, PoolOK
  <2> QED
    BY <2>1, StreamTypes DEF StreamsMatchCallers
<1> QED
  BY <1>1, StreamInvariance, PTL

\* What fwrite has accepted is in the file, in the order of the calls, whatever
\* failed because the disk was full in between.
THEOREM AcceptedLands == StreamSpec => []AcceptedBytesLand
<1>1. StreamIInv => AcceptedBytesLand
  <2> SUFFICES ASSUME StreamIInv, NEW s \in held, begins[s] \notin {Unknown, <<>>}
               PROVE  LET path == pool[s].path
                      IN  /\ path \in DOMAIN files
                          /\ IsPrefix(begins[s], Readable(files[path]))
                          /\ pool[s].mode = "a" => begins[s] = Readable(files[path])
    BY DEF AcceptedBytesLand
  <2> DEFINE x == pool[s]
             b == begins[s]
             f == files[x.path]
  <2>1. PoolOK /\ BeginsOK /\ FilesFine(files)
    BY DEF StreamIInv
  <2>2. b \in Seq(Letter) /\ Vouched(files, x, b)
    BY <2>1, BeginsAre
  <2>3. x.mode \in {"r", "w", "a"}
    BY <2>1, PoolIs
  <2>4. Len(b) \in Nat /\ Len(b) > 0
    BY <2>2
  <2> HIDE DEF x, b
  <2>5. x.path \in DOMAIN files /\ Starts(f, b) /\ (x.mode = "a" => Len(b) = f.size)
    <3>1. x.mode \in {"w", "a"}
      BY <2>2, <2>3 DEF Vouched
    <3> QED
      BY <2>2, <2>4, <3>1 DEF Vouched
  <2>6. TextFile(f)
    BY <2>1, <2>5, FineIs
  <2>7. IsPrefix(b, Readable(f)) /\ (Len(b) = f.size => b = Readable(f))
    <3> HIDE DEF f
    <3> QED
      BY <2>2, <2>5, <2>6, StartsIs
  <2> QED
    BY <2>5, <2>7 DEF x, b
<1> QED
  BY <1>1, StreamInvariance, PTL
=============================================================================
