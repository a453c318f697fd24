-------------------------------- MODULE FatFs --------------------------------
(***************************************************************************)
(* The FAT16 file system (src/fs/fat.c) one sector write at a time.  An     *)
(* operation runs with interrupts off from its first write to its last, so  *)
(* operations never interleave; what can come between two writes is the     *)
(* loss of power.                                                           *)
(*                                                                          *)
(* One cluster is one sector.  A path has one or two names, names being in  *)
(* their 8.3 form; a subdirectory has one cluster, which the code never     *)
(* extends, and its entries . and .. are left out.                          *)
(*                                                                          *)
(* Programs leave out what fat.c does not check: they create nothing below  *)
(* a file, write to no directory and delete a directory only when it is     *)
(* empty.  When power was lost while something was being deleted, they      *)
(* delete it again before they change anything else.                        *)
(*                                                                          *)
(* expect is what the code makes of each file, in one step per call; what   *)
(* the callers were promised is in promised, and does not depend on how     *)
(* the code finds the place of a write.                                     *)
(***************************************************************************)
EXTENDS FileOps, FiniteSets, SequencesExt

CONSTANTS
    LastCluster,    \* bound: data clusters are 2 .. LastCluster
    RootSlots,      \* entries of the root directory
    DirSlots,       \* entries of a subdirectory behind . and .. (14)
    Name,           \* bound: the names programs use
    Data,           \* bound: what one call writes, sequences of bytes
    Offsets,        \* bound: the offsets of writes
    MaxSize         \* bound: the size of a file that is appended to

ASSUME FatAssumption ==
    /\ LastCluster \in Nat /\ LastCluster >= 2
    /\ RootSlots \in Nat \ {0} /\ DirSlots \in Nat \ {0}
    /\ MaxSize \in Nat /\ Offsets \subseteq Nat
    /\ Name \cap {"00", "E5"} = {}
    /\ \A data \in Data : data \in Seq(Range(data)) /\ Stale \notin Range(data)

Cluster == 2 .. LastCluster
FREE == 0                   \* FAT entry 0x0000
EOC == -1                   \* FAT entry 0xFFFF; anything from 0xFFF8 ends a chain
Root == 0                   \* the cluster number that stands for the root directory
None == <<>>                \* no such entry; a slot is <<directory, index>>

VARIABLES
    fat,        \* the allocation table
    root,       \* the slots of the root directory
    sec,        \* what the data sectors hold: slots or bytes
    op,         \* the operation under way and where it stands
    expect,     \* history variable: each file as FileOps says the code leaves it
    promised,   \* history variable: each file as its callers were promised
    lost        \* history variable: the clusters that losses of power have cost

vars == <<fat, root, sec, op, expect, promised, lost>>

----------------------------------------------------------------------------
(* Directories and paths *)

Entry(name, isDir, first, size) ==
    [name |-> name, isDir |-> isDir, first |-> first, size |-> size]
Unused == Entry("00", FALSE, 0, 0)      \* ends a search
Deleted == Entry("E5", FALSE, 0, 0)     \* is skipped
Vacant(e) == e.name \in {"00", "E5"}

\* A sector that was written as bytes shows no entries.
Holds(d) == IF d = Root THEN TRUE ELSE "slots" \in DOMAIN sec[d]
Slots(d) == IF d = Root THEN root ELSE IF Holds(d) THEN sec[d].slots ELSE <<>>

\* fat_find_entry_in_dir
Find(d, name) ==
    LET hits == {i \in DOMAIN Slots(d) :
                    /\ Slots(d)[i].name = name
                    /\ \A j \in 1 .. i : Slots(d)[j].name # "00"}
    IN  IF hits = {} THEN None ELSE <<d, Min(hits)>>

At(loc) == Slots(loc[1])[loc[2]]

\* fat_path_to_dirent
Path == {<<n>> : n \in Name} \cup {<<m, n>> : m, n \in Name}
Resolve(path) ==
    LET one == Find(Root, path[1])
    IN  IF Len(path) = 1 \/ one = None THEN one
        ELSE IF At(one).isDir THEN Find(At(one).first, path[2])
        ELSE None

\* The cluster an entry for path is added to.  That the parent is a directory
\* is not checked; a file's data would be taken for entries.
ParentCluster(path) ==
    IF Len(path) = 1 THEN Root
    ELSE LET p == Find(Root, path[1]) IN IF p = None THEN EOC ELSE At(p).first
ParentIsFile(path) ==
    /\ Len(path) = 2 /\ Find(Root, path[1]) # None /\ ~At(Find(Root, path[1])).isDir

\* The chain of clusters from c, at most as long as the table.
Chain(c) ==
    LET walk[n \in Nat] ==
            IF n = 0 THEN IF c \in Cluster THEN <<c>> ELSE <<>>
            ELSE LET s == walk[n - 1]
                 IN  IF s # <<>> /\ fat[Last(s)] \in Cluster THEN Append(s, fat[Last(s)]) ELSE s
    IN  walk[LastCluster - 1]

\* The file an entry leads to.
Bytes(c) == IF "bytes" \in DOMAIN sec[c] THEN sec[c].bytes
            ELSE [i \in 0 .. Sec - 1 |-> "junk"]
OnDisk(e) ==
    LET chain == Chain(e.first)
    IN  [size |-> e.size,
         byte |-> [i \in 1 .. Sec * Len(chain) |->
                      Bytes(chain[((i - 1) \div Sec) + 1])[(i - 1) % Sec]]]

----------------------------------------------------------------------------
(* Sector writes *)

Idle == [kind |-> "idle"]
\* Deleting path lost power after its first cluster was freed.
Torn(path) == [kind |-> "torn", path |-> path]
\* No operation is under way.
Settled == op.kind \in {"idle", "torn"}
SetFat(c, v) == fat' = [fat EXCEPT ![c] = v] /\ UNCHANGED <<root, sec>>

\* A slot of directory d becomes e.
PutSlot(d, i, e) ==
    /\ root' = IF d = Root THEN [root EXCEPT ![i] = e] ELSE root
    /\ sec' = IF d = Root THEN sec ELSE [sec EXCEPT ![d].slots[i] = e]
    /\ UNCHANGED fat

\* Where the scan of fat_allocate_cluster finds a cluster.  It looks at every
\* entry of the table's sectors, also at those behind LastCluster; see Overrun.
FreeClusters == {c \in Cluster : fat[c] = FREE}

----------------------------------------------------------------------------
(* fat_create_file and fat_mkdir *)

Creatable(path) == op = Idle /\ Resolve(path) = None /\ ParentCluster(path) # EOC

\* fat_allocate_cluster: the first write marks the lowest free cluster.  then
\* is the write that a fat_write_file_at of a missing file goes on with.
Creating(path, isDir, then) ==
    /\ Creatable(path)
    /\ FreeClusters # {}
    /\ SetFat(Min(FreeClusters), EOC)
    /\ op' = [kind |-> "create", path |-> path, isDir |-> isDir, ready |-> ~isDir, then |-> then,
              parent |-> ParentCluster(path), first |-> Min(FreeClusters)]
    /\ UNCHANGED <<expect, promised>>

CreateFile(path) ==
    /\ ~ParentIsFile(path)
    /\ Creating(path, FALSE, <<>>)

\* Directories are made in the root here; deeper ones behave alike.
MakeDir(path) == Len(path) = 1 /\ Creating(path, TRUE, <<>>)

\* fat_mkdir writes the new directory's sector before it is linked.
Empty == [slots |-> [i \in 1 .. DirSlots |-> Unused]]
InitDir ==
    /\ op.kind = "create" /\ ~op.ready
    /\ sec' = [sec EXCEPT ![op.first] = Empty]
    /\ op' = [op EXCEPT !.ready = TRUE]
    /\ UNCHANGED <<fat, root, expect, promised>>

\* fat_add_entry
VacantSlots(d) == {i \in DOMAIN Slots(d) : Vacant(Slots(d)[i])}
Added ==
    LET i == Min(VacantSlots(op.parent))
    IN  /\ VacantSlots(op.parent) # {}
        /\ PutSlot(op.parent, i, Entry(op.path[Len(op.path)], op.isDir, op.first, 0))
        /\ op' = IF op.then = <<>> THEN Idle
                 ELSE [kind |-> "write", path |-> op.path, loc |-> <<op.parent, i>>,
                       cur |-> op.first, step |-> "data", pos |-> 0, next |-> EOC,
                       off |-> op.then[1], data |-> op.then[2]]
        /\ expect' = IF op.isDir THEN expect
                     ELSE [p \in DOMAIN expect \cup {op.path} |->
                              IF p = op.path THEN NewFile ELSE expect[p]]
        /\ promised' = IF op.isDir THEN promised
                       ELSE [p \in DOMAIN promised \cup {op.path} |->
                                IF p = op.path THEN NewPromise ELSE promised[p]]

\* No vacant slot: the cluster is given back and the operation fails.
NotAdded ==
    /\ VacantSlots(op.parent) = {}
    /\ SetFat(op.first, FREE)
    /\ op' = Idle
    /\ UNCHANGED <<expect, promised>>

AddEntry ==
    /\ op.kind = "create"
    /\ op.ready
    /\ Added \/ NotAdded

----------------------------------------------------------------------------
(* fat_delete_file, for files and directories alike *)

NonEmptyDir(e) == e.isDir /\ \E i \in DOMAIN Slots(e.first) : ~Vacant(Slots(e.first)[i])

Delete(path) ==
    /\ op \in {Idle, Torn(path)}
    /\ Resolve(path) # None
    /\ ~NonEmptyDir(At(Resolve(path)))
    /\ op' = [kind |-> "delete", path |-> path, loc |-> Resolve(path),
              cur |-> At(Resolve(path)).first]
    /\ UNCHANGED <<fat, root, sec, expect, promised>>

\* Release the chain, one cluster per write.
FreeFirstOnly ==
    /\ op.kind = "delete" /\ op.cur \in Cluster
    /\ SetFat(op.cur, FREE)
    /\ op' = [op EXCEPT !.cur = EOC]
    /\ UNCHANGED <<expect, promised>>
FreeCluster ==
    /\ op.kind = "delete" /\ op.cur \in Cluster
    /\ SetFat(op.cur, FREE)
    /\ op' = [op EXCEPT !.cur = fat[op.cur]]
    /\ UNCHANGED <<expect, promised>>

\* Then mark the entry.  What lies below a directory is no longer there.
MarkDeleted ==
    /\ op.kind = "delete" /\ op.cur \notin Cluster
    /\ PutSlot(op.loc[1], op.loc[2], [At(op.loc) EXCEPT !.name = "E5"])
    /\ op' = Idle
    /\ LET gone == {p \in DOMAIN expect : IsPrefix(op.path, p)}
       IN  /\ expect' = [p \in DOMAIN expect \ gone |-> expect[p]]
           /\ promised' = [p \in DOMAIN promised \ gone |-> promised[p]]

----------------------------------------------------------------------------
(* fat_write_file_at *)

\* The loop that seeks stops at the last cluster, even if off is beyond it.
SeekCluster(first, off) ==
    LET chain == Chain(first)
    IN  chain[Min({(off \div Sec) + 1, Len(chain)})]

\* Write data at off of the file in slot loc.
Writing(path, loc, off, data) ==
    op' = [kind |-> "write", path |-> path, loc |-> loc, cur |-> SeekCluster(At(loc).first, off),
           step |-> "data", pos |-> 0, next |-> EOC, off |-> off, data |-> data]

\* A missing file is created first.
WriteAt(path, off, data) ==
    \/ /\ op = Idle
       /\ Resolve(path) # None /\ ~At(Resolve(path)).isDir
       /\ Writing(path, Resolve(path), off, data)
       /\ UNCHANGED <<fat, root, sec, expect, promised>>
    \/ /\ ~ParentIsFile(path)
       /\ Creating(path, FALSE, <<off, data>>)

\* fat_append_file
AppendFile(path, data) ==
    /\ Resolve(path) # None /\ ~At(Resolve(path)).isDir
    /\ At(Resolve(path)).size <= MaxSize
    /\ WriteAt(path, At(Resolve(path)).size, data)

\* One sector: read it, change it from the offset in the cluster on, write it.
Chunk == Min({Sec - ((op.off + op.pos) % Sec), Len(op.data) - op.pos})
ChunkAt(start) ==
    /\ op.kind = "write" /\ op.step = "data" /\ op.pos < Len(op.data)
    /\ sec' = [sec EXCEPT ![op.cur] = [bytes |->
                 [i \in 0 .. Sec - 1 |->
                     IF i \in start .. start + Chunk - 1
                     THEN op.data[op.pos + (i - start) + 1] ELSE Bytes(op.cur)[i]]]]
    /\ LET pos == op.pos + Chunk IN
       op' = [op EXCEPT !.pos = pos, !.next = fat[op.cur],
                        !.step = IF pos < Len(op.data) THEN "next" ELSE "data"]
    /\ UNCHANGED <<fat, root, expect, promised>>
ChunkFromStart == ChunkAt(0)
WriteChunk == ChunkAt((op.off + op.pos) % Sec)

\* Go on in the next cluster of the chain.
NextCluster ==
    /\ op.kind = "write" /\ op.step = "next" /\ op.next \in Cluster
    /\ op' = [op EXCEPT !.cur = op.next, !.step = "data"]
    /\ UNCHANGED <<fat, root, sec, expect, promised>>

\* At the end of the chain: mark a free cluster, then link it.
TakeFree ==
    /\ op.kind = "write" /\ op.step = "next" /\ op.next \notin Cluster /\ FreeClusters # {}
    /\ op' = [op EXCEPT !.next = Min(FreeClusters), !.step = "link"]
    /\ UNCHANGED <<expect, promised>>
TakeUnmarked == TakeFree /\ UNCHANGED <<fat, root, sec>>
AllocateNext == TakeFree /\ SetFat(Min(FreeClusters), EOC)

LinkNext ==
    /\ op.kind = "write" /\ op.step = "link"
    /\ SetFat(op.cur, op.next)
    /\ op' = [op EXCEPT !.cur = op.next, !.step = "data"]
    /\ UNCHANGED <<expect, promised>>

\* data has been written, as far as the caller can tell.
Keep(size, data) ==
    promised' = [promised EXCEPT ![op.path] =
                    Promise(size, Overlay(@.byte, op.off, data),
                            @.placed /\ ~Astray(expect[op.path], op.off, data))]

\* The call ends here: what has been written stays, and so does the size.
Interrupted ==
    LET data == SubSeq(op.data, 1, op.pos)
    IN  /\ expect' = [expect EXCEPT ![op.path] =
                         CutShort(@, op.off, data, Len(Chain(At(op.loc).first)))]
        /\ Keep(promised[op.path].size, data)

\* The disk is full, and so are all sectors of its table.
DiskFull ==
    /\ op.kind = "write" /\ op.step = "next" /\ op.next \notin Cluster /\ FreeClusters = {}
    /\ op' = Idle
    /\ Interrupted
    /\ UNCHANGED <<fat, root, sec>>

\* The last sector of the table has entries behind the one of the last cluster
\* (27 on the disk the Makefile makes).  On such a disk fat_allocate_cluster goes
\* on with these when no cluster is free, and gives out clusters that lie behind
\* the end of the disk.  The model ends there: the driver waits forever for the
\* data of such a sector.
Overrun ==
    /\ FreeClusters = {}
    /\ \/ op.kind = "write" /\ op.step = "next" /\ op.next \notin Cluster
       \/ \E path \in Path : Creatable(path) /\ ~ParentIsFile(path)
    /\ op' = [kind |-> "overrun"]
    /\ UNCHANGED <<fat, root, sec, expect, promised>>

\* The last write, of the directory entry, is left out when the file has not
\* grown.
UpdateSize ==
    LET old  == At(op.loc)
        size == Max({old.size, op.off + Len(op.data)})
    IN  /\ op.kind = "write" /\ op.pos = Len(op.data)
        /\ PutSlot(op.loc[1], op.loc[2], [old EXCEPT !.size = size])
        /\ op' = Idle
        /\ expect' = [expect EXCEPT ![op.path] = Written(@, op.off, op.data)]
        /\ Keep(Max({promised[op.path].size, op.off + Len(op.data)}), op.data)

----------------------------------------------------------------------------
\* The entries some path leads to, and the clusters none of them does.
Found == {p \in Path : Resolve(p) # None}
Locs == {Resolve(p) : p \in Found}
ClustersOf(loc) == LET c == Chain(At(loc).first) IN {c[i] : i \in DOMAIN c}
Lost == {c \in Cluster : fat[c] # FREE} \ UNION {ClustersOf(loc) : loc \in Locs}

\* Power fails between two sector writes.
Crash ==
    /\ op.kind \in {"create", "delete", "write"}
    /\ op' = IF op.kind = "delete" /\ fat[At(op.loc).first] = FREE
             THEN Torn(op.path) ELSE Idle
    /\ IF op.kind = "write" THEN Interrupted ELSE UNCHANGED <<expect, promised>>
    /\ lost' = Lost
    /\ UNCHANGED <<fat, root, sec>>

\* A formatted disk.
Init ==
    /\ fat = [c \in Cluster |-> FREE]
    /\ root = [i \in 1 .. RootSlots |-> Unused]
    /\ sec = [c \in Cluster |-> [bytes |-> [i \in 0 .. Sec - 1 |-> "junk"]]]
    /\ op = Idle
    /\ expect = <<>>
    /\ promised = <<>>
    /\ lost = {}

Call ==
    /\ Settled
    /\ \E path \in Path :
          \/ CreateFile(path)
          \/ MakeDir(path)
          \/ Delete(path)
          \/ \E data \in Data : AppendFile(path, data)
          \/ \E data \in Data, off \in Offsets : WriteAt(path, off, data)

Next ==
    \/ /\ \/ Call
          \/ InitDir \/ AddEntry
          \/ FreeCluster \/ MarkDeleted
          \/ WriteChunk \/ NextCluster \/ AllocateNext \/ LinkNext \/ UpdateSize
          \/ DiskFull \/ Overrun
       /\ UNCHANGED lost
    \/ Crash

Spec == Init /\ [][Next]_vars

----------------------------------------------------------------------------
\* The types; what an entry in the root calls a directory is a sector of slots.
TypeOK ==
    /\ fat \in [Cluster -> Cluster \cup {FREE, EOC}]
    /\ DOMAIN root = 1 .. RootSlots
    /\ \A i \in DOMAIN root :
          /\ root[i].first \in Cluster \cup {0} /\ root[i].size \in Nat
          /\ root[i].isDir /\ ~Vacant(root[i]) => Holds(root[i].first)
    /\ op.kind \in {"idle", "torn", "create", "delete", "write", "overrun"}

\* The entries that are not half deleted.
Whole == {p \in Found : op # Torn(p)}

\* Between two operations every entry's chain consists of allocated clusters
\* and ends, and no cluster belongs to two entries: writing one file never
\* changes another, and no new file gets a cluster that is in use.  A directory's
\* cluster holds entries before the first path leads to it.  An entry whose
\* deletion lost power is the only exception, until it is deleted again.
ChainsIntact ==
    /\ TypeOK
    /\ Settled =>
        /\ \A p \in Whole :
              LET chain == Chain(At(Resolve(p)).first) IN
              /\ chain # <<>>
              /\ \A i \in DOMAIN chain : fat[chain[i]] # FREE
              /\ fat[chain[Len(chain)]] = EOC
        /\ \A p, q \in Found : p # q =>
              ClustersOf(Resolve(p)) \cap ClustersOf(Resolve(q)) = {}

\* Operations of such programs that run to their end lose no cluster, however
\* they end: what is allocated belongs to an entry, but for what losses of power
\* have cost, in a deletion the clusters behind the freed ones.
NoClusterLost == Settled => Lost = lost

\* FatFs implements FileOps: between two operations the files that exist are the
\* ones created and not deleted, and each is what FileOps says the code makes of
\* it: its size, its number of clusters, and every byte of them that was written,
\* those behind the size included.
FollowsFileOps ==
    Settled =>
        /\ DOMAIN expect = {p \in Found : ~At(Resolve(p)).isDir}
        /\ \A p \in DOMAIN expect \cap Whole :
              LET file == OnDisk(At(Resolve(p)))
              IN  /\ file.size = expect[p].size
                  /\ Len(file.byte) = Len(expect[p].byte)
                  /\ \A i \in DOMAIN file.byte :
                        expect[p].byte[i] # Stale => file.byte[i] = expect[p].byte[i]

\* File p is on the disk as its callers were promised.
AsPromised(p) ==
    LET file == OnDisk(At(Resolve(p)))
    IN  /\ file.size = promised[p].size
        /\ \A i \in DOMAIN promised[p].byte :
              i \in DOMAIN file.byte /\ file.byte[i] = promised[p].byte[i]

\* Between two operations the files that exist are the ones created and not
\* deleted, and each has the size its calls have given it and, at every position,
\* the byte that was written there last.  A call that found the disk full, or
\* lost power, has written a beginning of its data and changed nothing else; a
\* file half deleted is still listed and no other has suffered.  Files to which
\* a write has gone astray are the exception, see EveryWriteLands.
FilesReadBack ==
    Settled =>
        /\ DOMAIN promised = {p \in Found : ~At(Resolve(p)).isDir}
        /\ \A p \in DOMAIN promised \cap Whole : promised[p].placed => AsPromised(p)

\* The same of every file, as README.md:103 has it: SYS_FAPPEND adds to a file.
\* It is not so: an append to a file whose clusters are full overwrites the
\* beginning of the last one.
EveryWriteLands == Settled => \A p \in DOMAIN promised \cap Whole : AsPromised(p)
=============================================================================
