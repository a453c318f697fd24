------------------------------- MODULE FileOps -------------------------------
(***************************************************************************)
(* What the calls of the FAT16 file system (src/fs/fat.c) do to one file,   *)
(* as a summary of the code, its mistakes included: module FatFs carries    *)
(* the calls out one sector write at a time, module Stream puts the C       *)
(* library's streams on top of them.  What a caller of a write is promised  *)
(* is the last part; FatFs tells where the code keeps it.                   *)
(*                                                                          *)
(* A file is its size and the bytes of its clusters, whose number need not  *)
(* fit the size.  A byte no call has written is Stale: what the disk held.  *)
(***************************************************************************)
EXTENDS Integers, Sequences, FiniteSetsExt

CONSTANT Sec            \* bytes in a sector, which is a cluster (512)

ASSUME SecAssumption == Sec \in Nat \ {0}

Stale == "?"

Clusters(f) == Len(f.byte) \div Sec

\* fat_create_file gives a file its first cluster.
NewFile == [size |-> 0, byte |-> [i \in 1 .. Sec |-> Stale]]

\* Where fat_write_file_at puts the first byte of a write at off, which is off
\* only inside the file's clusters: the loop that seeks stops at the last one,
\* so that a write at off = 512 to a file of one cluster overwrites its beginning.
Seek(f, off) == (Min({off \div Sec, Clusters(f) - 1}) * Sec) + (off % Sec)

\* The clusters a write needs; it takes no more.
Needed(f, off, len) ==
    IF len = 0 THEN Clusters(f)
    ELSE Max({Clusters(f), (Seek(f, off) + len + Sec - 1) \div Sec})

\* The bytes of the file once the write has n clusters, those of data that fit.
Landed(f, off, data, n) ==
    LET start == Seek(f, off)
    IN  [i \in 1 .. n * Sec |->
            IF i - start \in DOMAIN data THEN data[i - start]
            ELSE IF i \in DOMAIN f.byte THEN f.byte[i] ELSE Stale]

\* fat_write_file_at that succeeds, and one that ends early with n clusters:
\* only the first raises the size.
Written(f, off, data) ==
    [size |-> Max({f.size, off + Len(data)}),
     byte |-> Landed(f, off, data, Needed(f, off, Len(data)))]
CutShort(f, off, data, n) == [f EXCEPT !.byte = Landed(f, off, data, n)]

\* fat_read_file of the whole file.
Readable(f) == SubSeq(f.byte, 1, Min({f.size, Len(f.byte)}))

----------------------------------------------------------------------------
(* What the calls promise: a size, and at each position the byte that was   *)
(* written there last.                                                      *)

Promise(size, byte, placed) == [size |-> size, byte |-> byte, placed |-> placed]
NewPromise == Promise(0, <<>>, TRUE)

\* The bytes at the positions that have been written, once data is at off.
Overlay(byte, off, data) ==
    [i \in DOMAIN byte \cup (off + 1 .. off + Len(data)) |->
        IF i - off \in DOMAIN data THEN data[i - off] ELSE byte[i]]

\* The write of data at off begins behind the clusters file f has.
Astray(f, off, data) == data # <<>> /\ off >= Len(f.byte)
=============================================================================
