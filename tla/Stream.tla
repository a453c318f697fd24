------------------------------- MODULE Stream -------------------------------
(***************************************************************************)
(* The streams of the C library (src/lib/mylibc.c): the pool of FILE slots, *)
(* fopen, fclose, fwrite, fseek and remove over the file system calls.  The *)
(* calls do to a file what FileOps says, as FatFs shows; the clusters they  *)
(* share are counted here, so that the disk can be full.                    *)
(*                                                                          *)
(* One program uses the pool, and uses a stream only between fopen and      *)
(* fclose.  fread, fgetc and fgets are left out: they ask for the size of   *)
(* the file with a read of at most 0 bytes, get 0 and never reach the data, *)
(* so they change nothing.  For the same reason f->size stays 0, and        *)
(* SEEK_END means SEEK_SET.                                                 *)
(***************************************************************************)
EXTENDS FileOps, FiniteSets, Functions, SequencesExt

CONSTANTS
    MaxFiles,       \* MYLIBC_FILE_MAX
    Paths,          \* bound: the paths programs use
    DiskClusters,   \* bound: the clusters of the disk
    Strings,        \* bound: what one fwrite is given, sequences of bytes
    MaxPos,         \* bound: how far writes go
    Seeks,          \* bound: where seeks go
    Esi             \* what a register may hold that nothing has set

ASSUME StreamAssumption ==
    /\ MaxFiles \in Nat \ {0} /\ DiskClusters \in Nat /\ MaxPos \in Nat
    /\ Seeks \subseteq 0 .. MaxPos /\ Esi \subseteq Nat
    /\ \A data \in Strings : data \in Seq(Range(data))

Slot == 1 .. MaxFiles
Closed == [valid |-> FALSE]
Unknown == <<"unknown">>

VARIABLES
    files,      \* the files that exist, see FileOps
    pool,       \* _file_pool
    held,       \* history variable: the streams the program has open
    begins      \* history variable: what the file of an open stream begins with
                \* (mode "a": all it holds), by the calls that were accepted

streamVars == <<files, pool, held, begins>>

----------------------------------------------------------------------------
(* The file system calls, as operators on the files that exist *)

With(fs, path, f) == [p \in DOMAIN fs \cup {path} |-> IF p = path THEN f ELSE fs[p]]
Taken(fs) == UNION {{p} \X (1 .. Clusters(fs[p])) : p \in DOMAIN fs}
Free(fs) == DiskClusters - Cardinality(Taken(fs))

\* SYS_FDELETE and SYS_FCREATE.  A directory without room is left out.
Removed(fs, path) == Restrict(fs, DOMAIN fs \ {path})
Created(fs, path) ==
    IF path \in DOMAIN fs \/ Free(fs) = 0 THEN fs ELSE With(fs, path, NewFile)

\* A write to a file: a full disk ends it with what there was room for.
WriteTo(fs, path, off, data) ==
    LET f    == fs[path]
        most == Clusters(f) + Free(fs)
    IN  IF path \notin DOMAIN fs THEN [ok |-> FALSE, files |-> fs]
        ELSE IF Needed(f, off, Len(data)) <= most
        THEN [ok |-> TRUE, files |-> With(fs, path, Written(f, off, data))]
        ELSE [ok |-> FALSE, files |-> With(fs, path, CutShort(f, off, data, most))]

\* SYS_FWRITE creates a missing file, SYS_FAPPEND does not.
FileWrite(fs, path, off, data) == WriteTo(Created(fs, path), path, off, data)
FileAppend(fs, path, data) ==
    WriteTo(fs, path, IF path \in DOMAIN fs THEN fs[path].size ELSE 0, data)

----------------------------------------------------------------------------
(* fopen and fclose *)

\* alloc_file takes the first vacant slot; without one fopen fails.
FreeFiles == {s \in Slot : ~pool[s].valid}
Opened(path, mode) == [valid |-> TRUE, path |-> path, mode |-> mode, pos |-> 0]

\* The streams open on path, and what is known when its file is changed behind
\* their backs.
On(path) == {s \in held : pool[s].path = path}
Disturbed(streams) == [s \in Slot |-> IF s \in streams THEN Unknown ELSE begins[s]]

Fopen(path, mode) ==
    /\ FreeFiles # {}
    /\ pool' = [pool EXCEPT ![Min(FreeFiles)] = Opened(path, mode)]
    /\ held' = held \cup {Min(FreeFiles)}

FopenRead(path) ==
    /\ path \in DOMAIN files
    /\ Fopen(path, "r")
    /\ begins' = [begins EXCEPT ![Min(FreeFiles)] = Unknown]
    /\ UNCHANGED files

\* No such file: the slot is given back.
FopenKeepsSlot(path) ==
    /\ path \notin DOMAIN files /\ FreeFiles # {}
    /\ pool' = [pool EXCEPT ![Min(FreeFiles)] = Opened(path, "r")]
    /\ UNCHANGED <<files, held, begins>>
FopenFails(path) ==
    /\ path \notin DOMAIN files /\ FreeFiles # {}
    /\ pool' = [pool EXCEPT ![Min(FreeFiles)] = Closed]
    /\ UNCHANGED <<files, held, begins>>

\* The file is deleted, created, and written to with 0 bytes at an offset that
\* nothing has set.  What these calls return is not looked at.
FopenWrite(path, esi) ==
    /\ Fopen(path, "w")
    /\ files' = FileWrite(Created(Removed(files, path), path), path, esi, <<>>).files
    /\ begins' = [Disturbed(On(path)) EXCEPT ![Min(FreeFiles)] = <<>>]

FopenAppend(path) ==
    LET fs == Created(files, path) IN
    /\ Fopen(path, "a")
    /\ files' = fs
    /\ begins' = [begins EXCEPT ![Min(FreeFiles)] =
                     IF path \notin DOMAIN fs THEN <<>>
                     ELSE IF fs[path].size <= Len(fs[path].byte) THEN Readable(fs[path])
                     ELSE Unknown]

Fclose(s) ==
    /\ s \in held
    /\ pool' = [pool EXCEPT ![s] = Closed]
    /\ held' = held \ {s}
    /\ begins' = [begins EXCEPT ![s] = <<>>]
    /\ UNCHANGED files

----------------------------------------------------------------------------
(* fwrite, and with it fputc, fputs and fprintf *)

\* A write that begins behind the last cluster lands somewhere else.
Misplaced(path, off) == path \in DOMAIN files /\ off >= Len(files[path].byte)

\* Mode "a".  The bytes are now the last ones of the file.
WriteAppending(s, data) ==
    LET path == pool[s].path
        call == FileAppend(files, path, data)
        off  == IF path \in DOMAIN files THEN files[path].size ELSE 0
    IN  /\ pool[s].mode = "a"
        /\ off + Len(data) <= MaxPos
        /\ files' = call.files
        /\ begins' = IF Misplaced(path, off) THEN Disturbed(On(path))
                     ELSE [t \in Slot |->
                              IF /\ call.ok /\ begins[t] # Unknown
                                 /\ t \in On(path) /\ pool[t].mode = "a"
                              THEN begins[t] \o data ELSE begins[t]]
        /\ UNCHANGED <<pool, held>>

\* Any other mode, "r" included: the bytes go where the stream stands, and it
\* moves on behind them if the call succeeds.
WriteAndAdvance(s, data, advances) ==
    LET path == pool[s].path
        pos  == pool[s].pos
        call == FileWrite(files, path, pos, data)
        told == Disturbed(On(path) \ {s})
    IN  /\ pool[s].mode # "a"
        /\ pos + Len(data) <= MaxPos
        /\ files' = call.files
        /\ pool' = IF advances \/ call.ok THEN [pool EXCEPT ![s].pos = @ + Len(data)] ELSE pool
        /\ begins' = IF Misplaced(path, pos) THEN Disturbed(On(path))
                     ELSE IF call.ok /\ begins[s] # Unknown
                     THEN [told EXCEPT ![s] = @ \o data] ELSE told
        /\ UNCHANGED held
WriteAdvancingAlways(s, data) == WriteAndAdvance(s, data, TRUE)
WriteAtPos(s, data) == WriteAndAdvance(s, data, FALSE)

Fwrite(s, data) == s \in held /\ (WriteAppending(s, data) \/ WriteAtPos(s, data))

----------------------------------------------------------------------------
\* fseek, with any offset and origin.  An append stream does not care.
Fseek(s, pos) ==
    /\ s \in held
    /\ pool' = [pool EXCEPT ![s].pos = pos]
    /\ begins' = IF pool[s].mode = "a" THEN begins ELSE [begins EXCEPT ![s] = Unknown]
    /\ UNCHANGED <<files, held>>

\* remove
RemoveFile(path) ==
    /\ path \in DOMAIN files
    /\ files' = Removed(files, path)
    /\ begins' = Disturbed(On(path))
    /\ UNCHANGED <<pool, held>>

----------------------------------------------------------------------------
StreamInit ==
    /\ files = <<>>
    /\ pool = [s \in Slot |-> Closed]
    /\ held = {}
    /\ begins = [s \in Slot |-> <<>>]

StreamNext ==
    \/ \E path \in Paths :
          \/ FopenRead(path) \/ FopenFails(path) \/ FopenAppend(path)
          \/ \E esi \in Esi : FopenWrite(path, esi)
          \/ RemoveFile(path)
    \/ \E s \in Slot :
          \/ Fclose(s)
          \/ \E data \in Strings : Fwrite(s, data)
          \/ \E pos \in Seeks : Fseek(s, pos)

StreamSpec == StreamInit /\ [][StreamNext]_streamVars

----------------------------------------------------------------------------
StreamTypeOK ==
    /\ DOMAIN files \subseteq Paths
    /\ \A p \in DOMAIN files : files[p].size \in Nat /\ Len(files[p].byte) % Sec = 0
    /\ \A s \in Slot : pool[s].valid =>
          pool[s].path \in Paths /\ pool[s].mode \in {"r", "w", "a"} /\ pool[s].pos \in 0 .. MaxPos
    /\ held \subseteq Slot

\* The slots in use are the streams the program holds: failed calls keep none,
\* so that opening fails only when all are open.
StreamsMatchCallers == StreamTypeOK /\ {s \in Slot : pool[s].valid} = held

\* What fwrite has accepted is in the file, in the order of the calls: at the
\* beginning of a file opened with "w", and behind what a file opened with "a"
\* held, whoever else appends to it.  It is still so when calls have failed in
\* the middle because the disk was full and were made again after space became
\* free.  (Not for a file that a seek, a removal or another writer has changed,
\* nor for a write that begins exactly where the last cluster ends.)
AcceptedBytesLand ==
    \A s \in held : begins[s] \notin {Unknown, <<>>} =>
        LET path == pool[s].path
        IN  /\ path \in DOMAIN files
            /\ IsPrefix(begins[s], Readable(files[path]))
            /\ pool[s].mode = "a" => begins[s] = Readable(files[path])
=============================================================================
