------------------------------ MODULE MCFatFs ------------------------------
EXTENDS FatFs, TLC

\* Nothing, and more than a sector: a whole one and a part of another, in the
\* order that the offset asks for.  For appends alone, one byte.
MCData == {<<>>, <<"x", "y", "x">>}
MCByte == {<<"x">>}
NameSymmetry == Permutations(Name)

\* States that differ only in what is never read are one state to TLC: the rest
\* of a vacant entry, the contents of free and of lost clusters, the bytes of
\* files that no call has written, those of the call under way, which op
\* determines, and what was promised of a file to which a write has gone astray.
Seen(slots) == [i \in DOMAIN slots |-> IF Vacant(slots[i]) THEN slots[i].name ELSE slots[i]]
SeenFile(p) ==
    LET file == OnDisk(At(Resolve(p)))
    IN  [i \in DOMAIN file.byte |->
            IF p \in DOMAIN expect /\ i \in DOMAIN expect[p].byte /\ expect[p].byte[i] # Stale
            THEN file.byte[i] ELSE Stale]
Files == {p \in Found : ~At(Resolve(p)).isDir}
View ==
    <<fat, Seen(root), op, expect, lost,
      [p \in {q \in DOMAIN promised : promised[q].placed} |-> promised[p]],
      [p \in Found \ Files |-> Seen(Slots(At(Resolve(p)).first))],
      [p \in Files |-> SeenFile(p)]>>
=============================================================================
