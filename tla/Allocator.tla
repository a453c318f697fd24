----------------------------- MODULE Allocator -----------------------------
(***************************************************************************)
(* What kmalloc and kfree promise their callers: memory nobody else has.    *)
(***************************************************************************)
EXTENDS Integers, Functions

CONSTANT Sizes      \* the sizes callers ask for

VARIABLE live       \* the size of each region handed out and not given back

Region(p, n) == p .. p + n - 1

Init == live = <<>>

Alloc ==
    \E n \in Sizes :
        \E p \in DOMAIN live' \ DOMAIN live :
            /\ \A q \in DOMAIN live : Region(p, n) \cap Region(q, live[q]) = {}
            /\ live' = [x \in DOMAIN live \cup {p} |-> IF x = p THEN n ELSE live[x]]

Free == \E p \in DOMAIN live : live' = Restrict(live, DOMAIN live \ {p})

Next == Alloc \/ Free

Spec == Init /\ [][Next]_live
=============================================================================
