---------------------------- MODULE ConsoleProofs ----------------------------
(***************************************************************************)
(* Proofs about modules Console and Echo, for any keyboard table, any sizes *)
(* of the ring and of the screen, and any number of tasks.                  *)
(***************************************************************************)
EXTENDS Console, Echo, NatFacts, SequenceTheorems

----------------------------------------------------------------------------
(* The ring *)

Index == 0 .. BufSize - 1
Content == Byte \cup {NUL}
Rings == [buf : [Index -> Content], head : Index]

\* The bytes between tail and h, and the slot of the i-th of them.
Filled(h) == (h + BufSize - tail) % BufSize
Place(i) == (tail + i - 1) % BufSize

LEMMA FilledIs ==
    ASSUME tail \in Index, NEW h \in Index
    PROVE  /\ Filled(h) = IF h < tail THEN h + BufSize - tail ELSE h - tail
           /\ Filled(h) \in Index
<1> DEFINE a == h + BufSize - tail
<1>1. BufSize \in Nat \ {0} /\ a \in 0 .. 2 * BufSize - 1
  BY KeyboardAssumption DEF Index
<1>2. a % BufSize = IF a < BufSize THEN a ELSE a - BufSize
  BY <1>1, Remainder
<1> QED
  BY <1>1, <1>2 DEF Filled, Index

LEMMA PlaceIs ==
    ASSUME tail \in Index, NEW i \in 1 .. BufSize
    PROVE  /\ Place(i) = IF tail + i - 1 < BufSize THEN tail + i - 1 ELSE tail + i - 1 - BufSize
           /\ Place(i) \in Index
<1> DEFINE a == tail + i - 1
<1>1. BufSize \in Nat \ {0} /\ a \in 0 .. 2 * BufSize - 1
  BY KeyboardAssumption DEF Index
<1>2. a % BufSize = IF a < BufSize THEN a ELSE a - BufSize
  BY <1>1, Remainder
<1> QED
  BY <1>1, <1>2 DEF Place, Index

\* kbd_enqueue puts a byte behind the last one, or drops it.
LEMMA EnqueueIs ==
    ASSUME tail \in Index, NEW r \in Rings, NEW c \in Content, NEW s, s = Enqueue(r, c)
    PROVE  /\ s \in Rings
           /\ \A i \in 1 .. Filled(r.head) : s.buf[Place(i)] = r.buf[Place(i)]
           /\ Filled(r.head) < BufSize - 1 =>
                 /\ Filled(s.head) = Filled(r.head) + 1
                 /\ s.buf[Place(Filled(r.head) + 1)] = c
           /\ ~(Filled(r.head) < BufSize - 1) => Filled(s.head) = Filled(r.head)
<1> DEFINE h == r.head
           b == r.buf
           a == h + 1
           up == a % BufSize
           n == Filled(h)
<1>1. BufSize \in Nat \ {0, 1} /\ h \in Index /\ b \in [Index -> Content]
  BY KeyboardAssumption DEF Rings
<1>2. up = IF h + 1 < BufSize THEN h + 1 ELSE 0
  <2>1. a \in 0 .. 2 * BufSize - 1 /\ BufSize \in Nat \ {0}
    BY <1>1 DEF Index
  <2> HIDE DEF a
  <2>2. up = IF a < BufSize THEN a ELSE a - BufSize
    BY <2>1, Remainder
  <2> QED
    BY <1>1, <2>2 DEF Index, a
<1>3. up \in Index
  BY <1>1, <1>2 DEF Index
<1>4. n = (IF h < tail THEN h + BufSize - tail ELSE h - tail) /\ n \in Index
  BY <1>1, FilledIs
<1>5. Filled(up) = IF up < tail THEN up + BufSize - tail ELSE up - tail
  BY <1>3, FilledIs
<1>6. n < BufSize - 1 <=> up # tail
  <2> HIDE DEF n, up
  <2> QED
    BY <1>1, <1>2, <1>4 DEF Index
<1>7. CASE up # tail
  <2> DEFINE nb == [b EXCEPT ![h] = c]
  <2>1. s = [buf |-> nb, head |-> up]
    BY <1>7 DEF Enqueue
  <2>2. nb \in [Index -> Content]
    BY <1>1
  <2>3. nb[h] = c /\ \A x \in Index \ {h} : nb[x] = b[x]
    BY <1>1
  <2> HIDE DEF nb, h, b, up, n
  <2>4. s \in Rings /\ s.buf = nb /\ s.head = up
    BY <1>3, <2>1, <2>2 DEF Rings
  <2>5. Filled(up) = n + 1
    BY <1>1, <1>2, <1>4, <1>5, <1>7 DEF Index
  <2>6. n + 1 \in 1 .. BufSize /\ Place(n + 1) = h
    <3>1. n + 1 \in 1 .. BufSize
      BY <1>1, <1>4 DEF Index
    <3>2. Place(n + 1) = IF tail + (n + 1) - 1 < BufSize THEN tail + (n + 1) - 1
                         ELSE tail + (n + 1) - 1 - BufSize
      BY <3>1, PlaceIs
    <3> QED
      BY <1>1, <1>4, <3>1, <3>2 DEF Index
  <2>7. ASSUME NEW i \in 1 .. n
        PROVE  Place(i) \in Index \ {h}
    <3>1. i \in 1 .. BufSize
      BY <1>1, <1>4 DEF Index
    <3>2. /\ Place(i) = IF tail + i - 1 < BufSize THEN tail + i - 1 ELSE tail + i - 1 - BufSize
          /\ Place(i) \in Index
      BY <3>1, PlaceIs
    <3> QED
      BY <1>1, <1>4, <3>1, <3>2 DEF Index
  <2> QED
    BY <1>6, <1>7, <2>3, <2>4, <2>5, <2>6, <2>7 DEF h, b, n
<1>8. CASE up = tail
  <2>1. s = r
    BY <1>8 DEF Enqueue
  <2> QED
    BY <1>6, <1>8, <2>1
<1> QED
  BY <1>7, <1>8

\* A line, or Ctrl+C's byte, is put behind what the ring holds, up to the point
\* where the ring is full.
Kept(n) == IF Used + n < BufSize THEN Used + n ELSE BufSize - 1

LEMMA UsedIs == Used = Filled(head) /\ Contents = [i \in 1 .. Used |-> ring[Place(i)]]
BY DEF Used, Filled, Contents, Place

LEMMA EnqueueAllIs ==
    ASSUME KbdTypeOK, NEW bytes \in Seq(Content), EnqueueAll(bytes), tail' = tail
    PROVE  /\ ring' \in [Index -> Content] /\ head' \in Index
           /\ Used' = Kept(Len(bytes))
           /\ Contents' = [i \in 1 .. Used' |->
                            IF i <= Used THEN Contents[i] ELSE bytes[i - Used]]
<1> DEFINE N == Len(bytes)
           R == Rings
           x0 == [buf |-> ring, head |-> head]
           step == [n \in Nat |-> [x \in R |-> IF n + 1 \in 1 .. N THEN Enqueue(x, bytes[n + 1]) ELSE x]]
           r[n \in 0 .. N] == IF n = 0 THEN x0 ELSE Enqueue(r[n-1], bytes[n])
           P(n) == {x \in R : /\ Filled(x.head) = Kept(n)
                              /\ \A i \in 1 .. Kept(n) :
                                    x.buf[Place(i)] = IF i <= Used THEN ring[Place(i)] ELSE bytes[i - Used]}
<1>1. /\ BufSize \in Nat \ {0, 1} /\ tail \in Index /\ head \in Index
      /\ ring \in [Index -> Content]
  BY KeyboardAssumption DEF KbdTypeOK, Index, Content
<1>2. N \in Nat /\ \A n \in 1 .. N : bytes[n] \in Content
  OBVIOUS
<1>3. Used = Filled(head) /\ Used \in Index
  BY <1>1, UsedIs, FilledIs
<1> HIDE DEF N
<1>4. x0 \in R /\ x0 \in P(0)
  <2>1. x0 \in R
    BY <1>1 DEF Rings
  <2>2. Kept(0) = Used
    BY <1>1, <1>3 DEF Kept, Index
  <2> QED
    BY <1>1, <1>3, <2>1, <2>2 DEF Index
<1>5. ASSUME NEW x \in R, NEW n \in Nat, n + 1 \in 1 .. N
      PROVE  Enqueue(x, bytes[n + 1]) \in R /\ (x \in P(n) => Enqueue(x, bytes[n + 1]) \in P(n + 1))
  <2> DEFINE c == bytes[n + 1]
             s == Enqueue(x, c)
  <2>1. c \in Content
    BY <1>2, <1>5
  <2>2. /\ s \in R
        /\ \A i \in 1 .. Filled(x.head) : s.buf[Place(i)] = x.buf[Place(i)]
        /\ Filled(x.head) < BufSize - 1 =>
              /\ Filled(s.head) = Filled(x.head) + 1
              /\ s.buf[Place(Filled(x.head) + 1)] = c
        /\ ~(Filled(x.head) < BufSize - 1) => Filled(s.head) = Filled(x.head)
    BY <1>1, <1>5, <2>1, EnqueueIs
  <2> HIDE DEF s
  <2>3. ASSUME x \in P(n)
        PROVE  s \in P(n + 1)
    <3>1. /\ Filled(x.head) = Kept(n)
          /\ \A i \in 1 .. Kept(n) :
                x.buf[Place(i)] = IF i <= Used THEN ring[Place(i)] ELSE bytes[i - Used]
      BY <2>3
    <3>2. CASE Used + n < BufSize - 1
      <4>1. Kept(n) = Used + n /\ Kept(n + 1) = Used + n + 1 /\ Kept(n) < BufSize - 1
            /\ Kept(n + 1) = Kept(n) + 1 /\ Kept(n) \in Nat
        <5>1. Used \in Nat /\ BufSize \in Nat /\ n \in Nat
          BY <1>1, <1>3 DEF Index
        <5>2. Kept(n) = Used + n
          BY <3>2, <5>1 DEF Kept
        <5>3. Kept(n + 1) = Used + n + 1
          BY <3>2, <5>1 DEF Kept
        <5> QED
          BY <3>2, <5>1, <5>2, <5>3
      <4>2. Filled(s.head) = Kept(n + 1) /\ s.buf[Place(Kept(n + 1))] = c
        BY <2>2, <3>1, <4>1
      <4>3. ~(Kept(n + 1) <= Used) /\ Kept(n + 1) - Used = n + 1
        BY <1>3, <1>5, <4>1 DEF Index
      <4>4. ASSUME NEW i \in 1 .. Kept(n + 1)
            PROVE  s.buf[Place(i)] = IF i <= Used THEN ring[Place(i)] ELSE bytes[i - Used]
        <5>1. CASE i = Kept(n + 1)
          BY <4>2, <4>3, <5>1
        <5>2. CASE i \in 1 .. Kept(n)
          BY <2>2, <3>1, <5>2
        <5> QED
          BY <4>1, <5>1, <5>2
      <4> QED
        BY <2>2, <4>2, <4>4
    <3>3. CASE ~(Used + n < BufSize - 1)
      <4>1. Kept(n) = BufSize - 1 /\ Kept(n + 1) = BufSize - 1
        BY <1>1, <1>3, <1>5, <3>3 DEF Kept, Index
      <4> QED
        BY <1>1, <2>2, <3>1, <4>1
    <3> QED
      BY <3>2, <3>3
  <2> QED
    BY <2>2, <2>3 DEF s
<1> HIDE DEF R, P, x0
<1>6. step \in Steps(R)
  <2>1. \A n \in Nat : [x \in R |-> IF n + 1 \in 1 .. N THEN Enqueue(x, bytes[n + 1]) ELSE x] \in [R -> R]
    BY <1>5
  <2> QED
    BY <2>1 DEF Steps
<1>7. PICK g \in [0 .. N -> R] : g[0] = x0 /\ \A i \in 0 .. N - 1 : g[i + 1] = step[i][g[i]]
  <2> HIDE DEF step
  <2>1. Runs(R, x0, step, N) # {}
    BY <1>2, <1>4, <1>6, LoopStates
  <2> QED
    BY <2>1 DEF Runs
<1>8. \A i \in 0 .. N - 1 : g[i + 1] = Enqueue(g[i], bytes[i + 1])
  <2> SUFFICES ASSUME NEW i \in 0 .. N - 1 PROVE g[i + 1] = Enqueue(g[i], bytes[i + 1])
    OBVIOUS
  <2>1. i \in Nat /\ i + 1 \in 1 .. N /\ g[i] \in R
    BY <1>2
  <2> QED
    BY <1>7, <2>1
<1>9. g = [n \in 0 .. N |-> IF n = 0 THEN x0 ELSE Enqueue(g[n-1], bytes[n])]
  <2>1. \A n \in 0 .. N : g[n] = IF n = 0 THEN x0 ELSE Enqueue(g[n-1], bytes[n])
    <3> SUFFICES ASSUME NEW n \in 0 .. N, n # 0 PROVE g[n] = Enqueue(g[n-1], bytes[n])
      BY <1>7
    <3>1. n - 1 \in 0 .. N - 1 /\ (n - 1) + 1 = n
      BY <1>2
    <3> QED
      BY <1>8, <3>1
  <2> QED
    BY <2>1
<1>10. r = [n \in 0 .. N |-> IF n = 0 THEN x0 ELSE Enqueue(r[n-1], bytes[n])]
  BY <1>9
<1>11. ring' = r[N].buf /\ head' = r[N].head
  BY DEF EnqueueAll, N, x0
<1> HIDE DEF r
<1>12. r[0] = x0 /\ \A i \in 0 .. N - 1 : r[i + 1] = Enqueue(r[i], bytes[i + 1])
  <2>1. r[0] = x0
    BY <1>2, <1>10
  <2>2. ASSUME NEW i \in 0 .. N - 1
        PROVE  r[i + 1] = Enqueue(r[i], bytes[i + 1])
    <3>1. i + 1 \in 0 .. N /\ i + 1 # 0 /\ (i + 1) - 1 = i
      BY <1>2
    <3> QED
      BY <1>10, <3>1
  <2> QED
    BY <2>1, <2>2
<1>13. r[N] \in P(N)
  <2> DEFINE Ps == [i \in 0 .. N |-> P(i)]
  <2>1. r[0] \in Ps[0]
    BY <1>2, <1>4, <1>12
  <2>2. \A i \in 0 .. N - 1 : r[i] \in Ps[i] => r[i + 1] \in Ps[i + 1]
    <3> SUFFICES ASSUME NEW i \in 0 .. N - 1, r[i] \in P(i) PROVE r[i + 1] \in P(i + 1)
      BY <1>2
    <3>1. r[i] \in R
      BY DEF P
    <3>2. i \in Nat /\ i + 1 \in 1 .. N
      BY <1>2
    <3> QED
      BY <1>5, <1>12, <3>1, <3>2
  <2> HIDE DEF Ps
  <2>3. \A i \in 0 .. N : r[i] \in Ps[i]
    BY <1>2, <2>1, <2>2, LoopInvariant
  <2> QED
    BY <1>2, <2>3 DEF Ps
<1>14. /\ ring' \in [Index -> Content] /\ head' \in Index
       /\ Filled(head') = Kept(N)
       /\ \A i \in 1 .. Kept(N) :
             ring'[Place(i)] = IF i <= Used THEN ring[Place(i)] ELSE bytes[i - Used]
  BY <1>11, <1>13 DEF P, R, Rings
<1>15. Used' = Kept(N) /\ Contents' = [i \in 1 .. Used' |-> ring'[Place(i)]]
  BY <1>14 DEF Used, Contents, Filled, Place
<1>16. \A i \in 1 .. Used' : ring'[Place(i)] = IF i <= Used THEN Contents[i] ELSE bytes[i - Used]
  <2> SUFFICES ASSUME NEW i \in 1 .. Kept(N), i <= Used PROVE ring[Place(i)] = Contents[i]
    BY <1>14, <1>15
  <2> QED
    BY <1>3, UsedIs DEF Index
<1> QED
  BY <1>14, <1>15, <1>16 DEF N

----------------------------------------------------------------------------
(* sys_read *)

LEMMA ContentsAre ==
    ASSUME KbdTypeOK
    PROVE  /\ BufSize \in Nat \ {0, 1} /\ Used \in Index /\ Used = Filled(head)
           /\ Contents \in Seq(Content) /\ Len(Contents) = Used
           /\ \A i \in 1 .. Used : Contents[i] = ring[Place(i)]
           /\ Empty <=> Used = 0
<1>1. /\ BufSize \in Nat \ {0, 1} /\ tail \in Index /\ head \in Index
      /\ ring \in [Index -> Content]
  BY KeyboardAssumption DEF KbdTypeOK, Index, Content
<1>2. /\ Used = Filled(head) /\ Used \in Index
      /\ Filled(head) = IF head < tail THEN head + BufSize - tail ELSE head - tail
  BY <1>1, UsedIs, FilledIs
<1>3. Empty <=> Used = 0
  BY <1>1, <1>2 DEF Empty, Index
<1>4. \A i \in 1 .. Used : ring[Place(i)] \in Content
  <2> SUFFICES ASSUME NEW i \in 1 .. Used PROVE Place(i) \in Index
    BY <1>1
  <2>1. i \in 1 .. BufSize
    BY <1>1, <1>2 DEF Index
  <2> QED
    BY <1>1, <2>1, PlaceIs
<1>5. Used \in Nat
  BY <1>1, <1>2 DEF Index
<1> QED
  BY <1>1, <1>2, <1>3, <1>4, <1>5, UsedIs

\* The bytes a read takes end at the first that stops it.
LEMMA ConsumedIs ==
    ASSUME KbdTypeOK, ~Empty, NEW count \in Nat, NEW n, n = Consumed(count)
    PROVE  /\ n \in 0 .. Used
           /\ \A j \in 1 .. n - 1 : Contents[j] # NUL
<1>1. /\ BufSize \in Nat \ {0, 1} /\ Used \in Nat /\ Used # 0
  BY ContentsAre DEF Index
<1>2. CASE count = 0
  BY <1>1, <1>2 DEF Consumed
<1>3. CASE count # 0
  <2> DEFINE T == Stops(count)
  <2>1. T \subseteq 1 .. Used
    BY DEF Stops
  <2>2. (IF count <= Used THEN count ELSE Used) \in T
    BY <1>1, <1>3 DEF Stops
  <2>3. \E m \in T : \A k \in T : m <= k
    <3>1. T \subseteq Nat /\ T # {}
      BY <1>1, <2>1, <2>2
    <3> HIDE DEF T
    <3> QED
      BY <3>1, NatMinimum
  <2>4. n \in T /\ \A k \in T : n <= k
    BY <1>3, <2>3 DEF Consumed
  <2>5. ASSUME NEW j \in 1 .. n - 1
        PROVE  Contents[j] # NUL
    <3>1. n \in Nat /\ n <= Used /\ n <= count /\ j \in 1 .. Used /\ j <= count /\ ~(n <= j)
      BY <1>1, <2>1, <2>4 DEF Stops
    <3>2. j \notin T
      BY <2>4, <3>1
    <3> QED
      BY <3>1, <3>2 DEF Stops
  <2> QED
    BY <1>1, <2>1, <2>4, <2>5
<1> QED
  BY <1>2, <1>3

\* What is left are the bytes behind those taken.
LEMMA LeftIs ==
    ASSUME KbdTypeOK, NEW n \in 0 .. Used, tail' = (tail + n) % BufSize,
           ring' = ring, head' = head
    PROVE  /\ tail' \in Index /\ Used' = Used - n
           /\ Contents' = [i \in 1 .. Used - n |-> Contents[n + i]]
<1>1. /\ BufSize \in Nat \ {0, 1} /\ Used \in Index /\ Used = Filled(head)
      /\ \A i \in 1 .. Used : Contents[i] = ring[Place(i)]
  BY ContentsAre
<1>2. tail \in Index /\ head \in Index
  BY DEF KbdTypeOK, Index
<1>3. Used = IF head < tail THEN head + BufSize - tail ELSE head - tail
  BY <1>1, <1>2, FilledIs
<1> DEFINE u == Used
           a == tail + n
           t == a % BufSize
<1>4. BufSize \in Nat \ {0} /\ a \in 0 .. 2 * BufSize - 1
  BY <1>1, <1>2 DEF Index
<1>5. t = IF a < BufSize THEN a ELSE a - BufSize
  <2> HIDE DEF a
  <2> QED
    BY <1>4, Remainder
<1>6. t \in Index
  BY <1>4, <1>5 DEF Index
<1>7. tail' = t
  OBVIOUS
<1> HIDE DEF t
<1>8. Used' = u - n
  <2> DEFINE b == head + BufSize - t
  <2>1. b \in 0 .. 2 * BufSize - 1
    BY <1>2, <1>4, <1>6 DEF Index
  <2>2. Used' = b % BufSize
    BY <1>7 DEF Used
  <2>3. b % BufSize = IF b < BufSize THEN b ELSE b - BufSize
    <3> HIDE DEF b
    <3> QED
      BY <1>4, <2>1, Remainder
  <2>4. n \in Nat /\ n <= u
    BY <1>1 DEF Index
  <2>5. (IF b < BufSize THEN b ELSE b - BufSize) = u - n
    BY <1>1, <1>2, <1>3, <1>5, <2>4 DEF Index
  <2> QED
    BY <2>2, <2>3, <2>5
<1>9. ASSUME NEW i \in 1 .. u - n
      PROVE  ring[(t + i - 1) % BufSize] = Contents[n + i]
  <2> DEFINE c == t + i - 1
  <2>0. n \in Nat /\ u \in Index /\ i \in Nat /\ n + i <= u
    BY <1>1 DEF Index
  <2>1. c \in 0 .. 2 * BufSize - 1 /\ n + i \in 1 .. u /\ n + i \in 1 .. BufSize
    BY <1>1, <1>6, <2>0 DEF Index
  <2>2. c % BufSize = IF c < BufSize THEN c ELSE c - BufSize
    <3> HIDE DEF c
    <3> QED
      BY <1>4, <2>1, Remainder
  <2>3. Place(n + i) = IF tail + (n + i) - 1 < BufSize THEN tail + (n + i) - 1
                       ELSE tail + (n + i) - 1 - BufSize
    BY <1>2, <2>1, PlaceIs
  <2>4. c % BufSize = Place(n + i)
    BY <1>2, <1>4, <1>5, <2>0, <2>2, <2>3 DEF Index
  <2>5. Contents[n + i] = ring[Place(n + i)]
    BY <1>1, <2>1
  <2> QED
    BY <2>4, <2>5
<1>10. Contents' = [i \in 1 .. Used' |-> ring[(t + i - 1) % BufSize]]
  BY <1>7 DEF Contents
<1> QED
  BY <1>6, <1>7, <1>8, <1>9, <1>10

\* A program gets a prefix of the bytes, without the NUL that may have ended it.
LEMMA ReturnedIs ==
    ASSUME KbdTypeOK, ~Empty, NEW count \in Nat, NEW n, n = Consumed(count),
           NEW g, g = Returned(count),
           NEW rest, rest = [i \in 1 .. Used - n |-> Contents[n + i]]
    PROVE  /\ g \in Seq(Byte \ {NUL}) /\ IsPrefix(g, Contents)
           /\ Contents = g \o rest \/ Contents = g \o <<NUL>> \o rest
<1> DEFINE C == Contents
           u == Used
           m == IF n > 0 /\ C[n] = NUL THEN n - 1 ELSE n
<1>1. u \in Nat /\ C \in Seq(Content) /\ Len(C) = u /\ u # 0
  BY ContentsAre DEF Index
<1>2. n \in 0 .. u /\ \A j \in 1 .. n - 1 : C[j] # NUL
  BY ConsumedIs
<1>3. g = SubSeq(C, 1, m)
  BY DEF Returned
<1>4. \A i \in 1 .. u : C[i] \in Content
  BY <1>1, ElementOfSeq
<1>5. rest = SubSeq(C, n + 1, u)
  <2>1. \A i \in n + 1 .. u : C[i] \in Content
    BY <1>2, <1>4
  <2>2. n + 1 \in Int /\ u \in Int
    BY <1>1, <1>2
  <2> DEFINE q == SubSeq(C, n + 1, u)
             k == n + 1
  <2>3. /\ q \in Seq(Content) /\ Len(q) = (IF k <= u THEN u - k + 1 ELSE 0)
        /\ \A i \in 1 .. u - k + 1 : q[i] = C[k + i - 1]
    <3> HIDE DEF C, u, k
    <3>1. k \in Int /\ u \in Int /\ \A i \in k .. u : C[i] \in Content
      BY <2>1, <2>2 DEF k
    <3> QED
      BY <3>1, SubSeqProperties DEF k
  <2>4. u - k + 1 = u - n /\ Len(q) = u - n
    BY <1>1, <1>2, <2>3
  <2>5. \A i \in 1 .. u - n : q[i] = C[n + i]
    <3>1. u - k + 1 = u - n /\ \A i \in 1 .. u - n : k + i - 1 = n + i
      BY <1>1, <1>2
    <3> HIDE DEF C, u, k, q
    <3> QED
      BY <2>3, <3>1
  <2> HIDE DEF q
  <2>6. q = [i \in 1 .. Len(q) |-> q[i]]
    BY <2>3
  <2> HIDE DEF C, u, k
  <2> QED
    BY <2>4, <2>5, <2>6 DEF C, u, q, k
<1>6. m \in 0 .. u /\ \A j \in 1 .. m : C[j] # NUL
  BY <1>1, <1>2
<1> HIDE DEF C, u
<1>7. g \in Seq(Byte \ {NUL}) /\ Len(g) = m /\ g \in Seq(Content)
  <2> DEFINE k == m
  <2>0. k \in 0 .. u /\ (\A j \in 1 .. k : C[j] # NUL) /\ g = SubSeq(C, 1, k) /\ m = k
    BY <1>3, <1>6
  <2> HIDE DEF k, m
  <2>1. \A i \in 1 .. k : C[i] \in Byte \ {NUL}
    BY <1>1, <1>4, <2>0 DEF Content
  <2>2. g \in Seq(Byte \ {NUL}) /\ Len(g) = IF 1 <= k THEN k - 1 + 1 ELSE 0
    <3>1. 1 \in Int /\ k \in Int
      BY <1>1, <2>0
    <3> QED
      BY <2>0, <2>1, <3>1, SubSeqProperties
  <2>3. g \in Seq(Content)
    <3>1. Byte \ {NUL} \subseteq Content
      BY DEF Content
    <3> QED
      BY <2>2, <3>1, SeqMonotonic
  <2> QED
    BY <1>1, <2>0, <2>2, <2>3
<1>8. IsPrefix(g, C)
  <2>1. SubSeq(g, 1, Len(g)) = g
    BY <1>7, SubSeqFull
  <2>2. Len(g) <= Len(C)
    BY <1>1, <1>6, <1>7
  <2> QED
    BY <1>3, <1>7, <2>1, <2>2 DEF IsPrefix
<1>9. C = SubSeq(C, 1, n) \o rest
  <2>1. 1 \in 1 .. Len(C) + 1 /\ n \in 1 - 1 .. Len(C) /\ u \in n .. Len(C)
    BY <1>1, <1>2 DEF u
  <2>2. SubSeq(C, 1, n) \o SubSeq(C, n + 1, u) = SubSeq(C, 1, u)
    BY <1>1, <2>1, ConcatAdjacentSubSeq
  <2>3. SubSeq(C, 1, u) = C
    BY <1>1, SubSeqFull
  <2> QED
    BY <1>5, <2>2, <2>3
<1>10. C = g \o rest \/ C = g \o <<NUL>> \o rest
  <2>1. CASE n > 0 /\ C[n] = NUL
    <3>1. 1 \in 1 .. Len(C) /\ n \in 1 .. Len(C)
      BY <1>1, <1>2, <2>1 DEF u
    <3>2. SubSeq(C, 1, n) = SubSeq(C, 1, n - 1) \o <<C[n]>>
      BY <1>1, <3>1, SubSeqRecursiveSecond
    <3> QED
      BY <1>3, <1>9, <2>1, <3>2
  <2>2. CASE ~(n > 0 /\ C[n] = NUL)
    BY <1>3, <1>9, <2>2
  <2> QED
    BY <2>1, <2>2
<1> QED
  BY <1>7, <1>8, <1>10 DEF C

----------------------------------------------------------------------------
(* Type correctness *)

LEMMA Bytes ==
    /\ ETX \in Byte /\ NL \in Byte /\ \A key \in Key : Char(key) \in Byte \ {ETX}
    /\ ETX \in Content /\ NL \in Content /\ NL # NUL /\ ETX # NUL
BY KeyboardAssumption DEF Byte, Char, Content, NL, ETX, NUL

\* What a key puts into the ring.
LEMMA CommitIs ==
    ASSUME KbdTypeOK, NEW key \in Key, Commit(key)
    PROVE  \E bytes \in {<<ETX>>} \cup {Append(l, NL) : l \in BoundedSeq(Byte, BufSize - 1)} :
              /\ bytes \in Seq(Content) /\ Len(bytes) \in 1 .. BufSize
              /\ EnqueueAll(bytes) /\ tail' = tail /\ line' = <<>>
              /\ shift_active' = shift_active /\ ctrl_active' = ctrl_active
<1>1. BufSize \in Nat \ {0, 1}
  BY KeyboardAssumption
<1>2. CASE CtrlC(key)
  <2> DEFINE b == <<ETX>>
  <2>1. b \in Seq(Content) /\ Len(b) = 1
    BY Bytes
  <2>2. Len(b) \in 1 .. BufSize
    BY <1>1, <2>1
  <2>3. /\ EnqueueAll(b) /\ tail' = tail /\ line' = <<>>
        /\ shift_active' = shift_active /\ ctrl_active' = ctrl_active
    BY <1>2 DEF CtrlC
  <2>4. b \in {<<ETX>>} \cup {Append(l, NL) : l \in BoundedSeq(Byte, BufSize - 1)}
    OBVIOUS
  <2> HIDE DEF b
  <2> QED
    BY <2>1, <2>2, <2>3, <2>4
<1>3. CASE Enter(key)
  <2> DEFINE b == Append(line, NL)
  <2>1. line \in Seq(Byte \ {NL, BS, ETX}) /\ Len(line) < BufSize
    BY DEF KbdTypeOK
  <2>2. line \in Seq(Byte) /\ line \in Seq(Content)
    <3>1. Byte \ {NL, BS, ETX} \subseteq Byte /\ Byte \ {NL, BS, ETX} \subseteq Content
      BY DEF Content
    <3> QED
      BY <2>1, <3>1, SeqMonotonic
  <2>3. line \in BoundedSeq(Byte, BufSize - 1)
    <3>1. line \in [1 .. Len(line) -> Byte] /\ Len(line) \in 0 .. BufSize - 1
      BY <1>1, <2>1, <2>2, LenProperties
    <3> QED
      BY <3>1 DEF BoundedSeq, SeqOf
  <2>4. b \in Seq(Content) /\ Len(b) \in 1 .. BufSize
    BY <1>1, <2>1, <2>2, Bytes
  <2> QED
    BY <1>3, <2>3, <2>4 DEF Enter
<1> QED
  BY <1>2, <1>3 DEF Commit

LEMMA CommitTypes ==
    ASSUME KbdTypeOK, NEW key \in Key, Commit(key)
    PROVE  KbdTypeOK'
<1>1. PICK bytes : /\ bytes \in Seq(Content) /\ EnqueueAll(bytes) /\ tail' = tail /\ line' = <<>>
                   /\ shift_active' = shift_active /\ ctrl_active' = ctrl_active
  BY CommitIs
<1>2. ring' \in [Index -> Content] /\ head' \in Index
  BY <1>1, EnqueueAllIs
<1> QED
  BY <1>1, <1>2, KeyboardAssumption DEF KbdTypeOK, Index, Content

LEMMA EditTypes ==
    ASSUME KbdTypeOK, NEW key \in Key, Edit(key)
    PROVE  KbdTypeOK' /\ ring' = ring /\ head' = head /\ tail' = tail
<1> DEFINE L == Byte \ {NL, BS, ETX}
<1>0. line \in Seq(L) /\ Len(line) < BufSize /\ Len(line) \in Nat
  BY DEF KbdTypeOK
<1>1. CASE Backspace(key)
  <2>1. /\ line' = Front(line) /\ line # <<>>
        /\ UNCHANGED <<shift_active, ctrl_active, ring, head, tail>>
    BY <1>1 DEF Backspace
  <2>2. line' \in Seq(L) /\ Len(line') < BufSize
    BY <1>0, <2>1, KeyboardAssumption DEF Front
  <2> QED
    BY <2>1, <2>2 DEF KbdTypeOK
<1>2. CASE Ordinary(key)
  <2>1. /\ line' = Append(line, Char(key)) /\ Len(line) < BufSize - 1
        /\ Char(key) \in Byte \ {NL, BS}
        /\ UNCHANGED <<shift_active, ctrl_active, ring, head, tail>>
    BY <1>2 DEF Ordinary, Types
  <2>2. Char(key) \in L
    BY <2>1, Bytes
  <2>3. line' \in Seq(L) /\ Len(line') < BufSize
    BY <1>0, <2>1, <2>2, KeyboardAssumption
  <2> QED
    BY <2>1, <2>3 DEF KbdTypeOK
<1> QED
  BY <1>1, <1>2 DEF Edit

\* sys_read changes the driver's state in one place only.
LEMMA SysReadIs ==
    ASSUME TypeOK, NEW count \in 0 .. MaxCount, SysRead(count), NEW n, n = Consumed(count)
    PROVE  /\ KbdTypeOK' /\ got' = Returned(count) /\ n \in 0 .. Used
           /\ Used' = Used - n /\ Used # 0
           /\ Contents' = [i \in 1 .. Used - n |-> Contents[n + i]]
<1>1. KbdTypeOK /\ ~Empty /\ count \in Nat
  BY ConsoleAssumption DEF TypeOK, SysRead
<1>2. /\ tail' = (tail + n) % BufSize /\ got' = Returned(count)
      /\ UNCHANGED <<shift_active, ctrl_active, line, ring, head>>
  BY DEF SysRead, ReadBytes
<1>3. n \in 0 .. Used /\ Used # 0
  BY <1>1, ConsumedIs, ContentsAre
<1>4. /\ tail' \in Index /\ Used' = Used - n
      /\ Contents' = [i \in 1 .. Used - n |-> Contents[n + i]]
  BY <1>1, <1>2, <1>3, LeftIs
<1>5. KbdTypeOK'
  BY <1>1, <1>2, <1>4 DEF KbdTypeOK, Index
<1> QED
  BY <1>2, <1>3, <1>4, <1>5

LEMMA Quietly ==
    ASSUME UNCHANGED kbdVars
    PROVE  Used' = Used /\ Contents' = Contents /\ (KbdTypeOK => KbdTypeOK')
BY DEF kbdVars, Used, Contents, KbdTypeOK

----------------------------------------------------------------------------
(* Theorems *)

\* The indices of the ring stay inside it, the line inside its buffer, and no
\* program ever gets a NUL, or a byte that nobody typed.
THEOREM TypeCorrect == Spec => []TypeOK
<1>1. Init => TypeOK
  <2> SUFFICES ASSUME Init PROVE TypeOK
    OBVIOUS
  <2>1. KbdInit /\ got = <<>>
    BY DEF Init
  <2>2. /\ shift_active = FALSE /\ ctrl_active = FALSE /\ line = <<>> /\ head = 0 /\ tail = 0
        /\ ring = [i \in 0 .. BufSize - 1 |-> NUL]
    BY <2>1 DEF KbdInit
  <2>3. line \in Seq(Byte \ {NL, BS, ETX}) /\ Len(line) = 0
    BY <2>2
  <2>4. ring \in [0 .. BufSize - 1 -> Byte \cup {NUL}]
    BY <2>2
  <2>5. Len(line) < BufSize /\ head \in 0 .. BufSize - 1 /\ tail \in 0 .. BufSize - 1
    BY <2>2, <2>3, KeyboardAssumption
  <2>6. KbdTypeOK
    BY <2>2, <2>3, <2>4, <2>5 DEF KbdTypeOK
  <2> QED
    BY <2>1, <2>6 DEF TypeOK
<1>2. ASSUME TypeOK, [Next]_vars
      PROVE  TypeOK'
  <2>0. KbdTypeOK /\ got \in Seq(Byte \ {NUL})
    BY <1>2 DEF TypeOK
  <2>1. ASSUME NEW key \in Key, CommitWakes(key), UNCHANGED got PROVE TypeOK'
    <3>1. KbdTypeOK'
      BY <2>0, <2>1, CommitTypes DEF CommitWakes
    <3> QED
      BY <2>0, <2>1, <3>1 DEF TypeOK
  <2>2. ASSUME NEW key \in Key, Edit(key), UNCHANGED got PROVE TypeOK'
    <3>1. KbdTypeOK'
      BY <2>0, <2>2, EditTypes
    <3> QED
      BY <2>0, <2>2, <3>1 DEF TypeOK
  <2>3. ASSUME Modifier, UNCHANGED got PROVE TypeOK'
    BY <2>0, <2>3 DEF TypeOK, KbdTypeOK, Modifier
  <2>4. ASSUME NEW count \in 0 .. MaxCount, SysRead(count) PROVE TypeOK'
    <3>1. KbdTypeOK' /\ got' = Returned(count) /\ ~Empty /\ count \in Nat
      BY <1>2, <2>4, SysReadIs, ConsoleAssumption DEF SysRead
    <3>2. got' \in Seq(Byte \ {NUL})
      BY <2>0, <3>1, ReturnedIs
    <3> QED
      BY <3>1, <3>2 DEF TypeOK
  <2>5. CASE Others
    BY <2>0, <2>5, Quietly DEF TypeOK, Others
  <2>6. CASE UNCHANGED vars
    BY <2>0, <2>6, Quietly DEF TypeOK, vars
  <2> QED
    BY <1>2, <2>1, <2>2, <2>3, <2>4, <2>5, <2>6 DEF Next, KeyboardInterrupt
<1> QED
  BY <1>1, <1>2, PTL DEF Spec

\* The driver and its readers do what module Sched says of them: a press of
\* Enter or Ctrl+C adds to the count of bytes up to a full ring and wakes the
\* readers, a read takes from it, and no other key touches it.
THEOREM CountsForScheduler == Spec => ImplementsSched
<1>1. Init => S!Init
  BY DEF Init
<1>2. ASSUME TypeOK, [Next]_vars
      PROVE  [S!Next]_S!vars
  <2>0. KbdTypeOK /\ BufSize \in Nat \ {0, 1} /\ Used \in Nat
    BY <1>2, ContentsAre DEF TypeOK, Index
  <2>1. ASSUME NEW key \in Key, S!InterruptsOn, CommitWakes(key)
        PROVE  \E n \in 1 .. (BufSize - 1) + 1 : S!KeyboardWake(n)
    <3>1. Commit(key) /\ S!Wakeup /\ UNCHANGED <<parent, ticksLeft, at, nextPid, halted>>
      BY <2>1 DEF CommitWakes, WakeReaders
    <3>2. PICK bytes : /\ bytes \in Seq(Content) /\ Len(bytes) \in 1 .. BufSize
                       /\ EnqueueAll(bytes) /\ tail' = tail
      BY <2>0, <3>1, CommitIs
    <3>3. Used' = Kept(Len(bytes))
      BY <2>0, <3>2, EnqueueAllIs
    <3>4. /\ Len(bytes) \in 1 .. (BufSize - 1) + 1
          /\ Used' = IF Used + Len(bytes) <= BufSize - 1 THEN Used + Len(bytes) ELSE BufSize - 1
      BY <2>0, <3>2, <3>3 DEF Kept
    <3> QED
      BY <2>1, <3>1, <3>4 DEF S!KeyboardWake, S!Enqueued
  <2>2. ASSUME NEW key \in Key, Edit(key), Quiet
        PROVE  UNCHANGED S!vars
    <3>1. UNCHANGED <<ring, head, tail>>
      BY <2>0, <2>2, EditTypes
    <3> QED
      BY <2>2, <3>1 DEF Quiet, schedVars, S!vars, Used
  <2>3. ASSUME Modifier, Quiet
        PROVE  UNCHANGED S!vars
    BY <2>3 DEF Modifier, Quiet, schedVars, S!vars, Used
  <2>4. ASSUME NEW count \in 0 .. MaxCount, SysRead(count)
        PROVE  \E k \in 0 .. BufSize - 1 : S!SysReadTake(k)
    <3> DEFINE n == Consumed(count)
    <3>1. n \in 0 .. Used /\ Used' = Used - n /\ Used # 0
      BY <1>2, <2>4, SysReadIs
    <3>2. Used \in 0 .. BufSize - 1
      BY <2>0, ContentsAre DEF Index
    <3> HIDE DEF n
    <3>3. n \in 0 .. BufSize - 1 /\ n <= Used /\ Used > 0
      BY <2>0, <3>1, <3>2
    <3>4. S!SysReadTake(n)
      BY <2>4, <3>1, <3>3 DEF SysRead, S!SysReadTake
    <3> QED
      BY <3>3, <3>4
  <2>5. CASE Others
    BY <2>5 DEF Others, S!Next
  <2>6. CASE UNCHANGED vars
    BY <2>6, Quietly DEF vars, schedVars, S!vars
  <2> QED
    BY <1>2, <2>1, <2>2, <2>3, <2>4, <2>5, <2>6 DEF Next, KeyboardInterrupt, S!Next
<1> QED
  BY TypeCorrect, <1>1, <1>2, PTL DEF Spec, ImplementsSched, S!Spec

\* Programs read the bytes that were typed, in their order and each once, but
\* for those that found the ring full and the NULs that end a read.
THEOREM BytesComeInOrder == Spec => ImplementsStream
<1>1. Init => B!Init
  <2> SUFFICES ASSUME Init PROVE Contents = <<>> /\ got = <<>>
    BY DEF B!Init
  <2>1. head = 0 /\ tail = 0 /\ got = <<>> /\ BufSize \in Nat \ {0}
    BY KeyboardAssumption DEF Init, KbdInit
  <2>2. Used = 0
    BY <2>1 DEF Used
  <2> QED
    BY <2>1, <2>2 DEF Contents
<1>2. ASSUME TypeOK, [Next]_vars
      PROVE  [B!Next]_<<Contents, got>>
  <2>0. /\ KbdTypeOK /\ BufSize \in Nat \ {0, 1} /\ Used \in 0 .. BufSize - 1
        /\ Contents \in Seq(Content) /\ Len(Contents) = Used
    BY <1>2, ContentsAre DEF TypeOK, Index
  <2>1. ASSUME NEW key \in Key, CommitWakes(key), UNCHANGED got
        PROVE  B!Put
    <3>1. PICK bytes \in {<<ETX>>} \cup {Append(l, NL) : l \in BoundedSeq(Byte, BufSize - 1)} :
             /\ bytes \in Seq(Content) /\ EnqueueAll(bytes) /\ tail' = tail
      BY <2>0, <2>1, CommitIs DEF CommitWakes
    <3>2. /\ Used' = Kept(Len(bytes))
          /\ Contents' = [i \in 1 .. Used' |->
                           IF i <= Used THEN Contents[i] ELSE bytes[i - Used]]
      BY <2>0, <3>1, EnqueueAllIs
    <3> DEFINE all == Contents \o bytes
               N == Len(bytes)
               short == SubSeq(all, 1, BufSize - 1)
    <3>3. N \in Nat /\ all \in Seq(Content) /\ Len(all) = Used + N
          /\ \A i \in 1 .. Used + N : all[i] = IF i <= Used THEN Contents[i] ELSE bytes[i - Used]
      <4>1. Contents \in Seq(Content) /\ bytes \in Seq(Content) /\ Len(Contents) = Used
        BY <2>0, <3>1
      <4>2. /\ all \in Seq(Content) /\ Len(all) = Len(Contents) + N
            /\ \A i \in 1 .. Len(Contents) + N :
                  all[i] = IF i <= Len(Contents) THEN Contents[i] ELSE bytes[i - Len(Contents)]
        <5> HIDE DEF Contents
        <5> QED
          BY <4>1, ConcatProperties, Zenon
      <4> HIDE DEF all
      <4> QED
        BY <4>1, <4>2
    <3> HIDE DEF all, N
    <3>4. Contents' = [i \in 1 .. Kept(N) |-> all[i]]
      <4>1. Kept(N) \in 0 .. Used + N
        BY <2>0, <3>3 DEF Kept
      <4>2. \A i \in 1 .. Kept(N) : all[i] = IF i <= Used THEN Contents[i] ELSE bytes[i - Used]
        BY <2>0, <3>3, <4>1
      <4> QED
        BY <3>2, <4>2 DEF N
    <3>5. Contents' = IF Len(all) <= BufSize - 1 THEN all ELSE short
      <4>1. CASE Used + N <= BufSize - 1
        <5>1. Kept(N) = Len(all)
          BY <2>0, <3>3, <4>1 DEF Kept
        <5>2. all = [i \in 1 .. Len(all) |-> all[i]]
          BY <3>3
        <5> QED
          BY <3>3, <3>4, <4>1, <5>1, <5>2
      <4>2. CASE ~(Used + N <= BufSize - 1)
        <5>1. Kept(N) = BufSize - 1 /\ BufSize - 1 \in 1 .. Used + N
          BY <2>0, <3>3, <4>2 DEF Kept
        <5>2. short = [i \in 1 .. BufSize - 1 |-> all[i]]
          BY <2>0, <3>3, <5>1
        <5> QED
          BY <3>3, <3>4, <4>2, <5>1, <5>2
      <4> QED
        BY <4>1, <4>2
    <3> QED
      BY <2>1, <3>5 DEF B!Put, all
  <2>2. ASSUME NEW key \in Key, Edit(key), UNCHANGED got
        PROVE  UNCHANGED <<Contents, got>>
    <3>1. UNCHANGED <<ring, head, tail>>
      BY <2>0, <2>2, EditTypes
    <3> QED
      BY <2>2, <3>1 DEF Used, Contents
  <2>3. ASSUME Modifier, UNCHANGED got
        PROVE  UNCHANGED <<Contents, got>>
    BY <2>3 DEF Modifier, Used, Contents
  <2>4. ASSUME NEW count \in 0 .. MaxCount, SysRead(count)
        PROVE  B!Read
    <3> DEFINE n == Consumed(count)
               rest == [i \in 1 .. Used - n |-> Contents[n + i]]
    <3>1. got' = Returned(count) /\ Used # 0 /\ Contents' = rest /\ ~Empty /\ count \in Nat
      BY <1>2, <2>4, SysReadIs, ConsoleAssumption DEF SysRead
    <3> HIDE DEF rest
    <3>2. IsPrefix(got', Contents)
          /\ (Contents = got' \o rest \/ Contents = got' \o <<NUL>> \o rest)
      <4>1. KbdTypeOK /\ ~Empty /\ count \in Nat
        BY <2>0, <3>1
      <4> HIDE DEF n
      <4>2. IsPrefix(Returned(count), Contents)
            /\ (Contents = Returned(count) \o rest \/ Contents = Returned(count) \o <<NUL>> \o rest)
        BY <4>1, ReturnedIs DEF rest, n
      <4> QED
        BY <3>1, <4>2
    <3>3. Contents # <<>>
      BY <2>0, <3>1
    <3> QED
      BY <3>1, <3>2, <3>3 DEF B!Read, B!IsPrefix, IsPrefix
  <2>5. CASE Others
    BY <2>5, Quietly DEF Others
  <2>6. CASE UNCHANGED vars
    BY <2>6, Quietly DEF vars
  <2> QED
    BY <1>2, <2>1, <2>2, <2>3, <2>4, <2>5, <2>6 DEF Next, KeyboardInterrupt, B!Next
<1> QED
  BY TypeCorrect, <1>1, <1>2, PTL DEF Spec, ImplementsStream, B!Spec

----------------------------------------------------------------------------
(* The screen *)

Top(p) == IF Len(p) > Height THEN Len(p) - Height ELSE 0

\* What row k of p has in column x.
Cell(p, k, x) == IF k \in 1 .. Len(p) /\ x < Len(p[k]) THEN p[k][x + 1] ELSE Blank

Papers == Seq(Seq(Glyph))
Screens == [0 .. Height - 1 -> [0 .. Width - 1 -> Glyph \cup {Blank}]]

\* The screen shows the last rows of p, the last of them in row r.
Shows(screen, r, p) ==
    /\ p \in Papers /\ Len(p) >= 1 /\ r = Len(p) - Top(p) - 1
    /\ screen \in Screens
    /\ \A y \in 0 .. Height - 1, x \in 0 .. Width - 1 : screen[y][x] = Cell(p, Top(p) + y + 1, x)

TermInv == Shows(cells, row, paper) /\ col \in 0 .. Width - 1 /\ col = Len(Last(paper))

LEMMA Sizes == Width \in Nat \ {0} /\ Height \in Nat \ {0}
BY TerminalAssumption

LEMMA TopIs ==
    ASSUME NEW p \in Papers
    PROVE  Len(p) \in Nat /\ Top(p) \in Nat /\ (Len(p) >= 1 => Len(p) - Top(p) - 1 \in 0 .. Height - 1)
BY Sizes DEF Papers, Top

\* The last row of p is replaced by q.
LastRow(p, q) == Append(Front(p), q)

LEMMA LastRowIs ==
    ASSUME NEW p \in Papers, Len(p) >= 1, NEW q \in Seq(Glyph)
    PROVE  /\ LastRow(p, q) \in Papers /\ Len(LastRow(p, q)) = Len(p)
           /\ \A k \in 1 .. Len(p) : LastRow(p, q)[k] = IF k = Len(p) THEN q ELSE p[k]
<1> DEFINE n == Len(p)
           f == Front(p)
<1>1. n \in Nat /\ n - 1 \in Nat
  BY DEF Papers
<1>2. f \in Papers /\ Len(f) = n - 1 /\ \A k \in 1 .. n - 1 : f[k] = p[k]
  <2> DEFINE Rows == Seq(Glyph)
  <2>1. p \in Seq(Rows) /\ 1 \in 1 .. Len(p) + 1 /\ n - 1 \in 0 .. Len(p)
    BY <1>1 DEF Papers
  <2> HIDE DEF Rows, n, f
  <2>2. f = SubSeq(p, 1, n - 1)
    BY DEF Front, n, f
  <2>3. \A k \in 1 .. n - 1 : p[k] \in Rows
    BY <1>1, <2>1 DEF n
  <2>4. 1 \in Int /\ n - 1 \in Int /\ (1 <= n - 1 => n - 1 - 1 + 1 = n - 1) /\ (~(1 <= n - 1) => n - 1 = 0)
    BY <1>1
  <2>5. /\ SubSeq(p, 1, n - 1) \in Seq(Rows)
        /\ Len(SubSeq(p, 1, n - 1)) = IF 1 <= n - 1 THEN n - 1 - 1 + 1 ELSE 0
        /\ \A k \in 1 .. n - 1 - 1 + 1 : SubSeq(p, 1, n - 1)[k] = p[1 + k - 1]
    BY <2>3, <2>4, SubSeqProperties
  <2>6. n - 1 - 1 + 1 = n - 1 /\ \A k \in 1 .. n - 1 : 1 + k - 1 = k
    BY <1>1
  <2> QED
    BY <2>2, <2>4, <2>5, <2>6 DEF Rows, Papers
<1> HIDE DEF f
<1>3. /\ Append(f, q) \in Papers /\ Len(Append(f, q)) = (n - 1) + 1
      /\ \A k \in 1 .. n - 1 : Append(f, q)[k] = f[k]
      /\ Append(f, q)[(n - 1) + 1] = q
  BY <1>2, AppendProperties DEF Papers
<1>4. (n - 1) + 1 = n /\ \A k \in 1 .. n : k = n \/ k \in 1 .. n - 1
  BY <1>1
<1> HIDE DEF n
<1> QED
  BY <1>2, <1>3, <1>4 DEF LastRow, f, n

\* One character of the last row changes, on the screen and on paper.
LEMMA EditIs ==
    ASSUME NEW s, NEW r, NEW p, Shows(s, r, p), NEW z \in 0 .. Width - 1, NEW g \in Glyph \cup {Blank},
           NEW q \in Seq(Glyph),
           \A x \in 0 .. Width - 1 :
              (IF x < Len(q) THEN q[x + 1] ELSE Blank) = IF x = z THEN g ELSE Cell(p, Len(p), x)
    PROVE  Shows([s EXCEPT ![r][z] = g], r, LastRow(p, q))
<1> DEFINE d == LastRow(p, q)
           t == [s EXCEPT ![r][z] = g]
           n == Len(p)
<1>1. p \in Papers /\ n >= 1 /\ r = n - Top(p) - 1 /\ s \in Screens
  BY DEF Shows
<1>2. /\ d \in Papers /\ Len(d) = n
      /\ \A k \in 1 .. n : d[k] = IF k = n THEN q ELSE p[k]
  BY <1>1, LastRowIs
<1>3. r \in 0 .. Height - 1 /\ Top(p) \in Nat /\ n \in Nat
  BY <1>1, TopIs
<1>4. t \in Screens /\ \A y \in 0 .. Height - 1, x \in 0 .. Width - 1 : t[y][x] = IF y = r /\ x = z THEN g ELSE s[y][x]
  BY <1>1, <1>3 DEF Screens
<1>5. Top(d) = Top(p)
  BY <1>2 DEF Top
<1> HIDE DEF d, t, n
<1>6. ASSUME NEW y \in 0 .. Height - 1, NEW x \in 0 .. Width - 1
      PROVE  t[y][x] = Cell(d, Top(d) + y + 1, x)
  <2> DEFINE k == Top(p) + y + 1
  <2>1. s[y][x] = Cell(p, k, x)
    BY DEF Shows
  <2>2. k = n <=> y = r
    BY <1>1, <1>3, Sizes
  <2>3. k \in Nat
    BY <1>3, Sizes
  <2> HIDE DEF k
  <2>4. CASE y = r
    <3>1. Cell(d, k, x) = IF x < Len(q) THEN q[x + 1] ELSE Blank
      <4>1. k = n /\ k \in 1 .. Len(d) /\ d[k] = q
        BY <1>1, <1>2, <1>3, <2>2, <2>4
      <4> QED
        BY <4>1 DEF Cell
    <3> QED
      BY <1>4, <1>5, <2>1, <2>2, <2>4, <3>1 DEF k, n
  <2>5. CASE y # r
    <3>1. Cell(d, k, x) = Cell(p, k, x)
      BY <1>2, <2>2, <2>3, <2>5 DEF Cell, n
    <3> QED
      BY <1>4, <1>5, <2>1, <2>5, <3>1 DEF k
  <2> QED
    BY <2>4, <2>5
<1>7. Shows(t, r, d)
  BY <1>1, <1>2, <1>4, <1>5, <1>6 DEF Shows
<1> QED
  BY <1>7 DEF t, d

\* A row begins, on paper and, by Settle, on the screen.
Settled(r, s) ==
    [row |-> IF r >= Height THEN Height - 1 ELSE r, cells |-> IF r >= Height THEN Scrolled(s) ELSE s]

LEMMA NewRowIs ==
    ASSUME NEW s, NEW r, NEW p, Shows(s, r, p)
    PROVE  Shows(Settled(r + 1, s).cells, Settled(r + 1, s).row, Append(p, <<>>))
<1> DEFINE d == Append(p, <<>>)
           n == Len(p)
           u == Top(p)
<1>1. p \in Papers /\ n >= 1 /\ r = n - u - 1 /\ s \in Screens
  BY DEF Shows
<1>2. r \in 0 .. Height - 1 /\ u \in Nat /\ n \in Nat
  BY <1>1, TopIs
<1>3. /\ d \in Papers /\ Len(d) = n + 1 /\ d[n + 1] = <<>>
      /\ \A k \in 1 .. n : d[k] = p[k]
  BY <1>1, AppendProperties DEF Papers
<1>4. \A y \in 0 .. Height - 1, x \in 0 .. Width - 1 : s[y][x] = Cell(p, u + y + 1, x)
  BY DEF Shows
<1>5. u = IF n > Height THEN n - Height ELSE 0
  BY DEF Top
<1> HIDE DEF d, n, u
<1>6. Top(d) = IF Len(d) > Height THEN Len(d) - Height ELSE 0
  BY DEF Top
<1>7. \A k \in Nat, x \in 0 .. Width - 1 : Cell(d, k, x) = Cell(p, k, x)
  <2> SUFFICES ASSUME NEW k \in Nat, NEW x \in 0 .. Width - 1 PROVE Cell(d, k, x) = Cell(p, k, x)
    OBVIOUS
  <2>1. CASE k \in 1 .. n
    BY <1>2, <1>3, <2>1 DEF Cell, n
  <2>2. CASE k = n + 1
    <3>1. Cell(p, k, x) = Blank
      BY <1>2, <2>2 DEF Cell, n
    <3>2. Cell(d, k, x) = Blank
      <4>1. d[k] = <<>> /\ ~(x < Len(<<>>))
        BY <1>3, <2>2, Sizes
      <4> QED
        BY <4>1 DEF Cell
    <3> QED
      BY <3>1, <3>2
  <2>3. CASE k \notin 1 .. n /\ k # n + 1
    BY <1>2, <1>3, <2>3 DEF Cell, n
  <2> QED
    BY <2>1, <2>2, <2>3
<1>8. CASE r + 1 >= Height
  <2>1. r = Height - 1 /\ n >= Height /\ u = n - Height /\ Top(d) = u + 1
    BY <1>1, <1>2, <1>3, <1>5, <1>6, <1>8, Sizes
  <2> DEFINE t == Scrolled(s)
  <2>2. t \in Screens /\ \A y \in 0 .. Height - 1 : t[y] = IF y < Height - 1 THEN s[y + 1] ELSE BlankRow
    <3>1. BlankRow \in [0 .. Width - 1 -> Glyph \cup {Blank}]
      BY DEF BlankRow
    <3>2. \A y \in 0 .. Height - 1 : y < Height - 1 => y + 1 \in 0 .. Height - 1
      BY Sizes
    <3> HIDE DEF BlankRow
    <3> QED
      BY <1>1, <3>1, <3>2 DEF Scrolled, Screens
  <2> HIDE DEF t
  <2>3. ASSUME NEW y \in 0 .. Height - 1, NEW x \in 0 .. Width - 1
        PROVE  t[y][x] = Cell(d, Top(d) + y + 1, x)
    <3> DEFINE k == Top(d) + y + 1
    <3>1. k \in Nat /\ k = u + (y + 1) + 1
      BY <1>2, <2>1, Sizes
    <3>2. CASE y < Height - 1
      <4>1. y + 1 \in 0 .. Height - 1
        BY <3>2, Sizes
      <4>2. t[y][x] = Cell(p, u + (y + 1) + 1, x)
        BY <1>4, <2>2, <3>2, <4>1
      <4> HIDE DEF k
      <4> QED
        BY <1>7, <3>1, <4>2 DEF k
    <3>3. CASE ~(y < Height - 1)
      <4>1. y = Height - 1 /\ k = n + 1
        BY <1>2, <2>1, <3>3, Sizes
      <4>2. t[y][x] = Blank
        BY <2>2, <3>3 DEF BlankRow
      <4>3. d[k] = <<>> /\ ~(x < Len(<<>>))
        BY <1>3, <4>1, Sizes
      <4> HIDE DEF k
      <4>4. Cell(d, k, x) = Blank
        BY <4>3 DEF Cell
      <4> QED
        BY <4>2, <4>4 DEF k
    <3> QED
      BY <3>2, <3>3
  <2>4. Len(d) >= 1 /\ Height - 1 = Len(d) - Top(d) - 1
    BY <1>2, <1>3, <2>1, Sizes
  <2>5. Shows(t, Height - 1, d)
    BY <1>3, <2>2, <2>3, <2>4 DEF Shows
  <2> QED
    BY <1>8, <2>5 DEF Settled, t, d
<1>9. CASE ~(r + 1 >= Height)
  <2>1. u = 0 /\ Top(d) = 0 /\ r + 1 = Len(d) - Top(d) - 1 /\ Len(d) >= 1
    BY <1>1, <1>2, <1>3, <1>5, <1>6, <1>9, Sizes
  <2>2. \A y \in 0 .. Height - 1, x \in 0 .. Width - 1 : s[y][x] = Cell(d, Top(d) + y + 1, x)
    <3> SUFFICES ASSUME NEW y \in 0 .. Height - 1, NEW x \in 0 .. Width - 1
                 PROVE  s[y][x] = Cell(d, Top(d) + y + 1, x)
      OBVIOUS
    <3>1. 0 + y + 1 \in Nat
      BY Sizes
    <3> QED
      BY <1>4, <1>7, <2>1, <3>1
  <2>3. Shows(s, r + 1, d)
    BY <1>1, <1>3, <2>1, <2>2 DEF Shows
  <2> QED
    BY <1>9, <2>3 DEF Settled, d
<1> QED
  BY <1>8, <1>9

LEMMA SettleIs ==
    ASSUME NEW r, NEW s, Settle(r, s)
    PROVE  row' = Settled(r, s).row /\ cells' = Settled(r, s).cells
BY DEF Settle, Settled

LEMMA Stays ==
    ASSUME NEW r \in 0 .. Height - 1, NEW s, Settle(r, s)
    PROVE  row' = r /\ cells' = s
BY Sizes DEF Settle

\* terminal_putchar keeps screen and paper alike.
LEMMA PutCharKeeps ==
    ASSUME TermInv, NEW c, PutChar(c)
    PROVE  TermInv'
<1> DEFINE n == Len(paper)
           last == paper[n]
<1>1. /\ Shows(cells, row, paper) /\ paper \in Papers /\ n \in Nat /\ n >= 1 /\ row \in 0 .. Height - 1
      /\ col \in 0 .. Width - 1 /\ last \in Seq(Glyph) /\ col = Len(last) /\ n \in 1 .. n
  <2>1. paper \in Papers /\ n >= 1 /\ Shows(cells, row, paper)
    BY DEF TermInv, Shows
  <2>2. n \in Nat /\ row \in 0 .. Height - 1
    BY <2>1, TopIs DEF Shows
  <2> QED
    BY <2>1, <2>2 DEF TermInv, Last, Papers
<1>2. \A x \in 0 .. Width - 1 : Cell(paper, n, x) = IF x < col THEN last[x + 1] ELSE Blank
  BY <1>1 DEF Cell
<1>3. Last(paper) = last
  BY DEF Last
<1>4. \A q \in Seq(Glyph) : Last(LastRow(paper, q)) = q
  BY <1>1, LastRowIs DEF Last
<1>5. \A p \in Papers : Last(Append(p, <<>>)) = <<>> /\ Len(<<>>) = 0
  BY AppendProperties DEF Last, Papers
<1> HIDE DEF n, last
<1>6. CASE /\ c = "BS" /\ col > 0
           /\ col' = col - 1
           /\ Settle(row, [cells EXCEPT ![row][col - 1] = Blank])
           /\ paper' = Append(Front(paper), Front(Last(paper)))
  <2> DEFINE q == Front(last)
  <2>1. q \in Seq(Glyph) /\ Len(q) = col - 1 /\ \A x \in 1 .. col - 1 : q[x] = last[x]
    BY <1>1, <1>6 DEF Front
  <2> HIDE DEF q
  <2>2. paper' = LastRow(paper, q)
    BY <1>3, <1>6 DEF q, LastRow
  <2>3. row' = row /\ cells' = [cells EXCEPT ![row][col - 1] = Blank]
    BY <1>1, <1>6, Stays
  <2>4. col - 1 \in 0 .. Width - 1
    BY <1>1, <1>6, Sizes
  <2>5. \A x \in 0 .. Width - 1 :
           (IF x < Len(q) THEN q[x + 1] ELSE Blank) = IF x = col - 1 THEN Blank ELSE Cell(paper, n, x)
    <3> SUFFICES ASSUME NEW x \in 0 .. Width - 1
                 PROVE  (IF x < Len(q) THEN q[x + 1] ELSE Blank) = IF x = col - 1 THEN Blank ELSE Cell(paper, n, x)
      OBVIOUS
    <3>1. x < col - 1 => x + 1 \in 1 .. col - 1
      BY <1>1, Sizes
    <3>2. (x < col <=> x < col - 1 \/ x = col - 1) /\ (x < col - 1 => x # col - 1)
      BY <1>1, Sizes
    <3> QED
      BY <1>2, <2>1, <3>1, <3>2
  <2>6. Shows([cells EXCEPT ![row][col - 1] = Blank], row, LastRow(paper, q))
    BY <1>1, <2>1, <2>4, <2>5, EditIs DEF n
  <2> QED
    BY <1>4, <1>6, <2>1, <2>2, <2>3, <2>4, <2>6 DEF TermInv
<1>7. CASE UNCHANGED termVars
  BY <1>7 DEF termVars, TermInv
<1>8. CASE /\ c = "NL"
           /\ col' = 0
           /\ Settle(row + 1, cells)
           /\ paper' = Append(paper, <<>>)
  <2>1. Shows(Settled(row + 1, cells).cells, Settled(row + 1, cells).row, Append(paper, <<>>))
    BY <1>1, NewRowIs
  <2>2. 0 \in 0 .. Width - 1
    BY Sizes
  <2> QED
    BY <1>1, <1>5, <1>8, <2>1, <2>2, SettleIs DEF TermInv
<1>9. ASSUME /\ c \in Glyph
             /\ LET full    == col + 1 = Width
                    written == [cells EXCEPT ![row][col] = c]
                    line1   == Append(Front(paper), Append(Last(paper), c))
                IN  /\ col' = IF full THEN 0 ELSE col + 1
                    /\ Settle(IF full THEN row + 1 ELSE row, written)
                    /\ paper' = IF full THEN Append(line1, <<>>) ELSE line1
      PROVE  TermInv'
  <2> DEFINE q == Append(last, c)
             written == [cells EXCEPT ![row][col] = c]
  <2>1. q \in Seq(Glyph) /\ Len(q) = col + 1 /\ q[col + 1] = c /\ \A x \in 1 .. col : q[x] = last[x]
    BY <1>1, <1>9, AppendProperties
  <2>2. Append(Front(paper), Append(Last(paper), c)) = LastRow(paper, q)
    BY <1>3 DEF LastRow
  <2> HIDE DEF q
  <2>3. \A x \in 0 .. Width - 1 :
           (IF x < Len(q) THEN q[x + 1] ELSE Blank) = IF x = col THEN c ELSE Cell(paper, n, x)
    <3> SUFFICES ASSUME NEW x \in 0 .. Width - 1
                 PROVE  (IF x < Len(q) THEN q[x + 1] ELSE Blank) = IF x = col THEN c ELSE Cell(paper, n, x)
      OBVIOUS
    <3>1. x < col => x + 1 \in 1 .. col
      BY <1>1, Sizes
    <3>2. (x < col + 1 <=> x < col \/ x = col) /\ (x < col => x # col)
      BY <1>1, Sizes
    <3> QED
      BY <1>2, <2>1, <3>1, <3>2
  <2>4. Shows(written, row, LastRow(paper, q))
    BY <1>1, <1>9, <2>1, <2>3, EditIs DEF n
  <2> HIDE DEF written
  <2>5. CASE col + 1 = Width
    <3>1. /\ col' = 0 /\ Settle(row + 1, written) /\ paper' = Append(LastRow(paper, q), <<>>)
      BY <1>9, <2>2, <2>5 DEF written
    <3>2. Shows(Settled(row + 1, written).cells, Settled(row + 1, written).row, Append(LastRow(paper, q), <<>>))
      BY <2>4, NewRowIs
    <3>3. 0 \in 0 .. Width - 1 /\ LastRow(paper, q) \in Papers
      BY <2>4, Sizes DEF Shows
    <3> QED
      BY <1>5, <3>1, <3>2, <3>3, SettleIs DEF TermInv
  <2>6. CASE col + 1 # Width
    <3>1. /\ col' = col + 1 /\ Settle(row, written) /\ paper' = LastRow(paper, q)
      BY <1>9, <2>2, <2>6 DEF written
    <3>2. col + 1 \in 0 .. Width - 1
      BY <1>1, <2>6, Sizes
    <3>3. row' = row /\ cells' = written
      BY <1>1, <3>1, Stays
    <3> QED
      BY <1>4, <2>1, <2>4, <3>1, <3>2, <3>3 DEF TermInv
  <2> QED
    BY <2>5, <2>6
<1> QED
  BY <1>6, <1>7, <1>8, <1>9 DEF PutChar

\* Through wrapping, scrolling, both at once and erasing, with the echo of keys
\* between any two characters a program prints, the screen shows the end of
\* what was written, and the cursor stands behind it: screens of any size.
THEOREM ScreenCorrect == EchoSpec => []ScreenShowsPaper
<1>1. EchoInit => TermInv
  <2> SUFFICES ASSUME EchoInit PROVE TermInv
    OBVIOUS
  <2>1. row = 0 /\ col = 0 /\ cells = [y \in 0 .. Height - 1 |-> BlankRow] /\ paper = <<<<>>>>
    BY DEF EchoInit, TermInit
  <2>2. paper \in Papers /\ Len(paper) = 1 /\ paper[1] = <<>> /\ Len(paper[1]) = 0 /\ Top(paper) = 0
    BY <2>1, Sizes DEF Papers, Top
  <2>3. cells \in Screens /\ \A y \in 0 .. Height - 1, x \in 0 .. Width - 1 : cells[y][x] = Blank
    BY <2>1 DEF Screens, BlankRow
  <2>4. \A k \in Nat, x \in 0 .. Width - 1 : Cell(paper, k, x) = Blank
    BY <2>2, Sizes DEF Cell
  <2>5. \A y \in 0 .. Height - 1 : 0 + y + 1 \in Nat
    BY Sizes
  <2>6. 0 \in 0 .. Width - 1
    BY Sizes
  <2> QED
    BY <2>1, <2>2, <2>3, <2>4, <2>5, <2>6 DEF TermInv, Shows, Last
<1>2. TermInv /\ [EchoNext]_echoVars => TermInv'
  <2> SUFFICES ASSUME TermInv, [EchoNext]_echoVars PROVE TermInv'
    OBVIOUS
  <2>1. CASE UNCHANGED termVars
    BY <2>1 DEF termVars, TermInv
  <2>2. ASSUME NEW c, PutChar(c) PROVE TermInv'
    BY <2>2, PutCharKeeps
  <2>3. UNCHANGED termVars \/ \E c : PutChar(c)
    BY DEF EchoNext, echoVars, EchoInterrupt, Output, Drain, termVars
  <2> QED
    BY <2>1, <2>2, <2>3
<1>3. TermInv => ScreenShowsPaper
  <2> SUFFICES ASSUME TermInv PROVE ScreenShowsPaper
    OBVIOUS
  <2> DEFINE top == Top(paper)
  <2>1. /\ paper \in Papers /\ Len(paper) \in Nat /\ row = Len(paper) - top - 1 /\ row \in 0 .. Height - 1
        /\ top \in Nat /\ cells \in Screens /\ col \in 0 .. Width - 1 /\ col = Len(Last(paper))
        /\ \A y \in 0 .. Height - 1, x \in 0 .. Width - 1 : cells[y][x] = Cell(paper, top + y + 1, x)
    BY TopIs DEF TermInv, Shows
  <2>2. TermTypeOK
    BY <2>1 DEF TermTypeOK, Screens
  <2>3. DOMAIN paper = 1 .. Len(paper)
    BY <2>1 DEF Papers
  <2>4. top = IF Len(paper) > Height THEN Len(paper) - Height ELSE 0
    BY DEF Top
  <2> HIDE DEF top
  <2> DEFINE Written(y) == IF top + y + 1 \in DOMAIN paper THEN paper[top + y + 1] ELSE <<>>
  <2>5. \A y \in 0 .. Height - 1, x \in 0 .. Width - 1 :
              cells[y][x] = IF x < Len(Written(y)) THEN Written(y)[x + 1] ELSE Blank
    <3> SUFFICES ASSUME NEW y \in 0 .. Height - 1, NEW x \in 0 .. Width - 1
                 PROVE  cells[y][x] = IF x < Len(Written(y)) THEN Written(y)[x + 1] ELSE Blank
      OBVIOUS
    <3>1. ~(x < Len(<<>>))
      BY Sizes
    <3>2. cells[y][x] = Cell(paper, top + y + 1, x)
      BY <2>1
    <3> QED
      BY <2>3, <3>1, <3>2 DEF Cell
  <2> HIDE DEF Written
  <2>6. /\ TermTypeOK
        /\ \A y \in 0 .. Height - 1, x \in 0 .. Width - 1 :
              cells[y][x] = IF x < Len(Written(y)) THEN Written(y)[x + 1] ELSE Blank
        /\ row = Len(paper) - top - 1
        /\ col = Len(Last(paper))
    BY <2>1, <2>2, <2>5
  <2> QED
    BY <2>4, <2>6 DEF ScreenShowsPaper, Written
<1> QED
  BY <1>1, <1>2, <1>3, PTL DEF EchoSpec
=============================================================================
