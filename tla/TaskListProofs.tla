---------------------------- MODULE TaskListProofs ----------------------------
(***************************************************************************)
(* Proofs about module TaskList, for any finite set of tasks.               *)
(***************************************************************************)
EXTENDS TaskList, NatFacts, SequenceTheorems

Pointer == Task \cup {NULL}
Links == [Task -> Pointer]

----------------------------------------------------------------------------
(* One list *)

\* From head on there are the n tasks of s and no others, each once.
List(head, nx, n, s) ==
    /\ s \in [1 .. n -> Task]
    /\ \A i, j \in 1 .. n : s[i] = s[j] => i = j
    /\ head = IF n = 0 THEN NULL ELSE s[1]
    /\ \A i \in 1 .. n : nx[s[i]] = IF i = n THEN NULL ELSE s[i + 1]

Push(n, s, t) == [i \in 1 .. n + 1 |-> IF i <= n THEN s[i] ELSE t]
Rest(n, s) == [i \in 1 .. n - 1 |-> s[i + 1]]

LEMMA NullIsNoTask == NULL \notin Task /\ IsFiniteSet(Task) /\ Cardinality(Task) \in Nat
BY TaskListAssumption, FS_CardinalityType

\* There are not more tasks on a list than there are.
LEMMA ListShort ==
    ASSUME NEW head, NEW nx, NEW n \in Nat, NEW s, List(head, nx, n, s)
    PROVE  n <= Cardinality(Task)
<1>1. IsFiniteSet(1 .. n) /\ Cardinality(1 .. n) = n
  <2>1. 1 \in Int /\ n \in Int
    OBVIOUS
  <2>2. IsFiniteSet(1 .. n) /\ Cardinality(1 .. n) = IF 1 > n THEN 0 ELSE n - 1 + 1
    BY <2>1, FS_Interval
  <2> QED
    BY <2>2
<1>2. s \in Injection(1 .. n, Task)
  BY DEF List, Injection, IsInjective
<1>3. Cardinality(1 .. n) <= Cardinality(Task)
  BY <1>1, <1>2, NullIsNoTask, FS_Injection DEF ExistsInjection
<1> QED
  BY <1>1, <1>3

\* Walking along the next pointers visits the list.
LEMMA WalkIs ==
    ASSUME NEW head, NEW nx \in Links, NEW n \in Nat, NEW s, List(head, nx, n, s)
    PROVE  Walk(head, nx) = s /\ On(head, nx) = {s[i] : i \in 1 .. n}
<1> DEFINE C == Cardinality(Task)
           After(x) == IF x = NULL THEN NULL ELSE nx[x]
           step == [i \in Nat |-> [x \in Pointer |-> After(x)]]
           node[k \in 0 .. C] == IF k = 0 THEN head ELSE IF node[k - 1] = NULL THEN NULL ELSE nx[node[k - 1]]
           P == [i \in 0 .. C |-> {IF i < n THEN s[i + 1] ELSE NULL}]
<1>1. C \in Nat /\ n <= C
  BY NullIsNoTask, ListShort
<1>2. \A x \in Pointer : After(x) \in Pointer
  BY DEF Links, Pointer
<1>3. \A i \in 1 .. n : s[i] \in Task /\ s[i] # NULL
  BY NullIsNoTask DEF List
<1>4. head \in Pointer
  BY <1>3 DEF List, Pointer
<1> HIDE DEF After
<1>5. step \in Steps(Pointer)
  BY <1>2 DEF Steps
<1>6. PICK g \in [0 .. C -> Pointer] : g[0] = head /\ \A i \in 0 .. C - 1 : g[i + 1] = step[i][g[i]]
  <2> HIDE DEF step, C
  <2>1. Runs(Pointer, head, step, C) # {}
    BY <1>1, <1>4, <1>5, LoopStates
  <2> QED
    BY <2>1 DEF Runs
<1>7. g = [k \in 0 .. C |-> IF k = 0 THEN head ELSE IF g[k - 1] = NULL THEN NULL ELSE nx[g[k - 1]]]
  <2>1. ASSUME NEW k \in 0 .. C, k # 0
        PROVE  g[k] = After(g[k - 1])
    <3>1. k - 1 \in 0 .. C - 1 /\ k - 1 \in 0 .. C /\ (k - 1) + 1 = k /\ k - 1 \in Nat
      BY <1>1, <2>1
    <3>2. g[k - 1] \in Pointer
      BY <3>1
    <3> QED
      BY <1>6, <3>1, <3>2
  <2> HIDE DEF C
  <2> QED
    BY <1>6, <2>1 DEF After
<1>8. node = [k \in 0 .. C |-> IF k = 0 THEN head ELSE IF node[k - 1] = NULL THEN NULL ELSE nx[node[k - 1]]]
  BY <1>7
<1> HIDE DEF node, C
<1>9. node[0] \in P[0]
  <2>1. 0 \in 0 .. C
    BY <1>1
  <2> QED
    BY <1>8, <2>1 DEF List
<1>10. \A i \in 0 .. C - 1 : node[i] \in P[i] => node[i + 1] \in P[i + 1]
  <2> SUFFICES ASSUME NEW i \in 0 .. C - 1, node[i] \in P[i] PROVE node[i + 1] \in P[i + 1]
    OBVIOUS
  <2>1. i \in 0 .. C /\ i + 1 \in 0 .. C /\ i + 1 # 0 /\ (i + 1) - 1 = i /\ i \in Nat
    BY <1>1
  <2>2. node[i] = IF i < n THEN s[i + 1] ELSE NULL
    BY <2>1
  <2>3. node[i + 1] = IF node[i] = NULL THEN NULL ELSE nx[node[i]]
    BY <1>8, <2>1
  <2>4. CASE i < n
    <3>1. i + 1 \in 1 .. n
      BY <2>1, <2>4
    <3>2. node[i + 1] = IF i + 1 = n THEN NULL ELSE s[(i + 1) + 1]
      BY <1>3, <2>2, <2>3, <2>4, <3>1 DEF List
    <3> QED
      BY <2>1, <2>4, <3>1, <3>2
  <2>5. CASE ~(i < n)
    <3>1. ~(i + 1 < n)
      BY <2>1, <2>5
    <3> QED
      BY <2>1, <2>2, <2>3, <2>5, <3>1
  <2> QED
    BY <2>4, <2>5
<1>11. \A i \in 0 .. C : node[i] \in P[i]
  <2> HIDE DEF P
  <2> QED
    BY <1>1, <1>9, <1>10, LoopInvariant
<1>12. \A i \in 0 .. C : node[i] = IF i < n THEN s[i + 1] ELSE NULL
  BY <1>11
<1>13. DOMAIN node = 0 .. C
  BY <1>8
<1> HIDE DEF P
<1>14. {k + 1 : k \in {m \in DOMAIN node : node[m] # NULL}} = 1 .. n
  <2>1. {m \in DOMAIN node : node[m] # NULL} = 0 .. n - 1
    <3>1. \A m \in 0 .. C : node[m] # NULL <=> m < n
      <4> SUFFICES ASSUME NEW m \in 0 .. C PROVE node[m] # NULL <=> m < n
        OBVIOUS
      <4>1. m < n => m + 1 \in 1 .. n
        OBVIOUS
      <4> QED
        BY <1>3, <1>12, <4>1
    <3>2. \A m : m \in 0 .. n - 1 <=> m \in 0 .. C /\ m < n
      BY <1>1
    <3> QED
      BY <1>13, <3>1, <3>2
  <2>2. {k + 1 : k \in 0 .. n - 1} = 1 .. n
    <3>1. \A j \in 1 .. n : j - 1 \in 0 .. n - 1 /\ (j - 1) + 1 = j
      OBVIOUS
    <3> QED
      BY <3>1
  <2> QED
    BY <2>1, <2>2
<1>15. \A i \in 1 .. n : node[i - 1] = s[i]
  <2> SUFFICES ASSUME NEW i \in 1 .. n PROVE node[i - 1] = s[i]
    OBVIOUS
  <2>1. i - 1 \in 0 .. C /\ i - 1 < n /\ (i - 1) + 1 = i
    BY <1>1
  <2> QED
    BY <1>12, <2>1
<1>16. Walk(head, nx) = [i \in {k + 1 : k \in {m \in DOMAIN node : node[m] # NULL}} |-> node[i - 1]]
  BY DEF Walk, node, C
<1>17. Walk(head, nx) = s
  <2>1. Walk(head, nx) = [i \in 1 .. n |-> node[i - 1]]
    BY <1>14, <1>16
  <2>2. s = [i \in 1 .. n |-> s[i]]
    BY DEF List
  <2> QED
    BY <1>15, <2>1, <2>2
<1> QED
  BY <1>17 DEF On, Range, List

LEMMA ListKept ==
    ASSUME NEW head, NEW nx, NEW nx2, NEW n \in Nat, NEW s, List(head, nx, n, s),
           \A i \in 1 .. n : nx2[s[i]] = nx[s[i]]
    PROVE  List(head, nx2, n, s)
BY DEF List

\* task_add_to_queue puts a task behind the last one.
LEMMA AddIs ==
    ASSUME NEW head, NEW nx \in Links, NEW n \in Nat, NEW s, List(head, nx, n, s),
           NEW t \in Task, \A i \in 1 .. n : s[i] # t
    PROVE  LET q == AddToQueue(head, nx, t)
           IN  /\ q.next \in Links
               /\ List(q.head, q.next, n + 1, Push(n, s, t))
               /\ \A x \in Task : (x # t /\ \A i \in 1 .. n : s[i] # x) => q.next[x] = nx[x]
<1> DEFINE cleared == [nx EXCEPT ![t] = NULL]
           list == On(head, cleared)
           after == [x \in Task |-> IF x \in list /\ cleared[x] = NULL THEN t ELSE cleared[x]]
           first == IF head = NULL THEN t ELSE head
           d == Push(n, s, t)
<1>1. cleared \in Links /\ cleared[t] = NULL /\ \A x \in Task : x # t => cleared[x] = nx[x]
  BY DEF Links, Pointer
<1>2. \A i \in 1 .. n : s[i] \in Task /\ s[i] # t /\ s[i] # NULL
  BY NullIsNoTask DEF List
<1> HIDE DEF cleared
<1>3. List(head, cleared, n, s)
  BY <1>1, <1>2 DEF List
<1>4. list = {s[i] : i \in 1 .. n}
  BY <1>1, <1>3, WalkIs
<1>5. t \notin list
  BY <1>2, <1>4
<1>6. AddToQueue(head, nx, t) = [head |-> first, next |-> after]
  BY <1>5 DEF AddToQueue, Linked, cleared
<1> HIDE DEF list
<1>7. after \in Links
  BY <1>1 DEF Links, Pointer
<1>8. after[t] = NULL /\ \A x \in Task : x # t /\ x \notin list => after[x] = nx[x]
  BY <1>1, <1>5
<1>9. \A i \in 1 .. n : after[s[i]] = IF i = n THEN t ELSE s[i + 1]
  <2> SUFFICES ASSUME NEW i \in 1 .. n PROVE after[s[i]] = IF i = n THEN t ELSE s[i + 1]
    OBVIOUS
  <2>1. s[i] \in list /\ s[i] \in Task
    BY <1>2, <1>4
  <2>2. cleared[s[i]] = IF i = n THEN NULL ELSE s[i + 1]
    BY <1>3 DEF List
  <2>3. i # n => s[i + 1] # NULL
    <3>1. i # n => i + 1 \in 1 .. n
      OBVIOUS
    <3> QED
      BY <1>2, <3>1
  <2> QED
    BY <2>1, <2>2, <2>3
<1> HIDE DEF after
<1>10. (\A i \in 1 .. n : d[i] = s[i]) /\ d[n + 1] = t /\ d \in [1 .. n + 1 -> Task]
  BY <1>2 DEF Push
<1> HIDE DEF d
<1>11. \A i, j \in 1 .. n + 1 : d[i] = d[j] => i = j
  <2> SUFFICES ASSUME NEW i \in 1 .. n + 1, NEW j \in 1 .. n + 1, d[i] = d[j] PROVE i = j
    OBVIOUS
  <2>1. (i \in 1 .. n \/ i = n + 1) /\ (j \in 1 .. n \/ j = n + 1)
    OBVIOUS
  <2> QED
    BY <1>2, <1>10, <2>1 DEF List
<1>12. first = d[1]
  <2>1. CASE n = 0
    BY <1>10, <2>1 DEF List
  <2>2. CASE n # 0
    <3>1. 1 \in 1 .. n
      BY <2>2
    <3> QED
      BY <1>2, <1>10, <2>2, <3>1 DEF List
  <2> QED
    BY <2>1, <2>2
<1>13. \A i \in 1 .. n + 1 : after[d[i]] = IF i = n + 1 THEN NULL ELSE d[i + 1]
  <2> SUFFICES ASSUME NEW i \in 1 .. n + 1 PROVE after[d[i]] = IF i = n + 1 THEN NULL ELSE d[i + 1]
    OBVIOUS
  <2>1. CASE i = n + 1
    BY <1>8, <1>10, <2>1
  <2>2. CASE i # n + 1
    <3>1. i \in 1 .. n /\ (i # n => i + 1 \in 1 .. n)
      BY <2>2
    <3> QED
      BY <1>9, <1>10, <2>2, <3>1
  <2> QED
    BY <2>1, <2>2
<1>14. n + 1 # 0
  OBVIOUS
<1>15. List(first, after, n + 1, d)
  BY <1>10, <1>11, <1>12, <1>13, <1>14 DEF List
<1>16. \A x \in Task : (x # t /\ \A i \in 1 .. n : s[i] # x) => after[x] = nx[x]
  BY <1>4, <1>8
<1> HIDE DEF first
<1> QED
  BY <1>6, <1>7, <1>15, <1>16 DEF d

\* The list behind its first task.
LEMMA RestIs ==
    ASSUME NEW head, NEW nx \in Links, NEW n \in Nat, NEW s, List(head, nx, n, s), n # 0
    PROVE  /\ head = s[1] /\ head \in Task
           /\ List(nx[head], [nx EXCEPT ![head] = NULL], n - 1, Rest(n, s))
<1>1. 1 \in 1 .. n /\ n - 1 \in Nat
  OBVIOUS
<1>2. head = s[1] /\ head \in Task
  BY <1>1 DEF List
<1> DEFINE nx2 == [nx EXCEPT ![head] = NULL]
           d == Rest(n, s)
<1>3. \A x \in Task : x # head => nx2[x] = nx[x]
  BY DEF Links
<1> HIDE DEF nx2
<1>4. \A i \in 1 .. n - 1 : /\ d[i] = s[i + 1] /\ d[i] \in Task /\ d[i] # head /\ i + 1 \in 1 .. n
                            /\ nx2[d[i]] = nx[s[i + 1]]
  <2> SUFFICES ASSUME NEW i \in 1 .. n - 1
               PROVE  /\ d[i] = s[i + 1] /\ d[i] \in Task /\ d[i] # head /\ i + 1 \in 1 .. n
                      /\ nx2[d[i]] = nx[s[i + 1]]
    OBVIOUS
  <2>1. i + 1 \in 1 .. n /\ i + 1 # 1
    OBVIOUS
  <2>2. d[i] = s[i + 1]
    BY DEF Rest
  <2>3. s[i + 1] \in Task /\ s[i + 1] # s[1]
    BY <1>1, <2>1 DEF List
  <2> QED
    BY <1>2, <1>3, <2>1, <2>2, <2>3
<1>5. d \in [1 .. n - 1 -> Task]
  BY <1>4 DEF Rest
<1> HIDE DEF d
<1>6. nx[head] = IF n - 1 = 0 THEN NULL ELSE d[1]
  <2>1. nx[s[1]] = IF 1 = n THEN NULL ELSE s[1 + 1]
    BY <1>1 DEF List
  <2>2. n # 1 => 1 \in 1 .. n - 1
    OBVIOUS
  <2> QED
    BY <1>2, <1>4, <2>1, <2>2
<1>7. \A i, j \in 1 .. n - 1 : d[i] = d[j] => i = j
  <2> SUFFICES ASSUME NEW i \in 1 .. n - 1, NEW j \in 1 .. n - 1, d[i] = d[j] PROVE i = j
    OBVIOUS
  <2>1. i + 1 = j + 1
    BY <1>4 DEF List
  <2> QED
    BY <2>1
<1>8. \A i \in 1 .. n - 1 : nx2[d[i]] = IF i = n - 1 THEN NULL ELSE d[i + 1]
  <2> SUFFICES ASSUME NEW i \in 1 .. n - 1 PROVE nx2[d[i]] = IF i = n - 1 THEN NULL ELSE d[i + 1]
    OBVIOUS
  <2>1. nx[s[i + 1]] = IF i + 1 = n THEN NULL ELSE s[(i + 1) + 1]
    BY <1>4 DEF List
  <2>2. (i + 1 = n <=> i = n - 1) /\ (i # n - 1 => i + 1 \in 1 .. n - 1)
    OBVIOUS
  <2> QED
    BY <1>4, <2>1, <2>2
<1>9. List(nx[head], nx2, n - 1, d)
  BY <1>5, <1>6, <1>7, <1>8 DEF List
<1> QED
  BY <1>2, <1>9 DEF nx2, d

----------------------------------------------------------------------------
(* The two lists *)

Members(n, s) == {s[i] : i \in 1 .. n}

\* Two lists that share the pointers, and no pointer out of any other task.
Both(head1, head2, nx, n, r, m, w) ==
    /\ List(head1, nx, n, r)
    /\ List(head2, nx, m, w)
    /\ Members(n, r) \cap Members(m, w) = {}
    /\ \A x \in Task : x \notin Members(n, r) \cup Members(m, w) => nx[x] = NULL

LEMMA BothSwap ==
    ASSUME NEW head1, NEW head2, NEW nx, NEW n, NEW r, NEW m, NEW w, Both(head1, head2, nx, n, r, m, w)
    PROVE  Both(head2, head1, nx, m, w, n, r)
BY DEF Both

LEMMA MembersPush ==
    ASSUME NEW n \in Nat, NEW s, NEW t
    PROVE  Members(n + 1, Push(n, s, t)) = Members(n, s) \cup {t}
<1>1. \A i \in 1 .. n + 1 : i \in 1 .. n \/ i = n + 1
  OBVIOUS
<1>2. \A i \in 1 .. n : i \in 1 .. n + 1 /\ Push(n, s, t)[i] = s[i]
  BY DEF Push
<1>3. n + 1 \in 1 .. n + 1 /\ Push(n, s, t)[n + 1] = t
  BY DEF Push
<1> QED
  BY <1>1, <1>2, <1>3 DEF Members

LEMMA MembersRest ==
    ASSUME NEW head, NEW nx, NEW n \in Nat, NEW s, List(head, nx, n, s), n # 0
    PROVE  Members(n - 1, Rest(n, s)) = Members(n, s) \ {s[1]}
<1>1. \A i \in 1 .. n - 1 : i + 1 \in 1 .. n /\ i + 1 # 1 /\ Rest(n, s)[i] = s[i + 1]
  BY DEF Rest
<1>2. \A i \in 1 .. n : i # 1 => i - 1 \in 1 .. n - 1 /\ (i - 1) + 1 = i
  OBVIOUS
<1>3. 1 \in 1 .. n
  OBVIOUS
<1>4. ASSUME NEW x \in Members(n - 1, Rest(n, s))
      PROVE  x \in Members(n, s) \ {s[1]}
  <2>1. PICK i \in 1 .. n - 1 : x = Rest(n, s)[i]
    BY DEF Members
  <2> QED
    BY <1>1, <1>3, <2>1 DEF Members, List
<1>5. ASSUME NEW x \in Members(n, s) \ {s[1]}
      PROVE  x \in Members(n - 1, Rest(n, s))
  <2>1. PICK i \in 1 .. n : x = s[i]
    BY DEF Members
  <2>2. i # 1
    BY <2>1
  <2>3. i - 1 \in 1 .. n - 1 /\ Rest(n, s)[i - 1] = s[i]
    BY <1>1, <1>2, <2>2
  <2> QED
    BY <2>1, <2>3 DEF Members
<1> QED
  BY <1>4, <1>5

\* A task that is on neither list is put on the first one.
LEMMA BothPush ==
    ASSUME NEW head1, NEW head2, NEW nx \in Links, NEW n \in Nat, NEW r, NEW m \in Nat, NEW w,
           Both(head1, head2, nx, n, r, m, w),
           NEW t \in Task, t \notin Members(n, r) \cup Members(m, w)
    PROVE  LET q == AddToQueue(head1, nx, t)
           IN  q.next \in Links /\ Both(q.head, head2, q.next, n + 1, Push(n, r, t), m, w)
<1> DEFINE q == AddToQueue(head1, nx, t)
           nx2 == q.next
           d == Push(n, r, t)
<1>1. /\ nx2 \in Links /\ List(q.head, nx2, n + 1, d)
      /\ \A x \in Task : (x # t /\ \A i \in 1 .. n : r[i] # x) => nx2[x] = nx[x]
  <2>1. List(head1, nx, n, r) /\ \A i \in 1 .. n : r[i] # t
    BY DEF Both, Members
  <2> QED
    BY <2>1, AddIs
<1> HIDE DEF q, nx2
<1>2. \A x \in Task : x \notin Members(n, r) \cup {t} => nx2[x] = nx[x]
  BY <1>1 DEF Members
<1>3. Members(n + 1, d) = Members(n, r) \cup {t}
  BY MembersPush
<1> HIDE DEF d
<1>4. List(head2, nx2, m, w)
  <2>1. \A i \in 1 .. m : w[i] \in Task /\ w[i] \in Members(m, w)
    BY DEF Both, List, Members
  <2>2. \A i \in 1 .. m : nx2[w[i]] = nx[w[i]]
    BY <1>2, <2>1 DEF Both
  <2> QED
    BY <2>2, ListKept DEF Both
<1>5. Both(q.head, head2, nx2, n + 1, d, m, w)
  BY <1>1, <1>2, <1>3, <1>4 DEF Both
<1> QED
  BY <1>1, <1>5 DEF q, nx2, d

\* The first task of the first list is taken off.
LEMMA BothPop ==
    ASSUME NEW head1, NEW head2, NEW nx \in Links, NEW n \in Nat, NEW r, NEW m \in Nat, NEW w,
           Both(head1, head2, nx, n, r, m, w), n # 0
    PROVE  /\ head1 = r[1] /\ head1 \in Task /\ head1 \in Members(n, r)
           /\ Members(n - 1, Rest(n, r)) = Members(n, r) \ {head1}
           /\ [nx EXCEPT ![head1] = NULL] \in Links
           /\ Both(nx[head1], head2, [nx EXCEPT ![head1] = NULL], n - 1, Rest(n, r), m, w)
<1> DEFINE nx2 == [nx EXCEPT ![head1] = NULL]
           d == Rest(n, r)
<1>1. /\ head1 = r[1] /\ head1 \in Task
      /\ List(nx[head1], nx2, n - 1, d)
  BY RestIs DEF Both
<1>2. Members(n - 1, d) = Members(n, r) \ {head1}
  BY <1>1, MembersRest DEF Both
<1>3. head1 \in Members(n, r)
  BY <1>1 DEF Members
<1>4. nx2 \in Links /\ nx2[head1] = NULL /\ \A x \in Task : x # head1 => nx2[x] = nx[x]
  BY <1>1 DEF Links, Pointer
<1> HIDE DEF nx2, d
<1>5. List(head2, nx2, m, w)
  <2>1. \A i \in 1 .. m : w[i] \in Task /\ w[i] \in Members(m, w)
    BY DEF Both, List, Members
  <2>2. \A i \in 1 .. m : nx2[w[i]] = nx[w[i]]
    BY <1>3, <1>4, <2>1 DEF Both
  <2> QED
    BY <2>2, ListKept DEF Both
<1>6. \A x \in Task : x \notin Members(n - 1, d) \cup Members(m, w) => nx2[x] = NULL
  BY <1>2, <1>4 DEF Both
<1>7. Both(nx[head1], head2, nx2, n - 1, d, m, w)
  BY <1>1, <1>2, <1>5, <1>6 DEF Both
<1> QED
  BY <1>1, <1>2, <1>3, <1>4, <1>7 DEF nx2, d

----------------------------------------------------------------------------
(* task_wakeup *)

\* One round of its loop.
Queue == [head : Pointer, next : Links, task : Pointer]
Round(q) ==
    IF q.task = NULL THEN q
    ELSE [head |-> AddToQueue(q.head, q.next, q.task).head,
          next |-> AddToQueue(q.head, q.next, q.task).next,
          task |-> q.next[q.task]]

LEMMA RoundType ==
    ASSUME NEW q \in Queue
    PROVE  Round(q) \in Queue
<1>1. q.head \in Pointer /\ q.next \in Links /\ q.task \in Pointer
  BY DEF Queue
<1>2. CASE q.task = NULL
  BY <1>2 DEF Round
<1>3. CASE q.task # NULL
  <2> DEFINE t == q.task
             nx == q.next
             cleared == [nx EXCEPT ![t] = NULL]
             after == Linked(On(q.head, cleared), cleared, t)
             first == IF q.head = NULL THEN t ELSE q.head
  <2>1. t \in Task /\ nx \in Links /\ nx[t] \in Pointer
    BY <1>1, <1>3 DEF Pointer, Links
  <2>2. cleared \in Links
    BY <2>1 DEF Links, Pointer
  <2>3. after \in Links
    BY <2>1, <2>2 DEF Linked, Links, Pointer
  <2>4. first \in Pointer
    BY <1>1
  <2>5. AddToQueue(q.head, nx, t) = [head |-> first, next |-> after]
    BY DEF AddToQueue
  <2> HIDE DEF first, after, cleared
  <2>6. Round(q) = [head |-> first, next |-> after, task |-> nx[t]]
    BY <1>3, <2>5 DEF Round
  <2> QED
    BY <2>1, <2>3, <2>4, <2>6 DEF Queue
<1> QED
  BY <1>2, <1>3

\* It takes the first waiter to the end of the ready queue.
LEMMA RoundIs ==
    ASSUME NEW q \in Queue, NEW a \in Nat, NEW r, NEW b \in Nat, NEW w,
           Both(q.head, q.task, q.next, a, r, b, w), b # 0
    PROVE  LET x == Round(q)
           IN  Both(x.head, x.task, x.next, a + 1, Push(a, r, w[1]), b - 1, Rest(b, w))
<1> DEFINE t == q.task
           nx == q.next
           nx2 == [nx EXCEPT ![t] = NULL]
           h == q.head
<1>1. nx \in Links
  BY DEF Queue
<1>2. Both(t, h, nx, b, w, a, r)
  BY BothSwap
<1>3. /\ t = w[1] /\ t \in Task /\ t \in Members(b, w)
      /\ Members(b - 1, Rest(b, w)) = Members(b, w) \ {t}
      /\ nx2 \in Links /\ Both(nx[t], h, nx2, b - 1, Rest(b, w), a, r)
  <2> HIDE DEF t, nx, h
  <2> QED
    BY <1>1, <1>2, BothPop
<1>4. Both(h, nx[t], nx2, a, r, b - 1, Rest(b, w))
  <2> HIDE DEF t, nx, nx2, h
  <2> QED
    BY <1>3, BothSwap
<1>5. t \notin Members(a, r) \cup Members(b - 1, Rest(b, w))
  BY <1>2, <1>3 DEF Both
<1>6. AddToQueue(h, nx, t) = AddToQueue(h, nx2, t)
  <2>1. [nx2 EXCEPT ![t] = NULL] = nx2
    BY <1>1, <1>3 DEF Links
  <2> QED
    BY <2>1 DEF AddToQueue
<1> DEFINE x == AddToQueue(h, nx2, t)
<1>7. Both(x.head, nx[t], x.next, a + 1, Push(a, r, t), b - 1, Rest(b, w))
  <2>1. b - 1 \in Nat
    OBVIOUS
  <2> HIDE DEF t, nx, nx2, h
  <2> QED
    BY <1>3, <1>4, <1>5, <2>1, BothPush
<1>8. t # NULL
  BY <1>3, NullIsNoTask
<1>9. Round(q) = [head |-> x.head, next |-> x.next, task |-> nx[t]]
  BY <1>6, <1>8 DEF Round
<1> HIDE DEF t, nx, nx2, h, x
<1> QED
  BY <1>3, <1>7, <1>9

\* The ready tasks and the first j of the waiting ones; those that wait still.
Joined(n, r, w, j) == [i \in 1 .. n + j |-> IF i <= n THEN r[i] ELSE w[i - n]]
Behind(m, w, j) == [i \in 1 .. m - j |-> w[i + j]]

LEMMA WokenIs ==
    ASSUME TypeOK, NEW n \in Nat, NEW r, NEW m \in Nat, NEW w,
           Both(readyHead, waitHead, next, n, r, m, w)
    PROVE  /\ Woken.next \in Links
           /\ Both(Woken.head, NULL, Woken.next, n + m, Joined(n, r, w, m), 0, Behind(m, w, m))
<1> DEFINE C == Cardinality(Task)
           x0 == [head |-> readyHead, next |-> next, task |-> waitHead]
           round == [i \in Nat |-> [q \in Queue |-> Round(q)]]
           step[k \in 0 .. C] == IF k = 0 THEN x0 ELSE Round(step[k - 1])
           Taken(k) == IF k <= m THEN k ELSE m
           Moved(q, j) == Both(q.head, q.task, q.next, n + j, Joined(n, r, w, j), m - j, Behind(m, w, j))
           P == [k \in 0 .. C |-> {q \in Queue : Moved(q, Taken(k))}]
<1>1. C \in Nat /\ m <= C
  BY NullIsNoTask, ListShort DEF Both
<1>2. x0 \in Queue
  BY DEF TypeOK, Queue, Links, Pointer
<1>3. round \in Steps(Queue)
  BY RoundType DEF Steps
<1>4. PICK g \in [0 .. C -> Queue] : g[0] = x0 /\ \A i \in 0 .. C - 1 : g[i + 1] = round[i][g[i]]
  <2> HIDE DEF round, x0, C
  <2>1. Runs(Queue, x0, round, C) # {}
    BY <1>1, <1>2, <1>3, LoopStates
  <2> QED
    BY <2>1 DEF Runs
<1>5. g = [k \in 0 .. C |-> IF k = 0 THEN x0 ELSE Round(g[k - 1])]
  <2>1. ASSUME NEW k \in 0 .. C, k # 0
        PROVE  g[k] = Round(g[k - 1])
    <3>1. k - 1 \in 0 .. C - 1 /\ k - 1 \in 0 .. C /\ (k - 1) + 1 = k /\ k - 1 \in Nat
      BY <1>1, <2>1
    <3>2. g[k - 1] \in Queue
      BY <3>1
    <3> QED
      BY <1>4, <3>1, <3>2
  <2> HIDE DEF C, x0
  <2> QED
    BY <1>4, <2>1
<1>6. step = [k \in 0 .. C |-> IF k = 0 THEN x0 ELSE Round(step[k - 1])]
  BY <1>5
<1>7. Woken = step[C]
  BY DEF Woken, Round, Successor
<1> HIDE DEF step, C
<1>8. x0 \in {q \in Queue : Moved(q, 0)}
  <2>1. r = Joined(n, r, w, 0) /\ w = Behind(m, w, 0)
    <3>1. r \in [1 .. n -> Task] /\ w \in [1 .. m -> Task]
      BY DEF Both, List
    <3>2. n + 0 = n /\ m - 0 = m /\ \A i \in 1 .. m : i + 0 = i
      OBVIOUS
    <3> QED
      BY <3>1, <3>2 DEF Joined, Behind
  <2>2. n + 0 = n /\ m - 0 = m
    OBVIOUS
  <2> QED
    BY <1>2, <2>1, <2>2
<1>9. step[0] \in P[0]
  <2>1. 0 \in 0 .. C /\ Taken(0) = 0
    BY <1>1
  <2>2. step[0] = x0
    BY <1>6, <2>1
  <2> HIDE DEF Moved, x0, Taken
  <2> QED
    BY <1>8, <2>1, <2>2
<1>10. ASSUME NEW q \in Queue, NEW j \in 0 .. m, Moved(q, j)
       PROVE  /\ j < m => Moved(Round(q), j + 1)
              /\ j = m => q.task = NULL /\ Round(q) = q
  <2> DEFINE a == Joined(n, r, w, j)
             b == Behind(m, w, j)
  <2>0. j \in Nat /\ n + j \in Nat /\ m - j \in Nat
    OBVIOUS
  <2>1. CASE j = m
    <3>1. m - j = 0
      BY <2>1
    <3>2. q.task = NULL
      BY <1>10, <3>1 DEF Both, List
    <3> QED
      BY <2>1, <3>2 DEF Round
  <2>2. ASSUME j < m
        PROVE  Moved(Round(q), j + 1)
    <3>1. /\ m - j # 0 /\ n + j + 1 = n + (j + 1) /\ (m - j) - 1 = m - (j + 1)
          /\ 1 \in 1 .. m - j /\ 1 + j = j + 1
      BY <2>0, <2>2
    <3>2. b[1] = w[j + 1]
      BY <3>1 DEF Behind
    <3>3. Push(n + j, a, w[j + 1]) = Joined(n, r, w, j + 1)
      <4>1. \A i \in 1 .. n + (j + 1) :
              (IF i <= n + j THEN a[i] ELSE w[j + 1]) = IF i <= n THEN r[i] ELSE w[i - n]
        <5> SUFFICES ASSUME NEW i \in 1 .. n + (j + 1)
                     PROVE  (IF i <= n + j THEN a[i] ELSE w[j + 1]) = IF i <= n THEN r[i] ELSE w[i - n]
          OBVIOUS
        <5>1. i <= n + j => i \in 1 .. n + j
          BY <2>0
        <5>2. ~(i <= n + j) => i - n = j + 1 /\ ~(i <= n)
          BY <2>0
        <5> QED
          BY <5>1, <5>2 DEF Joined
      <4> QED
        BY <3>1, <4>1 DEF Push, Joined
    <3>4. Rest(m - j, b) = Behind(m, w, j + 1)
      <4>1. \A i \in 1 .. m - (j + 1) : b[i + 1] = w[i + (j + 1)]
        <5> SUFFICES ASSUME NEW i \in 1 .. m - (j + 1) PROVE b[i + 1] = w[i + (j + 1)]
          OBVIOUS
        <5>1. i + 1 \in 1 .. m - j /\ (i + 1) + j = i + (j + 1)
          BY <2>0
        <5> QED
          BY <5>1 DEF Behind
      <4> QED
        BY <3>1, <4>1 DEF Rest, Behind
    <3> DEFINE x == Round(q)
    <3>5. Both(x.head, x.task, x.next, n + j + 1, Push(n + j, a, b[1]), m - j - 1, Rest(m - j, b))
      <4>1. Both(q.head, q.task, q.next, n + j, a, m - j, b)
        BY <1>10
      <4> HIDE DEF a, b
      <4> QED
        BY <2>0, <3>1, <4>1, RoundIs
    <3> QED
      BY <3>1, <3>2, <3>3, <3>4, <3>5
  <2> QED
    BY <2>1, <2>2
<1>11. \A i \in 0 .. C - 1 : step[i] \in P[i] => step[i + 1] \in P[i + 1]
  <2> SUFFICES ASSUME NEW i \in 0 .. C - 1, step[i] \in P[i] PROVE step[i + 1] \in P[i + 1]
    OBVIOUS
  <2> DEFINE j == Taken(i)
  <2>1. i \in 0 .. C /\ i + 1 \in 0 .. C /\ i + 1 # 0 /\ (i + 1) - 1 = i /\ i \in Nat
    BY <1>1
  <2>2. step[i] \in Queue /\ Moved(step[i], j)
    BY <2>1
  <2>3. step[i + 1] = Round(step[i]) /\ Round(step[i]) \in Queue
    BY <1>6, <2>1, <2>2, RoundType
  <2>4. j \in 0 .. m /\ (j < m => Taken(i + 1) = j + 1) /\ (~(j < m) => j = m /\ Taken(i + 1) = m)
    BY <2>1
  <2>5. Moved(Round(step[i]), Taken(i + 1))
    <3> HIDE DEF Moved, Taken, j
    <3> QED
      BY <1>10, <2>2, <2>4
  <2> HIDE DEF Moved, Taken
  <2> QED
    BY <2>1, <2>3, <2>5
<1>12. \A i \in 0 .. C : step[i] \in P[i]
  <2> HIDE DEF P
  <2> QED
    BY <1>1, <1>9, <1>11, LoopInvariant
<1>13. step[C] \in Queue /\ Moved(step[C], m)
  <2>1. C \in 0 .. C /\ Taken(C) = m
    BY <1>1
  <2> HIDE DEF Moved, Taken
  <2> QED
    BY <1>12, <2>1
<1>14. step[C].task = NULL
  <2>1. m \in 0 .. m
    OBVIOUS
  <2> HIDE DEF Moved
  <2> QED
    BY <1>10, <1>13, <2>1
<1>15. m - m = 0
  OBVIOUS
<1> HIDE DEF C
<1> QED
  BY <1>7, <1>13, <1>14, <1>15 DEF Queue

----------------------------------------------------------------------------
(* The inductive invariant *)

InState(st, s) == {t \in Task : st[t] = s}

\* The ready queue is r and the wait queue is w.
Sorted(head1, head2, nx, st, n, r, m, w) ==
    /\ Both(head1, head2, nx, n, r, m, w)
    /\ Members(n, r) = InState(st, "READY")
    /\ Members(m, w) = InState(st, "WAIT")

\* One task runs, and kernel_main never blocks.
CpuTaken ==
    /\ state[current] = "RUNNING"
    /\ \A t \in Task : state[t] = "RUNNING" => t = current
    /\ state[Idle] \in {"RUNNING", "READY"}

QueuesSorted == \E n, m \in Nat : \E r, w : Sorted(readyHead, waitHead, next, state, n, r, m, w)

IInv == TypeOK /\ CpuTaken /\ QueuesSorted

LEMMA InitSorted ==
    ASSUME Init
    PROVE  TypeOK /\ CpuTaken /\ Sorted(readyHead, waitHead, next, state, 0, <<>>, 0, <<>>)
<1>1. TypeOK /\ CpuTaken
  BY TaskListAssumption DEF Init, TypeOK, CpuTaken
<1>2. List(NULL, next, 0, <<>>)
  BY DEF List
<1>3. Members(0, <<>>) = {}
  BY DEF Members
<1>4. Both(readyHead, waitHead, next, 0, <<>>, 0, <<>>)
  BY <1>2, <1>3 DEF Init, Both
<1>5. InState(state, "READY") = {} /\ InState(state, "WAIT") = {}
  BY DEF Init, InState
<1> QED
  BY <1>1, <1>3, <1>4, <1>5 DEF Sorted

LEMMA EnqueueStep ==
    ASSUME TypeOK, CpuTaken, NEW n \in Nat, NEW r, NEW m \in Nat, NEW w,
           Sorted(readyHead, waitHead, next, state, n, r, m, w),
           NEW t \in Task, Enqueue(t)
    PROVE  /\ TypeOK' /\ CpuTaken' /\ t \notin {current} \cup Members(n, r) \cup Members(m, w)
           /\ Sorted(readyHead', waitHead', next', state', n + 1, Push(n, r, t), m, w)
<1>1. Both(readyHead, waitHead, next, n, r, m, w) /\ next \in Links
  BY DEF Sorted, TypeOK, Links, Pointer
<1>2. t \notin Members(n, r) \cup Members(m, w) /\ t # current /\ t # Idle
  BY DEF Sorted, InState, Enqueue, CpuTaken
<1>3. [next EXCEPT ![t] = NULL] = next
  BY <1>1, <1>2 DEF Both, Links
<1> DEFINE q == AddToQueue(readyHead, next, t)
<1>4. q.next \in Links /\ Both(q.head, waitHead, q.next, n + 1, Push(n, r, t), m, w)
  BY <1>1, <1>2, BothPush
<1> HIDE DEF q
<1>5. readyHead' = q.head /\ next' = q.next /\ UNCHANGED <<current, waitHead>>
  BY <1>3 DEF q, Enqueue
<1>6. Members(n + 1, Push(n, r, t)) = Members(n, r) \cup {t}
  BY MembersPush
<1>7. q.head \in Pointer
  <2>1. 1 \in 1 .. n + 1 /\ n + 1 # 0
    OBVIOUS
  <2> HIDE DEF q
  <2> QED
    BY <1>4, <2>1 DEF Both, List, Pointer
<1>8. state' = [state EXCEPT ![t] = "READY"]
  BY DEF Enqueue
<1>9. TypeOK'
  BY <1>4, <1>5, <1>7, <1>8 DEF TypeOK, Links, Pointer
<1>10. CpuTaken'
  BY <1>2, <1>5, <1>8, TaskListAssumption DEF CpuTaken, TypeOK
<1>11. InState(state', "READY") = InState(state, "READY") \cup {t} /\ InState(state', "WAIT") = InState(state, "WAIT")
  BY <1>8 DEF InState, TypeOK, Enqueue
<1> QED
  BY <1>2, <1>4, <1>5, <1>6, <1>9, <1>10, <1>11 DEF Sorted

LEMMA GiveUpStep ==
    ASSUME TypeOK, CpuTaken, NEW n \in Nat, NEW r, NEW m \in Nat, NEW w,
           Sorted(readyHead, waitHead, next, state, n, r, m, w),
           NEW s \in {"RUNNING", "WAIT", "WAITING", "ZOMBIE"}, GiveUp(s)
    PROVE  \/ UNCHANGED vars
           \/ /\ TypeOK' /\ CpuTaken' /\ n # 0 /\ current' = r[1]
              /\ \/ Sorted(readyHead', waitHead', next', state', n, Push(n - 1, Rest(n, r), current), m, w)
                 \/ Sorted(readyHead', waitHead', next', state', n - 1, Rest(n, r), m + 1, Push(m, w, current))
                 \/ Sorted(readyHead', waitHead', next', state', n - 1, Rest(n, r), m, w)
<1> DEFINE st == [state EXCEPT ![current] = s]
<1>1. Both(readyHead, waitHead, next, n, r, m, w) /\ next \in Links /\ current \in Task
  BY DEF Sorted, TypeOK, Links, Pointer
<1>2. readyHead = NULL <=> n = 0
  <2>1. n # 0 => 1 \in 1 .. n
    OBVIOUS
  <2> QED
    BY <1>1, <2>1, NullIsNoTask DEF Both, List
<1>3. CASE ScheduleNothingReady(st)
  <2>1. Members(n, r) = {}
    BY <1>2, <1>3 DEF ScheduleNothingReady, Members
  <2>2. state[Idle] # "READY"
    BY <2>1, TaskListAssumption DEF Sorted, InState
  <2>3. current = Idle /\ s = "RUNNING"
    BY <2>2, TaskListAssumption DEF CpuTaken, GiveUp
  <2>4. st = state
    BY <2>3 DEF CpuTaken, TypeOK
  <2>5. state' = state
    BY <1>3, <2>3, <2>4 DEF ScheduleNothingReady, CpuTaken
  <2> QED
    BY <1>3, <2>5 DEF ScheduleNothingReady, vars
<1>4. CASE ScheduleNext(st)
  <2> DEFINE nxt == readyHead
             rest == next[readyHead]
             d == Rest(n, r)
             asReady == AddToQueue(rest, Popped, current)
             asWait == AddToQueue(waitHead, Popped, current)
  <2>1. n # 0 /\ n - 1 \in Nat
    BY <1>2, <1>4 DEF ScheduleNext, SwitchTo
  <2>2. /\ nxt = r[1] /\ nxt \in Task /\ nxt \in Members(n, r)
        /\ Members(n - 1, d) = Members(n, r) \ {nxt}
        /\ Popped \in Links
        /\ Both(rest, waitHead, Popped, n - 1, d, m, w)
    BY <1>1, <2>1, BothPop DEF Popped
  <2>3. current \notin Members(n, r) \cup Members(m, w) /\ current # nxt
    BY <2>2 DEF Sorted, InState, CpuTaken
  <2>4. /\ state' = [st EXCEPT ![current] = IF @ = "RUNNING" THEN "READY" ELSE @, ![nxt] = "RUNNING"]
        /\ current' = nxt
        /\ readyHead' = IF st[current] = "RUNNING" THEN asReady.head ELSE rest
        /\ waitHead' = IF st[current] = "WAIT" THEN asWait.head ELSE waitHead
        /\ next' = CASE st[current] = "RUNNING" -> asReady.next
                     [] st[current] = "WAIT"    -> asWait.next
                     [] OTHER                   -> Popped
    BY <1>4 DEF ScheduleNext, SwitchTo
  <2>5. /\ state' \in [Task -> {"NONE", "RUNNING", "READY", "ZOMBIE", "WAIT", "WAITING"}]
        /\ state'[current] = IF s = "RUNNING" THEN "READY" ELSE s
        /\ state'[nxt] = "RUNNING"
        /\ \A x \in Task : x # current /\ x # nxt => state'[x] = state[x]
    BY <1>1, <2>2, <2>3, <2>4 DEF TypeOK
  <2>6. st[current] = s
    BY <1>1 DEF TypeOK
  <2>7. CpuTaken'
    BY <1>1, <2>2, <2>3, <2>4, <2>5, TaskListAssumption DEF CpuTaken, GiveUp, Sorted, InState
  <2> HIDE DEF st, d, asReady, asWait, nxt, rest
  <2>8. InState(state', "READY") = Members(n - 1, d) \cup (IF s = "RUNNING" THEN {current} ELSE {})
    BY <1>1, <2>2, <2>3, <2>5 DEF InState, Sorted
  <2>9. InState(state', "WAIT") = Members(m, w) \cup (IF s = "WAIT" THEN {current} ELSE {})
    BY <1>1, <2>2, <2>3, <2>5 DEF InState, Sorted
  <2>10. current \notin Members(n - 1, d) \cup Members(m, w)
    BY <2>2, <2>3
  <2>11. rest \in Pointer /\ waitHead \in Pointer
    BY <1>1, <2>2 DEF rest, nxt, Links, Pointer, TypeOK
  <2>12. ASSUME readyHead' \in Pointer, waitHead' \in Pointer, next' \in Links
         PROVE  TypeOK'
    BY <2>2, <2>4, <2>5, <2>12 DEF TypeOK, Pointer, Links
  <2>13. CASE s = "RUNNING"
    <3>1. asReady.next \in Links /\ Both(asReady.head, waitHead, asReady.next, n - 1 + 1, Push(n - 1, d, current), m, w)
      BY <1>1, <2>1, <2>2, <2>10, BothPush DEF asReady
    <3>2. readyHead' = asReady.head /\ waitHead' = waitHead /\ next' = asReady.next
      BY <2>4, <2>6, <2>13
    <3>3. n - 1 + 1 = n
      OBVIOUS
    <3>4. asReady.head \in Pointer
      <4>1. 1 \in 1 .. n /\ n # 0
        BY <2>1
      <4> QED
        BY <3>1, <3>3, <4>1 DEF Both, List, Pointer
    <3>5. Members(n, Push(n - 1, d, current)) = Members(n - 1, d) \cup {current}
      BY <2>1, <3>3, MembersPush
    <3>6. Sorted(readyHead', waitHead', next', state', n, Push(n - 1, d, current), m, w)
      BY <2>8, <2>9, <2>13, <3>1, <3>2, <3>3, <3>5 DEF Sorted
    <3> QED
      BY <2>1, <2>2, <2>4, <2>7, <2>11, <2>12, <3>1, <3>2, <3>4, <3>6 DEF d
  <2>14. CASE s = "WAIT"
    <3>1. asWait.next \in Links /\ Both(asWait.head, rest, asWait.next, m + 1, Push(m, w, current), n - 1, d)
      BY <1>1, <2>1, <2>2, <2>10, BothPush, BothSwap DEF asWait
    <3>2. readyHead' = rest /\ waitHead' = asWait.head /\ next' = asWait.next
      BY <2>4, <2>6, <2>14
    <3>3. asWait.head \in Pointer
      <4>1. 1 \in 1 .. m + 1 /\ m + 1 # 0
        OBVIOUS
      <4> QED
        BY <3>1, <4>1 DEF Both, List, Pointer
    <3>4. Members(m + 1, Push(m, w, current)) = Members(m, w) \cup {current}
      BY MembersPush
    <3>5. Both(rest, asWait.head, asWait.next, n - 1, d, m + 1, Push(m, w, current))
      BY <3>1, BothSwap
    <3>6. Sorted(readyHead', waitHead', next', state', n - 1, d, m + 1, Push(m, w, current))
      BY <2>8, <2>9, <2>14, <3>2, <3>4, <3>5 DEF Sorted
    <3> QED
      BY <2>1, <2>2, <2>4, <2>7, <2>11, <2>12, <3>1, <3>2, <3>3, <3>6 DEF d
  <2>15. CASE s \notin {"RUNNING", "WAIT"}
    <3>1. readyHead' = rest /\ waitHead' = waitHead /\ next' = Popped
      BY <2>4, <2>6, <2>15
    <3>2. Sorted(readyHead', waitHead', next', state', n - 1, d, m, w)
      BY <2>2, <2>8, <2>9, <2>15, <3>1 DEF Sorted
    <3> QED
      BY <2>1, <2>2, <2>4, <2>7, <2>11, <2>12, <3>1, <3>2 DEF d
  <2> QED
    BY <2>13, <2>14, <2>15
<1> QED
  BY <1>3, <1>4 DEF GiveUp

LEMMA WakeupStep ==
    ASSUME TypeOK, CpuTaken, NEW n \in Nat, NEW r, NEW m \in Nat, NEW w,
           Sorted(readyHead, waitHead, next, state, n, r, m, w), Wakeup
    PROVE  /\ TypeOK' /\ CpuTaken'
           /\ Sorted(readyHead', waitHead', next', state', n + m, Joined(n, r, w, m), 0, Behind(m, w, m))
<1>1. Both(readyHead, waitHead, next, n, r, m, w) /\ next \in Links
  BY DEF Sorted, TypeOK, Links, Pointer
<1>2. /\ Woken.next \in Links
      /\ Both(Woken.head, NULL, Woken.next, n + m, Joined(n, r, w, m), 0, Behind(m, w, m))
  BY <1>1, WokenIs
<1>3. /\ readyHead' = Woken.head /\ next' = Woken.next /\ waitHead' = NULL /\ current' = current
      /\ state' = [t \in Task |-> IF t \in On(waitHead, next) THEN "READY" ELSE state[t]]
  BY DEF Wakeup
<1>4. On(waitHead, next) = InState(state, "WAIT")
  <2>1. On(waitHead, next) = {w[i] : i \in 1 .. m}
    BY <1>1, WalkIs DEF Both
  <2> QED
    BY <2>1 DEF Sorted, Members
<1>5. state' = [t \in Task |-> IF state[t] = "WAIT" THEN "READY" ELSE state[t]]
  BY <1>3, <1>4 DEF InState
<1>6. Woken.head \in Pointer
  <2>1. n + m # 0 => 1 \in 1 .. n + m
    OBVIOUS
  <2> QED
    BY <1>2, <2>1 DEF Both, List, Pointer
<1>7. TypeOK'
  BY <1>2, <1>3, <1>5, <1>6 DEF TypeOK, Links, Pointer
<1>8. CpuTaken'
  BY <1>3, <1>5, TaskListAssumption DEF CpuTaken, TypeOK
<1>9. InState(state', "READY") = Members(n, r) \cup Members(m, w) /\ InState(state', "WAIT") = {}
  BY <1>5 DEF Sorted, InState
<1>10. Members(n + m, Joined(n, r, w, m)) = Members(n, r) \cup Members(m, w)
  <2> DEFINE d == Joined(n, r, w, m)
  <2>1. \A i \in 1 .. n + m : (i <= n => i \in 1 .. n) /\ (~(i <= n) => i - n \in 1 .. m)
    OBVIOUS
  <2>2. \A i \in 1 .. n + m : d[i] = IF i <= n THEN r[i] ELSE w[i - n]
    BY DEF Joined
  <2>3. \A i \in 1 .. n : i \in 1 .. n + m /\ i <= n
    OBVIOUS
  <2>4. \A i \in 1 .. m : i + n \in 1 .. n + m /\ ~(i + n <= n) /\ (i + n) - n = i
    OBVIOUS
  <2> HIDE DEF d
  <2>5. \A i \in 1 .. n : d[i] = r[i]
    BY <2>2, <2>3
  <2>6. \A i \in 1 .. m : d[i + n] = w[i]
    BY <2>2, <2>4
  <2>7. ASSUME NEW x \in Members(n + m, d) PROVE x \in Members(n, r) \cup Members(m, w)
    BY <2>1, <2>2 DEF Members
  <2>8. ASSUME NEW x \in Members(n, r) \cup Members(m, w) PROVE x \in Members(n + m, d)
    BY <2>3, <2>4, <2>5, <2>6 DEF Members
  <2> QED
    BY <2>7, <2>8 DEF d
<1>11. Members(0, Behind(m, w, m)) = {}
  BY DEF Members
<1> QED
  BY <1>2, <1>3, <1>7, <1>8, <1>9, <1>10, <1>11 DEF Sorted

\* The invariant that carries the proofs: there are two sequences of tasks
\* such that the pointers from each head run through exactly one of them, and
\* the tasks' states say which.
THEOREM Invariance == Spec => []IInv
<1>1. Init => IInv
  <2>1. 0 \in Nat
    OBVIOUS
  <2> QED
    BY <2>1, InitSorted DEF IInv, QueuesSorted
<1>2. IInv /\ [Next]_vars => IInv'
  <2> SUFFICES ASSUME IInv, [Next]_vars PROVE IInv'
    OBVIOUS
  <2> USE DEF IInv
  <2>0. PICK n \in Nat, m \in Nat : \E r, w : Sorted(readyHead, waitHead, next, state, n, r, m, w)
    BY DEF QueuesSorted
  <2>1. PICK r, w : Sorted(readyHead, waitHead, next, state, n, r, m, w)
    BY <2>0
  <2>2. n + 1 \in Nat /\ m + 1 \in Nat /\ n + m \in Nat /\ 0 \in Nat /\ (n # 0 => n - 1 \in Nat)
    OBVIOUS
  <2>3. ASSUME NEW t \in Task, Enqueue(t) PROVE IInv'
    BY <2>1, <2>2, <2>3, EnqueueStep DEF QueuesSorted
  <2>4. ASSUME UNCHANGED vars PROVE IInv'
    BY <2>4 DEF vars, TypeOK, CpuTaken, QueuesSorted
  <2>5. ASSUME NEW s \in {"RUNNING", "WAIT", "WAITING", "ZOMBIE"}, GiveUp(s) PROVE IInv'
    <3>1. CASE UNCHANGED vars
      BY <2>4, <3>1
    <3>2. CASE /\ TypeOK' /\ CpuTaken' /\ n # 0
               /\ \/ Sorted(readyHead', waitHead', next', state', n, Push(n - 1, Rest(n, r), current), m, w)
                  \/ Sorted(readyHead', waitHead', next', state', n - 1, Rest(n, r), m + 1, Push(m, w, current))
                  \/ Sorted(readyHead', waitHead', next', state', n - 1, Rest(n, r), m, w)
      BY <2>2, <3>2 DEF QueuesSorted
    <3> HIDE DEF IInv
    <3> QED
      BY <2>1, <2>5, <3>1, <3>2, GiveUpStep DEF IInv
  <2>6. CASE Wakeup
    BY <2>1, <2>2, <2>6, WakeupStep DEF QueuesSorted
  <2> QED
    BY <2>3, <2>4, <2>5, <2>6 DEF Next
<1> QED
  BY <1>1, <1>2, PTL DEF Spec

\* Followed from either head the next pointers come to NULL, and they pass
\* exactly the tasks of that list; the lists never share a task or a pointer, a task that is on neither has a null pointer, and every task's
\* state says which list it is on, for any number of tasks.
THEOREM ListsCorrect == Spec => []ListsMatchStates
<1>1. IInv => ListsMatchStates
  <2> SUFFICES ASSUME IInv PROVE ListsMatchStates
    OBVIOUS
  <2>0. PICK n \in Nat, m \in Nat : \E r, w : Sorted(readyHead, waitHead, next, state, n, r, m, w)
    BY DEF IInv, QueuesSorted
  <2>1. PICK r, w : Sorted(readyHead, waitHead, next, state, n, r, m, w)
    BY <2>0
  <2>2. /\ List(readyHead, next, n, r) /\ List(waitHead, next, m, w) /\ next \in Links
        /\ Members(n, r) \cap Members(m, w) = {}
        /\ \A x \in Task : x \notin Members(n, r) \cup Members(m, w) => next[x] = NULL
    BY <2>1 DEF Sorted, Both, IInv, TypeOK, Links, Pointer
  <2>3. On(readyHead, next) = Members(n, r) /\ On(waitHead, next) = Members(m, w)
    BY <2>2, WalkIs DEF Members
  <2>4. ASSUME NEW head, NEW k \in Nat, NEW d, List(head, next, k, d),
               NEW x \in Members(k, d), next[x] # NULL
        PROVE  next[x] \in Members(k, d) /\ \A y \in Members(k, d) : next[x] = next[y] => x = y
    <3>1. PICK i \in 1 .. k : x = d[i]
      BY DEF Members
    <3>2. \A j \in 1 .. k : j # k => j + 1 \in 1 .. k
      OBVIOUS
    <3>3. i # k /\ next[x] = d[i + 1] /\ i + 1 \in 1 .. k
      BY <2>4, <3>1, <3>2 DEF List
    <3>4. ASSUME NEW y \in Members(k, d), next[x] = next[y] PROVE x = y
      <4>1. PICK j \in 1 .. k : y = d[j]
        BY DEF Members
      <4>2. j # k /\ next[y] = d[j + 1] /\ j + 1 \in 1 .. k
        BY <2>4, <3>2, <3>4, <4>1 DEF List
      <4>3. i + 1 = j + 1
        BY <2>4, <3>3, <3>4, <4>2 DEF List
      <4> QED
        BY <3>1, <4>1, <4>3
    <3> QED
      BY <3>3, <3>4 DEF Members
  <2>5. \A x, y \in Task : next[x] = next[y] /\ next[x] # NULL => x = y
    <3> SUFFICES ASSUME NEW x \in Task, NEW y \in Task, next[x] = next[y], next[x] # NULL PROVE x = y
      OBVIOUS
    <3>1. x \in Members(n, r) \cup Members(m, w) /\ y \in Members(n, r) \cup Members(m, w)
      BY <2>2
    <3>2. CASE x \in Members(n, r) /\ y \in Members(n, r)
      BY <2>2, <2>4, <3>2
    <3>3. CASE x \in Members(m, w) /\ y \in Members(m, w)
      BY <2>2, <2>4, <3>3
    <3>4. ASSUME NEW a \in Members(n, r), NEW b \in Members(m, w), next[a] = next[b], next[a] # NULL
          PROVE  FALSE
      <4>1. next[a] \in Members(n, r)
        BY <2>2, <2>4, <3>4
      <4>2. next[b] \in Members(m, w)
        BY <2>2, <2>4, <3>4
      <4> QED
        BY <2>2, <3>4, <4>1, <4>2
    <3> QED
      BY <3>1, <3>2, <3>3, <3>4
  <2>6. ASSUME NEW head, NEW k \in Nat, NEW d, List(head, next, k, d), On(head, next) = Members(k, d)
        PROVE  Ends(head, next)
    <3>1. CASE k = 0
      BY <2>6, <3>1 DEF List, Ends
    <3>2. CASE k # 0
      <4>1. k \in 1 .. k
        BY <3>2
      <4>2. d[k] \in Members(k, d) /\ next[d[k]] = NULL
        BY <2>6, <4>1 DEF Members, List
      <4> QED
        BY <2>6, <4>2 DEF Ends
    <3> QED
      BY <3>1, <3>2
  <2>7. Ends(readyHead, next) /\ Ends(waitHead, next)
    BY <2>2, <2>3, <2>6
  <2> QED
    BY <2>1, <2>2, <2>3, <2>5, <2>7 DEF IInv, ListsMatchStates, Sorted, InState
<1> QED
  BY <1>1, Invariance, PTL

----------------------------------------------------------------------------
(* The lists are queues *)

LEMMA SequenceIs ==
    ASSUME NEW n \in Nat, NEW s \in [1 .. n -> Task]
    PROVE  s \in Seq(Task) /\ Len(s) = n /\ Range(s) = Members(n, s)
BY DEF Members, Range

LEMMA PushIs ==
    ASSUME NEW n \in Nat, NEW s \in [1 .. n -> Task], NEW t \in Task
    PROVE  Push(n, s, t) = Append(s, t)
<1>1. s \in Seq(Task) /\ Len(s) = n
  BY SequenceIs
<1> DEFINE d == Push(n, s, t)
           e == Append(s, t)
<1>2. d \in [1 .. n + 1 -> Task]
  BY DEF Push
<1>3. e \in [1 .. n + 1 -> Task]
  <2>1. e \in Seq(Task) /\ Len(e) = n + 1
    BY <1>1, AppendProperties
  <2> HIDE DEF e
  <2> QED
    BY <2>1, LenProperties
<1>4. \A i \in 1 .. n + 1 : d[i] = e[i]
  BY <1>1 DEF Push
<1> HIDE DEF d, e
<1>5. d = e
  BY <1>2, <1>3, <1>4
<1> QED
  BY <1>5 DEF d, e

LEMMA TailIs ==
    ASSUME NEW n \in Nat \ {0}, NEW s \in [1 .. n -> Task]
    PROVE  s # <<>> /\ Head(s) = s[1] /\ Rest(n, s) = Tail(s) /\ Rest(n, s) \in [1 .. n - 1 -> Task]
<1>1. s \in Seq(Task) /\ Len(s) = n
  BY SequenceIs
<1> DEFINE d == Rest(n, s)
           e == Tail(s)
<1>2. d \in [1 .. n - 1 -> Task]
  BY DEF Rest
<1>3. e \in [1 .. n - 1 -> Task]
  <2>1. s # <<>>
    BY <1>1
  <2> QED
    BY <1>1, <2>1, HeadTailProperties, LenProperties
<1>4. \A i \in 1 .. n - 1 : d[i] = e[i]
  BY <1>1 DEF Rest
<1>5. s # <<>> /\ Head(s) = s[1]
  BY <1>1
<1> HIDE DEF d, e
<1>6. d = e
  BY <1>2, <1>3, <1>4
<1> QED
  BY <1>2, <1>5, <1>6 DEF d, e

LEMMA JoinedIs ==
    ASSUME NEW n \in Nat, NEW r \in [1 .. n -> Task], NEW m \in Nat, NEW w \in [1 .. m -> Task]
    PROVE  Joined(n, r, w, m) = r \o w /\ Behind(m, w, m) = <<>>
<1>1. r \in Seq(Task) /\ Len(r) = n /\ w \in Seq(Task) /\ Len(w) = m
  BY SequenceIs
<1> DEFINE d == Joined(n, r, w, m)
           e == r \o w
<1>2. d \in [1 .. n + m -> Task]
  BY DEF Joined
<1>3. e \in [1 .. n + m -> Task]
  <2>1. e \in Seq(Task) /\ Len(e) = n + m
    BY <1>1, ConcatProperties
  <2> HIDE DEF e
  <2> QED
    BY <2>1, LenProperties
<1>4. \A i \in 1 .. n + m : d[i] = e[i]
  BY <1>1 DEF Joined
<1>5. Behind(m, w, m) = <<>>
  <2>1. 1 .. m - m = {}
    OBVIOUS
  <2> QED
    BY <2>1 DEF Behind
<1> HIDE DEF d, e
<1>6. d = e
  BY <1>2, <1>3, <1>4
<1> QED
  BY <1>5, <1>6 DEF d, e

\* The sequences of an invariant state are what the abstract queues hold.
LEMMA QueuesAre ==
    ASSUME NEW head1, NEW head2, NEW nx \in Links, NEW st, NEW n \in Nat, NEW r, NEW m \in Nat, NEW w,
           Sorted(head1, head2, nx, st, n, r, m, w)
    PROVE  /\ r \in [1 .. n -> Task] /\ w \in [1 .. m -> Task]
           /\ Walk(head1, nx) = r /\ Walk(head2, nx) = w
           /\ Range(r) = Members(n, r) /\ Range(w) = Members(m, w)
<1>1. List(head1, nx, n, r) /\ List(head2, nx, m, w)
  BY DEF Sorted, Both
<1>2. r \in [1 .. n -> Task] /\ w \in [1 .. m -> Task]
  BY <1>1 DEF List
<1> QED
  BY <1>1, <1>2, WalkIs, SequenceIs

\* The pointers implement two first-in-first-out queues: a task is added at
\* the end, taken from the front, and a wakeup moves all that wait, in order.
THEOREM QueuesImplemented == Spec => ImplementsQueues
<1> DEFINE ready == Walk(readyHead, next)
           waitq == Walk(waitHead, next)
<1>1. Init => Q!Init
  <2> SUFFICES ASSUME Init PROVE Q!Init
    OBVIOUS
  <2>1. next \in Links /\ Sorted(readyHead, waitHead, next, state, 0, <<>>, 0, <<>>)
    BY InitSorted DEF TypeOK, Links, Pointer
  <2>2. 0 \in Nat
    OBVIOUS
  <2>3. Walk(readyHead, next) = <<>> /\ Walk(waitHead, next) = <<>>
    BY <2>1, <2>2, QueuesAre
  <2> QED
    BY <2>3 DEF Init, Q!Init
<1>2. IInv /\ [Next]_vars => [Q!Next]_(Q!qvars)
  <2> SUFFICES ASSUME IInv, [Next]_vars PROVE [Q!Next]_(Q!qvars)
    OBVIOUS
  <2> USE DEF IInv
  <2>0. PICK n \in Nat, m \in Nat : \E r, w : Sorted(readyHead, waitHead, next, state, n, r, m, w)
    BY DEF QueuesSorted
  <2>1. PICK r, w : Sorted(readyHead, waitHead, next, state, n, r, m, w)
    BY <2>0
  <2>2. next \in Links /\ current \in Task
    BY DEF TypeOK, Links, Pointer
  <2> HIDE DEF IInv
  <2>3. /\ r \in [1 .. n -> Task] /\ w \in [1 .. m -> Task]
        /\ ready = r /\ waitq = w
        /\ Range(r) = Members(n, r) /\ Range(w) = Members(m, w)
    <3>1. List(readyHead, next, n, r) /\ List(waitHead, next, m, w)
      BY <2>1 DEF Sorted, Both
    <3>2. r \in [1 .. n -> Task] /\ w \in [1 .. m -> Task]
      BY <3>1 DEF List
    <3>3. ready = r /\ waitq = w
      BY <2>2, <3>1, WalkIs
    <3> QED
      BY <3>2, <3>3, SequenceIs
  <2>4. n + 1 \in Nat /\ m + 1 \in Nat /\ n + m \in Nat /\ 0 \in Nat /\ (n # 0 => n - 1 \in Nat /\ (n - 1) + 1 = n)
    OBVIOUS
  <2>5. TypeOK' => next' \in Links
    BY DEF TypeOK, Links, Pointer
  <2>6. ASSUME NEW t \in Task, Enqueue(t) PROVE Q!MakeReady(t)
    <3>1. /\ TypeOK' /\ t \notin {current} \cup Members(n, r) \cup Members(m, w)
          /\ Sorted(readyHead', waitHead', next', state', n + 1, Push(n, r, t), m, w)
      BY <2>1, <2>6, EnqueueStep DEF IInv
    <3>2. ready' = Push(n, r, t) /\ waitq' = w
      <4>1. Sorted(readyHead', waitHead', next', state', n + 1, Push(n, r, t), m, w)
        BY <3>1
      <4>2. next' \in Links
        BY <2>5, <3>1
      <4> QED
        BY <2>4, <4>1, <4>2, QueuesAre
    <3>3. ready' = Append(r, t)
      BY <2>3, <3>2, PushIs
    <3>4. current' = current
      BY <2>6 DEF Enqueue
    <3> HIDE DEF ready, waitq
    <3>5. Q!MakeReady(t) <=> /\ t \notin {current} \cup Range(ready) \cup Range(waitq)
                             /\ ready' = Append(ready, t)
                             /\ UNCHANGED <<current, waitq>>
      BY DEF Q!MakeReady, Q!Range, Range, ready, waitq
    <3> QED
      BY <2>3, <3>1, <3>2, <3>3, <3>4, <3>5
  <2>7. ASSUME UNCHANGED vars PROVE UNCHANGED Q!qvars
    BY <2>7 DEF vars, Q!qvars
  <2>8. ASSUME NEW s \in {"RUNNING", "WAIT", "WAITING", "ZOMBIE"}, GiveUp(s)
        PROVE  Q!GiveUp \/ UNCHANGED Q!qvars
    <3> DEFINE d == Rest(n, r)
    <3>1. CASE UNCHANGED vars
      BY <2>7, <3>1
    <3>2. CASE /\ TypeOK' /\ n # 0 /\ current' = r[1]
               /\ \/ Sorted(readyHead', waitHead', next', state', n, Push(n - 1, d, current), m, w)
                  \/ Sorted(readyHead', waitHead', next', state', n - 1, d, m + 1, Push(m, w, current))
                  \/ Sorted(readyHead', waitHead', next', state', n - 1, d, m, w)
      <4>1. r # <<>> /\ Head(r) = r[1] /\ d = Tail(r) /\ d \in [1 .. n - 1 -> Task]
        BY <2>3, <3>2, TailIs
      <4>2. next' \in Links /\ n - 1 \in Nat
        BY <2>4, <2>5, <3>2
      <4> HIDE DEF d
      <4>3. CASE Sorted(readyHead', waitHead', next', state', n, Push(n - 1, d, current), m, w)
        <5>1. ready' = Push(n - 1, d, current) /\ waitq' = w
          BY <2>4, <4>2, <4>3, QueuesAre
        <5>2. Push(n - 1, d, current) = Append(d, current)
          BY <2>2, <4>1, <4>2, PushIs
        <5> QED
          BY <2>3, <3>2, <4>1, <5>1, <5>2 DEF Q!GiveUp
      <4>4. CASE Sorted(readyHead', waitHead', next', state', n - 1, d, m + 1, Push(m, w, current))
        <5>1. ready' = d /\ waitq' = Push(m, w, current)
          BY <2>4, <4>2, <4>4, QueuesAre
        <5>2. Push(m, w, current) = Append(w, current)
          BY <2>2, <2>3, PushIs
        <5> QED
          BY <2>3, <3>2, <4>1, <5>1, <5>2 DEF Q!GiveUp
      <4>5. CASE Sorted(readyHead', waitHead', next', state', n - 1, d, m, w)
        <5>1. ready' = d /\ waitq' = w
          BY <2>4, <4>2, <4>5, QueuesAre
        <5> QED
          BY <2>3, <3>2, <4>1, <5>1 DEF Q!GiveUp
      <4> QED
        BY <3>2, <4>3, <4>4, <4>5
    <3> QED
      BY <2>1, <2>8, <3>1, <3>2, GiveUpStep DEF IInv
  <2>9. ASSUME Wakeup PROVE Q!WakeAll
    <3>1. /\ TypeOK'
          /\ Sorted(readyHead', waitHead', next', state', n + m, Joined(n, r, w, m), 0, Behind(m, w, m))
      BY <2>1, <2>9, WakeupStep DEF IInv
    <3>2. ready' = Joined(n, r, w, m) /\ waitq' = Behind(m, w, m)
      BY <2>4, <2>5, <3>1, QueuesAre
    <3>3. Joined(n, r, w, m) = r \o w /\ Behind(m, w, m) = <<>>
      BY <2>3, JoinedIs
    <3>4. current' = current
      BY <2>9 DEF Wakeup
    <3> QED
      BY <2>3, <3>2, <3>3, <3>4 DEF Q!WakeAll
  <2> QED
    BY <2>6, <2>7, <2>8, <2>9 DEF Next, Q!Next
<1> QED
  BY <1>1, <1>2, Invariance, PTL DEF Spec, ImplementsQueues, Q!Spec
=============================================================================
