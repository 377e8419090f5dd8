-------------------------- MODULE Semaphore_proofs --------------------------
(***************************************************************************)
(* Theorems about Semaphore: the waiting lists linked through the APPLs    *)
(* are queues, owners know what they own, and the BLOCKAGEs of evnt_sem    *)
(* and wind_update implement SemSpec; what SemSpec promises, and that the  *)
(* waiting lists keep it.                                                  *)
(***************************************************************************)
EXTENDS Semaphore, Kernel_proofs, FiniteSetTheorems, FunctionTheorems, NaturalsInduction,
        WellFoundedInduction

-----------------------------------------------------------------------------
(* Recursion *)

\* A set of numbers that is not empty has a least one.
LEMMA LeastOf ==
    ASSUME NEW T \in SUBSET Nat, T # {}
    PROVE  \E n \in T : \A m \in T : n <= m
<1>1. PICK n \in T : \A m \in T : ~(<< m, n >> \in OpToRel(<, Nat))
  BY WFMin, NatLessThanWellFounded
<1>2. \A m \in T : ~(m < n)
  BY <1>1 DEF OpToRel
<1>. QED BY <1>2

\* f starts with base and goes on with g for m steps
Iterates(f, base, g, m) ==
    f[0] = base /\ \A i \in 1..m : f[i] = g[<< i, f[i - 1] >>]

\* There is a sequence of values that a loop runs through.
LEMMA Iteration ==
    ASSUME NEW D, NEW n \in Nat, NEW base \in D, NEW g \in [(1..n) \X D -> D]
    PROVE  \E f \in [0..n -> D] : Iterates(f, base, g, n)
<1>. DEFINE T == {m \in 0..n : ~ \E f \in [0..m -> D] : Iterates(f, base, g, m)}
<1>1. SUFFICES ASSUME T # {} PROVE FALSE
  <2>1. n \in 0..n
    OBVIOUS
  <2>. QED BY <2>1
<1>2. PICK m \in T : \A l \in T : m <= l
  <2>1. T \in SUBSET Nat
    OBVIOUS
  <2>. HIDE DEF T
  <2>. QED BY <1>1, <2>1, LeastOf
<1>3. m \in 0..n /\ ~ \E f \in [0..m -> D] : Iterates(f, base, g, m)
  BY <1>2
<1>4. m # 0
  <2>. SUFFICES ASSUME m = 0 PROVE FALSE
    OBVIOUS
  <2>1. [i \in 0..0 |-> base] \in [0..0 -> D] /\ Iterates([i \in 0..0 |-> base], base, g, 0)
    BY DEF Iterates
  <2>. QED BY <1>3, <2>1
<1>5. PICK j \in Nat : m = j + 1 /\ j \in 0..n
  BY <1>3, <1>4
<1>6. j \notin T
  BY <1>2, <1>5
<1>7. PICK f \in [0..j -> D] : Iterates(f, base, g, j)
  BY <1>5, <1>6
<1>8. << m, f[j] >> \in (1..n) \X D
  BY <1>3, <1>5
<1>9. g[<< m, f[j] >>] \in D
  BY <1>8
<1>. DEFINE h == [i \in 0..m |-> IF i = m THEN g[<< m, f[j] >>] ELSE f[i]]
<1>10. h \in [0..m -> D]
  BY <1>3, <1>5, <1>9
<1>11. h[0] = base
  BY <1>3, <1>4, <1>5, <1>7 DEF Iterates
<1>12. ASSUME NEW i \in 1..m PROVE h[i] = g[<< i, h[i - 1] >>]
  <2>1. CASE i = m
    <3>1. h[m] = g[<< m, f[j] >>] /\ h[m - 1] = f[j]
      BY <1>3, <1>5
    <3>. QED BY <2>1, <3>1
  <2>2. CASE i # m
    <3>1. i \in 1..j /\ h[i] = f[i] /\ h[i - 1] = f[i - 1]
      BY <1>3, <1>5, <2>2
    <3>. QED BY <1>7, <3>1 DEF Iterates
  <2>. QED BY <2>1, <2>2
<1>. HIDE DEF h
<1>13. Iterates(h, base, g, m)
  BY <1>11, <1>12 DEF Iterates
<1>. QED BY <1>3, <1>10, <1>13

-----------------------------------------------------------------------------
(* Linked lists *)

\* where a loop over the list that starts with p is after each step
Steps(w, p, nx) ==
    /\ w[0] = p
    /\ \A i \in 1..Cardinality(App) : w[i] = IF w[i - 1] = NONE THEN NONE ELSE nx[w[i - 1]]

\* The walk along a list follows the pointers.
LEMMA WalkIs ==
    ASSUME NEW p \in Ptr, NEW nx \in [App -> Ptr]
    PROVE  Steps(Walk(p, nx), p, nx) /\ Cardinality(App) \in Nat
<1>1. PICK N \in Nat : N = Cardinality(App)
  BY SemaphoreAssumption, FS_CardinalityType
<1>. DEFINE g == [x \in (1..N) \X Ptr |-> IF x[2] = NONE THEN NONE ELSE nx[x[2]]]
<1>2. g \in [(1..N) \X Ptr -> Ptr]
  BY DEF Ptr
<1>3. PICK f \in [0..N -> Ptr] : Iterates(f, p, g, N)
  <2>. HIDE DEF g
  <2>. QED BY <1>2, Iteration
<1>4. \A i \in 1..N : f[i] = IF f[i - 1] = NONE THEN NONE ELSE nx[f[i - 1]]
  <2>1. ASSUME NEW i \in 1..N PROVE f[i] = IF f[i - 1] = NONE THEN NONE ELSE nx[f[i - 1]]
    <3>1. f[i - 1] \in Ptr
      <4>1. i - 1 \in 0..N
        OBVIOUS
      <4>. QED BY <4>1
    <3>2. g[<< i, f[i - 1] >>] = IF f[i - 1] = NONE THEN NONE ELSE nx[f[i - 1]]
      BY <3>1
    <3>. QED BY <1>3, <3>2 DEF Iterates
  <2>. QED BY <2>1
<1>5. f = [i \in 0..N |-> IF i = 0 THEN p ELSE IF f[i - 1] = NONE THEN NONE ELSE nx[f[i - 1]]]
  <2>1. f = [i \in 0..N |-> f[i]]
    OBVIOUS
  <2>2. ASSUME NEW i \in 0..N
        PROVE  f[i] = IF i = 0 THEN p ELSE IF f[i - 1] = NONE THEN NONE ELSE nx[f[i - 1]]
    <3>1. f[0] = p
      BY <1>3 DEF Iterates
    <3>2. i = 0 \/ i \in 1..N
      OBVIOUS
    <3>. QED BY ONLY <1>4, <3>1, <3>2, N \in Nat
  <2>. QED BY ONLY <2>1, <2>2
<1>6. PICK w : w = Walk(p, nx)
  OBVIOUS
<1>7. w = [i \in 0..N |-> IF i = 0 THEN p ELSE IF w[i - 1] = NONE THEN NONE ELSE nx[w[i - 1]]]
  <2>1. w = CHOOSE f1 : f1 = [i \in 0..N |-> IF i = 0 THEN p
                                      ELSE IF f1[i - 1] = NONE THEN NONE ELSE nx[f1[i - 1]]]
    BY <1>1, <1>6 DEF Walk
  <2>. QED BY ONLY <1>5, <2>1
<1>8. w[0] = p /\ \A i \in 1..N : w[i] = IF w[i - 1] = NONE THEN NONE ELSE nx[w[i - 1]]
  <2>1. \A i \in 0..N : w[i] = IF i = 0 THEN p ELSE IF w[i - 1] = NONE THEN NONE ELSE nx[w[i - 1]]
    BY ONLY <1>7
  <2>2. 0 \in 0..N /\ \A i \in 1..N : i \in 0..N /\ i # 0
    OBVIOUS
  <2>. QED BY ONLY <2>1, <2>2
<1>. QED BY <1>1, <1>6, <1>8 DEF Steps

\* A list of pointers is walked from its newest member to its oldest one, and
\* read back in the opposite order (evs_set links at the front, free_semaphore
\* takes the last one).
LEMMA ListWalk ==
    ASSUME NEW nx \in [App -> Ptr], NEW p, NEW q, IsList(q, p, nx)
    PROVE  Linked(p, nx) = Members(q) /\ Ends(p, nx) /\ WaitOrder(p, nx) = q
<1>1. PICK n \in Nat : n = Len(q) /\ DOMAIN q = 1..n /\ q \in [1..n -> App]
  BY DEF IsList
<1>2. PICK N \in Nat : N = Cardinality(App)
  BY SemaphoreAssumption, FS_CardinalityType
<1>3. /\ p = IF n = 0 THEN NONE ELSE q[n]
      /\ \A i \in 1..n : nx[q[i]] = IF i = 1 THEN NONE ELSE q[i - 1]
      /\ \A i, j \in 1..n : q[i] = q[j] => i = j
  <2>1. q = << >> <=> n = 0
    BY <1>1 DEF IsList
  <2>. QED BY <1>1, <2>1 DEF IsList, NoDup
<1>4. p \in Ptr /\ NONE \notin App
  BY <1>1, <1>3, SemaphoreAssumption DEF Ptr
<1>5. PICK w : w = Walk(p, nx)
  OBVIOUS
<1>6. w[0] = p /\ \A i \in 1..N : w[i] = IF w[i - 1] = NONE THEN NONE ELSE nx[w[i - 1]]
  BY <1>2, <1>4, <1>5, WalkIs DEF Steps
<1>7. IsFiniteSet(1..n) /\ Cardinality(1..n) = n
  BY FS_Interval
<1>8. n <= N
  <2>1. q \in Injection(1..n, App)
    BY <1>1, <1>3 DEF Injection, IsInjective
  <2>. QED BY <1>2, <1>7, <2>1, SemaphoreAssumption, FS_Injection
<1>9. Cardinality(Members(q)) = n
  <2>1. q \in Bijection(1..n, Members(q))
    <3>1. q \in [1..n -> Members(q)]
      BY <1>1 DEF Members
    <3>2. q \in Injection(1..n, Members(q))
      BY <1>3, <3>1 DEF Injection, IsInjective
    <3>3. q \in Surjection(1..n, Members(q))
      BY <1>1, <3>1 DEF Surjection, Members
    <3>. QED BY <3>2, <3>3 DEF Bijection
  <2>2. ExistsBijection(1..n, Members(q))
    BY <2>1 DEF ExistsBijection
  <2>. QED BY <1>7, <2>2, FS_Bijection
<1>. DEFINE At(i) == w[i] = IF i < n THEN q[n - i] ELSE NONE
            T == {i \in 0..N : ~At(i)}
<1>10. ASSUME T # {} PROVE FALSE
  <2>1. T \in SUBSET Nat
    OBVIOUS
  <2>2. PICK m \in T : \A l \in T : m <= l
    <3>. HIDE DEF T
    <3>. QED BY <1>10, <2>1, LeastOf
  <2>3. m \in 0..N /\ ~At(m)
    BY <2>2
  <2>4. m # 0
    BY <1>3, <1>6, <2>3
  <2>5. PICK j \in Nat : m = j + 1 /\ j \in 0..N /\ m \in 1..N /\ j = m - 1
    BY <2>3, <2>4
  <2>6. At(j)
    BY <2>2, <2>5
  <2>7. w[m] = IF w[j] = NONE THEN NONE ELSE nx[w[j]]
    BY <1>6, <2>5
  <2>8. CASE j < n
    <3>1. PICK x \in 1..n : x = n - j
      BY <2>5, <2>8
    <3>2. w[j] = q[x] /\ q[x] \in App
      BY <1>1, <2>6, <2>8, <3>1
    <3>3. w[m] = IF x = 1 THEN NONE ELSE q[x - 1]
      BY ONLY <1>3, <1>4, <2>7, <3>2, x \in 1..n
    <3>4. (m < n <=> x # 1) /\ x - 1 = n - m
      BY <2>5, <3>1
    <3>. QED BY ONLY <2>3, <3>3, <3>4
  <2>9. CASE ~(j < n)
    <3>1. w[m] = NONE /\ ~(m < n)
      BY <2>5, <2>6, <2>7, <2>9
    <3>. QED BY <2>3, <3>1
  <2>. QED BY <2>8, <2>9
<1>11. \A i \in 0..N : w[i] = IF i < n THEN q[n - i] ELSE NONE
  BY <1>10
<1>. HIDE DEF T, At
<1>12. Linked(p, nx) = Members(q)
  <2>1. Linked(p, nx) = {w[i] : i \in 0..N} \ {NONE}
    BY <1>2, <1>5 DEF Linked
  <2>2. ASSUME NEW x \in Linked(p, nx) PROVE x \in Members(q)
    <3>1. PICK i \in 0..N : x = w[i] /\ x # NONE
      BY <2>1, <2>2
    <3>2. n - i \in 1..n /\ x = q[n - i]
      BY <1>11, <3>1
    <3>. QED BY <1>1, <3>2 DEF Members
  <2>3. ASSUME NEW x \in Members(q) PROVE x \in Linked(p, nx)
    <3>1. PICK i \in 1..n : x = q[i] /\ x \in App
      BY <1>1 DEF Members
    <3>2. PICK j \in 0..N : j = n - i /\ j < n /\ n - j = i
      BY <1>8, <3>1
    <3>3. w[j] = x
      BY <1>11, <3>1, <3>2
    <3>. QED BY <1>4, <2>1, <3>1, <3>3
  <2>. QED BY <2>2, <2>3
<1>13. Ends(p, nx)
  <2>1. w[N] = NONE
    BY <1>8, <1>11
  <2>. QED BY <1>2, <1>5, <2>1 DEF Ends
<1>14. WaitOrder(p, nx) = q
  <2>1. WaitOrder(p, nx) = [i \in 1..n |-> w[n - i]]
    BY <1>5, <1>9, <1>12 DEF WaitOrder
  <2>2. ASSUME NEW i \in 1..n PROVE w[n - i] = q[i]
    <3>1. PICK j \in 0..N : j = n - i /\ j < n /\ n - j = i
      BY <1>8
    <3>. QED BY <1>11, <3>1
  <2>3. q = [i \in 1..n |-> q[i]]
    BY <1>1
  <2>. QED BY ONLY <2>1, <2>2, <2>3
<1>. QED BY <1>12, <1>13, <1>14

\* The list without members.
LEMMA EmptyList ==
    ASSUME NEW nx PROVE IsList(<< >>, NONE, nx) /\ Members(<< >>) = {}
BY DEF IsList, NoDup, Members

\* A list depends on the pointers of its members only.
LEMMA ListFrame ==
    ASSUME NEW p, NEW q, NEW nx, NEW ny, IsList(q, p, nx), \A c \in Members(q) : ny[c] = nx[c]
    PROVE  IsList(q, p, ny)
<1>1. \A i \in DOMAIN q : q[i] \in Members(q)
  BY DEF Members
<1>. QED BY <1>1 DEF IsList

\* evs_set links an application at the front: it waits last.
LEMMA PushList ==
    ASSUME NEW nx \in [App -> Ptr], NEW p, NEW q, IsList(q, p, nx), NEW a \in App \ Members(q)
    PROVE  IsList(Append(q, a), a, [nx EXCEPT ![a] = p])
<1>1. PICK n \in Nat : n = Len(q) /\ DOMAIN q = 1..n /\ q \in [1..n -> App]
  BY DEF IsList
<1>2. PICK r : r = Append(q, a)
  OBVIOUS
<1>3. /\ Len(r) = n + 1 /\ DOMAIN r = 1..(n + 1) /\ r[n + 1] = a
      /\ \A i \in 1..n : r[i] = q[i]
      /\ r # << >>
  BY <1>1, <1>2 DEF IsList
<1>4. r \in Seq(App) /\ NoDup(r)
  BY <1>2, AppendMembers DEF IsList
<1>5. p = IF n = 0 THEN NONE ELSE q[n]
  <2>1. q = << >> <=> n = 0
    BY <1>1 DEF IsList
  <2>. QED BY <1>1, <2>1 DEF IsList
<1>6. \A i \in 1..n : q[i] # a /\ q[i] \in App /\ nx[q[i]] = IF i = 1 THEN NONE ELSE q[i - 1]
  BY <1>1 DEF IsList, Members
<1>. DEFINE ny == [nx EXCEPT ![a] = p]
<1>7. ny[a] = p /\ \A c \in App : c # a => ny[c] = nx[c]
  OBVIOUS
<1>. HIDE DEF ny
<1>8. ASSUME NEW i \in 1..(n + 1) PROVE ny[r[i]] = IF i = 1 THEN NONE ELSE r[i - 1]
  <2>1. CASE i = n + 1
    <3>1. n = 0 \/ n \in 1..n
      OBVIOUS
    <3>2. i - 1 = n /\ (i = 1 <=> n = 0)
      BY <2>1
    <3>. QED BY <1>3, <1>5, <1>7, <2>1, <3>1, <3>2
  <2>2. CASE i # n + 1
    <3>1. i \in 1..n /\ (i = 1 \/ i - 1 \in 1..n)
      BY <2>2
    <3>. QED BY <1>3, <1>6, <1>7, <3>1
  <2>. QED BY <2>1, <2>2
<1>. QED BY <1>2, <1>3, <1>4, <1>8 DEF IsList, ny

\* Taking one element out of a queue, by its place.
LEMMA CutIs ==
    ASSUME NEW q \in Seq(App), NoDup(q), NEW i \in DOMAIN q
    PROVE  /\ RmvLstElm(q, q[i]) = [j \in 1..(Len(q) - 1) |-> IF j < i THEN q[j] ELSE q[j + 1]]
           /\ i = 1 => RmvLstElm(q, q[i]) = Tail(q)
<1>1. (CHOOSE l \in DOMAIN q : q[l] = q[i]) = i
  BY DEF NoDup
<1>2. q[i] \in Members(q)
  BY DEF Members
<1>3. RmvLstElm(q, q[i]) = [j \in 1..(Len(q) - 1) |-> IF j < i THEN q[j] ELSE q[j + 1]]
  BY <1>1, <1>2 DEF RmvLstElm
<1>4. ASSUME i = 1 PROVE [j \in 1..(Len(q) - 1) |-> IF j < i THEN q[j] ELSE q[j + 1]] = Tail(q)
  <2>1. Tail(q) = [j \in 1..(Len(q) - 1) |-> q[j + 1]]
    <3>1. q # << >>
      BY <1>4
    <3>2. Tail(q) \in Seq(App) /\ Len(Tail(q)) = Len(q) - 1
      BY <3>1
    <3>3. Tail(q) = [j \in 1..(Len(q) - 1) |-> Tail(q)[j]]
      <4>1. PICK r, n : r = Tail(q) /\ n = Len(q) - 1
        OBVIOUS
      <4>2. r \in Seq(App) /\ Len(r) = n
        BY <3>2, <4>1
      <4>3. r \in [1..n -> App]
        BY ONLY <4>2
      <4>4. r = [j \in 1..n |-> r[j]]
        BY ONLY <4>3
      <4>. QED BY <4>1, <4>4
    <3>4. \A j \in 1..(Len(q) - 1) : Tail(q)[j] = q[j + 1]
      BY <3>1
    <3>. QED BY ONLY <3>3, <3>4
  <2>2. \A j \in 1..(Len(q) - 1) : ~(j < i)
    BY <1>4
  <2>. QED BY ONLY <2>1, <2>2
<1>. QED BY <1>3, <1>4

\* rmv_ap_sem and free_semaphore set the pointer to an element to its own
\* pointer: the element is out of the list, the order of the others stays.
LEMMA UnlinkList ==
    ASSUME NEW nx \in [App -> Ptr], NEW p, NEW q, IsList(q, p, nx), NEW b \in Members(q)
    PROVE  /\ p = b => IsList(RmvLstElm(q, b), nx[b], nx)
           /\ \A c : p # b /\ c = (CHOOSE x \in Members(q) : nx[x] = b) =>
                 c \in Members(q) /\ IsList(RmvLstElm(q, b), p, [nx EXCEPT ![c] = nx[b]])
<1>1. PICK n \in Nat : n = Len(q) /\ DOMAIN q = 1..n /\ q \in [1..n -> App] /\ q \in Seq(App)
  BY DEF IsList
<1>2. PICK i \in 1..n : q[i] = b
  BY <1>1 DEF Members
<1>3. /\ p = q[n] /\ n \in 1..n
      /\ \A j \in 1..n : q[j] \in App /\ nx[q[j]] = IF j = 1 THEN NONE ELSE q[j - 1]
      /\ \A j, l \in 1..n : q[j] = q[l] => j = l
      /\ NoDup(q)
  BY <1>1, <1>2 DEF IsList, NoDup
<1>4. PICK r : r = RmvLstElm(q, b)
  OBVIOUS
<1>5. r = [j \in 1..(n - 1) |-> IF j < i THEN q[j] ELSE q[j + 1]]
  BY <1>1, <1>2, <1>3, <1>4, CutIs
<1>6. r \in Seq(App) /\ NoDup(r) /\ Members(r) = Members(q) \ {b}
  BY <1>1, <1>3, <1>4, RmvMembers
<1>7. Len(r) = n - 1 /\ DOMAIN r = 1..(n - 1) /\ (r = << >> <=> n = 1)
  <2>1. DOMAIN r = 1..(n - 1)
    BY ONLY <1>5
  <2>2. Len(r) \in Nat /\ DOMAIN r = 1..Len(r)
    BY <1>6
  <2>3. Len(r) = n - 1
    BY <1>2, <2>1, <2>2
  <2>. QED BY <1>6, <2>1, <2>3
<1>8. \A j \in 1..(n - 1) : r[j] = IF j < i THEN q[j] ELSE q[j + 1]
  BY ONLY <1>5
<1>9. ASSUME p = b PROVE IsList(r, nx[b], nx)
  <2>1. i = n
    BY <1>2, <1>3, <1>9
  <2>2. nx[b] = IF r = << >> THEN NONE ELSE r[Len(r)]
    <3>1. CASE n = 1
      BY <1>2, <1>3, <1>7, <2>1, <3>1
    <3>2. CASE n # 1
      <4>1. n - 1 \in 1..(n - 1) /\ n - 1 < i
        BY <1>2, <2>1, <3>2
      <4>2. r[n - 1] = q[n - 1]
        BY <1>8, <4>1
      <4>. QED BY <1>2, <1>3, <1>7, <2>1, <3>2, <4>2
    <3>. QED BY <3>1, <3>2
  <2>3. ASSUME NEW j \in 1..(n - 1) PROVE nx[r[j]] = IF j = 1 THEN NONE ELSE r[j - 1]
    <3>1. r[j] = q[j] /\ j \in 1..n
      BY <1>8, <2>1
    <3>2. j # 1 => r[j - 1] = q[j - 1]
      BY <1>8, <2>1
    <3>. QED BY <1>3, <3>1, <3>2
  <2>. QED BY <1>6, <1>7, <2>2, <2>3 DEF IsList
<1>10. ASSUME p # b, NEW c, c = CHOOSE x \in Members(q) : nx[x] = b
       PROVE  c \in Members(q) /\ IsList(r, p, [nx EXCEPT ![c] = nx[b]])
  <2>1. PICK m \in 1..n : m = i + 1 /\ i = m - 1 /\ m # 1
    BY <1>2, <1>3, <1>10
  <2>2. q[m] \in Members(q) /\ nx[q[m]] = b
    BY <1>1, <1>2, <1>3, <2>1 DEF Members
  <2>3. \A x \in Members(q) : nx[x] = b => x = q[m]
    <3>1. ASSUME NEW l \in 1..n, nx[q[l]] = b PROVE l = m
      <4>1. l # 1
        BY <1>2, <1>3, <3>1, SemaphoreAssumption
      <4>2. l - 1 \in 1..n /\ q[l - 1] = q[i]
        BY <1>2, <1>3, <3>1, <4>1
      <4>3. l - 1 = i
        BY <1>3, <4>2
      <4>. QED BY <2>1, <4>3
    <3>. QED BY <1>1, <3>1 DEF Members
  <2>4. c = q[m]
    BY <1>10, <2>2, <2>3
  <2>5. PICK ny : ny = [nx EXCEPT ![c] = nx[b]]
    OBVIOUS
  <2>6. ny[q[m]] = nx[q[i]] /\ \A x \in App : x # q[m] => ny[x] = nx[x]
    BY <1>2, <1>3, <2>4, <2>5
  <2>7. n # 1 /\ n - 1 \in 1..(n - 1) /\ ~(n - 1 < i) /\ (n - 1) + 1 = n
    BY <2>1
  <2>8. p = IF r = << >> THEN NONE ELSE r[Len(r)]
    BY <1>3, <1>7, <1>8, <2>7
  <2>9. ASSUME NEW j \in 1..(n - 1) PROVE ny[r[j]] = IF j = 1 THEN NONE ELSE r[j - 1]
    <3>1. CASE j < i
      <4>1. r[j] = q[j] /\ j \in 1..n /\ j # m
        BY <1>8, <2>1, <3>1
      <4>2. ny[r[j]] = nx[q[j]]
        BY <1>3, <2>6, <4>1
      <4>3. j # 1 => r[j - 1] = q[j - 1]
        BY <1>8, <3>1
      <4>. QED BY <1>3, <4>1, <4>2, <4>3
    <3>2. CASE j = i
      <4>1. r[j] = q[m]
        BY <1>8, <2>1, <3>2
      <4>2. j # 1 => r[j - 1] = q[j - 1]
        BY <1>8, <3>2
      <4>. QED BY <1>3, <2>6, <3>2, <4>1, <4>2
    <3>3. CASE j > i
      <4>1. PICK l \in 1..n : l = j + 1 /\ l # 1 /\ l # m /\ l - 1 = j
        BY <2>1, <3>3
      <4>2. r[j] = q[l]
        BY <1>8, <3>3, <4>1
      <4>3. ny[r[j]] = q[j]
        BY <1>3, <2>6, <4>1, <4>2
      <4>4. j # 1 /\ j - 1 \in 1..(n - 1) /\ ~(j - 1 < i) /\ (j - 1) + 1 = j
        BY <1>2, <3>3
      <4>5. r[j - 1] = q[j]
        BY <1>8, <4>4
      <4>. QED BY <4>3, <4>4, <4>5
    <3>. QED BY <3>1, <3>2, <3>3
  <2>. QED BY <1>6, <1>7, <2>2, <2>4, <2>5, <2>8, <2>9 DEF IsList
<1>. QED BY <1>4, <1>9, <1>10

-----------------------------------------------------------------------------
(* Unlinking and waking up *)

StType == [k: KState, bl: [Sem -> Blockage], nxtsem: [App -> Ptr]]

\* semaphore s of u is as in st, apart from its waiting list
SameBl(u, st, s) ==
    /\ u.bl[s].app = st.bl[s].app /\ u.bl[s].pd = st.bl[s].pd
    /\ u.bl[s].cnt = st.bl[s].cnt /\ u.bl[s].valid = st.bl[s].valid

\* Unlinking one element of the list of s changes nothing else.
LEMMA SetLinkToOK ==
    ASSUME NEW st \in StType, NEW s \in Sem, NEW q, IsList(q, st.bl[s].waiting, st.nxtsem),
           NEW b \in Members(q), NEW u, u = SetLinkTo(st, s, b, st.nxtsem[b])
    PROVE  /\ u \in StType /\ u.k = st.k /\ SameBl(u, st, s)
           /\ IsList(RmvLstElm(q, b), u.bl[s].waiting, u.nxtsem)
           /\ \A t \in Sem \ {s} : u.bl[t] = st.bl[t]
           /\ \A c \in App \ Members(q) : u.nxtsem[c] = st.nxtsem[c]
<1>1. PICK p, nx : p = st.bl[s].waiting /\ nx = st.nxtsem
  OBVIOUS
<1>2. nx \in [App -> Ptr] /\ st.bl \in [Sem -> Blockage] /\ st.k \in KState /\ IsList(q, p, nx)
  BY <1>1 DEF StType
<1>3. b \in App /\ Members(q) \subseteq App /\ nx[b] \in Ptr
  BY <1>2 DEF IsList, Members
<1>4. Linked(p, nx) = Members(q)
  BY <1>2, ListWalk
<1>5. CASE p = b
  <2>1. u = [st EXCEPT !.bl[s].waiting = nx[b]]
    BY <1>1, <1>5 DEF SetLinkTo
  <2>2. /\ u.k = st.k /\ u.nxtsem = nx /\ u.bl = [st.bl EXCEPT ![s].waiting = nx[b]]
        /\ u = [k |-> u.k, bl |-> u.bl, nxtsem |-> u.nxtsem]
    BY <1>1, <2>1 DEF StType
  <2>3. /\ u.bl \in [Sem -> Blockage] /\ u.bl[s].waiting = nx[b] /\ SameBl(u, st, s)
        /\ \A t \in Sem \ {s} : u.bl[t] = st.bl[t]
    BY <1>2, <1>3, <2>2 DEF Blockage, SameBl
  <2>4. IsList(RmvLstElm(q, b), nx[b], nx)
    BY <1>2, <1>5, UnlinkList
  <2>5. u \in StType
    BY <1>2, <2>2, <2>3 DEF StType
  <2>. QED BY <1>1, <2>2, <2>3, <2>4, <2>5
<1>6. CASE p # b
  <2>1. PICK c : c = CHOOSE x \in Members(q) : nx[x] = b
    OBVIOUS
  <2>2. u = [st EXCEPT !.nxtsem[c] = nx[b]]
    BY <1>1, <1>4, <1>6, <2>1 DEF SetLinkTo
  <2>3. c \in Members(q) /\ IsList(RmvLstElm(q, b), p, [nx EXCEPT ![c] = nx[b]])
    BY <1>2, <1>6, <2>1, UnlinkList
  <2>4. /\ u.k = st.k /\ u.bl = st.bl /\ u.nxtsem = [nx EXCEPT ![c] = nx[b]]
        /\ u = [k |-> u.k, bl |-> u.bl, nxtsem |-> u.nxtsem]
    BY <1>1, <2>2 DEF StType
  <2>5. u.nxtsem \in [App -> Ptr] /\ \A x \in App \ Members(q) : u.nxtsem[x] = nx[x]
    BY <1>2, <1>3, <2>3, <2>4
  <2>6. u \in StType
    BY <1>2, <2>4, <2>5 DEF StType
  <2>. QED BY <1>1, <2>3, <2>4, <2>5, <2>6 DEF SameBl
<1>. QED BY <1>5, <1>6

\* the lists of the kernel state are right and who is suspended waits for nothing
KOK(n, L) ==
    /\ n \in KState /\ ListsMatch(n, L)
    /\ \A a \in App : n.status[a] = "SUSPENDED" => n.rbits[a] = {}

\* u is what n becomes when the applications in M get event EV_SEM
Woken(n, u, M, L) ==
    /\ KOK(u, L)
    /\ u.rbits = n.rbits
    /\ \A a \in App : u.hbits[a] = IF a \in M THEN n.hbits[a] \cup {SEM} ELSE n.hbits[a]
    /\ \A a \in App : u.status[a] = n.status[a] \/ (a \in M /\ u.status[a] = "READY")
    /\ n.ready # << >> => u.ready # << >> /\ Act(u) = Act(n)

\* Nobody is woken up.
LEMMA WokenNone ==
    ASSUME NEW n, NEW L, KOK(n, L) PROVE Woken(n, n, {}, L)
BY DEF Woken

\* event_happened wakes one more application up.
LEMMA WakeOne ==
    ASSUME NEW n \in KState, NEW L \in SUBSET App, NEW u, NEW M, Woken(n, u, M, L), NEW b \in L
    PROVE  Woken(n, EventHappened(u, b, SEM), M \cup {b}, L)
<1>1. PICK v : v = EventHappened(u, b, SEM)
  OBVIOUS
<1>2. u \in KState /\ ListsMatch(u, L) /\ (u.status[b] = "SUSPENDED" => u.rbits[b] = {}) /\ SEM \in Event
  BY SemaphoreAssumption DEF Woken, KOK
<1>3. /\ v \in KState /\ ListsMatch(v, L)
      /\ v.rbits = u.rbits
      /\ v.hbits = [u.hbits EXCEPT ![b] = @ \cup {SEM}]
      /\ v.status = [u.status EXCEPT ![b] = "READY"] \/ v.status = u.status
      /\ u.ready # << >> => v.ready # << >> /\ Act(v) = Act(u)
  BY <1>1, <1>2, EventHappenedOK
<1>4. u.hbits \in [App -> SUBSET Event] /\ u.status \in [App -> Status]
  BY <1>2 DEF KState
<1>5. \A a \in App : v.status[a] = u.status[a] \/ (a = b /\ v.status[a] = "READY")
  BY <1>3, <1>4
<1>6. \A a \in App : v.hbits[a] = IF a = b THEN u.hbits[a] \cup {SEM} ELSE u.hbits[a]
  BY <1>3, <1>4
<1>7. KOK(v, L)
  BY <1>3, <1>5 DEF Woken, KOK
<1>8. \A a \in App : v.hbits[a] = IF a \in M \cup {b} THEN n.hbits[a] \cup {SEM} ELSE n.hbits[a]
  BY <1>6 DEF Woken
<1>9. \A a \in App : v.status[a] = n.status[a] \/ (a \in M \cup {b} /\ v.status[a] = "READY")
  BY <1>5 DEF Woken
<1>10. v.rbits = n.rbits /\ (n.ready # << >> => v.ready # << >> /\ Act(v) = Act(n))
  BY <1>3 DEF Woken
<1>. QED BY <1>1, <1>7, <1>8, <1>9, <1>10 DEF Woken

-----------------------------------------------------------------------------
(* free_semaphore *)

\* the applications that wait longest for the semaphores in S
Heads(S, Q) == {Q[s][1] : s \in {t \in S : Q[t] # << >>}}

Rest(q) == IF q = << >> THEN q ELSE Tail(q)

\* an application waits in one place only
Apart(Q) == \A s, t \in Sem : s # t => Members(Q[s]) \cap Members(Q[t]) = {}

\* semaphore s of u is what it was in st, given to the first one of q
GivenTo(st, u, s, q) ==
    /\ u.bl[s].valid = st.bl[s].valid
    /\ q = << >> => u.bl[s].app = NONE /\ u.bl[s].cnt = st.bl[s].cnt
    /\ q # << >> => /\ u.bl[s].app = q[1] /\ u.bl[s].pd = q[1]
                    /\ u.bl[s].cnt = IF s = SCR THEN 1 ELSE 0
    /\ IsList(Rest(q), u.bl[s].waiting, u.nxtsem)

\* semaphore s of u, with waiting list q, is what it was in st
Kept(st, u, s, q) == u.bl[s] = st.bl[s] /\ IsList(q, u.bl[s].waiting, u.nxtsem)

\* u is what st becomes when the semaphores in S, with the queues Q, are freed
Freed(st, u, S, Q, L) ==
    /\ u \in StType
    /\ Woken(st.k, u.k, Heads(S, Q), L)
    /\ \A s \in S : GivenTo(st, u, s, Q[s])
    /\ \A s \in Sem \ S : Kept(st, u, s, Q[s])

\* Semaphores whose lists do not change stay what they are.
LEMMA OthersStay ==
    ASSUME NEW st, NEW u, NEW v, NEW t, NEW q, v.bl[t] = u.bl[t],
           \A c \in Members(q) : v.nxtsem[c] = u.nxtsem[c]
    PROVE  /\ Kept(st, u, t, q) => Kept(st, v, t, q)
           /\ (\A c \in Members(Rest(q)) : c \in Members(q)) /\ GivenTo(st, u, t, q) =>
                 GivenTo(st, v, t, q)
<1>1. ASSUME Kept(st, u, t, q) PROVE Kept(st, v, t, q)
  BY <1>1, ListFrame DEF Kept
<1>2. ASSUME \A c \in Members(Rest(q)) : c \in Members(q), GivenTo(st, u, t, q)
      PROVE  GivenTo(st, v, t, q)
  <2>1. IsList(Rest(q), u.bl[t].waiting, v.nxtsem)
    <3>1. IsList(Rest(q), u.bl[t].waiting, u.nxtsem)
      BY <1>2 DEF GivenTo
    <3>2. \A c \in Members(Rest(q)) : v.nxtsem[c] = u.nxtsem[c]
      BY <1>2
    <3>. QED BY <3>1, <3>2, ListFrame
  <2>. QED BY <1>2, <2>1 DEF GivenTo
<1>. QED BY <1>1, <1>2

\* A queue and what is left of it without its first element.
LEMMA RestOf ==
    ASSUME NEW q \in Seq(App), NoDup(q)
    PROVE  /\ Rest(q) \in Seq(App)
           /\ q # << >> => /\ q[1] = Head(q) /\ q[1] \in Members(q) /\ q[1] \in App
                           /\ Rest(q) = RmvLstElm(q, q[1])
                           /\ Members(Rest(q)) = Members(q) \ {q[1]}
           /\ \A c \in Members(Rest(q)) : c \in Members(q)
<1>1. CASE q = << >>
  BY <1>1 DEF Rest
<1>2. CASE q # << >>
  <2>1. q[1] = Head(q) /\ 1 \in DOMAIN q
    BY <1>2
  <2>2. RmvLstElm(q, q[1]) = Tail(q)
    BY <2>1, CutIs
  <2>3. /\ Tail(q) \in Seq(App) /\ Head(q) \in Members(q) /\ Head(q) \in App
        /\ Members(Tail(q)) = Members(q) \ {Head(q)}
    BY <1>2, TailMembers
  <2>. QED BY <1>2, <2>1, <2>2, <2>3 DEF Rest
<1>. QED BY <1>1, <1>2

\* How an array of the BLOCKAGEs changes when one of them does.
LEMMA OneBl ==
    ASSUME NEW f \in [Sem -> Blockage], NEW s \in Sem, NEW r \in Blockage, NEW g, g = [f EXCEPT ![s] = r]
    PROVE  g \in [Sem -> Blockage] /\ g[s] = r /\ \A t \in Sem \ {s} : g[t] = f[t]
OBVIOUS

\* What one application was told about one semaphore changes.
LEMMA OneHeld ==
    ASSUME NEW h \in [App -> [Sem -> 0..MaxNest]], NEW a \in App, NEW s \in Sem,
           NEW x \in 0..MaxNest, NEW g, g = [h EXCEPT ![a][s] = x]
    PROVE  /\ g \in [App -> [Sem -> 0..MaxNest]] /\ g[a][s] = x
           /\ \A b \in App, t \in Sem : (b # a \/ t # s) => g[b][t] = h[b][t]
OBVIOUS

\* A BLOCKAGE without an owner, and one with a new owner.
LEMMA ClearApp ==
    ASSUME NEW f \in [Sem -> Blockage], NEW s \in Sem, NEW g, g = [f EXCEPT ![s].app = NONE]
    PROVE  /\ g \in [Sem -> Blockage] /\ g[s].app = NONE /\ g[s].cnt = f[s].cnt
           /\ g[s].valid = f[s].valid /\ g[s].waiting = f[s].waiting
           /\ \A t \in Sem \ {s} : g[t] = f[t]
<1>1. f[s] \in Blockage /\ NONE \in Ptr
  BY DEF Ptr
<1>2. PICK r : r = [f[s] EXCEPT !.app = NONE]
  OBVIOUS
<1>3. /\ r \in Blockage /\ r.app = NONE /\ r.cnt = f[s].cnt /\ r.valid = f[s].valid
      /\ r.waiting = f[s].waiting
  BY <1>1, <1>2 DEF Blockage
<1>4. g = [f EXCEPT ![s] = r]
  BY <1>2
<1>. QED BY ONLY <1>3, <1>4, f \in [Sem -> Blockage], s \in Sem

WithOwner(f, s, b, c) == [f EXCEPT ![s].app = b, ![s].pd = b, ![s].cnt = c]

\* A BLOCKAGE gets an owner, as free_semaphore sets it.
LEMMA SetOwner ==
    ASSUME NEW f \in [Sem -> Blockage], NEW s \in Sem, NEW b \in App, NEW c \in 0..MaxNest,
           NEW g, g = WithOwner(f, s, b, c)
    PROVE  /\ g \in [Sem -> Blockage] /\ g[s].app = b /\ g[s].pd = b /\ g[s].cnt = c
           /\ g[s].valid = f[s].valid /\ g[s].waiting = f[s].waiting
           /\ \A t \in Sem \ {s} : g[t] = f[t]
<1>1. f[s] \in Blockage /\ b \in Ptr
  BY DEF Ptr
<1>2. PICK r : r = [f[s] EXCEPT !.app = b, !.pd = b, !.cnt = c]
  OBVIOUS
<1>3. /\ r \in Blockage /\ r.app = b /\ r.pd = b /\ r.cnt = c /\ r.valid = f[s].valid
      /\ r.waiting = f[s].waiting
  BY <1>1, <1>2 DEF Blockage
<1>4. g = [f EXCEPT ![s] = r]
  BY <1>2 DEF WithOwner
<1>. QED BY ONLY <1>3, <1>4, f \in [Sem -> Blockage], s \in Sem

\* free_semaphore hands one more semaphore over.
LEMMA FreeStep ==
    ASSUME NEW st \in StType, NEW u, NEW S \in SUBSET Sem, NEW Q, NEW L \in SUBSET App,
           Freed(st, u, S, Q, L), NEW s \in Sem \ S, Apart(Q),
           \A t \in Sem : Q[t] \in Seq(App) /\ NoDup(Q[t]) /\ Members(Q[t]) \subseteq L
    PROVE  Freed(st, FreeSemaphore(u, s), S \cup {s}, Q, L)
<1>1. PICK q, p, v : q = Q[s] /\ p = u.bl[s].waiting /\ v = FreeSemaphore(u, s)
  OBVIOUS
<1>2. /\ u \in StType /\ u.bl[s] = st.bl[s] /\ IsList(q, p, u.nxtsem)
      /\ q \in Seq(App) /\ NoDup(q) /\ Members(q) \subseteq L
      /\ st.k \in KState
  BY <1>1 DEF Freed, Kept, StType
<1>3. /\ u.nxtsem \in [App -> Ptr] /\ u.k \in KState /\ u.bl \in [Sem -> Blockage]
      /\ u = [k |-> u.k, bl |-> u.bl, nxtsem |-> u.nxtsem]
  BY <1>2 DEF StType
<1>4. WaitOrder(p, u.nxtsem) = q
  BY <1>2, <1>3, ListWalk
<1>5. p = NONE <=> q = << >>
  BY <1>2, SemaphoreAssumption DEF IsList
<1>6. \A t \in S \cup {s} : t # s => t \in S
  OBVIOUS
<1>7. CASE q = << >>
  <2>1. v = [u EXCEPT !.bl[s].app = NONE]
    BY <1>1, <1>5, <1>7 DEF FreeSemaphore
  <2>2. /\ v.k = u.k /\ v.nxtsem = u.nxtsem /\ v.bl = [u.bl EXCEPT ![s].app = NONE]
        /\ v = [k |-> v.k, bl |-> v.bl, nxtsem |-> v.nxtsem]
    BY <1>3, <2>1
  <2>3. /\ v.bl \in [Sem -> Blockage] /\ v.bl[s].app = NONE /\ v.bl[s].cnt = u.bl[s].cnt
        /\ v.bl[s].valid = u.bl[s].valid /\ v.bl[s].waiting = u.bl[s].waiting
        /\ \A t \in Sem \ {s} : v.bl[t] = u.bl[t]
    BY <1>3, <2>2, ClearApp
  <2>4. v \in StType
    BY <1>3, <2>2, <2>3 DEF StType
  <2>5. GivenTo(st, v, s, Q[s])
    <3>1. IsList(Rest(q), v.bl[s].waiting, v.nxtsem)
      BY <1>1, <1>2, <1>7, <2>2, <2>3 DEF Rest
    <3>. QED BY <1>1, <1>2, <1>7, <2>3, <3>1 DEF GivenTo
  <2>6. \A t \in S : GivenTo(st, v, t, Q[t])
    BY <2>2, <2>3, OthersStay, RestOf DEF Freed
  <2>7. \A t \in Sem \ (S \cup {s}) : Kept(st, v, t, Q[t])
    BY <2>2, <2>3, OthersStay DEF Freed
  <2>8. Heads(S \cup {s}, Q) = Heads(S, Q)
    BY <1>1, <1>7 DEF Heads
  <2>. QED BY <1>1, <1>6, <2>2, <2>4, <2>5, <2>6, <2>7, <2>8 DEF Freed
<1>8. CASE q # << >>
  <2>1. PICK b : b = q[1] /\ b = Head(q) /\ b \in App /\ b \in Members(q) /\ b \in L
                 /\ Rest(q) = RmvLstElm(q, b)
    BY <1>2, <1>8, RestOf
  <2>2. u.nxtsem[b] = NONE
    BY <1>2, <1>8, <2>1 DEF IsList
  <2>3. PICK w : w = SetLinkTo(u, s, b, u.nxtsem[b])
    OBVIOUS
  <2>4. /\ w \in StType /\ w.k = u.k /\ SameBl(w, u, s)
        /\ IsList(RmvLstElm(q, b), w.bl[s].waiting, w.nxtsem)
        /\ \A t \in Sem \ {s} : w.bl[t] = u.bl[t]
        /\ \A c \in App \ Members(q) : w.nxtsem[c] = u.nxtsem[c]
    BY <1>1, <1>2, <2>1, <2>3, SetLinkToOK
  <2>5. v = [w EXCEPT !.bl[s].app = b, !.bl[s].pd = b, !.bl[s].cnt = IF s = SCR THEN 1 ELSE 0,
                      !.k = EventHappened(u.k, b, SEM)]
    BY <1>1, <1>4, <1>5, <1>8, <2>1, <2>2, <2>3 DEF FreeSemaphore
  <2>6. /\ w.bl \in [Sem -> Blockage] /\ w.nxtsem \in [App -> Ptr]
        /\ w = [k |-> w.k, bl |-> w.bl, nxtsem |-> w.nxtsem]
    BY <2>4 DEF StType
  <2>7. /\ v.k = EventHappened(u.k, b, SEM) /\ v.nxtsem = w.nxtsem
        /\ v.bl = [w.bl EXCEPT ![s].app = b, ![s].pd = b, ![s].cnt = IF s = SCR THEN 1 ELSE 0]
        /\ v = [k |-> v.k, bl |-> v.bl, nxtsem |-> v.nxtsem]
    BY <2>5, <2>6
  <2>8. PICK c : c = (IF s = SCR THEN 1 ELSE 0) /\ c \in 0..MaxNest
    BY SemaphoreAssumption
  <2>9. /\ v.bl \in [Sem -> Blockage] /\ v.bl[s].app = b /\ v.bl[s].pd = b
        /\ v.bl[s].cnt = c
        /\ v.bl[s].valid = w.bl[s].valid /\ v.bl[s].waiting = w.bl[s].waiting
        /\ \A t \in Sem \ {s} : v.bl[t] = w.bl[t]
    <3>1. v.bl = WithOwner(w.bl, s, b, c)
      BY ONLY <2>7, <2>8 DEF WithOwner
    <3>2. PICK f, g : f = w.bl /\ g = v.bl
      OBVIOUS
    <3>3. g = WithOwner(f, s, b, c) /\ f \in [Sem -> Blockage]
      BY ONLY <2>6, <3>1, <3>2
    <3>4. s \in Sem /\ b \in App /\ c \in 0..MaxNest
      BY <2>1, <2>8
    <3>5. /\ g \in [Sem -> Blockage] /\ g[s].app = b /\ g[s].pd = b /\ g[s].cnt = c
          /\ g[s].valid = f[s].valid /\ g[s].waiting = f[s].waiting
          /\ \A t \in Sem \ {s} : g[t] = f[t]
      BY ONLY <3>3, <3>4, SetOwner
    <3>. QED BY ONLY <3>2, <3>5
  <2>10. Woken(st.k, v.k, Heads(S, Q) \cup {b}, L)
    <3>1. PICK n, m, M : n = st.k /\ m = u.k /\ M = Heads(S, Q)
      OBVIOUS
    <3>2. n \in KState /\ Woken(n, m, M, L)
      BY <1>2, <3>1 DEF Freed
    <3>3. Woken(n, EventHappened(m, b, SEM), M \cup {b}, L)
      BY <2>1, <3>2, WakeOne
    <3>. QED BY <2>7, <3>1, <3>3
  <2>11. Heads(S \cup {s}, Q) = Heads(S, Q) \cup {b}
    BY <1>1, <1>8, <2>1 DEF Heads
  <2>12. v \in StType
    <3>1. v.k \in KState
      BY <2>10 DEF Woken, KOK
    <3>. QED BY <2>6, <2>7, <2>9, <3>1 DEF StType
  <2>13. GivenTo(st, v, s, Q[s])
    BY <1>1, <1>2, <1>8, <2>1, <2>4, <2>7, <2>8, <2>9 DEF GivenTo, SameBl
  <2>14. \A t \in Sem \ {s} : v.bl[t] = u.bl[t] /\ \A d \in Members(Q[t]) : v.nxtsem[d] = u.nxtsem[d]
    <3>1. \A t \in Sem \ {s} : v.bl[t] = u.bl[t]
      BY <2>4, <2>9
    <3>2. \A t \in Sem \ {s} : \A d \in Members(Q[t]) : d \in App /\ d \notin Members(q)
      BY <1>1 DEF Apart
    <3>3. \A d \in App \ Members(q) : v.nxtsem[d] = u.nxtsem[d]
      BY <2>4, <2>7
    <3>. QED BY ONLY <3>1, <3>2, <3>3
  <2>15. \A t \in S : GivenTo(st, v, t, Q[t])
    BY <2>14, OthersStay, RestOf DEF Freed
  <2>16. \A t \in Sem \ (S \cup {s}) : Kept(st, v, t, Q[t])
    BY <2>14, OthersStay DEF Freed
  <2>. QED BY <1>1, <1>6, <2>10, <2>11, <2>12, <2>13, <2>15, <2>16 DEF Freed
<1>. QED BY <1>7, <1>8

\* what SEM_FREE for one more semaphore makes of the states f for smaller sets
More(f, st, T) ==
    IF T = {} THEN st ELSE FreeSemaphore(f[T \ {CHOOSE x \in T : TRUE}], CHOOSE x \in T : TRUE)

\* Freeing a set of semaphores one by one hands each of them over once, in
\* whatever order.
LEMMA FreeMore ==
    ASSUME NEW st \in StType, NEW Q, NEW L \in SUBSET App, Apart(Q),
           \A t \in Sem : Q[t] \in Seq(App) /\ NoDup(Q[t]) /\ Members(Q[t]) \subseteq L,
           Freed(st, st, {}, Q, L), NEW T \in SUBSET Sem, NEW f,
           T # {} => LET x == CHOOSE x \in T : TRUE IN Freed(st, f[T \ {x}], T \ {x}, Q, L)
    PROVE  Freed(st, More(f, st, T), T, Q, L)
<1>1. CASE T = {}
  BY <1>1 DEF More
<1>2. CASE T # {}
  <2>1. PICK x : x = CHOOSE y \in T : TRUE
    OBVIOUS
  <2>2. x \in T
    BY <1>2, <2>1
  <2>3. PICK R : R = T \ {x}
    OBVIOUS
  <2>4. R \in SUBSET Sem /\ x \in Sem \ R /\ R \cup {x} = T
    BY <2>2, <2>3
  <2>5. Freed(st, f[R], R, Q, L)
    BY <1>2, <2>1, <2>3
  <2>6. More(f, st, T) = FreeSemaphore(f[R], x)
    BY <1>2, <2>1, <2>3 DEF More
  <2>7. Freed(st, FreeSemaphore(f[R], x), R \cup {x}, Q, L)
    BY <2>4, <2>5, FreeStep
  <2>. QED BY <2>4, <2>6, <2>7
<1>. QED BY <1>1, <1>2

\* A set of semaphores without one of them is smaller.
LEMMA Smaller ==
    ASSUME NEW T \in SUBSET Sem, T # {}, NEW n \in Nat, Cardinality(T) = n
    PROVE  LET x == CHOOSE y \in T : TRUE
           IN  /\ n # 0 /\ Cardinality(T \ {x}) \in Nat /\ Cardinality(T \ {x}) = n - 1
               /\ T \ {x} \in SUBSET Sem
<1>1. IsFiniteSet(Sem)
  BY SemaphoreAssumption, FS_AddElement, FS_Union, FS_Singleton DEF Sem
<1>2. IsFiniteSet(T)
  BY <1>1, FS_Subset
<1>3. PICK x : x = CHOOSE y \in T : TRUE
  OBVIOUS
<1>4. x \in T
  BY <1>3
<1>5. Cardinality(T \ {x}) = Cardinality(T) - 1
  BY <1>2, <1>4, FS_RemoveElement
<1>6. Cardinality(T) # 0
  BY <1>2, FS_EmptySet
<1>. QED BY <1>3, <1>5, <1>6

\* SEM_FREE for a set of semaphores.
LEMMA FreeAllOK ==
    ASSUME NEW st \in StType, NEW Q, NEW L \in SUBSET App, Apart(Q),
           \A t \in Sem : Q[t] \in Seq(App) /\ NoDup(Q[t]) /\ Members(Q[t]) \subseteq L,
           Freed(st, st, {}, Q, L), NEW S \in SUBSET Sem
    PROVE  Freed(st, FreeAll(st, S), S, Q, L)
<1>. DEFINE Upto(n) == {T \in SUBSET S : Cardinality(T) <= n}
            Good(f, n) == /\ f \in [Upto(n) -> StType]
                          /\ \A T \in Upto(n) : /\ f[T] = More(f, st, T)
                                                /\ Freed(st, f[T], T, Q, L)
<1>1. IsFiniteSet(S) /\ \A T \in SUBSET S : IsFiniteSet(T) /\ Cardinality(T) \in Nat
  <2>1. IsFiniteSet(Sem)
    BY SemaphoreAssumption, FS_AddElement, FS_Union, FS_Singleton DEF Sem
  <2>. QED BY <2>1, FS_Subset, FS_CardinalityType
<1>2. PICK N \in Nat : N = Cardinality(S)
  BY <1>1
<1>3. Upto(N) = SUBSET S
  BY <1>1, <1>2, FS_Subset
<1>4. \E f : Good(f, N)
  <2>. DEFINE B == {n \in 0..N : ~ \E f : Good(f, n)}
  <2>1. SUFFICES ASSUME B # {} PROVE FALSE
    <3>1. N \in 0..N
      OBVIOUS
    <3>. HIDE DEF Good
    <3>. QED BY <3>1
  <2>2. PICK n \in B : \A m \in B : n <= m
    <3>1. B \in SUBSET Nat
      OBVIOUS
    <3>. HIDE DEF B
    <3>. QED BY <2>1, <3>1, LeastOf
  <2>3. n \in 0..N /\ ~ \E f : Good(f, n)
    <3>. HIDE DEF Good
    <3>. QED BY <2>2
  <2>4. PICK f : n # 0 => Good(f, n - 1)
    <3>1. ASSUME n # 0 PROVE n - 1 \in 0..N /\ n - 1 \notin B
      <4>1. n - 1 \in 0..N /\ ~(n <= n - 1)
        BY <2>3, <3>1
      <4>. HIDE DEF B
      <4>. QED BY <2>2, <4>1
    <3>. HIDE DEF Good
    <3>2. ASSUME n # 0 PROVE \E f : Good(f, n - 1)
      BY <3>1, <3>2
    <3>. QED BY <3>2
  <2>. DEFINE h == [T \in Upto(n) |-> More(f, st, T)]
  <2>5. ASSUME NEW T \in Upto(n), T # {}, NEW x, x = CHOOSE y \in T : TRUE
        PROVE  /\ n # 0 /\ T \ {x} \in Upto(n - 1) /\ T \ {x} \in Upto(n)
               /\ Freed(st, f[T \ {x}], T \ {x}, Q, L)
               /\ f[T \ {x}] = h[T \ {x}]
    <3>1. PICK m \in Nat : m = Cardinality(T) /\ m <= n
      BY <1>1
    <3>2. m # 0 /\ Cardinality(T \ {x}) = m - 1
      BY <2>5, <3>1, Smaller
    <3>3. n # 0 /\ T \ {x} \in Upto(n - 1) /\ T \ {x} \in Upto(n)
      BY <2>3, <3>1, <3>2
    <3>4. f[T \ {x}] = More(f, st, T \ {x}) /\ Freed(st, f[T \ {x}], T \ {x}, Q, L)
      BY <2>4, <3>3
    <3>. QED BY <3>3, <3>4
  <2>6. \A T \in Upto(n) : Freed(st, More(f, st, T), T, Q, L)
    <3>1. ASSUME NEW T \in Upto(n) PROVE Freed(st, More(f, st, T), T, Q, L)
      <4>1. T \in SUBSET Sem
        OBVIOUS
      <4>2. T # {} => LET x == CHOOSE x \in T : TRUE IN Freed(st, f[T \ {x}], T \ {x}, Q, L)
        BY <2>5
      <4>. QED BY <4>1, <4>2, FreeMore
    <3>. QED BY <3>1
  <2>7. h \in [Upto(n) -> StType]
    BY <2>6 DEF Freed
  <2>8. ASSUME NEW T \in Upto(n) PROVE h[T] = More(h, st, T)
    <3>1. h[T] = More(f, st, T)
      OBVIOUS
    <3>. HIDE DEF h
    <3>2. PICK x : x = CHOOSE y \in T : TRUE
      OBVIOUS
    <3>3. T # {} => f[T \ {x}] = h[T \ {x}]
      BY <2>5, <3>2
    <3>4. More(f, st, T) = More(h, st, T)
      BY <3>2, <3>3 DEF More
    <3>. QED BY <3>1, <3>4
  <2>9. \A T \in Upto(n) : Freed(st, h[T], T, Q, L)
    BY <2>6
  <2>10. Good(h, n)
    <3>. HIDE DEF h
    <3>. QED BY <2>7, <2>8, <2>9
  <2>. HIDE DEF Good, h
  <2>. QED BY <2>3, <2>10
<1>5. PICK w : /\ w = [T \in SUBSET S |-> More(w, st, T)]
               /\ FreeAll(st, S) = w[S]
  <2>1. PICK w : w = CHOOSE f : f = [T \in SUBSET S |-> More(f, st, T)]
    OBVIOUS
  <2>2. FreeAll(st, S) = w[S]
    BY <2>1 DEF FreeAll, FoldSet, MapThenFoldSet, More
  <2>3. PICK f : Good(f, N)
    <3>. HIDE DEF Good
    <3>. QED BY <1>4
  <2>4. f = [T \in SUBSET S |-> More(f, st, T)]
    <3>1. f = [T \in SUBSET S |-> f[T]]
      BY <1>3, <2>3
    <3>2. \A T \in SUBSET S : f[T] = More(f, st, T)
      BY <1>3, <2>3
    <3>. QED BY ONLY <3>1, <3>2
  <2>5. w = [T \in SUBSET S |-> More(w, st, T)]
    BY ONLY <2>1, <2>4
  <2>. QED BY <2>2, <2>5
<1>6. \A T \in SUBSET S : w[T] = More(w, st, T)
  BY ONLY <1>5
<1>. DEFINE C == {n \in 0..N : \E T \in SUBSET S : Cardinality(T) = n /\ ~Freed(st, w[T], T, Q, L)}
<1>7. C = {}
  <2>1. SUFFICES ASSUME C # {} PROVE FALSE
    OBVIOUS
  <2>2. PICK n \in C : \A m \in C : n <= m
    <3>1. C \in SUBSET Nat
      OBVIOUS
    <3>. HIDE DEF C
    <3>. QED BY <2>1, <3>1, LeastOf
  <2>3. PICK T \in SUBSET S : n \in 0..N /\ Cardinality(T) = n /\ ~Freed(st, w[T], T, Q, L)
    BY <2>2
  <2>4. ASSUME T # {}, NEW x, x = CHOOSE y \in T : TRUE
        PROVE  Freed(st, w[T \ {x}], T \ {x}, Q, L)
    <3>1. n # 0 /\ Cardinality(T \ {x}) = n - 1 /\ T \ {x} \in SUBSET S
      <4>1. n \in Nat /\ T \in SUBSET Sem
        BY <2>3
      <4>2. n # 0 /\ Cardinality(T \ {x}) = n - 1
        BY <2>3, <2>4, <4>1, Smaller
      <4>. QED BY <4>2
    <3>2. n - 1 \in 0..N /\ ~(n <= n - 1)
      BY <2>3, <3>1
    <3>3. n - 1 \notin C
      <4>. HIDE DEF C
      <4>. QED BY <2>2, <3>2
    <3>. QED BY <3>1, <3>2, <3>3
  <2>5. Freed(st, More(w, st, T), T, Q, L)
    BY <2>4, FreeMore
  <2>. QED BY <1>6, <2>3, <2>5
<1>8. S \in SUBSET S /\ N \in 0..N
  OBVIOUS
<1>9. Freed(st, w[S], S, Q, L)
  BY <1>2, <1>7, <1>8
<1>. QED BY <1>5, <1>9

-----------------------------------------------------------------------------
(* SEM_DEL *)

\* event_happened leaves a kernel state behind.
LEMMA EventTyped ==
    ASSUME NEW n \in KState, NEW a \in App, NEW e \in Event
    PROVE  EventHappened(n, a, e) \in KState
<1>1. PICK h : h = n.hbits[a] \cup {e}
  OBVIOUS
<1>2. PICK m : m = [n EXCEPT !.hbits[a] = h]
  OBVIOUS
<1>3. m \in KState
  BY <1>1, <1>2 DEF KState
<1>4. PICK o : o = [m EXCEPT !.notready = @ \ {a}]
  OBVIOUS
<1>5. o \in KState
  BY <1>3, <1>4 DEF KState
<1>6. ApToLastReady(o, a) \in KState
  <2>1. PICK r, z : r = Append(o.ready, a) /\ z = [o.status EXCEPT ![a] = "READY"]
    OBVIOUS
  <2>2. r \in Seq(App) /\ z \in [App -> Status]
    BY <1>5, <2>1, AppendMembers DEF KState, Status
  <2>3. ApToLastReady(o, a) = [o EXCEPT !.status = z, !.ready = r]
    BY <1>5, <2>1 DEF ApToLastReady, KState
  <2>. QED BY <1>5, <2>2, <2>3 DEF KState
<1>7. [m EXCEPT !.status[a] = "READY"] \in KState
  BY <1>3 DEF KState, Status
<1>8. EventHappened(n, a, e) \in {m, ApToLastReady(o, a), [m EXCEPT !.status[a] = "READY"]}
  BY <1>1, <1>2, <1>4 DEF EventHappened
<1>. QED BY <1>3, <1>6, <1>7, <1>8

\* the kernel states that SEM_DEL goes through while it wakes up the queue w
Waking(f, n, w) ==
    f = [i \in 0..Len(w) |-> IF i = 0 THEN n
                             ELSE EventHappened(f[i - 1], w[Len(w) + 1 - i], SEM)]

\* SEM_DEL wakes every application of the queue up, and nobody else.
LEMMA WakeAll ==
    ASSUME NEW n, NEW L \in SUBSET App, KOK(n, L), NEW w \in Seq(App), Members(w) \subseteq L,
           NEW f, f = CHOOSE x : Waking(x, n, w)
    PROVE  Woken(n, f[Len(w)], Members(w), L)
<1>1. PICK N \in Nat : N = Len(w) /\ DOMAIN w = 1..N /\ w \in [1..N -> App]
  OBVIOUS
<1>2. n \in KState /\ SEM \in Event
  BY SemaphoreAssumption DEF KOK
<1>. DEFINE g == [x \in (1..N) \X KState |-> EventHappened(x[2], w[N + 1 - x[1]], SEM)]
<1>3. g \in [(1..N) \X KState -> KState]
  <2>1. ASSUME NEW x \in (1..N) \X KState
        PROVE  EventHappened(x[2], w[N + 1 - x[1]], SEM) \in KState
    <3>1. x[2] \in KState /\ N + 1 - x[1] \in 1..N
      OBVIOUS
    <3>2. w[N + 1 - x[1]] \in App
      BY <1>1, <3>1
    <3>. QED BY <1>2, <3>1, <3>2, EventTyped
  <2>. QED BY <2>1
<1>4. PICK h \in [0..N -> KState] : Iterates(h, n, g, N)
  <2>. HIDE DEF g
  <2>. QED BY <1>2, <1>3, Iteration
<1>5. Waking(h, n, w)
  <2>1. h = [i \in 0..N |-> h[i]]
    OBVIOUS
  <2>2. ASSUME NEW i \in 0..N
        PROVE  h[i] = IF i = 0 THEN n ELSE EventHappened(h[i - 1], w[N + 1 - i], SEM)
    <3>1. CASE i = 0
      BY <1>4, <3>1 DEF Iterates
    <3>2. CASE i # 0
      <4>1. i \in 1..N /\ h[i - 1] \in KState
        BY <3>2
      <4>2. h[i] = g[<< i, h[i - 1] >>]
        BY <1>4, <4>1 DEF Iterates
      <4>. QED BY <3>2, <4>1, <4>2
    <3>. QED BY <3>1, <3>2
  <2>. QED BY <1>1, <2>1, <2>2 DEF Waking
<1>6. Waking(f, n, w)
  BY <1>5
<1>7. f[0] = n /\ \A i \in 1..N : f[i] = EventHappened(f[i - 1], w[N + 1 - i], SEM)
  <2>1. \A i \in 0..N : f[i] = IF i = 0 THEN n ELSE EventHappened(f[i - 1], w[N + 1 - i], SEM)
    BY ONLY <1>1, <1>6 DEF Waking
  <2>2. 0 \in 0..N /\ \A i \in 1..N : i \in 0..N /\ i # 0
    OBVIOUS
  <2>. QED BY ONLY <2>1, <2>2
<1>. DEFINE Up(i) == {w[j] : j \in (N + 1 - i)..N}
            C == {i \in 0..N : ~Woken(n, f[i], Up(i), L)}
<1>8. C = {}
  <2>1. SUFFICES ASSUME C # {} PROVE FALSE
    OBVIOUS
  <2>2. PICK m \in C : \A l \in C : m <= l
    <3>1. C \in SUBSET Nat
      OBVIOUS
    <3>. HIDE DEF C
    <3>. QED BY <2>1, <3>1, LeastOf
  <2>3. m \in 0..N /\ ~Woken(n, f[m], Up(m), L)
    BY <2>2
  <2>4. CASE m = 0
    <3>1. Up(0) = {}
      OBVIOUS
    <3>2. Woken(n, f[0], {}, L)
      BY <1>7, WokenNone
    <3>. QED BY <2>3, <2>4, <3>1, <3>2
  <2>5. CASE m # 0
    <3>1. PICK j \in 0..N : j = m - 1 /\ ~(m <= j) /\ m \in 1..N
      BY <2>3, <2>5
    <3>2. j \notin C
      <4>. HIDE DEF C
      <4>. QED BY <2>2, <3>1
    <3>3. Woken(n, f[j], Up(j), L)
      BY <3>2
    <3>4. PICK b : b = w[N + 1 - m] /\ b \in L
      BY <1>1, <3>1 DEF Members
    <3>5. Up(m) = Up(j) \cup {b}
      <4>1. ASSUME NEW x PROVE x \in (N + 1 - m)..N <=> x \in (N + 1 - j)..N \/ x = N + 1 - m
        BY <3>1
      <4>. QED BY <3>4, <4>1
    <3>6. f[m] = EventHappened(f[j], b, SEM)
      BY <1>7, <3>1, <3>4
    <3>. HIDE DEF Up
    <3>7. Woken(n, EventHappened(f[j], b, SEM), Up(j) \cup {b}, L)
      BY <1>2, <3>3, <3>4, WakeOne
    <3>. QED BY <2>3, <3>5, <3>6, <3>7
  <2>. QED BY <2>4, <2>5
<1>9. Up(N) = Members(w)
  BY <1>1 DEF Members
<1>10. N \in 0..N
  OBVIOUS
<1>11. Woken(n, f[N], Up(N), L)
  BY <1>8, <1>10
<1>. QED BY <1>1, <1>9, <1>11

-----------------------------------------------------------------------------
(* The queues of a state *)

Qs == [s \in Sem |-> Queue(s)]

\* What the invariant says about the queues and the scheduler's lists.
LEMMA QueueFacts ==
    ASSUME SemInv
    PROVE  /\ \A s \in Sem : /\ Qs[s] = Queue(s) /\ Queue(s) \in Seq(App) /\ NoDup(Queue(s))
                             /\ IsList(Queue(s), bl[s].waiting, nxtsem)
                             /\ Members(Queue(s)) = Waiters(s) /\ Waiters(s) \subseteq live
                             /\ Linked(bl[s].waiting, nxtsem) = Waiters(s)
                             /\ Ends(bl[s].waiting, nxtsem)
           /\ Apart(Qs) /\ KOK(k, live) /\ live \in SUBSET App /\ State \in StType
<1>1. \A s \in Sem : IsList(Queue(s), bl[s].waiting, nxtsem) /\ Members(Queue(s)) = Waiters(s)
  BY DEF SemInv, Queues
<1>2. nxtsem \in [App -> Ptr] /\ bl \in [Sem -> Blockage] /\ k \in KState /\ live \subseteq App
  BY DEF SemInv, TypeOK
<1>3. \A s \in Sem : Linked(bl[s].waiting, nxtsem) = Waiters(s) /\ Ends(bl[s].waiting, nxtsem)
  BY <1>1, <1>2, ListWalk
<1>4. \A s \in Sem : Queue(s) \in Seq(App) /\ NoDup(Queue(s))
  BY <1>1 DEF IsList
<1>5. \A s \in Sem : Waiters(s) \subseteq live /\ \A a \in Waiters(s) : semaph[a] = s
  BY DEF Waiters
<1>6. \A s \in Sem : Qs[s] = Queue(s)
  BY DEF Qs
<1>7. Apart(Qs)
  BY <1>1, <1>5, <1>6 DEF Apart
<1>8. KOK(k, live)
  BY <1>2 DEF SemInv, Lists, KOK
<1>9. State \in StType
  BY <1>2 DEF State, StType
<1>. QED BY <1>1, <1>2, <1>3, <1>4, <1>5, <1>6, <1>7, <1>8, <1>9

\* A list of those who wait after a step is the queue after the step.
LEMMA NewQueue ==
    ASSUME nxtsem' \in [App -> Ptr], NEW s \in Sem, NEW q,
           IsList(q, bl'[s].waiting, nxtsem')
    PROVE  /\ Queue(s)' = q
           /\ Members(q) = Waiters(s)' =>
                 IsList(Queue(s)', bl'[s].waiting, nxtsem') /\ Members(Queue(s)') = Waiters(s)'
<1>1. WaitOrder(bl'[s].waiting, nxtsem') = q
  BY ListWalk
<1>. QED BY <1>1 DEF Queue

\* Queues that a step does not touch.
LEMMA SameQueue ==
    ASSUME SemInv, nxtsem' \in [App -> Ptr], NEW s \in Sem, bl'[s].waiting = bl[s].waiting,
           \A c \in Waiters(s) : nxtsem'[c] = nxtsem[c]
    PROVE  /\ Queue(s)' = Queue(s)
           /\ Waiters(s)' = Waiters(s) =>
                 IsList(Queue(s)', bl'[s].waiting, nxtsem') /\ Members(Queue(s)') = Waiters(s)'
<1>1. IsList(Queue(s), bl[s].waiting, nxtsem) /\ Members(Queue(s)) = Waiters(s)
  BY QueueFacts
<1>2. PICK q : q = Queue(s)
  OBVIOUS
<1>3. IsList(q, bl'[s].waiting, nxtsem')
  BY <1>1, <1>2, ListFrame
<1>. QED BY <1>1, <1>2, <1>3, NewQueue

\* The running application.
LEMMA RunFacts ==
    ASSUME SemInv, NEW a, mode = "run", a = Act(k)
    PROVE  /\ a \in live /\ a \in App /\ k.status[a] = "READY" /\ k.ready # << >>
           /\ ListsMatchBut(k, live, a) /\ k \in KState /\ live \in SUBSET App
           /\ \A b \in App \ {a} : pc[b] \notin {"events", "new"}
<1>1. k.ready # << >> /\ k \in KState /\ live \in SUBSET App /\ ListsMatch(k, live)
  BY DEF SemInv, Lists, TypeOK
<1>2. a \in live /\ k.status[a] = "READY" /\ ListsMatchBut(k, live, a)
  BY <1>1, EnterCall
<1>3. \A b \in App \ {a} : pc[b] \notin {"events", "new"}
  BY DEF SemInv, WaitInv
<1>. QED BY <1>1, <1>2, <1>3

-----------------------------------------------------------------------------
(* Scheduling *)

\* Steps that only schedule.
LEMMA SchedKeeps ==
    ASSUME SemInv, KOK(k', live), k'.rbits = k.rbits, k'.hbits = k.hbits,
           \A b \in App : k'.status[b] = k.status[b]
                          \/ (k.status[b] = "SUSPENDED" /\ k'.status[b] = "READY"),
           UNCHANGED << live, pc, bl, nxtsem, semaph, tim, held >>,
           mode' \in {"run", "kernel"}, mode' = "run" => k'.ready # << >>,
           \A b \in App : pc[b] \notin {"events", "new"}
    PROVE  SemInv' /\ \A s \in Sem : Queue(s)' = Queue(s)
<1>1. TypeOK'
  BY DEF SemInv, TypeOK, KOK
<1>2. \A s \in Sem : Waiters(s)' = Waiters(s) /\ Queue(s)' = Queue(s)
  BY DEF Waiters, Queue
<1>3. Queues'
  BY <1>2 DEF SemInv, Queues
<1>4. Lists'
  BY DEF Lists, KOK
<1>5. WaitInv'
  <2>1. \A b \in App : k.status[b] = "SUSPENDED" => SEM \notin k.rbits[b]
    BY DEF SemInv, Lists
  <2>2. \A b \in App : SEM \in k.rbits[b] /\ k'.status[b] = "READY" => k.status[b] = "READY"
    BY <2>1
  <2>. QED BY <2>2 DEF SemInv, WaitInv
<1>6. GaveBack' /\ Told' /\ FreeIsFree' /\ HolderIsOwner'
  BY DEF SemInv, GaveBack, Told, FreeIsFree, HolderIsOwner
<1>7. Owned'
  BY <1>2 DEF SemInv, Owned
<1>. QED BY <1>1, <1>2, <1>3, <1>4, <1>5, <1>6, <1>7 DEF SemInv

\* appl_yield only schedules.
LEMMA YieldInv ==
    ASSUME SemInv, NEW a \in App, Yield(a) PROVE SemInv' /\ \A s \in Sem : Queue(s)' = Queue(s)
<1>1. mode = "run" /\ a = Act(k) /\ pc[a] = "user"
  BY DEF Yield, Running
<1>2. /\ k \in KState /\ live \in SUBSET App /\ ListsMatchBut(k, live, a) /\ k.status[a] = "READY"
      /\ \A b \in App : pc[b] \notin {"events", "new"}
  BY <1>1, RunFacts
<1>3. k' = YieldLists(k) /\ mode' = "kernel" /\ UNCHANGED << live, pc, bl, nxtsem, semaph, tim, held >>
  BY DEF Yield, ApplYield
<1>4. /\ k' \in KState /\ ListsMatch(k', live) /\ k'.rbits = k.rbits /\ k'.hbits = k.hbits
      /\ \A b \in App : k'.status[b] = k.status[b]
                        \/ (k.status[b] = "SUSPENDED" /\ k'.status[b] = "READY")
  BY <1>2, <1>3, YieldListsOK
<1>5. KOK(k', live)
  BY <1>4 DEF SemInv, Lists, KOK
<1>. QED BY <1>2, <1>3, <1>4, <1>5, SchedKeeps

\* The kernel loop gives the CPU to the next application and touches no semaphore.
LEMMA SwitchInv ==
    ASSUME SemInv, Switch PROVE SemInv' /\ \A s \in Sem : Queue(s)' = Queue(s)
<1>1. mode = "kernel" /\ CanSwitch(k)
  BY DEF Switch
<1>2. /\ k \in KState /\ live \in SUBSET App /\ ListsMatch(k, live)
      /\ \A b \in App : pc[b] \notin {"events", "new"}
  BY <1>1 DEF SemInv, TypeOK, Lists, WaitInv
<1>3. k' = SwitchTo(k) /\ mode' = "run" /\ UNCHANGED << live, pc, bl, nxtsem, semaph, tim, held >>
  BY DEF Switch
<1>4. /\ k' \in KState /\ ListsMatch(k', live) /\ k'.rbits = k.rbits /\ k'.hbits = k.hbits
      /\ k'.ready # << >>
      /\ \A b \in App : k'.status[b] = k.status[b]
                        \/ (k.status[b] = "SUSPENDED" /\ k'.status[b] = "READY")
  BY <1>1, <1>2, <1>3, SwitchToOK
<1>5. KOK(k', live)
  BY <1>4 DEF SemInv, Lists, KOK
<1>. QED BY <1>2, <1>3, <1>4, <1>5, SchedKeeps

-----------------------------------------------------------------------------
(* Waiting *)

\* What a wait does to the state.
LEMMA WaitEffect ==
    ASSUME SemInv, NEW a, mode = "run", a = Act(k), NEW evs \in SUBSET Event,
           k' = YieldLists(BeginWait(k, a, evs)), SEM \in evs
    PROVE  /\ KOK(k', live)
           /\ k'.rbits[a] = evs /\ k'.hbits[a] = {} /\ k'.status[a] # "READY"
           /\ \A b \in App \ {a} : /\ k'.rbits[b] = k.rbits[b] /\ k'.hbits[b] = k.hbits[b]
                                   /\ k'.status[b] = k.status[b]
                                      \/ (k.status[b] = "SUSPENDED" /\ k'.status[b] = "READY")
<1>1. /\ a \in App /\ a \in live /\ k.ready # << >> /\ k \in KState /\ live \in SUBSET App
      /\ ListsMatch(k, live) /\ \A b \in App : k.status[b] = "SUSPENDED" => k.rbits[b] = {}
  BY RunFacts, QueueFacts DEF KOK
<1>2. PICK n : n = BeginWait(k, a, evs)
  OBVIOUS
<1>3. /\ n \in KState /\ n.ready = k.ready /\ n.susp = k.susp /\ n.notready = k.notready
      /\ n.status = [k.status EXCEPT ![a] = "WAITING"]
      /\ n.rbits = [k.rbits EXCEPT ![a] = evs] /\ n.hbits = [k.hbits EXCEPT ![a] = {}]
  BY <1>1, <1>2 DEF BeginWait, KState, Status
<1>4. ListsMatchBut(n, live, a)
  BY <1>1, <1>3, SetStatusOK DEF Status
<1>5. /\ k' \in KState /\ ListsMatch(k', live) /\ k'.rbits = n.rbits /\ k'.hbits = n.hbits
      /\ k'.status[a] = n.status[a] \/ (k'.status[a] = "READY" /\ n.status[a] = "WAITING")
      /\ \A b \in App \ {a} : k'.status[b] = n.status[b]
                              \/ (n.status[b] = "SUSPENDED" /\ k'.status[b] = "READY")
      /\ k'.status[a] = "READY" => n.status[a] = "READY" \/ n.rbits[a] \cap n.hbits[a] # {}
  <2>1. PICK y, L : y = k' /\ L = live /\ y = YieldLists(n)
    BY <1>2
  <2>2. n \in KState /\ L \in SUBSET App /\ ListsMatchBut(n, L, a)
    BY <1>1, <1>3, <1>4, <2>1
  <2>3. y.status[a] = "READY" => n.status[a] = "READY" \/ n.rbits[a] \cap n.hbits[a] # {}
    BY ONLY <2>1, <2>2, YieldReady
  <2>4. /\ y \in KState /\ ListsMatch(y, L) /\ y.rbits = n.rbits /\ y.hbits = n.hbits
        /\ y.status[a] = n.status[a] \/ (y.status[a] = "READY" /\ n.status[a] = "WAITING")
        /\ \A b \in App \ {a} : y.status[b] = n.status[b]
                              \/ (n.status[b] = "SUSPENDED" /\ y.status[b] = "READY")
    BY ONLY <2>1, <2>2, YieldListsOK
  <2>. QED BY ONLY <2>1, <2>3, <2>4
<1>6. /\ k.status \in [App -> Status] /\ k.rbits \in [App -> SUBSET Event]
      /\ k.hbits \in [App -> SUBSET Event]
  BY <1>1 DEF KState
<1>7. /\ n.status[a] = "WAITING" /\ n.rbits[a] = evs /\ n.hbits[a] = {}
      /\ \A b \in App \ {a} : /\ n.status[b] = k.status[b] /\ n.rbits[b] = k.rbits[b]
                              /\ n.hbits[b] = k.hbits[b]
  BY <1>1, <1>3, <1>6
<1>8. k'.status[a] = "WAITING"
  BY <1>5, <1>7
<1>9. \A b \in App : k'.status[b] = "SUSPENDED" => k'.rbits[b] = {}
  BY <1>1, <1>5, <1>7, <1>8
<1>. QED BY <1>5, <1>7, <1>8, <1>9 DEF KOK

\* An application that starts to wait for a semaphore somebody else has goes to
\* the end of its queue.
LEMMA WaitForInv ==
    ASSUME SemInv, NEW a \in App, NEW s \in Sem, NEW evs \in SUBSET Event, NEW where,
           mode = "run", a = Act(k), SEM \in evs,
           (pc[a] = "user" /\ where = "sem") \/ (pc[a] = "new" /\ where = "upd" /\ s = SCR),
           bl[s].app \notin {NONE, a}, WaitFor(a, s, evs, where), tim' \subseteq App, held' = held
    PROVE  /\ SemInv' /\ Queue(s)' = Append(Queue(s), a)
           /\ \A t \in Sem \ {s} : Queue(t)' = Queue(t)
           /\ \A t \in Sem : bl'[t].app = bl[t].app
           /\ \A t \in Sem : a \notin Waiters(t)
<1>1. /\ nxtsem' = [nxtsem EXCEPT ![a] = bl[s].waiting] /\ bl' = [bl EXCEPT ![s].waiting = a]
      /\ semaph' = [semaph EXCEPT ![a] = s] /\ pc' = [pc EXCEPT ![a] = where]
      /\ k' = YieldLists(BeginWait(k, a, evs)) /\ mode' = "kernel" /\ live' = live
  BY DEF WaitFor, ApplYield
<1>2. /\ a \in live /\ live \in SUBSET App /\ k \in KState
      /\ \A b \in App \ {a} : pc[b] \notin {"events", "new"}
  BY RunFacts
<1>3. /\ KOK(k', live)
      /\ k'.rbits[a] = evs /\ k'.hbits[a] = {} /\ k'.status[a] # "READY"
      /\ \A b \in App \ {a} : /\ k'.rbits[b] = k.rbits[b] /\ k'.hbits[b] = k.hbits[b]
                              /\ k'.status[b] = k.status[b]
                                 \/ (k.status[b] = "SUSPENDED" /\ k'.status[b] = "READY")
  BY <1>1, WaitEffect
<1>4. k.rbits[a] = {} /\ k.hbits[a] = {} /\ semaph[a] = NONE
  BY DEF SemInv, WaitInv
<1>5. /\ bl \in [Sem -> Blockage] /\ nxtsem \in [App -> Ptr] /\ semaph \in [App -> Sem \cup {NONE}]
      /\ pc \in [App -> Pc] /\ held \in [App -> [Sem -> 0..MaxNest]]
  BY DEF SemInv, TypeOK
<1>6. /\ bl' \in [Sem -> Blockage] /\ bl'[s].waiting = a
      /\ \A t \in Sem \ {s} : bl'[t] = bl[t]
      /\ \A t \in Sem : /\ bl'[t].app = bl[t].app /\ bl'[t].pd = bl[t].pd
                        /\ bl'[t].cnt = bl[t].cnt /\ bl'[t].valid = bl[t].valid
  <2>1. PICK r : r = [bl[s] EXCEPT !.waiting = a]
    OBVIOUS
  <2>2. /\ r \in Blockage /\ r.waiting = a /\ r.app = bl[s].app /\ r.pd = bl[s].pd
        /\ r.cnt = bl[s].cnt /\ r.valid = bl[s].valid
    BY <1>5, <2>1 DEF Blockage, Ptr
  <2>3. bl' = [bl EXCEPT ![s] = r]
    BY <1>1, <2>1
  <2>4. bl' \in [Sem -> Blockage] /\ bl'[s] = r /\ \A t \in Sem \ {s} : bl'[t] = bl[t]
    BY <1>5, <2>2, <2>3, OneBl
  <2>. QED BY <2>2, <2>4
<1>7. nxtsem' \in [App -> Ptr] /\ \A b \in App \ {a} : nxtsem'[b] = nxtsem[b]
  BY <1>1, <1>5 DEF Blockage
<1>8. /\ semaph' \in [App -> Sem \cup {NONE}] /\ semaph'[a] = s
      /\ \A b \in App \ {a} : semaph'[b] = semaph[b]
  BY <1>1, <1>5
<1>9. /\ pc' \in [App -> Pc] /\ pc'[a] = where /\ \A b \in App \ {a} : pc'[b] = pc[b]
  BY <1>1, <1>5 DEF Pc
<1>10. TypeOK'
  BY <1>1, <1>2, <1>3, <1>5, <1>6, <1>7, <1>8, <1>9 DEF TypeOK, KOK
<1>11. \A t \in Sem : a \notin Waiters(t)
  BY <1>4 DEF Waiters
<1>12. Waiters(s)' = Waiters(s) \cup {a} /\ \A t \in Sem \ {s} : Waiters(t)' = Waiters(t)
  BY <1>1, <1>2, <1>3, <1>8, <1>11 DEF Waiters
<1>13. /\ Queue(s)' = Append(Queue(s), a)
       /\ IsList(Queue(s)', bl'[s].waiting, nxtsem') /\ Members(Queue(s)') = Waiters(s)'
  <2>1. /\ Queue(s) \in Seq(App) /\ IsList(Queue(s), bl[s].waiting, nxtsem)
        /\ Members(Queue(s)) = Waiters(s)
    BY QueueFacts
  <2>2. PICK q, p : q = Queue(s) /\ p = bl[s].waiting
    OBVIOUS
  <2>3. IsList(Append(q, a), a, [nxtsem EXCEPT ![a] = p])
    BY <1>5, <1>11, <2>1, <2>2, PushList
  <2>4. IsList(Append(q, a), bl'[s].waiting, nxtsem')
    BY <1>1, <1>6, <2>2, <2>3
  <2>5. Members(Append(q, a)) = Members(q) \cup {a}
    BY <2>1, <2>2, AppendMembers
  <2>. QED BY <1>7, <1>12, <2>1, <2>2, <2>4, <2>5, NewQueue
<1>14. ASSUME NEW t \in Sem \ {s}
       PROVE  /\ Queue(t)' = Queue(t)
              /\ IsList(Queue(t)', bl'[t].waiting, nxtsem') /\ Members(Queue(t)') = Waiters(t)'
  <2>1. \A c \in Waiters(t) : c \in App /\ c # a
    BY <1>2, <1>11 DEF Waiters
  <2>2. \A c \in Waiters(t) : nxtsem'[c] = nxtsem[c]
    BY <1>7, <2>1
  <2>. QED BY <1>6, <1>7, <1>12, <2>2, SameQueue
<1>15. Queues'
  BY <1>13, <1>14 DEF Queues
<1>16. Lists'
  BY <1>1, <1>3 DEF Lists, KOK
<1>17. WaitInv'
  <2>1. \A b \in App \ {a} : SEM \in k.rbits[b] /\ k'.status[b] = "READY" => k.status[b] = "READY"
    BY <1>3 DEF SemInv, Lists
  <2>2. s # NONE
    BY SemaphoreAssumption DEF Sem
  <2>3. \A b \in App \ {a} : pc'[b] \notin {"events", "new"}
    BY <1>2, <1>9
  <2>. QED BY <1>3, <1>8, <1>9, <2>1, <2>2, <2>3 DEF SemInv, WaitInv
<1>18. GaveBack'
  BY <1>1, <1>2, <1>9 DEF SemInv, GaveBack
<1>19. Told'
  BY <1>3, <1>6, <1>8, <1>9 DEF SemInv, Told
<1>20. Owned'
  <2>1. bl'[SCR].valid
    BY <1>6 DEF SemInv, Owned, Sem
  <2>2. ASSUME NEW t \in Sem, bl'[t].app # NONE
        PROVE  /\ bl'[t].valid /\ bl'[t].pd = bl'[t].app /\ bl'[t].app \in live'
               /\ t = SCR => bl'[t].cnt > 0
               /\ bl'[t].app \notin Waiters(t)'
               /\ \/ held'[bl'[t].app][t] > 0
                  \/ /\ pc'[bl'[t].app] \in {"sem", "upd"}
                     /\ SEM \in k'.hbits[bl'[t].app] /\ semaph'[bl'[t].app] = t
                  \/ pc'[bl'[t].app] = "break"
    <3>1. PICK c : c = bl[t].app /\ c = bl'[t].app /\ c # NONE
      BY <1>6, <2>2
    <3>2. /\ bl[t].valid /\ bl[t].pd = c /\ c \in live /\ (t = SCR => bl[t].cnt > 0)
          /\ c \notin Waiters(t)
          /\ \/ held[c][t] > 0
             \/ pc[c] \in {"sem", "upd"} /\ SEM \in k.hbits[c] /\ semaph[c] = t
             \/ pc[c] = "break"
      BY <3>1 DEF SemInv, Owned
    <3>3. c \notin Waiters(t)'
      BY <1>12, <3>1, <3>2
    <3>. QED BY <1>1, <1>2, <1>3, <1>6, <1>8, <1>9, <3>1, <3>2, <3>3
  <2>. QED BY <2>1, <2>2 DEF Owned
<1>21. FreeIsFree'
  BY <1>6 DEF SemInv, FreeIsFree
<1>22. HolderIsOwner'
  BY <1>1, <1>6 DEF SemInv, HolderIsOwner
<1>. QED BY <1>6, <1>10, <1>11, <1>13, <1>14, <1>15, <1>16, <1>17, <1>18, <1>19, <1>20, <1>21, <1>22
     DEF SemInv

\* The three calls that wait: evnt_sem, wind_update and the end of an
\* application.
LEMMA WaitsInv ==
    ASSUME SemInv, NEW a \in App, NEW s \in Sem,
           (s \in Named /\ SemSetWait(a, s)) \/ (s = SCR /\ (BegUpdateWait(a) \/ TermUpdWait(a)))
    PROVE  /\ SemInv' /\ Queue(s)' = Append(Queue(s), a)
           /\ \A t \in Sem \ {s} : Queue(t)' = Queue(t)
           /\ \A t \in Sem : bl'[t].app = bl[t].app
           /\ \A t \in Sem : a \notin Waiters(t)
           /\ bl[s].app \notin {NONE, a}
<1>1. {SEM, TIM} \in SUBSET Event /\ {SEM} \in SUBSET Event
  BY SemaphoreAssumption
<1>2. tim \subseteq App
  BY DEF SemInv, TypeOK
<1>3. CASE s \in Named /\ SemSetWait(a, s)
  <2>1. PICK evs \in SUBSET Event : SEM \in evs /\ WaitFor(a, s, evs, "sem")
    <3>1. PICK t \in Timeouts : WaitFor(a, s, IF t THEN {SEM, TIM} ELSE {SEM}, "sem")
      BY <1>3 DEF SemSetWait
    <3>2. (IF t THEN {SEM, TIM} ELSE {SEM}) \in SUBSET Event
      BY <1>1
    <3>3. SEM \in IF t THEN {SEM, TIM} ELSE {SEM}
      OBVIOUS
    <3>. QED BY <3>1, <3>2, <3>3
  <2>2. mode = "run" /\ a = Act(k) /\ pc[a] = "user" /\ bl[s].app \notin {NONE, a} /\ held' = held
    BY <1>3 DEF SemSetWait, Running
  <2>3. tim' \subseteq App
    BY <1>2, <1>3 DEF SemSetWait
  <2>. QED BY <2>1, <2>2, <2>3, WaitForInv
<1>4. CASE s = SCR /\ BegUpdateWait(a)
  <2>1. mode = "run" /\ a = Act(k) /\ pc[a] = "user" /\ tim' = tim /\ held' = held
    BY <1>4 DEF BegUpdateWait, Running
  <2>2. bl[s].app \notin {NONE, a}
    BY <1>4 DEF BegUpdateWait, BegUpdateGets, SemInv, FreeIsFree
  <2>3. PICK evs \in SUBSET Event : SEM \in evs /\ WaitFor(a, s, evs, "sem")
    BY <1>1, <1>4 DEF BegUpdateWait
  <2>4. tim' \subseteq App
    BY <1>2, <2>1
  <2>5. /\ SemInv' /\ Queue(s)' = Append(Queue(s), a)
        /\ \A t \in Sem \ {s} : Queue(t)' = Queue(t)
        /\ \A t \in Sem : bl'[t].app = bl[t].app
        /\ \A t \in Sem : a \notin Waiters(t)
    BY <2>1, <2>2, <2>3, <2>4, WaitForInv
  <2>. QED BY <2>2, <2>5
<1>5. CASE s = SCR /\ TermUpdWait(a)
  <2>1. mode = "run" /\ a = Act(k) /\ pc[a] = "new" /\ tim' = tim /\ held' = held
    BY <1>5 DEF TermUpdWait, Running
  <2>2. bl[s].app \notin {NONE, a}
    BY <1>5 DEF TermUpdWait, BegUpdateGets, SemInv, FreeIsFree
  <2>3. PICK evs \in SUBSET Event : SEM \in evs /\ WaitFor(a, s, evs, "upd")
    BY <1>1, <1>5 DEF TermUpdWait
  <2>4. tim' \subseteq App
    BY <1>2, <2>1
  <2>5. /\ SemInv' /\ Queue(s)' = Append(Queue(s), a)
        /\ \A t \in Sem \ {s} : Queue(t)' = Queue(t)
        /\ \A t \in Sem : bl'[t].app = bl[t].app
        /\ \A t \in Sem : a \notin Waiters(t)
    BY <1>5, <2>1, <2>2, <2>3, <2>4, WaitForInv
  <2>. QED BY <2>2, <2>5
<1>. QED BY <1>3, <1>4, <1>5

-----------------------------------------------------------------------------
(* Getting a semaphore without waiting, nesting *)

\* The caller has semaphore s after the step.
LEMMA TakeInv ==
    ASSUME SemInv, NEW a \in App, NEW s \in Sem, mode = "run", a = Act(k), pc[a] = "user",
           bl[s].app \in {NONE, a}, bl' \in [Sem -> Blockage],
           \A t \in Sem \ {s} : bl'[t] = bl[t],
           bl'[s].waiting = bl[s].waiting, bl'[s].app = a, bl'[s].pd = a, bl'[s].valid,
           held' \in [App -> [Sem -> 0..MaxNest]], held'[a][s] > 0,
           s = SCR => bl'[s].cnt = held'[a][s],
           \A b \in App, t \in Sem : (b # a \/ t # s) => held'[b][t] = held[b][t],
           UNCHANGED << k, mode, live, pc, nxtsem, semaph, tim >>
    PROVE  SemInv' /\ \A t \in Sem : Queue(t)' = Queue(t)
<1>1. TypeOK'
  BY DEF SemInv, TypeOK
<1>2. \A t \in Sem : bl'[t].waiting = bl[t].waiting
  OBVIOUS
<1>3. \A t \in Sem : Waiters(t)' = Waiters(t) /\ Queue(t)' = Queue(t)
  BY <1>2 DEF Waiters, Queue
<1>4. Queues'
  BY <1>2, <1>3 DEF SemInv, Queues
<1>5. Lists' /\ WaitInv'
  BY DEF SemInv, Lists, WaitInv
<1>6. GaveBack'
  <2>1. a \in live
    BY RunFacts
  <2>2. ASSUME NEW b \in App, b \notin live \/ pc[b] \in {"events", "new", "upd", "fall"}
        PROVE  \A t \in Sem : held'[b][t] = 0
    <3>1. b # a
      BY <2>1, <2>2
    <3>. QED BY <2>2, <3>1 DEF SemInv, GaveBack
  <2>. QED BY <2>2 DEF SemInv, GaveBack
<1>7. Told'
  <2>1. ASSUME NEW b \in App, pc[b] \in {"sem", "upd"}, SEM \in k.hbits[b], semaph[b] # NONE
        PROVE  bl'[semaph[b]].app = b /\ (semaph[b] = SCR => bl'[SCR].cnt = 1)
    <3>1. semaph[b] \in Sem /\ b # a /\ b # NONE
      BY <2>1, SemaphoreAssumption DEF SemInv, TypeOK
    <3>2. bl[semaph[b]].app = b /\ (semaph[b] = SCR => bl[SCR].cnt = 1)
      BY <2>1 DEF SemInv, Told
    <3>. QED BY <3>1, <3>2
  <2>. QED BY <2>1 DEF Told
<1>8. a \in live /\ a \notin Waiters(s)
  BY RunFacts DEF SemInv, WaitInv, Waiters
<1>9. Owned'
  <2>1. ASSUME NEW t \in Sem, bl'[t].app # NONE
        PROVE  /\ bl'[t].valid /\ bl'[t].pd = bl'[t].app /\ bl'[t].app \in live'
               /\ t = SCR => bl'[t].cnt > 0
               /\ bl'[t].app \notin Waiters(t)'
               /\ \/ held'[bl'[t].app][t] > 0
                  \/ /\ pc'[bl'[t].app] \in {"sem", "upd"}
                     /\ SEM \in k'.hbits[bl'[t].app] /\ semaph'[bl'[t].app] = t
                  \/ pc'[bl'[t].app] = "break"
    <3>1. CASE t = s
      BY <1>3, <1>8, <3>1
    <3>2. CASE t # s
      <4>1. bl'[t] = bl[t]
        BY <3>2
      <4>2. bl[t].app \in App
        BY <2>1, <4>1 DEF SemInv, TypeOK, Blockage, Ptr
      <4>. QED BY <1>3, <2>1, <3>2, <4>1, <4>2 DEF SemInv, Owned
    <3>. QED BY <3>1, <3>2
  <2>2. bl'[SCR].valid
    BY DEF SemInv, Owned, Sem
  <2>. QED BY <2>1, <2>2 DEF Owned
<1>10. FreeIsFree'
  BY SemaphoreAssumption DEF SemInv, FreeIsFree
<1>11. HolderIsOwner'
  <2>1. ASSUME NEW b \in live, NEW t \in Sem, held'[b][t] > 0
        PROVE  bl'[t].valid /\ bl'[t].app = b /\ (t = SCR => bl'[t].cnt = held'[b][t])
    <3>1. b \in App /\ b # NONE
      BY SemaphoreAssumption DEF SemInv, TypeOK
    <3>2. CASE b = a /\ t = s
      BY <3>2
    <3>3. CASE b # a \/ t # s
      <4>1. held'[b][t] = held[b][t]
        BY <3>1, <3>3
      <4>2. bl[t].valid /\ bl[t].app = b /\ (t = SCR => bl[t].cnt = held[b][t])
        BY <2>1, <4>1 DEF SemInv, HolderIsOwner
      <4>3. t # s
        BY <3>1, <3>3, <4>2
      <4>. QED BY <4>1, <4>2, <4>3
    <3>. QED BY <3>2, <3>3
  <2>. QED BY <2>1 DEF HolderIsOwner
<1>. QED BY <1>1, <1>3, <1>4, <1>5, <1>6, <1>7, <1>9, <1>10, <1>11 DEF SemInv

\* SEM_SET and SEM_CSET of a free semaphore.
LEMMA SemSetInv ==
    ASSUME SemInv, NEW a \in App, NEW s \in Named, SemSet(a, s)
    PROVE  /\ SemInv' /\ \A t \in Sem : Queue(t)' = Queue(t)
           /\ bl[s].app = NONE /\ bl'[s].app = a /\ \A t \in Sem \ {s} : bl'[t] = bl[t]
<1>1. /\ mode = "run" /\ a = Act(k) /\ pc[a] = "user" /\ bl[s].valid /\ bl[s].app = NONE
      /\ UNCHANGED << k, mode, live, pc, nxtsem, semaph, tim >>
  BY DEF SemSet, Running
<1>2. s \in Sem /\ s # SCR /\ a \in Ptr
  BY SemaphoreAssumption DEF Sem, Ptr
<1>3. bl \in [Sem -> Blockage] /\ held \in [App -> [Sem -> 0..MaxNest]] /\ 1 \in 0..MaxNest
  BY SemaphoreAssumption DEF SemInv, TypeOK
<1>4. PICK r : r = [bl[s] EXCEPT !.app = a, !.pd = a]
  OBVIOUS
<1>5. r \in Blockage /\ r.app = a /\ r.pd = a /\ r.valid = bl[s].valid /\ r.waiting = bl[s].waiting
  BY <1>2, <1>3, <1>4 DEF Blockage
<1>6. bl' = [bl EXCEPT ![s] = r]
  BY <1>4 DEF SemSet
<1>7. bl' \in [Sem -> Blockage] /\ bl'[s] = r /\ \A t \in Sem \ {s} : bl'[t] = bl[t]
  BY <1>2, <1>3, <1>5, <1>6, OneBl
<1>8. /\ held' \in [App -> [Sem -> 0..MaxNest]] /\ held'[a][s] = 1
      /\ \A b \in App, t \in Sem : (b # a \/ t # s) => held'[b][t] = held[b][t]
  <2>1. held' = [held EXCEPT ![a][s] = 1]
    BY DEF SemSet
  <2>. QED BY <1>2, <1>3, <2>1, OneHeld
<1>9. /\ bl[s].app \in {NONE, a} /\ bl'[s].waiting = bl[s].waiting /\ bl'[s].app = a
      /\ bl'[s].pd = a /\ bl'[s].valid /\ held'[a][s] > 0 /\ (s = SCR => bl'[s].cnt = held'[a][s])
  <2>1. bl'[s].valid
    BY <1>1, <1>5, <1>7, Zenon
  <2>2. /\ bl[s].app \in {NONE, a} /\ bl'[s].waiting = bl[s].waiting /\ bl'[s].app = a
        /\ bl'[s].pd = a
    BY <1>1, <1>5, <1>7, Zenon
  <2>3. held'[a][s] > 0 /\ (s = SCR => bl'[s].cnt = held'[a][s])
    BY <1>2, <1>8
  <2>. QED BY <2>1, <2>2, <2>3
<1>10. SemInv' /\ \A t \in Sem : Queue(t)' = Queue(t)
  BY <1>1, <1>2, <1>7, <1>8, <1>9, TakeInv
<1>. QED BY <1>1, <1>7, <1>9, <1>10

\* PSEM_CRGET: nobody has or waits for a semaphore that does not exist yet.
LEMMA SemCreateInv ==
    ASSUME SemInv, NEW a \in App, NEW s \in Named, SemCreate(a, s)
    PROVE  /\ SemInv' /\ \A t \in Sem : Queue(t)' = Queue(t)
           /\ bl[s].app = NONE /\ bl'[s].app = a /\ \A t \in Sem \ {s} : bl'[t] = bl[t]
<1>1. /\ mode = "run" /\ a = Act(k) /\ pc[a] = "user" /\ ~bl[s].valid
      /\ UNCHANGED << k, mode, live, pc, nxtsem, semaph, tim >>
  BY DEF SemCreate, Running
<1>2. s \in Sem /\ s # SCR /\ a \in Ptr /\ NONE \in Ptr
  BY SemaphoreAssumption DEF Sem, Ptr
<1>3. bl \in [Sem -> Blockage] /\ held \in [App -> [Sem -> 0..MaxNest]] /\ 1 \in 0..MaxNest
  BY SemaphoreAssumption DEF SemInv, TypeOK
<1>4. bl[s].app = NONE /\ bl[s].waiting = NONE
  BY <1>1, <1>2 DEF SemInv, Owned, FreeIsFree
<1>5. PICK r : r = [app |-> a, pd |-> a, cnt |-> 0, waiting |-> NONE, valid |-> TRUE]
  OBVIOUS
<1>6. r \in Blockage /\ r.app = a /\ r.pd = a /\ r.valid /\ r.waiting = NONE
  BY <1>2, <1>5, SemaphoreAssumption DEF Blockage
<1>7. bl' = [bl EXCEPT ![s] = r]
  BY <1>5 DEF SemCreate
<1>8. bl' \in [Sem -> Blockage] /\ bl'[s] = r /\ \A t \in Sem \ {s} : bl'[t] = bl[t]
  BY <1>2, <1>3, <1>6, <1>7, OneBl
<1>9. /\ held' \in [App -> [Sem -> 0..MaxNest]] /\ held'[a][s] = 1
      /\ \A b \in App, t \in Sem : (b # a \/ t # s) => held'[b][t] = held[b][t]
  <2>1. held' = [held EXCEPT ![a][s] = 1]
    BY DEF SemCreate
  <2>. QED BY <1>2, <1>3, <2>1, OneHeld
<1>10. /\ bl[s].app \in {NONE, a} /\ bl'[s].waiting = bl[s].waiting /\ bl'[s].app = a
       /\ bl'[s].pd = a /\ bl'[s].valid /\ held'[a][s] > 0 /\ (s = SCR => bl'[s].cnt = held'[a][s])
  BY <1>2, <1>4, <1>6, <1>8, <1>9
<1>11. SemInv' /\ \A t \in Sem : Queue(t)' = Queue(t)
  BY <1>1, <1>2, <1>8, <1>9, <1>10, TakeInv
<1>. QED BY <1>4, <1>8, <1>10, <1>11

\* BEG_UPDATE without waiting takes the screen or nests.
LEMMA BegUpdateInv ==
    ASSUME SemInv, NEW a \in App, BegUpdate(a)
    PROVE  /\ SemInv' /\ \A t \in Sem : Queue(t)' = Queue(t)
           /\ bl[SCR].app \in {NONE, a} /\ bl'[SCR].app = a
           /\ \A t \in Sem \ {SCR} : bl'[t] = bl[t]
<1>1. /\ mode = "run" /\ a = Act(k) /\ pc[a] = "user" /\ bl[SCR].cnt < MaxNest
      /\ bl[SCR].app = a \/ bl[SCR].cnt = 0
      /\ UNCHANGED << k, mode, live, pc, nxtsem, semaph, tim >>
  BY DEF BegUpdate, BegUpdateGets, Running
<1>2. SCR \in Sem /\ a \in Ptr /\ a # NONE /\ a \in live
  BY <1>1, RunFacts, SemaphoreAssumption DEF Sem, Ptr
<1>3. /\ bl \in [Sem -> Blockage] /\ held \in [App -> [Sem -> 0..MaxNest]]
      /\ MaxNest \in Nat \ {0} /\ bl[SCR].cnt \in Nat
  BY <1>2, SemaphoreAssumption DEF SemInv, TypeOK, Blockage
<1>4. bl[SCR].app \in {NONE, a} /\ bl[SCR].valid /\ held[a][SCR] = bl[SCR].cnt
  <2>1. CASE bl[SCR].app = a
    <3>1. held[a][SCR] > 0 /\ bl[SCR].valid
      BY <1>1, <1>2, <2>1 DEF SemInv, Owned
    <3>. QED BY <1>2, <2>1, <3>1 DEF SemInv, HolderIsOwner
  <2>2. CASE bl[SCR].app # a
    <3>1. bl[SCR].app = NONE /\ bl[SCR].valid
      BY <1>1, <1>2, <2>2 DEF SemInv, Owned
    <3>2. ~(held[a][SCR] > 0)
      BY <1>2, <2>2 DEF SemInv, HolderIsOwner
    <3>3. held[a][SCR] \in 0..MaxNest
      BY <1>2, <1>3
    <3>. QED BY <1>1, <1>3, <2>2, <3>1, <3>2, <3>3
  <2>. QED BY <2>1, <2>2
<1>5. PICK c \in 0..MaxNest : c = bl[SCR].cnt + 1 /\ c > 0
  BY <1>1, <1>3
<1>6. PICK r : r = [bl[SCR] EXCEPT !.cnt = c, !.app = a, !.pd = a]
  OBVIOUS
<1>7. /\ r \in Blockage /\ r.app = a /\ r.pd = a /\ r.cnt = c /\ r.valid = bl[SCR].valid
      /\ r.waiting = bl[SCR].waiting
  BY <1>2, <1>3, <1>6 DEF Blockage
<1>8. bl' = [bl EXCEPT ![SCR] = r]
  BY <1>5, <1>6 DEF BegUpdate
<1>9. bl' \in [Sem -> Blockage] /\ bl'[SCR] = r /\ \A t \in Sem \ {SCR} : bl'[t] = bl[t]
  BY <1>2, <1>3, <1>7, <1>8, OneBl
<1>10. /\ held' \in [App -> [Sem -> 0..MaxNest]] /\ held'[a][SCR] = c
       /\ \A b \in App, t \in Sem : (b # a \/ t # SCR) => held'[b][t] = held[b][t]
  <2>1. held' = [held EXCEPT ![a][SCR] = c]
    BY <1>4, <1>5 DEF BegUpdate
  <2>. QED BY <1>2, <1>3, <2>1, OneHeld
<1>11. /\ bl[SCR].app \in {NONE, a} /\ bl'[SCR].waiting = bl[SCR].waiting /\ bl'[SCR].app = a
       /\ bl'[SCR].pd = a /\ bl'[SCR].valid /\ held'[a][SCR] > 0
       /\ (SCR = SCR => bl'[SCR].cnt = held'[a][SCR])
  BY <1>4, <1>5, <1>7, <1>9, <1>10
<1>12. SemInv' /\ \A t \in Sem : Queue(t)' = Queue(t)
  BY <1>1, <1>2, <1>9, <1>10, <1>11, TakeInv
<1>. QED BY <1>9, <1>11, <1>12

-----------------------------------------------------------------------------
(* The end of a wait, new and killed applications *)

\* Steps that leave BLOCKAGEs and links alone and in which nobody begins or
\* ends to wait.
LEMMA QueuesStay ==
    ASSUME SemInv, bl' = bl, nxtsem' = nxtsem, \A s \in Sem : Waiters(s)' = Waiters(s)
    PROVE  Queues' /\ \A s \in Sem : Queue(s)' = Queue(s)
<1>1. \A s \in Sem : Queue(s)' = Queue(s)
  BY DEF Queue
<1>. QED BY <1>1 DEF SemInv, Queues

\* Clearing the events of the running application does not touch the lists.
LEMMA EndWaitOK ==
    ASSUME SemInv, NEW a, mode = "run", a = Act(k), NEW n, n = EndWait(k, a)
    PROVE  /\ KOK(n, live) /\ n.ready = k.ready /\ n.status = k.status
           /\ n.rbits[a] = {} /\ n.hbits[a] = {}
           /\ \A b \in App \ {a} : n.rbits[b] = k.rbits[b] /\ n.hbits[b] = k.hbits[b]
<1>1. /\ a \in App /\ k \in KState /\ ListsMatch(k, live)
      /\ \A b \in App : k.status[b] = "SUSPENDED" => k.rbits[b] = {}
  BY RunFacts, QueueFacts DEF KOK
<1>2. /\ n \in KState /\ n.ready = k.ready /\ n.susp = k.susp /\ n.notready = k.notready
      /\ n.status = k.status
      /\ n.rbits = [k.rbits EXCEPT ![a] = {}] /\ n.hbits = [k.hbits EXCEPT ![a] = {}]
  BY <1>1 DEF EndWait, KState
<1>3. k.rbits \in [App -> SUBSET Event] /\ k.hbits \in [App -> SUBSET Event]
  BY <1>1 DEF KState
<1>4. /\ n.rbits[a] = {} /\ n.hbits[a] = {}
      /\ \A b \in App \ {a} : n.rbits[b] = k.rbits[b] /\ n.hbits[b] = k.hbits[b]
  BY <1>1, <1>2, <1>3
<1>5. ListsMatch(n, live)
  BY <1>1, <1>2 DEF ListsMatch
<1>6. \A b \in App : n.status[b] = "SUSPENDED" => n.rbits[b] = {}
  BY <1>1, <1>2, <1>4
<1>. QED BY <1>2, <1>4, <1>5, <1>6 DEF KOK

\* After appl_wait the caller finds itself the owner of what it was given.
LEMMA WaitRetInv ==
    ASSUME SemInv, NEW a \in App, WaitRet(a)
    PROVE  SemInv' /\ bl' = bl /\ \A s \in Sem : Queue(s)' = Queue(s)
<1>1. /\ mode = "run" /\ a = Act(k) /\ pc[a] = "sem" /\ k' = EndWait(k, a)
      /\ UNCHANGED << mode, live, bl, nxtsem >>
      /\ pc' = [pc EXCEPT ![a] = "user"] /\ semaph' = [semaph EXCEPT ![a] = NONE]
  BY DEF WaitRet, Running, Forget
<1>2. /\ a \in live /\ live \in SUBSET App /\ k.status[a] = "READY" /\ k.ready # << >> /\ a # NONE
      /\ \A b \in App \ {a} : pc[b] \notin {"events", "new"}
  BY <1>1, RunFacts, SemaphoreAssumption
<1>3. SEM \in k.hbits[a]
  BY <1>1, <1>2 DEF SemInv, WaitInv
<1>4. /\ KOK(k', live) /\ k'.ready = k.ready /\ k'.status = k.status
      /\ k'.rbits[a] = {} /\ k'.hbits[a] = {}
      /\ \A b \in App \ {a} : k'.rbits[b] = k.rbits[b] /\ k'.hbits[b] = k.hbits[b]
  BY <1>1, EndWaitOK
<1>5. /\ bl \in [Sem -> Blockage] /\ semaph \in [App -> Sem \cup {NONE}]
      /\ pc \in [App -> Pc] /\ held \in [App -> [Sem -> 0..MaxNest]] /\ tim \subseteq App
  BY DEF SemInv, TypeOK
<1>6. /\ semaph' \in [App -> Sem \cup {NONE}] /\ semaph'[a] = NONE
      /\ \A b \in App \ {a} : semaph'[b] = semaph[b]
  BY <1>1, <1>5
<1>7. /\ pc' \in [App -> Pc] /\ pc'[a] = "user" /\ \A b \in App \ {a} : pc'[b] = pc[b]
  BY <1>1, <1>5 DEF Pc
<1>8. PICK s : s = semaph[a]
  OBVIOUS
<1>9. /\ held' \in [App -> [Sem -> 0..MaxNest]]
      /\ s # NONE => held'[a][s] = 1
      /\ \A b \in App, t \in Sem : (b # a \/ t # s) => held'[b][t] = held[b][t]
  <2>1. held' = IF s # NONE THEN [held EXCEPT ![a][s] = 1] ELSE held
    BY <1>3, <1>8 DEF WaitRet
  <2>2. 1 \in 0..MaxNest
    BY SemaphoreAssumption
  <2>3. CASE s # NONE
    <3>1. s \in Sem /\ held' = [held EXCEPT ![a][s] = 1]
      BY <1>5, <1>8, <2>1, <2>3
    <3>. QED BY <1>5, <2>2, <3>1, OneHeld
  <2>4. CASE s = NONE
    BY <1>5, <2>1, <2>4
  <2>. QED BY <2>3, <2>4
<1>10. /\ s # NONE => /\ s \in Sem /\ bl[s].app = a /\ (s = SCR => bl[s].cnt = 1)
                      /\ bl[s].valid
  <2>1. ASSUME s # NONE PROVE s \in Sem /\ bl[s].app = a /\ (s = SCR => bl[s].cnt = 1)
    BY <1>1, <1>3, <1>5, <1>8, <2>1 DEF SemInv, Told
  <2>. QED BY <1>2, <2>1 DEF SemInv, Owned
<1>11. TypeOK'
  <2>1. tim' \subseteq App
    BY <1>5 DEF WaitRet
  <2>2. k' \in KState
    BY <1>4 DEF KOK
  <2>. QED BY <1>1, <1>6, <1>7, <1>9, <2>1, <2>2 DEF SemInv, TypeOK
<1>12. \A t \in Sem : Waiters(t)' = Waiters(t)
  BY <1>1, <1>2, <1>3, <1>4, <1>6 DEF Waiters
<1>13. Queues' /\ \A t \in Sem : Queue(t)' = Queue(t)
  BY <1>1, <1>12, QueuesStay
<1>14. Lists'
  BY <1>1, <1>2, <1>4 DEF Lists, KOK
<1>15. WaitInv'
  <2>1. \A b \in App : pc'[b] \notin {"events", "new"}
    BY <1>2, <1>7
  <2>. QED BY <1>4, <1>6, <1>7, <2>1 DEF SemInv, WaitInv
<1>16. GaveBack'
  <2>1. ASSUME NEW b \in App, b \notin live \/ pc'[b] \in {"events", "new", "upd", "fall"}
        PROVE  \A t \in Sem : held'[b][t] = 0
    <3>1. b # a
      BY <1>2, <1>7, <2>1
    <3>. QED BY <1>7, <1>9, <2>1, <3>1 DEF SemInv, GaveBack
  <2>2. \A b \in App : b \notin live => pc'[b] = "user"
    BY <1>2, <1>7 DEF SemInv, GaveBack
  <2>. QED BY <1>1, <2>1, <2>2 DEF GaveBack
<1>17. Told'
  BY <1>1, <1>4, <1>6, <1>7 DEF SemInv, Told
<1>18. Owned'
  <2>1. ASSUME NEW t \in Sem, bl[t].app # NONE
        PROVE  /\ bl[t].valid /\ bl[t].pd = bl[t].app /\ bl[t].app \in live
               /\ t = SCR => bl[t].cnt > 0
               /\ bl[t].app \notin Waiters(t)'
               /\ \/ held'[bl[t].app][t] > 0
                  \/ /\ pc'[bl[t].app] \in {"sem", "upd"}
                     /\ SEM \in k'.hbits[bl[t].app] /\ semaph'[bl[t].app] = t
                  \/ pc'[bl[t].app] = "break"
    <3>1. PICK c : c = bl[t].app
      OBVIOUS
    <3>2. /\ bl[t].valid /\ bl[t].pd = c /\ c \in live /\ (t = SCR => bl[t].cnt > 0)
          /\ c \notin Waiters(t) /\ c \in App
          /\ \/ held[c][t] > 0
             \/ pc[c] \in {"sem", "upd"} /\ SEM \in k.hbits[c] /\ semaph[c] = t
             \/ pc[c] = "break"
      BY <1>2, <2>1, <3>1 DEF SemInv, Owned
    <3>3. CASE c = a
      <4>1. t # NONE
        BY SemaphoreAssumption DEF Sem
      <4>2. held'[a][t] > 0
        BY <1>1, <1>8, <1>9, <3>2, <3>3, <4>1
      <4>. QED BY <1>12, <3>1, <3>2, <3>3, <4>2
    <3>4. CASE c # a
      BY <1>4, <1>6, <1>7, <1>9, <1>12, <3>1, <3>2, <3>4
    <3>. QED BY <3>3, <3>4
  <2>. QED BY <1>1, <2>1 DEF SemInv, Owned
<1>19. FreeIsFree'
  BY <1>1 DEF SemInv, FreeIsFree
<1>20. HolderIsOwner'
  <2>1. ASSUME NEW b \in live, NEW t \in Sem, held'[b][t] > 0
        PROVE  bl[t].valid /\ bl[t].app = b /\ (t = SCR => bl[t].cnt = held'[b][t])
    <3>1. b \in App /\ t # NONE
      BY <1>2, SemaphoreAssumption DEF Sem
    <3>2. CASE b = a /\ t = s
      BY <1>9, <1>10, <3>1, <3>2
    <3>3. CASE b # a \/ t # s
      <4>1. held'[b][t] = held[b][t]
        BY <1>9, <3>1, <3>3
      <4>. QED BY <2>1, <4>1 DEF SemInv, HolderIsOwner
    <3>. QED BY <3>2, <3>3
  <2>. QED BY <1>1, <2>1 DEF HolderIsOwner
<1>. QED BY <1>1, <1>11, <1>13, <1>14, <1>15, <1>16, <1>17, <1>18, <1>19, <1>20 DEF SemInv

\* A new application has nothing and waits for nothing.
LEMMA InitAPPLInv ==
    ASSUME SemInv, NEW a \in App, NEW b \in App, InitAPPL(a, b)
    PROVE  SemInv' /\ bl' = bl /\ \A s \in Sem : Queue(s)' = Queue(s)
<1>1. /\ mode = "run" /\ a = Act(k) /\ b \notin live /\ k' = ApToLastReady(k, b)
      /\ live' = live \cup {b} /\ UNCHANGED << mode, pc, bl, nxtsem, semaph, tim, held >>
  BY DEF InitAPPL, Running
<1>2. /\ k \in KState /\ live \in SUBSET App /\ k.ready # << >> /\ ListsMatch(k, live)
      /\ \A c \in App : k.status[c] = "SUSPENDED" => k.rbits[c] = {}
  BY <1>1, RunFacts, QueueFacts DEF KOK
<1>3. NoDup(k.ready) /\ b \notin Members(k.ready)
  BY <1>1, <1>2 DEF ListsMatch
<1>4. PICK n, L : n = k' /\ L = live /\ n = ApToLastReady(k, b)
  BY <1>1
<1>5. /\ n \in KState /\ NoDup(n.ready) /\ n.ready # << >>
      /\ Members(n.ready) = Members(k.ready) \cup {b}
      /\ n.status = [k.status EXCEPT ![b] = "READY"]
      /\ n.susp = k.susp /\ n.notready = k.notready
      /\ n.rbits = k.rbits /\ n.hbits = k.hbits
      /\ k.ready # << >> => Act(n) = Act(k)
  BY <1>2, <1>3, <1>4, ApToLastReadyOK
<1>6. k.status \in [App -> Status]
  BY <1>2 DEF KState
<1>7. n.status[b] = "READY" /\ \A c \in App \ {b} : n.status[c] = k.status[c]
  BY <1>5, <1>6
<1>8. ListsMatch(n, live \cup {b})
  BY <1>1, <1>2, <1>5, <1>7 DEF ListsMatch
<1>9. pc[b] = "user" /\ k.rbits[b] = {} /\ \A s \in Sem : held[b][s] = 0
  BY <1>1 DEF SemInv, GaveBack, WaitInv
<1>10. \A s \in Sem : Waiters(s)' = Waiters(s)
  BY <1>1, <1>4, <1>5, <1>9 DEF Waiters
<1>11. Queues' /\ \A s \in Sem : Queue(s)' = Queue(s)
  BY <1>1, <1>10, QueuesStay
<1>12. TypeOK'
  BY <1>1, <1>2, <1>4, <1>5 DEF SemInv, TypeOK
<1>13. Lists'
  <2>1. \A c \in App : n.status[c] = "SUSPENDED" => n.rbits[c] = {}
    BY <1>2, <1>5, <1>7
  <2>. QED BY <1>1, <1>4, <1>5, <1>8, <2>1 DEF Lists
<1>14. WaitInv'
  <2>1. \A c \in App : pc[c] \in {"sem", "upd"} => n.status[c] = k.status[c]
    BY <1>7, <1>9
  <2>. QED BY <1>1, <1>2, <1>4, <1>5, <2>1 DEF SemInv, WaitInv
<1>15. GaveBack' /\ Told' /\ FreeIsFree'
  BY <1>1, <1>4, <1>5 DEF SemInv, GaveBack, Told, FreeIsFree
<1>16. Owned'
  BY <1>1, <1>4, <1>5, <1>10 DEF SemInv, Owned
<1>17. HolderIsOwner'
  <2>1. ASSUME NEW c \in live \cup {b}, NEW s \in Sem, held[c][s] > 0
        PROVE  bl[s].valid /\ bl[s].app = c /\ (s = SCR => bl[s].cnt = held[c][s])
    <3>1. c \in live
      BY <1>9, <2>1
    <3>. QED BY <2>1, <3>1 DEF SemInv, HolderIsOwner
  <2>. QED BY <1>1, <2>1 DEF HolderIsOwner
<1>. QED BY <1>1, <1>11, <1>12, <1>13, <1>14, <1>15, <1>16, <1>17 DEF SemInv

\* kill_thread makes an application ready, it stays in the queue it waits in.
LEMMA KillInv ==
    ASSUME SemInv, NEW a \in App, NEW b \in App, Kill(a, b)
    PROVE  SemInv' /\ bl' = bl /\ \A s \in Sem : Queue(s)' = Queue(s)
<1>1. /\ mode = "run" /\ a = Act(k) /\ pc[a] = "user" /\ b \in live /\ pc[b] \in {"user", "sem"}
      /\ pc' = [pc EXCEPT ![b] = "break"] /\ k' = IF a = b THEN k ELSE App2Ready(k, b)
      /\ UNCHANGED << mode, live, bl, nxtsem, semaph, tim, held >>
  BY DEF Kill, Running
<1>2. /\ k \in KState /\ live \in SUBSET App /\ k.ready # << >> /\ ListsMatch(k, live)
      /\ \A c \in App : k.status[c] = "SUSPENDED" => k.rbits[c] = {}
      /\ \A c \in App : pc[c] \notin {"events", "new"}
  BY <1>1, RunFacts, QueueFacts DEF KOK
<1>3. /\ k' \in KState /\ ListsMatch(k', live) /\ k'.ready # << >> /\ Act(k') = Act(k)
      /\ k'.status[b] = "SUSPENDED" => k'.rbits[b] = {}
      /\ k'.rbits[b] \in {k.rbits[b], k.rbits[b] \cup {RESVD}}
      /\ k'.hbits[b] \in {k.hbits[b], k.hbits[b] \cup {RESVD}}
      /\ \A c \in App \ {b} : /\ k'.status[c] = k.status[c]
                              /\ k'.rbits[c] = k.rbits[c] /\ k'.hbits[c] = k.hbits[c]
  <2>1. CASE a = b
    BY <1>1, <1>2, <2>1
  <2>2. CASE a # b
    <3>1. PICK n, L : n = k' /\ L = live /\ n = App2Ready(k, b)
      BY <1>1, <2>2
    <3>2. k \in KState /\ L \in SUBSET App /\ ListsMatch(k, L) /\ b \in L /\ k.ready # << >>
          /\ (k.status[b] = "SUSPENDED" => k.rbits[b] = {})
      BY <1>1, <1>2, <3>1
    <3>3. /\ n \in KState /\ ListsMatch(n, L) /\ n.ready # << >> /\ Act(n) = Act(k)
          /\ n.status[b] = "SUSPENDED" => n.rbits[b] = {}
          /\ n.rbits[b] \in {k.rbits[b], k.rbits[b] \cup {RESVD}}
          /\ n.hbits[b] \in {k.hbits[b], k.hbits[b] \cup {RESVD}}
          /\ \A c \in App \ {b} : /\ n.status[c] = k.status[c]
                                  /\ n.rbits[c] = k.rbits[c] /\ n.hbits[c] = k.hbits[c]
      BY ONLY <3>1, <3>2, App2ReadyOK
    <3>. QED BY ONLY <3>1, <3>3
  <2>. QED BY <2>1, <2>2
<1>4. pc \in [App -> Pc]
  BY DEF SemInv, TypeOK
<1>5. /\ pc' \in [App -> Pc] /\ pc'[b] = "break" /\ \A c \in App \ {b} : pc'[c] = pc[c]
  BY <1>1, <1>4 DEF Pc
<1>6. /\ SEM \in k'.rbits[b] <=> SEM \in k.rbits[b]
      /\ SEM \in k'.hbits[b] <=> SEM \in k.hbits[b]
  BY <1>3, SemaphoreAssumption
<1>7. \A s \in Sem : Waiters(s)' = Waiters(s)
  BY <1>1, <1>2, <1>3, <1>6 DEF Waiters
<1>8. Queues' /\ \A s \in Sem : Queue(s)' = Queue(s)
  BY <1>1, <1>7, QueuesStay
<1>9. TypeOK'
  BY <1>1, <1>3, <1>5 DEF SemInv, TypeOK
<1>10. Lists'
  BY <1>1, <1>2, <1>3 DEF Lists
<1>11. WaitInv'
  BY <1>1, <1>2, <1>3, <1>5, <1>6 DEF SemInv, WaitInv
<1>12. GaveBack' /\ Told' /\ FreeIsFree' /\ HolderIsOwner'
  BY <1>1, <1>3, <1>5 DEF SemInv, GaveBack, Told, FreeIsFree, HolderIsOwner
<1>13. Owned'
  <2>1. ASSUME NEW t \in Sem, bl[t].app # NONE
        PROVE  /\ bl[t].valid /\ bl[t].pd = bl[t].app /\ bl[t].app \in live
               /\ t = SCR => bl[t].cnt > 0
               /\ bl[t].app \notin Waiters(t)'
               /\ \/ held[bl[t].app][t] > 0
                  \/ /\ pc'[bl[t].app] \in {"sem", "upd"}
                     /\ SEM \in k'.hbits[bl[t].app] /\ semaph[bl[t].app] = t
                  \/ pc'[bl[t].app] = "break"
    <3>1. bl[t].app \in App
      BY <1>2, <2>1 DEF SemInv, Owned
    <3>. QED BY <1>3, <1>5, <1>7, <2>1, <3>1 DEF SemInv, Owned
  <2>. QED BY <1>1, <2>1 DEF SemInv, Owned
<1>. QED BY <1>1, <1>8, <1>9, <1>10, <1>11, <1>12, <1>13 DEF SemInv

-----------------------------------------------------------------------------
(* Giving semaphores away *)

\* The applications that get a semaphore wait for it.
LEMMA HeadsWait ==
    ASSUME SemInv, NEW S \in SUBSET Sem
    PROVE  /\ \A b \in Heads(S, Qs) : \E s \in S : /\ Queue(s) # << >> /\ b = Queue(s)[1]
                                                 /\ b \in Waiters(s)
           /\ \A s \in S : Queue(s) # << >> => Queue(s)[1] \in Heads(S, Qs)
<1>1. \A s \in Sem : /\ Qs[s] = Queue(s) /\ Queue(s) \in Seq(App) /\ NoDup(Queue(s))
                     /\ Members(Queue(s)) = Waiters(s)
  BY QueueFacts
<1>2. \A s \in Sem : Queue(s) # << >> => Queue(s)[1] \in Waiters(s)
  BY <1>1, RestOf
<1>3. ASSUME NEW b \in Heads(S, Qs)
      PROVE  \E s \in S : Queue(s) # << >> /\ b = Queue(s)[1] /\ b \in Waiters(s)
  <2>1. PICK s \in S : Qs[s] # << >> /\ b = Qs[s][1]
    BY DEF Heads
  <2>. QED BY <1>1, <1>2, <2>1
<1>4. \A s \in S : Queue(s) # << >> => Queue(s)[1] \in Heads(S, Qs)
  BY <1>1 DEF Heads
<1>. QED BY <1>3, <1>4

\* what a step in which a gives the semaphores in S away does to others,
OthersGet(a, S) ==
    \A b \in App \ {a} :
       /\ pc'[b] = pc[b] /\ semaph'[b] = semaph[b] /\ held'[b] = held[b]
       /\ k'.rbits[b] = k.rbits[b]
       /\ k'.hbits[b] = IF b \in Heads(S, Qs) THEN k.hbits[b] \cup {SEM} ELSE k.hbits[b]
       /\ k'.status[b] = "READY" => k.status[b] \in {"READY", "SUSPENDED"} \/ b \in Heads(S, Qs)

\* to itself,
GiverGoesOn(a, S) ==
    /\ mode' = "run" => Act(k') = a
    /\ pc'[a] \in {"user", "events", "fall"} /\ (pc'[a] = "events" => mode' = "run")
    /\ pc'[a] \in {"user", "fall"} => k'.rbits[a] = {} /\ k'.hbits[a] = {} /\ semaph'[a] = NONE
    /\ \A s \in Sem : a \in Waiters(s)' <=> a \in Waiters(s)
    /\ SEM \in k'.rbits[a] \ k'.hbits[a] => semaph'[a] # NONE
    /\ pc'[a] # "user" => \A s \in Sem : held'[a][s] = 0
    /\ \A s \in Sem : held'[a][s] > 0 => s \notin S /\ held'[a][s] = held[a][s]

\* and to the semaphores
SemsGiven(a, S, st) ==
    /\ \A s \in S : bl[s].app \in {NONE, a} /\ a \notin Waiters(s)
    /\ \A s \in Sem \ S : bl[s].app = a => held'[a][s] > 0
    /\ \A s \in S : GivenTo(st, State', s, Queue(s)) /\ st.bl[s].valid
    /\ SCR \in S => st.bl[SCR].cnt = 0
    /\ \A s \in Sem \ S : Kept(State, State', s, Queue(s))

\* Giving semaphores away keeps the invariant: whoever waits longest for one
\* of them finds itself its owner, nobody else's semaphore changes.
LEMMA GiveInv ==
    ASSUME SemInv, NEW a \in App, NEW S \in SUBSET Sem, NEW st, mode = "run", a = Act(k),
           TypeOK', Lists', live' = live,
           OthersGet(a, S), GiverGoesOn(a, S), SemsGiven(a, S, st)
    PROVE  /\ SemInv'
           /\ \A s \in S : /\ Queue(s)' = Rest(Queue(s))
                           /\ bl'[s].app = IF Queue(s) = << >> THEN NONE ELSE Queue(s)[1]
           /\ \A s \in Sem \ S : Queue(s)' = Queue(s) /\ bl'[s].app = bl[s].app
<1>1. /\ a \in live /\ live \in SUBSET App /\ a # NONE
      /\ \A b \in App \ {a} : pc[b] \notin {"events", "new"}
  BY RunFacts, SemaphoreAssumption
<1>2. \A s \in Sem : /\ Queue(s) \in Seq(App) /\ NoDup(Queue(s)) /\ Members(Queue(s)) = Waiters(s)
  BY QueueFacts
<1>3. PICK H : H = Heads(S, Qs)
  OBVIOUS
<1>4. \A b \in H : \E s \in S : Queue(s) # << >> /\ b = Queue(s)[1] /\ b \in Waiters(s)
  BY <1>3, HeadsWait
<1>5. \A s \in S : Queue(s) # << >> => Queue(s)[1] \in H
  BY <1>3, HeadsWait
<1>6. \A s \in Sem : \A b \in Waiters(s) :
         b \in live /\ b \in App /\ SEM \in k.rbits[b] /\ SEM \notin k.hbits[b] /\ semaph[b] = s
  BY <1>1 DEF Waiters
<1>7. a \notin H
  BY <1>4 DEF SemsGiven
<1>others. ASSUME NEW b \in App, b # a
      PROVE  /\ pc'[b] = pc[b] /\ semaph'[b] = semaph[b] /\ held'[b] = held[b]
             /\ k'.rbits[b] = k.rbits[b] /\ k.hbits[b] \subseteq k'.hbits[b]
             /\ b \in H => SEM \in k'.hbits[b]
  <2>1. /\ pc'[b] = pc[b] /\ semaph'[b] = semaph[b] /\ held'[b] = held[b]
        /\ k'.rbits[b] = k.rbits[b]
        /\ k'.hbits[b] = IF b \in H THEN k.hbits[b] \cup {SEM} ELSE k.hbits[b]
    BY <1>others, <1>3 DEF OthersGet
  <2>. QED BY ONLY <2>1
<1>8. \A s \in S : /\ bl'[s].valid = st.bl[s].valid
                   /\ Queue(s) = << >> => bl'[s].app = NONE /\ bl'[s].cnt = st.bl[s].cnt
                   /\ Queue(s) # << >> => /\ bl'[s].app = Queue(s)[1] /\ bl'[s].pd = Queue(s)[1]
                                          /\ bl'[s].cnt = IF s = SCR THEN 1 ELSE 0
                   /\ IsList(Rest(Queue(s)), bl'[s].waiting, nxtsem')
  BY DEF GivenTo, State, SemsGiven
<1>9. \A s \in Sem \ S : bl'[s] = bl[s] /\ IsList(Queue(s), bl'[s].waiting, nxtsem')
  BY DEF Kept, State, SemsGiven
<1>10. nxtsem' \in [App -> Ptr]
  BY DEF TypeOK
<1>11. ASSUME NEW s \in Sem PROVE Waiters(s)' = Waiters(s) \ H
  <2>1. ASSUME NEW b \in App PROVE b \in Waiters(s)' <=> b \in Waiters(s) /\ b \notin H
    <3>1. CASE b = a
      BY <1>7, <3>1 DEF GiverGoesOn
    <3>2. CASE b # a
      <4>1. /\ semaph'[b] = semaph[b] /\ k'.rbits[b] = k.rbits[b]
            /\ k'.hbits[b] = IF b \in H THEN k.hbits[b] \cup {SEM} ELSE k.hbits[b]
        BY <1>3, <3>2 DEF OthersGet
      <4>. QED BY <4>1 DEF Waiters
    <3>. QED BY <3>1, <3>2
  <2>2. Waiters(s)' \subseteq App /\ Waiters(s) \subseteq App
    BY <1>1 DEF Waiters
  <2>. QED BY <2>1, <2>2
<1>12. ASSUME NEW s \in S
       PROVE  /\ Queue(s)' = Rest(Queue(s))
              /\ IsList(Queue(s)', bl'[s].waiting, nxtsem') /\ Members(Queue(s)') = Waiters(s)'
  <2>1. Members(Rest(Queue(s))) = Waiters(s) \ H
    <3>1. CASE Queue(s) = << >>
      <4>1. Rest(Queue(s)) = << >> /\ Members(<< >>) = {}
        BY <3>1, EmptyList DEF Rest
      <4>2. Waiters(s) = {}
        BY <1>2, <3>1, <4>1
      <4>. QED BY <4>1, <4>2
    <3>2. CASE Queue(s) # << >>
      <4>1. Members(Rest(Queue(s))) = Waiters(s) \ {Queue(s)[1]}
        BY <1>2, <3>2, RestOf
      <4>2. \A b \in Waiters(s) : b \in H <=> b = Queue(s)[1]
        BY <1>4, <1>5, <1>6, <3>2
      <4>. QED BY <4>1, <4>2
    <3>. QED BY <3>1, <3>2
  <2>2. Members(Rest(Queue(s))) = Waiters(s)'
    BY <1>11, <2>1
  <2>3. PICK q : q = Rest(Queue(s))
    OBVIOUS
  <2>4. IsList(q, bl'[s].waiting, nxtsem') /\ Members(q) = Waiters(s)'
    BY <1>8, <2>2, <2>3
  <2>. QED BY <1>10, <2>3, <2>4, NewQueue
<1>13. ASSUME NEW s \in Sem \ S
       PROVE  /\ Queue(s)' = Queue(s) /\ Waiters(s)' = Waiters(s)
              /\ IsList(Queue(s)', bl'[s].waiting, nxtsem') /\ Members(Queue(s)') = Waiters(s)'
  <2>1. \A b \in Waiters(s) : b \notin H
    BY <1>4, <1>6
  <2>2. Waiters(s)' = Waiters(s)
    <3>1. Waiters(s)' = Waiters(s) \ H
      BY <1>11
    <3>. QED BY ONLY <2>1, <3>1
  <2>3. PICK q : q = Queue(s)
    OBVIOUS
  <2>4. IsList(q, bl'[s].waiting, nxtsem') /\ Members(q) = Waiters(s)'
    BY <1>2, <1>9, <2>2, <2>3
  <2>. QED BY <1>10, <2>2, <2>3, <2>4, NewQueue
<1>14. Queues'
  BY <1>12, <1>13 DEF Queues
<1>15. \A b \in H : b # a /\ b \in App /\ b \in live /\ pc[b] \in {"sem", "upd", "break"}
  <2>1. \A b \in H : b # a /\ b \in App /\ b \in live /\ SEM \in k.rbits[b] /\ pc[b] \in Pc
    BY <1>4, <1>6, <1>7 DEF SemInv, TypeOK
  <2>. QED BY <1>1, <2>1 DEF SemInv, WaitInv, Pc
<1>16. WaitInv'
  <2>1. ASSUME NEW b \in App \ {a}
        PROVE  /\ pc'[b] \in {"user", "new", "fall"} => /\ k'.rbits[b] = {} /\ k'.hbits[b] = {}
                                                      /\ semaph'[b] = NONE
               /\ pc'[b] \in {"sem", "upd"} => /\ SEM \in k'.rbits[b] /\ k'.hbits[b] \subseteq {SEM}
                                              /\ (k'.status[b] = "READY" => SEM \in k'.hbits[b])
               /\ pc'[b] = "upd" => semaph'[b] = SCR
               /\ SEM \in k'.rbits[b] \ k'.hbits[b] => semaph'[b] # NONE
               /\ pc'[b] \notin {"events", "new"}
    <3>1. /\ pc'[b] = pc[b] /\ semaph'[b] = semaph[b] /\ k'.rbits[b] = k.rbits[b]
          /\ k'.hbits[b] = IF b \in H THEN k.hbits[b] \cup {SEM} ELSE k.hbits[b]
          /\ k'.status[b] = "READY" => k.status[b] \in {"READY", "SUSPENDED"} \/ b \in H
      BY <1>3 DEF OthersGet
    <3>2. SEM \in k.rbits[b] => k.status[b] # "SUSPENDED"
      BY DEF SemInv, Lists
    <3>3. pc[b] \in {"user", "new", "fall"} => b \notin H
      BY <1>15
    <3>. QED BY <1>1, <3>1, <3>2, <3>3 DEF SemInv, WaitInv
  <2>2. /\ pc'[a] \notin {"sem", "upd", "new"}
        /\ pc'[a] = "events" => mode' = "run" /\ a = Act(k')
        /\ pc'[a] \in {"user", "fall"} => k'.rbits[a] = {} /\ k'.hbits[a] = {} /\ semaph'[a] = NONE
        /\ SEM \in k'.rbits[a] \ k'.hbits[a] => semaph'[a] # NONE
    BY DEF GiverGoesOn
  <2>3. \A b \in App : b = a \/ b \in App \ {a}
    OBVIOUS
  <2>. QED BY <2>1, <2>2, <2>3 DEF WaitInv
<1>17. GaveBack'
  <2>1. ASSUME NEW b \in App, b # a
        PROVE  /\ b \notin live => pc'[b] = "user"
               /\ b \notin live \/ pc'[b] \in {"events", "new", "upd", "fall"} =>
                     \A s \in Sem : held'[b][s] = 0
    BY <1>others, <2>1 DEF SemInv, GaveBack
  <2>2. pc'[a] \in {"events", "new", "upd", "fall"} => \A s \in Sem : held'[a][s] = 0
    BY DEF GiverGoesOn
  <2>. QED BY <1>1, <2>1, <2>2 DEF GaveBack
<1>18. \A b \in live \ {a}, s \in Sem : held[b][s] > 0 => s \notin S
  BY <1>1, SemaphoreAssumption DEF SemInv, HolderIsOwner, SemsGiven
<1>19. Told'
  <2>1. ASSUME NEW b \in App, pc'[b] \in {"sem", "upd"}, SEM \in k'.hbits[b], semaph'[b] # NONE
        PROVE  bl'[semaph'[b]].app = b /\ (semaph'[b] = SCR => bl'[SCR].cnt = 1)
    <3>1. b # a /\ b # NONE
      BY <2>1, SemaphoreAssumption DEF GiverGoesOn
    <3>2. /\ pc[b] \in {"sem", "upd"} /\ semaph'[b] = semaph[b] /\ semaph[b] # NONE
          /\ SEM \in k.hbits[b] \/ b \in H
      BY <1>3, <2>1, <3>1 DEF OthersGet
    <3>3. CASE b \in H
      <4>1. PICK s \in S : Queue(s) # << >> /\ b = Queue(s)[1] /\ b \in Waiters(s)
        BY <1>4, <3>3
      <4>. QED BY <1>6, <1>8, <3>2, <4>1
    <3>4. CASE b \notin H
      <4>1. bl[semaph[b]].app = b /\ (semaph[b] = SCR => bl[SCR].cnt = 1) /\ semaph[b] \in Sem
        BY <3>2, <3>4 DEF SemInv, Told, TypeOK
      <4>2. semaph[b] \notin S
        BY <3>1, <4>1 DEF SemsGiven
      <4>. QED BY <1>9, <3>2, <4>1, <4>2
    <3>. QED BY <3>3, <3>4
  <2>. QED BY <2>1 DEF Told
<1>20. \A s \in S : Queue(s) # << >> => Queue(s)[1] \in Waiters(s) /\ Queue(s)[1] # NONE
  BY <1>2, <1>6, RestOf, SemaphoreAssumption
<1>21. ASSUME NEW t \in S, bl'[t].app # NONE
       PROVE  /\ bl'[t].valid /\ bl'[t].pd = bl'[t].app /\ bl'[t].app \in live'
              /\ t = SCR => bl'[t].cnt > 0
              /\ bl'[t].app \notin Waiters(t)'
              /\ \/ held'[bl'[t].app][t] > 0
                 \/ /\ pc'[bl'[t].app] \in {"sem", "upd"}
                    /\ SEM \in k'.hbits[bl'[t].app] /\ semaph'[bl'[t].app] = t
                 \/ pc'[bl'[t].app] = "break"
  <2>1. PICK b : b = Queue(t)[1] /\ Queue(t) # << >> /\ bl'[t].app = b /\ b \in H /\ b \in Waiters(t)
    BY <1>5, <1>8, <1>20, <1>21
  <2>2. b # a /\ b \in App /\ b \in live /\ pc[b] \in {"sem", "upd", "break"} /\ semaph[b] = t
    BY <1>6, <1>15, <2>1
  <2>3. pc'[b] = pc[b] /\ semaph'[b] = semaph[b] /\ SEM \in k'.hbits[b]
    BY <1>others, <2>1, <2>2
  <2>4. b \notin Waiters(t)'
    BY <1>11, <2>1
  <2>5. bl'[t].valid
    BY <1>8, Zenon DEF SemsGiven
  <2>6. bl'[t].pd = b /\ (t = SCR => bl'[t].cnt > 0)
    BY <1>8, <2>1
  <2>. QED BY <2>1, <2>2, <2>3, <2>4, <2>5, <2>6
<1>22. ASSUME NEW t \in Sem \ S, bl'[t].app # NONE
       PROVE  /\ bl'[t].valid /\ bl'[t].pd = bl'[t].app /\ bl'[t].app \in live'
              /\ t = SCR => bl'[t].cnt > 0
              /\ bl'[t].app \notin Waiters(t)'
              /\ \/ held'[bl'[t].app][t] > 0
                 \/ /\ pc'[bl'[t].app] \in {"sem", "upd"}
                    /\ SEM \in k'.hbits[bl'[t].app] /\ semaph'[bl'[t].app] = t
                 \/ pc'[bl'[t].app] = "break"
  <2>1. PICK c : c = bl[t].app /\ c # NONE /\ bl'[t] = bl[t]
    BY <1>9, <1>22
  <2>2. /\ bl[t].valid /\ bl[t].pd = c /\ c \in live /\ (t = SCR => bl[t].cnt > 0)
        /\ c \notin Waiters(t) /\ c \in App
        /\ \/ held[c][t] > 0
           \/ pc[c] \in {"sem", "upd"} /\ SEM \in k.hbits[c] /\ semaph[c] = t
           \/ pc[c] = "break"
    BY <1>1, <2>1 DEF SemInv, Owned
  <2>3. c \notin Waiters(t)'
    BY <1>13, <2>2
  <2>4. CASE c = a
    <3>1. held'[a][t] > 0
      BY <2>1, <2>4 DEF SemsGiven
    <3>. QED BY <2>1, <2>2, <2>3, <2>4, <3>1
  <2>5. CASE c # a
    <3>1. pc'[c] = pc[c] /\ semaph'[c] = semaph[c] /\ held'[c] = held[c] /\ k.hbits[c] \subseteq k'.hbits[c]
      BY <1>others, <2>2, <2>5
    <3>. QED BY <2>1, <2>2, <2>3, <3>1
  <2>. QED BY <2>4, <2>5
<1>23. Owned'
  <2>1. SCR \in Sem
    BY DEF Sem
  <2>2. CASE SCR \in S
    <3>1. bl'[SCR].valid
      BY <1>8, <2>2, Zenon DEF SemsGiven
    <3>. QED BY <1>21, <1>22, <3>1 DEF Owned
  <2>3. CASE SCR \notin S
    <3>1. bl'[SCR].valid
      BY <1>9, <2>1, <2>3 DEF SemInv, Owned
    <3>. QED BY <1>21, <1>22, <3>1 DEF Owned
  <2>. QED BY <2>2, <2>3
<1>24. FreeIsFree'
  <2>1. ASSUME NEW s \in S, bl'[s].app = NONE PROVE bl'[s].waiting = NONE /\ (s = SCR => bl'[s].cnt = 0)
    <3>1. Queue(s) = << >>
      BY <1>8, <1>20, <2>1
    <3>2. Rest(Queue(s)) = << >>
      BY <3>1 DEF Rest
    <3>3. bl'[s].waiting = NONE
      BY <1>8, <3>2 DEF IsList
    <3>. QED BY <1>8, <3>1, <3>3 DEF SemsGiven
  <2>2. ASSUME NEW s \in Sem \ S, bl'[s].app = NONE
        PROVE  bl'[s].waiting = NONE /\ (s = SCR => bl'[s].cnt = 0)
    BY <1>9, <2>2 DEF SemInv, FreeIsFree
  <2>. QED BY <2>1, <2>2 DEF FreeIsFree
<1>25. HolderIsOwner'
  <2>1. ASSUME NEW b \in live, NEW s \in Sem, held'[b][s] > 0
        PROVE  bl'[s].valid /\ bl'[s].app = b /\ (s = SCR => bl'[s].cnt = held'[b][s])
    <3>1. b \in App
      BY <1>1
    <3>2. s \notin S /\ held'[b][s] = held[b][s]
      BY <1>18, <1>others, <2>1, <3>1 DEF GiverGoesOn
    <3>3. bl[s].valid /\ bl[s].app = b /\ (s = SCR => bl[s].cnt = held[b][s])
      BY <2>1, <3>2 DEF SemInv, HolderIsOwner
    <3>. QED BY <1>9, <3>2, <3>3
  <2>. QED BY <2>1 DEF HolderIsOwner
<1>26. SemInv'
  BY <1>14, <1>16, <1>17, <1>19, <1>23, <1>24, <1>25 DEF SemInv
<1>. QED BY <1>8, <1>9, <1>12, <1>13, <1>26

\* Before the first semaphore is given away.
LEMMA FreedStart ==
    ASSUME SemInv, NEW st \in StType, st.nxtsem = nxtsem, KOK(st.k, live),
           \A s \in Sem : st.bl[s].waiting = bl[s].waiting
    PROVE  /\ Freed(st, st, {}, Qs, live) /\ Apart(Qs) /\ live \in SUBSET App
           /\ \A t \in Sem : Qs[t] \in Seq(App) /\ NoDup(Qs[t]) /\ Members(Qs[t]) \subseteq live
<1>1. /\ \A s \in Sem : /\ Qs[s] = Queue(s) /\ Queue(s) \in Seq(App) /\ NoDup(Queue(s))
                        /\ IsList(Queue(s), bl[s].waiting, nxtsem)
                        /\ Members(Queue(s)) = Waiters(s) /\ Waiters(s) \subseteq live
      /\ Apart(Qs) /\ live \in SUBSET App
  BY QueueFacts
<1>2. Woken(st.k, st.k, Heads({}, Qs), live)
  <2>1. Heads({}, Qs) = {}
    BY DEF Heads
  <2>. QED BY <2>1, WokenNone
<1>3. \A s \in Sem : Kept(st, st, s, Qs[s])
  BY <1>1 DEF Kept
<1>. QED BY <1>1, <1>2, <1>3 DEF Freed

\* What GiveInv needs to know of the semaphores.
LEMMA FreedSems ==
    ASSUME NEW st \in StType, NEW S \in SUBSET Sem, \A s \in Sem \ S : st.bl[s] = bl[s],
           NEW u, Freed(st, u, S, Qs, live), bl' = u.bl, nxtsem' = u.nxtsem
    PROVE  /\ \A s \in S : GivenTo(st, State', s, Queue(s))
           /\ \A s \in Sem \ S : Kept(State, State', s, Queue(s))
           /\ bl' \in [Sem -> Blockage] /\ nxtsem' \in [App -> Ptr]
<1>1. \A s \in Sem : Qs[s] = Queue(s)
  BY DEF Qs
<1>2. State'.bl = u.bl /\ State'.nxtsem = u.nxtsem /\ State.bl = bl
  BY DEF State
<1>3. \A s \in S : GivenTo(st, u, s, Queue(s))
  BY <1>1 DEF Freed
<1>4. \A s \in S : GivenTo(st, State', s, Queue(s))
  BY <1>2, <1>3 DEF GivenTo
<1>5. \A s \in Sem \ S : Kept(State, State', s, Queue(s))
  BY <1>1, <1>2 DEF Freed, Kept
<1>6. u \in StType
  BY DEF Freed
<1>. QED BY <1>4, <1>5, <1>6 DEF StType

\* What GiveInv needs to know of the kernel state.
LEMMA WokenFacts ==
    ASSUME NEW n \in KState, NEW u, NEW H, NEW L, Woken(n, u, H, L)
    PROVE  \A b \in App :
              /\ u.rbits[b] = n.rbits[b]
              /\ u.hbits[b] = IF b \in H THEN n.hbits[b] \cup {SEM} ELSE n.hbits[b]
              /\ u.status[b] = "READY" => n.status[b] \in {"READY", "SUSPENDED"} \/ b \in H
BY DEF Woken, KOK

\* The same when the caller yields afterwards.
LEMMA YieldWoken ==
    ASSUME SemInv, NEW a \in App, NEW n, NEW u, NEW H, Woken(n, u, H, live), NEW y, y = YieldLists(u),
           n.ready # << >>, Act(n) = a
    PROVE  /\ KOK(y, live) /\ y.rbits = u.rbits /\ y.hbits = u.hbits
           /\ \A b \in App : y.status[b] = "READY" =>
                 n.status[b] \in {"READY", "SUSPENDED"} \/ b \in H
<1>1. /\ u \in KState /\ ListsMatch(u, live) /\ u.ready # << >> /\ Act(u) = a
      /\ \A b \in App : u.status[b] = "SUSPENDED" => u.rbits[b] = {}
      /\ \A b \in App : u.status[b] = n.status[b] \/ (b \in H /\ u.status[b] = "READY")
  BY DEF Woken, KOK
<1>2. PICK L : L = live /\ L \in SUBSET App
  BY DEF SemInv, TypeOK
<1>3. ListsMatchBut(u, L, a) /\ u.status[a] = "READY"
  BY <1>1, <1>2, EnterCall
<1>4. /\ y \in KState /\ ListsMatch(y, L) /\ y.rbits = u.rbits /\ y.hbits = u.hbits
      /\ y.status[a] = u.status[a] \/ (y.status[a] = "READY" /\ u.status[a] = "WAITING")
      /\ \A b \in App \ {a} : y.status[b] = u.status[b]
                              \/ (u.status[b] = "SUSPENDED" /\ y.status[b] = "READY")
  <2>1. u \in KState /\ L \in SUBSET App /\ ListsMatchBut(u, L, a) /\ y = YieldLists(u)
    BY <1>1, <1>2, <1>3
  <2>. QED BY ONLY <2>1, YieldListsOK
<1>5. \A b \in App : y.status[b] = u.status[b] \/ (u.status[b] = "SUSPENDED" /\ y.status[b] = "READY")
  BY <1>3, <1>4
<1>6. KOK(y, live)
  BY <1>1, <1>2, <1>4, <1>5 DEF KOK
<1>. QED BY <1>1, <1>4, <1>5, <1>6

\* One semaphore is given away.
LEMMA FreedOne ==
    ASSUME SemInv, NEW st \in StType, st.nxtsem = nxtsem, KOK(st.k, live),
           \A t \in Sem : st.bl[t].waiting = bl[t].waiting, NEW s \in Sem
    PROVE  Freed(st, FreeSemaphore(st, s), {s}, Qs, live)
<1>1. /\ Freed(st, st, {}, Qs, live) /\ Apart(Qs) /\ live \in SUBSET App
      /\ \A t \in Sem : Qs[t] \in Seq(App) /\ NoDup(Qs[t]) /\ Members(Qs[t]) \subseteq live
  BY FreedStart
<1>2. {} \in SUBSET Sem /\ s \in Sem \ {} /\ {} \cup {s} = {s}
  OBVIOUS
<1>3. Freed(st, FreeSemaphore(st, s), {} \cup {s}, Qs, live)
  BY <1>1, <1>2, FreeStep
<1>. QED BY <1>2, <1>3

\* SEM_FREE by the owner.
LEMMA SemFreeInv ==
    ASSUME SemInv, NEW a \in App, NEW s \in Named, SemFree(a, s)
    PROVE  /\ SemInv' /\ bl[s].app = a
           /\ Queue(s)' = Rest(Queue(s))
           /\ bl'[s].app = IF Queue(s) = << >> THEN NONE ELSE Queue(s)[1]
           /\ \A t \in Sem \ {s} : Queue(t)' = Queue(t) /\ bl'[t].app = bl[t].app
<1>1. /\ mode = "run" /\ a = Act(k) /\ pc[a] = "user" /\ bl[s].valid /\ bl[s].app = a
      /\ held' = [held EXCEPT ![a][s] = 0] /\ UNCHANGED << mode, live, pc, semaph, tim >>
  BY DEF SemFree, Running, Return
<1>2. PICK u : u = FreeSemaphore(State, s) /\ k' = u.k /\ bl' = u.bl /\ nxtsem' = u.nxtsem
  BY DEF SemFree, Return
<1>3. s \in Sem /\ s # SCR /\ SCR \notin {s} /\ {s} \in SUBSET Sem /\ a # NONE
  BY SemaphoreAssumption DEF Sem
<1>4. State \in StType /\ State.k = k /\ State.bl = bl /\ State.nxtsem = nxtsem /\ KOK(k, live)
  BY QueueFacts DEF State
<1>5. Freed(State, u, {s}, Qs, live)
  <2>1. PICK st : st = State
    OBVIOUS
  <2>2. Freed(st, FreeSemaphore(st, s), {s}, Qs, live)
    BY <1>3, <1>4, <2>1, FreedOne
  <2>. QED BY <1>2, <2>1, <2>2
<1>6. /\ \A t \in {s} : GivenTo(State, State', t, Queue(t))
      /\ \A t \in Sem \ {s} : Kept(State, State', t, Queue(t))
      /\ bl' \in [Sem -> Blockage] /\ nxtsem' \in [App -> Ptr]
  BY <1>2, <1>3, <1>4, <1>5, FreedSems
<1>7. PICK H : H = Heads({s}, Qs) /\ Woken(k, k', H, live)
  BY <1>2, <1>4, <1>5 DEF Freed
<1>8. k \in KState /\ k.ready # << >> /\ a \in live
  BY <1>1, RunFacts
<1>9. \A b \in App : /\ k'.rbits[b] = k.rbits[b]
                     /\ k'.hbits[b] = IF b \in H THEN k.hbits[b] \cup {SEM} ELSE k.hbits[b]
                     /\ k'.status[b] = "READY" => k.status[b] \in {"READY", "SUSPENDED"} \/ b \in H
  <2>1. PICK n, u1 : n = k /\ u1 = k'
    OBVIOUS
  <2>2. n \in KState /\ Woken(n, u1, H, live)
    BY <1>7, <1>8, <2>1
  <2>. QED BY ONLY <2>1, <2>2, WokenFacts
<1>10. KOK(k', live) /\ k'.ready # << >> /\ Act(k') = a
  BY <1>1, <1>7, <1>8 DEF Woken
<1>11. held \in [App -> [Sem -> 0..MaxNest]] /\ 0 \in 0..MaxNest
  BY SemaphoreAssumption DEF SemInv, TypeOK
<1>12. /\ held' \in [App -> [Sem -> 0..MaxNest]] /\ held'[a][s] = 0
       /\ \A b \in App, t \in Sem : (b # a \/ t # s) => held'[b][t] = held[b][t]
       /\ \A b \in App \ {a} : held'[b] = held[b]
  <2>1. /\ held' \in [App -> [Sem -> 0..MaxNest]] /\ held'[a][s] = 0
        /\ \A b \in App, t \in Sem : (b # a \/ t # s) => held'[b][t] = held[b][t]
    BY <1>1, <1>3, <1>11, OneHeld
  <2>2. \A b \in App \ {a} : held'[b] = held[b]
    BY <1>1, <1>11
  <2>. QED BY <2>1, <2>2
<1>13. TypeOK' /\ Lists'
  <2>1. TypeOK'
    BY <1>1, <1>6, <1>10, <1>12 DEF SemInv, TypeOK, KOK
  <2>2. Lists'
    BY <1>1, <1>10 DEF Lists, KOK
  <2>. QED BY <2>1, <2>2
<1>14. k.rbits[a] = {} /\ k.hbits[a] = {} /\ semaph[a] = NONE
  BY <1>1 DEF SemInv, WaitInv
<1>15. \A t \in Sem : a \notin Waiters(t)
  BY <1>14 DEF Waiters
<1>16. a \notin H
  BY <1>3, <1>7, <1>15, HeadsWait
<1>17. k'.rbits[a] = {} /\ k'.hbits[a] = {} /\ semaph'[a] = NONE /\ pc'[a] = "user"
  BY <1>1, <1>9, <1>14, <1>16
<1>18. \A t \in Sem : a \in Waiters(t)' <=> a \in Waiters(t)
  BY <1>15, <1>17 DEF Waiters
<1>19. \A t \in Sem \ {s} : bl[t].app = a => held'[a][t] > 0
  BY <1>1, <1>3, <1>12 DEF SemInv, Owned
<1>20. \A t \in Sem : held'[a][t] > 0 => t \notin {s} /\ held'[a][t] = held[a][t]
  BY <1>12
<1>21. \A t \in {s} : GivenTo(State, State', t, Queue(t)) /\ State.bl[t].valid
  BY <1>1, <1>4, <1>6
<1>22. /\ SemInv'
       /\ \A t \in {s} : /\ Queue(t)' = Rest(Queue(t))
                         /\ bl'[t].app = IF Queue(t) = << >> THEN NONE ELSE Queue(t)[1]
       /\ \A t \in Sem \ {s} : Queue(t)' = Queue(t) /\ bl'[t].app = bl[t].app
  <2>1. PICK S, st : S = {s} /\ st = State
    OBVIOUS
  <2>2. OthersGet(a, S)
    BY <1>1, <1>7, <1>9, <1>12, <2>1 DEF OthersGet
  <2>3. GiverGoesOn(a, S)
    BY <1>10, <1>17, <1>18, <1>20, <2>1 DEF GiverGoesOn
  <2>4. SemsGiven(a, S, st)
    BY <1>1, <1>3, <1>6, <1>15, <1>19, <1>21, <2>1 DEF SemsGiven
  <2>5. S \in SUBSET Sem
    BY <1>3, <2>1
  <2>6. /\ SemInv'
        /\ \A t \in S : /\ Queue(t)' = Rest(Queue(t))
                        /\ bl'[t].app = IF Queue(t) = << >> THEN NONE ELSE Queue(t)[1]
        /\ \A t \in Sem \ S : Queue(t)' = Queue(t) /\ bl'[t].app = bl[t].app
    BY <1>1, <1>13, <2>2, <2>3, <2>4, <2>5, GiveInv
  <2>. QED BY <2>1, <2>6
<1>. QED BY <1>1, <1>22

\* end_update: one update less, or the last one and the screen is given away.
LEMMA EndUpdateInv ==
    ASSUME SemInv, NEW a \in App, EndUpdate(a)
    PROVE  /\ SemInv' /\ bl[SCR].app = a
           /\ \A t \in Sem \ {SCR} : Queue(t)' = Queue(t) /\ bl'[t].app = bl[t].app
           /\ \/ Queue(SCR)' = Queue(SCR) /\ bl'[SCR].app = bl[SCR].app
              \/ /\ Queue(SCR)' = Rest(Queue(SCR))
                 /\ bl'[SCR].app = IF Queue(SCR) = << >> THEN NONE ELSE Queue(SCR)[1]
<1>1. /\ mode = "run" /\ a = Act(k) /\ pc[a] = "user" /\ held[a][SCR] > 0
      /\ UNCHANGED << live, pc, semaph, tim >>
  BY DEF EndUpdate, Running
<1>2. SCR \in Sem /\ a # NONE /\ a \in live /\ k \in KState /\ k.ready # << >> /\ {SCR} \in SUBSET Sem
  BY <1>1, RunFacts, SemaphoreAssumption DEF Sem
<1>3. bl[SCR].valid /\ bl[SCR].app = a /\ bl[SCR].cnt = held[a][SCR]
  BY <1>1, <1>2 DEF SemInv, HolderIsOwner
<1>4. bl \in [Sem -> Blockage] /\ held \in [App -> [Sem -> 0..MaxNest]] /\ MaxNest \in Nat
  BY SemaphoreAssumption DEF SemInv, TypeOK
<1>5. PICK c \in 0..MaxNest : c = bl[SCR].cnt - 1 /\ bl[SCR].cnt = c + 1
  BY <1>1, <1>2, <1>3, <1>4
<1>6. PICK r : r = [bl[SCR] EXCEPT !.cnt = c]
  OBVIOUS
<1>7. /\ r \in Blockage /\ r.app = a /\ r.pd = bl[SCR].pd /\ r.cnt = c /\ r.valid = bl[SCR].valid
      /\ r.waiting = bl[SCR].waiting
  BY <1>2, <1>3, <1>4, <1>6 DEF Blockage
<1>8. PICK f : f = [bl EXCEPT ![SCR] = r]
  OBVIOUS
<1>9. f \in [Sem -> Blockage] /\ f[SCR] = r /\ \A t \in Sem \ {SCR} : f[t] = bl[t]
  BY <1>2, <1>4, <1>7, <1>8, OneBl
<1>10. PICK d : d = [k |-> k, bl |-> f, nxtsem |-> nxtsem]
  OBVIOUS
<1>11. d = [State EXCEPT !.bl[SCR].cnt = @ - 1]
  <2>1. [State EXCEPT !.bl[SCR].cnt = @ - 1] = [k |-> k, bl |-> [bl EXCEPT ![SCR].cnt = @ - 1], nxtsem |-> nxtsem]
    BY DEF State
  <2>2. [bl EXCEPT ![SCR].cnt = @ - 1] = f
    BY <1>5, <1>6, <1>8
  <2>. QED BY <1>10, <2>1, <2>2
<1>12. d \in StType /\ d.k = k /\ d.bl = f /\ d.nxtsem = nxtsem
  BY <1>9, <1>10 DEF SemInv, TypeOK, StType
<1>13. /\ held' \in [App -> [Sem -> 0..MaxNest]] /\ held'[a][SCR] = c
       /\ \A b \in App, t \in Sem : (b # a \/ t # SCR) => held'[b][t] = held[b][t]
       /\ \A b \in App \ {a} : held'[b] = held[b]
  <2>1. held' = [held EXCEPT ![a][SCR] = c]
    BY <1>3, <1>5 DEF EndUpdate
  <2>2. \A b \in App \ {a} : held'[b] = held[b]
    BY <1>4, <2>1
  <2>. QED BY <1>2, <1>4, <2>1, <2>2, OneHeld
<1>14. EndUpdateState(State) = IF c = 0 THEN FreeSemaphore(d, SCR) ELSE d
  <2>1. d.bl[SCR].cnt = c
    BY <1>7, <1>9, <1>12
  <2>. QED BY <1>11, <2>1 DEF EndUpdateState
<1>15. CASE c # 0
  <2>1. bl' = f /\ nxtsem' = nxtsem /\ UNCHANGED << k, mode >>
    BY <1>5, <1>12, <1>14, <1>15 DEF EndUpdate
  <2>2. bl[SCR].pd = a
    BY <1>2, <1>3 DEF SemInv, Owned
  <2>3. bl'[SCR].valid
    BY <1>3, <1>7, <1>9, <2>1, Zenon
  <2>4. /\ bl[SCR].app \in {NONE, a} /\ bl' \in [Sem -> Blockage] /\ bl'[SCR].app = a
        /\ bl'[SCR].waiting = bl[SCR].waiting /\ bl'[SCR].pd = a
        /\ \A t \in Sem \ {SCR} : bl'[t] = bl[t]
        /\ held'[a][SCR] > 0 /\ bl'[SCR].cnt = held'[a][SCR]
    BY <1>3, <1>7, <1>9, <1>13, <1>15, <2>1, <2>2
  <2>5. SemInv' /\ \A t \in Sem : Queue(t)' = Queue(t)
    <3>1. PICK s : s = SCR
      OBVIOUS
    <3>. QED BY <1>1, <1>2, <1>13, <2>1, <2>3, <2>4, <3>1, TakeInv
  <2>. QED BY <1>2, <1>3, <2>4, <2>5
<1>16. CASE c = 0
  <2>1. PICK u : /\ u = FreeSemaphore(d, SCR) /\ bl' = u.bl /\ nxtsem' = u.nxtsem
                 /\ k' = YieldLists(u.k) /\ mode' = "kernel"
    <3>1. PICK u : u = FreeSemaphore(d, SCR) /\ u = EndUpdateState(State)
      BY <1>14, <1>16
    <3>2. bl[SCR].cnt = 1
      BY <1>5, <1>16
    <3>3. bl' = u.bl /\ nxtsem' = u.nxtsem /\ ApplYield(u.k)
      BY <3>1, <3>2 DEF EndUpdate
    <3>. QED BY <3>1, <3>3 DEF ApplYield
  <2>2. KOK(k, live) /\ \A t \in Sem : d.bl[t].waiting = bl[t].waiting
    BY <1>7, <1>9, <1>12, QueueFacts
  <2>3. Freed(d, u, {SCR}, Qs, live)
    BY <1>2, <1>12, <2>1, <2>2, FreedOne
  <2>4. /\ \A t \in {SCR} : GivenTo(d, State', t, Queue(t))
        /\ \A t \in Sem \ {SCR} : Kept(State, State', t, Queue(t))
        /\ bl' \in [Sem -> Blockage] /\ nxtsem' \in [App -> Ptr]
    BY <1>2, <1>9, <1>12, <2>1, <2>3, FreedSems
  <2>5. PICK n, H : n = u.k /\ H = Heads({SCR}, Qs) /\ Woken(k, n, H, live)
    BY <1>12, <2>3 DEF Freed
  <2>6. /\ KOK(k', live) /\ k'.rbits = n.rbits /\ k'.hbits = n.hbits
        /\ \A b \in App : k'.status[b] = "READY" => k.status[b] \in {"READY", "SUSPENDED"} \/ b \in H
    <3>1. PICK y, m : y = k' /\ m = k /\ y = YieldLists(n) /\ Woken(m, n, H, live)
                      /\ m.ready # << >> /\ Act(m) = a
      BY <1>1, <1>2, <2>1, <2>5
    <3>2. /\ KOK(y, live) /\ y.rbits = n.rbits /\ y.hbits = n.hbits
          /\ \A b \in App : y.status[b] = "READY" => m.status[b] \in {"READY", "SUSPENDED"} \/ b \in H
      BY <3>1, YieldWoken
    <3>. QED BY ONLY <3>1, <3>2
  <2>7. \A b \in App : /\ n.rbits[b] = k.rbits[b]
                       /\ n.hbits[b] = IF b \in H THEN k.hbits[b] \cup {SEM} ELSE k.hbits[b]
    BY <2>5 DEF Woken
  <2>8. TypeOK' /\ Lists'
    <3>1. TypeOK'
      BY <1>1, <1>13, <2>1, <2>4, <2>6 DEF SemInv, TypeOK, KOK
    <3>2. Lists'
      BY <1>1, <2>1, <2>6 DEF Lists, KOK
    <3>. QED BY <3>1, <3>2
  <2>9. k.rbits[a] = {} /\ k.hbits[a] = {} /\ semaph[a] = NONE
    BY <1>1 DEF SemInv, WaitInv
  <2>10. \A t \in Sem : a \notin Waiters(t)
    BY <2>9 DEF Waiters
  <2>11. a \notin H
    BY <1>2, <2>5, <2>10, HeadsWait
  <2>12. k'.rbits[a] = {} /\ k'.hbits[a] = {} /\ semaph'[a] = NONE /\ pc'[a] = "user"
    BY <1>1, <2>6, <2>7, <2>9, <2>11
  <2>13. \A t \in Sem : a \in Waiters(t)' <=> a \in Waiters(t)
    BY <2>10, <2>12 DEF Waiters
  <2>14. \A t \in Sem \ {SCR} : bl[t].app = a => held'[a][t] > 0
    BY <1>1, <1>2, <1>13 DEF SemInv, Owned
  <2>15. \A t \in Sem : held'[a][t] > 0 => t \notin {SCR} /\ held'[a][t] = held[a][t]
    BY <1>13, <1>16
  <2>16. d.bl[SCR].cnt = 0 /\ d.bl[SCR].valid
    <3>1. d.bl[SCR].cnt = 0
      BY <1>7, <1>9, <1>12, <1>16
    <3>2. d.bl[SCR].valid
      BY <1>3, <1>7, <1>9, <1>12, Zenon
    <3>. QED BY <3>1, <3>2
  <2>17. PICK S : S = {SCR}
    OBVIOUS
  <2>18. OthersGet(a, S)
    <3>1. ASSUME NEW b \in App
          PROVE  /\ k'.rbits[b] = k.rbits[b]
                 /\ k'.hbits[b] = IF b \in H THEN k.hbits[b] \cup {SEM} ELSE k.hbits[b]
                 /\ k'.status[b] = "READY" => k.status[b] \in {"READY", "SUSPENDED"} \/ b \in H
      BY <2>6, <2>7
    <3>2. H = Heads(S, Qs)
      BY <2>5, <2>17
    <3>. QED BY <1>1, <1>13, <3>1, <3>2 DEF OthersGet
  <2>19. GiverGoesOn(a, S)
    BY <2>1, <2>12, <2>13, <2>15, <2>17 DEF GiverGoesOn
  <2>20. SemsGiven(a, S, d)
    BY <1>2, <1>3, <2>4, <2>10, <2>14, <2>16, <2>17 DEF SemsGiven
  <2>21. /\ SemInv'
         /\ \A t \in S : /\ Queue(t)' = Rest(Queue(t))
                         /\ bl'[t].app = IF Queue(t) = << >> THEN NONE ELSE Queue(t)[1]
         /\ \A t \in Sem \ S : Queue(t)' = Queue(t) /\ bl'[t].app = bl[t].app
    BY <1>1, <1>2, <2>8, <2>17, <2>18, <2>19, <2>20, GiveInv
  <2>. QED BY <1>3, <2>17, <2>21
<1>. QED BY <1>15, <1>16

\* SEM_FPD gives every semaphore of a terminating process away.
LEMMA TermFpdInv ==
    ASSUME SemInv, NEW a \in App, TermFpd(a), NEW S, S = {s \in Sem : bl[s].app = a}
    PROVE  /\ SemInv'
           /\ \A s \in S : /\ Queue(s)' = Rest(Queue(s))
                           /\ bl'[s].app = IF Queue(s) = << >> THEN NONE ELSE Queue(s)[1]
           /\ \A s \in Sem \ S : Queue(s)' = Queue(s) /\ bl'[s].app = bl[s].app
<1>1. /\ mode = "run" /\ a = Act(k) /\ pc[a] = "break" /\ UNCHANGED << mode, live, semaph, tim >>
      /\ held' = [held EXCEPT ![a] = [s \in Sem |-> 0]] /\ pc' = [pc EXCEPT ![a] = "events"]
  BY DEF TermFpd, Running, Return
<1>2. /\ a # NONE /\ a \in live /\ k \in KState /\ k.ready # << >> /\ S \in SUBSET Sem
      /\ live \in SUBSET App
  BY <1>1, RunFacts, SemaphoreAssumption
<1>3. \A s \in Sem : bl[s].app # NONE => /\ bl[s].valid /\ bl[s].pd = bl[s].app
                                         /\ bl[s].app \notin Waiters(s)
  BY DEF SemInv, Owned
<1>4. S = {s \in Sem : bl[s].valid /\ bl[s].app # NONE /\ bl[s].pd = a}
  BY <1>2, <1>3
<1>5. PICK z : z = [s \in Sem |-> IF s \in S THEN [bl[s] EXCEPT !.cnt = 0] ELSE bl[s]]
  OBVIOUS
<1>6. bl \in [Sem -> Blockage] /\ 0 \in 0..MaxNest
  BY SemaphoreAssumption DEF SemInv, TypeOK
<1>7. /\ z \in [Sem -> Blockage] /\ \A s \in Sem \ S : z[s] = bl[s]
      /\ \A s \in S : z[s].cnt = 0 /\ z[s].valid = bl[s].valid /\ z[s].waiting = bl[s].waiting
  <2>1. \A s \in Sem : z[s] = IF s \in S THEN [bl[s] EXCEPT !.cnt = 0] ELSE bl[s]
    BY <1>5
  <2>2. ASSUME NEW s \in S
        PROVE  /\ z[s] \in Blockage /\ z[s].cnt = 0 /\ z[s].valid = bl[s].valid
               /\ z[s].waiting = bl[s].waiting
    BY <1>2, <1>6, <2>1 DEF Blockage
  <2>3. \A s \in Sem : z[s] \in Blockage
    BY <1>6, <2>1, <2>2
  <2>. QED BY <1>5, <2>1, <2>2, <2>3
<1>8. PICK d : d = [k |-> k, bl |-> z, nxtsem |-> nxtsem]
  OBVIOUS
<1>9. d \in StType /\ d.k = k /\ d.bl = z /\ d.nxtsem = nxtsem
  BY <1>7, <1>8 DEF SemInv, TypeOK, StType
<1>10. PICK u : u = FreeAll(d, S) /\ k' = u.k /\ bl' = u.bl /\ nxtsem' = u.nxtsem
  <2>1. d = [State EXCEPT !.bl = z]
    BY <1>8 DEF State
  <2>. QED BY <1>4, <1>5, <2>1 DEF TermFpd, Return
<1>11. KOK(k, live) /\ \A t \in Sem : d.bl[t].waiting = bl[t].waiting
  BY <1>7, <1>9, QueueFacts
<1>12. Freed(d, u, S, Qs, live)
  <2>1. /\ Freed(d, d, {}, Qs, live) /\ Apart(Qs)
        /\ \A t \in Sem : Qs[t] \in Seq(App) /\ NoDup(Qs[t]) /\ Members(Qs[t]) \subseteq live
    BY <1>9, <1>11, FreedStart
  <2>2. PICK Q, L : Q = Qs /\ L = live
    OBVIOUS
  <2>3. /\ Freed(d, d, {}, Q, L) /\ Apart(Q) /\ L \in SUBSET App
        /\ \A t \in Sem : Q[t] \in Seq(App) /\ NoDup(Q[t]) /\ Members(Q[t]) \subseteq L
    BY <1>2, <2>1, <2>2
  <2>4. Freed(d, FreeAll(d, S), S, Q, L)
    BY <1>2, <1>9, <2>3, FreeAllOK
  <2>. QED BY <1>10, <2>2, <2>4
<1>13. /\ \A t \in S : GivenTo(d, State', t, Queue(t))
       /\ \A t \in Sem \ S : Kept(State, State', t, Queue(t))
       /\ bl' \in [Sem -> Blockage] /\ nxtsem' \in [App -> Ptr]
  BY <1>2, <1>7, <1>9, <1>10, <1>12, FreedSems
<1>14. PICK H : H = Heads(S, Qs) /\ Woken(k, k', H, live)
  BY <1>9, <1>10, <1>12 DEF Freed
<1>15. \A b \in App : /\ k'.rbits[b] = k.rbits[b]
                      /\ k'.hbits[b] = IF b \in H THEN k.hbits[b] \cup {SEM} ELSE k.hbits[b]
                      /\ k'.status[b] = "READY" => k.status[b] \in {"READY", "SUSPENDED"} \/ b \in H
  <2>1. PICK n, v : n = k /\ v = k'
    OBVIOUS
  <2>2. n \in KState /\ Woken(n, v, H, live)
    BY <1>2, <1>14, <2>1
  <2>. QED BY ONLY <2>1, <2>2, WokenFacts
<1>16. KOK(k', live) /\ k'.ready # << >> /\ Act(k') = a
  BY <1>1, <1>2, <1>14 DEF Woken
<1>17. /\ held' \in [App -> [Sem -> 0..MaxNest]] /\ \A s \in Sem : held'[a][s] = 0
       /\ \A b \in App \ {a} : held'[b] = held[b]
  <2>1. held \in [App -> [Sem -> 0..MaxNest]]
    BY DEF SemInv, TypeOK
  <2>. QED BY <1>1, <1>6, <2>1
<1>18. pc' \in [App -> Pc] /\ pc'[a] = "events" /\ \A b \in App \ {a} : pc'[b] = pc[b]
  <2>1. pc \in [App -> Pc] /\ "events" \in Pc
    BY DEF SemInv, TypeOK, Pc
  <2>. QED BY <1>1, <2>1
<1>19. TypeOK' /\ Lists'
  <2>1. TypeOK'
    BY <1>1, <1>13, <1>16, <1>17, <1>18 DEF SemInv, TypeOK, KOK
  <2>2. Lists'
    BY <1>1, <1>16 DEF Lists, KOK
  <2>. QED BY <2>1, <2>2
<1>20. \A s \in S : bl[s].app = a /\ bl[s].valid /\ a \notin Waiters(s)
  BY <1>2, <1>3
<1>21. a \notin H
  BY <1>2, <1>14, <1>20, HeadsWait
<1>22. k'.rbits[a] = k.rbits[a] /\ k'.hbits[a] = k.hbits[a] /\ semaph'[a] = semaph[a]
  BY <1>1, <1>15, <1>21
<1>23. \A t \in Sem : a \in Waiters(t)' <=> a \in Waiters(t)
  BY <1>1, <1>22 DEF Waiters
<1>24. SEM \in k'.rbits[a] \ k'.hbits[a] => semaph'[a] # NONE
  BY <1>22 DEF SemInv, WaitInv
<1>25. \A t \in S : d.bl[t].valid /\ d.bl[t].cnt = 0
  <2>1. \A t \in S : d.bl[t].valid
    BY <1>7, <1>9, <1>20, Zenon
  <2>2. \A t \in S : d.bl[t].cnt = 0
    BY <1>7, <1>9
  <2>. QED BY <2>1, <2>2
<1>26. OthersGet(a, S)
  BY <1>1, <1>14, <1>15, <1>17, <1>18 DEF OthersGet
<1>27. GiverGoesOn(a, S)
  BY <1>1, <1>16, <1>17, <1>18, <1>23, <1>24 DEF GiverGoesOn
<1>28. SemsGiven(a, S, d)
  BY <1>2, <1>13, <1>20, <1>25 DEF SemsGiven
<1>. QED BY <1>1, <1>2, <1>19, <1>26, <1>27, <1>28, GiveInv

\* wind_new takes the screen at the end of its update_1 and gives it away again.
LEMMA TermWindNewInv ==
    ASSUME SemInv, NEW a \in App, TermWindNew(a)
    PROVE  /\ SemInv' /\ bl[SCR].app \in {NONE, a}
           /\ Queue(SCR)' = Rest(Queue(SCR))
           /\ bl'[SCR].app = IF Queue(SCR) = << >> THEN NONE ELSE Queue(SCR)[1]
           /\ \A t \in Sem \ {SCR} : Queue(t)' = Queue(t) /\ bl'[t].app = bl[t].app
<1>1. /\ mode = "run" /\ a = Act(k) /\ pc[a] \in {"upd", "new"} /\ UNCHANGED << live, tim, held >>
      /\ pc[a] = "new" => bl[SCR].app = a \/ bl[SCR].cnt = 0
      /\ pc' = [pc EXCEPT ![a] = "fall"] /\ semaph' = [semaph EXCEPT ![a] = NONE]
  BY DEF TermWindNew, Running, BegUpdateGets, Forget
<1>2. /\ SCR \in Sem /\ a # NONE /\ SCR # NONE /\ a \in live /\ k \in KState /\ k.ready # << >>
      /\ {SCR} \in SUBSET Sem /\ k.status[a] = "READY" /\ a \in Ptr
  BY <1>1, RunFacts, SemaphoreAssumption DEF Sem, Ptr
<1>3. /\ pc[a] = "upd" => SEM \in k.hbits[a] /\ semaph[a] = SCR
      /\ pc[a] = "new" => k.rbits[a] = {} /\ semaph[a] = NONE
  BY <1>1, <1>2 DEF SemInv, WaitInv
<1>4. bl[SCR].app \in {NONE, a} /\ bl[SCR].valid
  <2>1. pc[a] = "upd" => bl[SCR].app = a
    BY <1>2, <1>3 DEF SemInv, Told
  <2>2. pc[a] = "new" => bl[SCR].app \in {NONE, a}
    <3>1. bl[SCR].app # NONE => bl[SCR].cnt > 0
      BY <1>2 DEF SemInv, Owned
    <3>. QED BY <1>1, <3>1
  <2>3. bl[SCR].valid
    BY DEF SemInv, Owned
  <2>. QED BY <1>1, <2>1, <2>2, <2>3
<1>5. \A t \in Sem : a \notin Waiters(t)
  BY <1>1, <1>3 DEF Waiters
<1>6. \A t \in Sem : held[a][t] = 0
  BY <1>1 DEF SemInv, GaveBack
<1>7. \A t \in Sem \ {SCR} : bl[t].app # a
  <2>1. ASSUME NEW t \in Sem \ {SCR}, bl[t].app = a PROVE FALSE
    <3>1. \/ held[a][t] > 0
          \/ pc[a] \in {"sem", "upd"} /\ semaph[a] = t
          \/ pc[a] = "break"
      BY <1>2, <2>1 DEF SemInv, Owned
    <3>. QED BY <1>1, <1>3, <1>6, <3>1
  <2>. QED BY <2>1
<1>8. bl \in [Sem -> Blockage] /\ {0, 1} \subseteq 0..MaxNest
  BY SemaphoreAssumption DEF SemInv, TypeOK
<1>9. PICK r1, r : /\ r1 = [bl[SCR] EXCEPT !.app = a, !.pd = a, !.cnt = 1]
                   /\ r = [bl[SCR] EXCEPT !.app = a, !.pd = a, !.cnt = 0]
  OBVIOUS
<1>10. /\ r \in Blockage /\ r1 \in Blockage /\ r = [r1 EXCEPT !.cnt = 0] /\ r1.cnt = 1
       /\ r.cnt = 0 /\ r.valid = bl[SCR].valid /\ r.waiting = bl[SCR].waiting
  BY <1>2, <1>8, <1>9 DEF Blockage
<1>11. PICK g, f : g = [bl EXCEPT ![SCR] = r1] /\ f = [bl EXCEPT ![SCR] = r]
  OBVIOUS
<1>12. /\ f \in [Sem -> Blockage] /\ f[SCR] = r /\ \A t \in Sem \ {SCR} : f[t] = bl[t]
       /\ g \in [Sem -> Blockage] /\ g[SCR] = r1 /\ f = [g EXCEPT ![SCR] = r]
  BY <1>2, <1>8, <1>10, <1>11, OneBl
<1>13. PICK n : n = EndWait(k, a)
  OBVIOUS
<1>14. /\ KOK(n, live) /\ n.ready = k.ready /\ n.status = k.status /\ n \in KState
       /\ n.rbits[a] = {} /\ n.hbits[a] = {}
       /\ \A b \in App \ {a} : n.rbits[b] = k.rbits[b] /\ n.hbits[b] = k.hbits[b]
  BY <1>1, <1>13, EndWaitOK DEF KOK
<1>15. PICK e, d : e = [k |-> n, bl |-> g, nxtsem |-> nxtsem] /\ d = [k |-> n, bl |-> f, nxtsem |-> nxtsem]
  OBVIOUS
<1>16. e = [State EXCEPT !.k = EndWait(k, a), !.bl[SCR].app = a, !.bl[SCR].pd = a, !.bl[SCR].cnt = 1]
  <2>1. [State EXCEPT !.k = EndWait(k, a), !.bl[SCR].app = a, !.bl[SCR].pd = a, !.bl[SCR].cnt = 1]
        = [k |-> n, bl |-> [bl EXCEPT ![SCR].app = a, ![SCR].pd = a, ![SCR].cnt = 1], nxtsem |-> nxtsem]
    <3>1. PICK s1 : s1 = [State EXCEPT !.k = EndWait(k, a)]
      OBVIOUS
    <3>2. s1 = [k |-> n, bl |-> bl, nxtsem |-> nxtsem]
      BY <1>13, <3>1 DEF State
    <3>3. PICK s2, b2 : s2 = [s1 EXCEPT !.bl[SCR].app = a] /\ b2 = [bl EXCEPT ![SCR].app = a]
      OBVIOUS
    <3>4. s2 = [k |-> n, bl |-> b2, nxtsem |-> nxtsem]
      BY ONLY <3>2, <3>3
    <3>5. PICK s3, b3 : s3 = [s2 EXCEPT !.bl[SCR].pd = a] /\ b3 = [b2 EXCEPT ![SCR].pd = a]
      OBVIOUS
    <3>6. s3 = [k |-> n, bl |-> b3, nxtsem |-> nxtsem]
      BY ONLY <3>4, <3>5
    <3>7. PICK s4, b4 : s4 = [s3 EXCEPT !.bl[SCR].cnt = 1] /\ b4 = [b3 EXCEPT ![SCR].cnt = 1]
      OBVIOUS
    <3>8. s4 = [k |-> n, bl |-> b4, nxtsem |-> nxtsem]
      BY ONLY <3>6, <3>7
    <3>9. s4 = [State EXCEPT !.k = EndWait(k, a), !.bl[SCR].app = a, !.bl[SCR].pd = a, !.bl[SCR].cnt = 1]
      BY ONLY <3>1, <3>3, <3>5, <3>7
    <3>10. b4 = [bl EXCEPT ![SCR].app = a, ![SCR].pd = a, ![SCR].cnt = 1]
      BY ONLY <3>3, <3>5, <3>7
    <3>. QED BY ONLY <3>8, <3>9, <3>10
  <2>2. [bl EXCEPT ![SCR].app = a, ![SCR].pd = a, ![SCR].cnt = 1] = g
    BY <1>2, <1>8, <1>9, <1>11
  <2>. QED BY <1>15, <2>1, <2>2
<1>17. d = [e EXCEPT !.bl[SCR].cnt = @ - 1]
  <2>1. [e EXCEPT !.bl[SCR].cnt = @ - 1] = [k |-> n, bl |-> [g EXCEPT ![SCR].cnt = @ - 1], nxtsem |-> nxtsem]
    BY <1>15
  <2>2. [g EXCEPT ![SCR].cnt = @ - 1] = f
    <3>1. [g EXCEPT ![SCR].cnt = @ - 1] = [g EXCEPT ![SCR] = [r1 EXCEPT !.cnt = 1 - 1]]
      BY <1>2, <1>10, <1>12
    <3>2. 1 - 1 = 0
      OBVIOUS
    <3>. QED BY <1>10, <1>12, <3>1, <3>2
  <2>. QED BY <1>15, <2>1, <2>2
<1>18. d \in StType /\ d.k = n /\ d.bl = f /\ d.nxtsem = nxtsem
  BY <1>12, <1>14, <1>15 DEF SemInv, TypeOK, StType
<1>19. PICK u : /\ u = FreeSemaphore(d, SCR) /\ bl' = u.bl /\ nxtsem' = u.nxtsem
                /\ k' = YieldLists(u.k) /\ mode' = "kernel"
  <2>1. d.bl[SCR].cnt = 0
    BY <1>10, <1>12, <1>18
  <2>2. EndUpdateState(e) = FreeSemaphore(d, SCR)
    BY <1>17, <2>1 DEF EndUpdateState
  <2>3. PICK u : u = EndUpdateState(e)
    OBVIOUS
  <2>4. bl' = u.bl /\ nxtsem' = u.nxtsem /\ ApplYield(u.k)
    BY <1>16, <2>3 DEF TermWindNew
  <2>. QED BY <2>2, <2>3, <2>4 DEF ApplYield
<1>20. \A t \in Sem : d.bl[t].waiting = bl[t].waiting
  BY <1>10, <1>12, <1>18
<1>21. Freed(d, u, {SCR}, Qs, live)
  BY <1>2, <1>14, <1>18, <1>19, <1>20, FreedOne
<1>22. /\ \A t \in {SCR} : GivenTo(d, State', t, Queue(t))
       /\ \A t \in Sem \ {SCR} : Kept(State, State', t, Queue(t))
       /\ bl' \in [Sem -> Blockage] /\ nxtsem' \in [App -> Ptr]
  BY <1>2, <1>12, <1>18, <1>19, <1>21, FreedSems
<1>23. PICK m, H : m = u.k /\ H = Heads({SCR}, Qs) /\ Woken(n, m, H, live)
  BY <1>18, <1>21 DEF Freed
<1>24. /\ KOK(k', live) /\ k'.rbits = m.rbits /\ k'.hbits = m.hbits
       /\ \A b \in App : k'.status[b] = "READY" => k.status[b] \in {"READY", "SUSPENDED"} \/ b \in H
  <2>1. PICK y : y = k' /\ y = YieldLists(m)
    BY <1>19, <1>23
  <2>2. n.ready # << >> /\ Act(n) = a
    BY <1>1, <1>2, <1>14 DEF Act
  <2>3. /\ KOK(y, live) /\ y.rbits = m.rbits /\ y.hbits = m.hbits
        /\ \A b \in App : y.status[b] = "READY" => n.status[b] \in {"READY", "SUSPENDED"} \/ b \in H
    BY <1>23, <2>1, <2>2, YieldWoken
  <2>. QED BY ONLY <1>14, <2>1, <2>3
<1>25. \A b \in App : /\ m.rbits[b] = n.rbits[b]
                      /\ m.hbits[b] = IF b \in H THEN n.hbits[b] \cup {SEM} ELSE n.hbits[b]
  BY <1>23 DEF Woken
<1>26. /\ pc' \in [App -> Pc] /\ pc'[a] = "fall" /\ \A b \in App \ {a} : pc'[b] = pc[b]
       /\ semaph' \in [App -> Sem \cup {NONE}] /\ semaph'[a] = NONE
       /\ \A b \in App \ {a} : semaph'[b] = semaph[b]
  <2>1. pc \in [App -> Pc] /\ "fall" \in Pc /\ semaph \in [App -> Sem \cup {NONE}]
    BY DEF SemInv, TypeOK, Pc
  <2>. QED BY <1>1, <2>1
<1>27. TypeOK' /\ Lists'
  <2>1. TypeOK'
    BY <1>1, <1>19, <1>22, <1>24, <1>26 DEF SemInv, TypeOK, KOK
  <2>2. Lists'
    BY <1>1, <1>19, <1>24 DEF Lists, KOK
  <2>. QED BY <2>1, <2>2
<1>28. a \notin H
  BY <1>2, <1>5, <1>23, HeadsWait
<1>29. k'.rbits[a] = {} /\ k'.hbits[a] = {}
  BY <1>14, <1>24, <1>25, <1>28
<1>30. \A t \in Sem : a \in Waiters(t)' <=> a \in Waiters(t)
  BY <1>5, <1>29 DEF Waiters
<1>31. d.bl[SCR].cnt = 0 /\ d.bl[SCR].valid
  <2>1. d.bl[SCR].cnt = 0
    BY <1>10, <1>12, <1>18
  <2>2. d.bl[SCR].valid
    BY <1>4, <1>10, <1>12, <1>18, Zenon
  <2>. QED BY <2>1, <2>2
<1>32. PICK S : S = {SCR}
  OBVIOUS
<1>33. OthersGet(a, S)
  <2>1. ASSUME NEW b \in App \ {a}
        PROVE  /\ k'.rbits[b] = k.rbits[b]
               /\ k'.hbits[b] = IF b \in H THEN k.hbits[b] \cup {SEM} ELSE k.hbits[b]
    BY <1>14, <1>24, <1>25
  <2>. QED BY <1>1, <1>23, <1>24, <1>26, <1>32, <2>1 DEF OthersGet
<1>34. GiverGoesOn(a, S)
  BY <1>1, <1>6, <1>19, <1>26, <1>29, <1>30 DEF GiverGoesOn
<1>35. SemsGiven(a, S, d)
  BY <1>2, <1>4, <1>5, <1>7, <1>22, <1>31, <1>32 DEF SemsGiven
<1>36. /\ SemInv'
       /\ \A t \in S : /\ Queue(t)' = Rest(Queue(t))
                       /\ bl'[t].app = IF Queue(t) = << >> THEN NONE ELSE Queue(t)[1]
       /\ \A t \in Sem \ S : Queue(t)' = Queue(t) /\ bl'[t].app = bl[t].app
  BY <1>1, <1>2, <1>27, <1>32, <1>33, <1>34, <1>35, GiveInv
<1>. QED BY <1>4, <1>32, <1>36

-----------------------------------------------------------------------------
(* Termination *)

\* rmv_ap_sem takes an application that still waits out of its queue, wherever
\* it is in it.
LEMMA RmvApSemOK ==
    ASSUME SemInv, NEW a \in live, NEW u, u = RmvApSem(a)
    PROVE  /\ u \in StType /\ \A t \in Sem : SameBl(u, State, t)
           /\ \A t \in Sem : /\ IsList(RmvLstElm(Queue(t), a), u.bl[t].waiting, u.nxtsem)
                             /\ Members(RmvLstElm(Queue(t), a)) = Waiters(t) \ {a}
           /\ \A t \in Sem : bl[t].waiting = NONE => u.bl[t].waiting = NONE
<1>1. /\ \A t \in Sem : /\ Queue(t) \in Seq(App) /\ NoDup(Queue(t)) /\ Members(Queue(t)) = Waiters(t)
                        /\ IsList(Queue(t), bl[t].waiting, nxtsem)
                        /\ Linked(bl[t].waiting, nxtsem) = Waiters(t)
      /\ State \in StType /\ live \in SUBSET App
  BY QueueFacts
<1>2. \A t \in Sem : Members(RmvLstElm(Queue(t), a)) = Waiters(t) \ {a}
  BY <1>1, RmvMembers
<1>3. State.bl = bl /\ State.nxtsem = nxtsem
  BY DEF State
<1>4. CASE ~(SEM \in k.rbits[a] \ k.hbits[a])
  <2>1. u = State
    BY <1>4 DEF RmvApSem
  <2>2. \A t \in Sem : a \notin Members(Queue(t))
    BY <1>1, <1>4 DEF Waiters
  <2>3. \A t \in Sem : RmvLstElm(Queue(t), a) = Queue(t)
    BY <2>2 DEF RmvLstElm
  <2>4. \A t \in Sem : IsList(RmvLstElm(Queue(t), a), bl[t].waiting, nxtsem)
    BY <1>1, <2>3
  <2>. QED BY <1>1, <1>2, <1>3, <2>1, <2>4 DEF SameBl
<1>5. CASE SEM \in k.rbits[a] \ k.hbits[a]
  <2>1. PICK s \in Sem : s = semaph[a]
    <3>1. a \in App
      BY <1>1
    <3>. QED BY <1>5, <3>1 DEF SemInv, TypeOK, WaitInv
  <2>2. a \in Waiters(s) /\ \A t \in Sem \ {s} : a \notin Waiters(t)
    BY <1>5, <2>1 DEF Waiters
  <2>3. u = SetLinkTo(State, s, a, nxtsem[a])
    BY <1>1, <1>5, <2>1, <2>2 DEF RmvApSem
  <2>4. PICK st, q : st = State /\ q = Queue(s)
    OBVIOUS
  <2>5. /\ st \in StType /\ IsList(q, st.bl[s].waiting, st.nxtsem) /\ a \in Members(q)
        /\ u = SetLinkTo(st, s, a, st.nxtsem[a])
    BY <1>1, <1>3, <2>2, <2>3, <2>4
  <2>6. /\ u \in StType /\ SameBl(u, st, s)
        /\ IsList(RmvLstElm(q, a), u.bl[s].waiting, u.nxtsem)
        /\ \A t \in Sem \ {s} : u.bl[t] = st.bl[t]
        /\ \A c \in App \ Members(q) : u.nxtsem[c] = st.nxtsem[c]
    BY ONLY <2>5, SetLinkToOK, s \in Sem
  <2>7. ASSUME NEW t \in Sem, t # s
        PROVE  /\ IsList(RmvLstElm(Queue(t), a), u.bl[t].waiting, u.nxtsem) /\ SameBl(u, State, t)
               /\ u.bl[t] = bl[t]
    <3>1. u.bl[t] = bl[t] /\ RmvLstElm(Queue(t), a) = Queue(t)
      BY <1>1, <1>3, <2>2, <2>4, <2>6, <2>7 DEF RmvLstElm
    <3>2. \A c \in Members(Queue(t)) : u.nxtsem[c] = nxtsem[c]
      <4>1. \A c \in Waiters(t) : c \in App /\ c \notin Waiters(s)
        BY <1>1, <2>7 DEF Waiters
      <4>. QED BY <1>1, <1>3, <2>4, <2>6, <4>1
    <3>3. PICK q2 : q2 = Queue(t)
      OBVIOUS
    <3>4. IsList(q2, bl[t].waiting, u.nxtsem)
      BY <1>1, <3>2, <3>3, ListFrame
    <3>. QED BY <1>3, <3>1, <3>3, <3>4 DEF SameBl
  <2>8. bl[s].waiting # NONE
    <3>1. q # << >>
      <4>1. Members(<< >>) = {}
        BY EmptyList
      <4>. QED BY <2>5, <4>1
    <3>2. q \in Seq(App) /\ bl[s].waiting = q[Len(q)]
      BY <1>3, <2>4, <2>5, <3>1 DEF IsList
    <3>3. q[Len(q)] \in App
      BY <3>1, <3>2
    <3>. QED BY <3>2, <3>3, SemaphoreAssumption
  <2>. QED BY <1>2, <2>4, <2>6, <2>7, <2>8
<1>. QED BY <1>4, <1>5

\* appl_kill_events: a terminating application waits for nothing any more.
LEMMA TermEventsInv ==
    ASSUME SemInv, NEW a \in App, TermEvents(a)
    PROVE  /\ SemInv'
           /\ \A t \in Sem : Queue(t)' = RmvLstElm(Queue(t), a) /\ bl'[t].app = bl[t].app
<1>1. /\ mode = "run" /\ a = Act(k) /\ pc[a] = "events" /\ UNCHANGED << mode, live, held >>
      /\ pc' = [pc EXCEPT ![a] = "new"] /\ semaph' = [semaph EXCEPT ![a] = NONE]
  BY DEF TermEvents, Running, Return, Forget
<1>2. /\ a \in live /\ live \in SUBSET App /\ k.ready # << >> /\ a # NONE
      /\ \A b \in App \ {a} : pc[b] \notin {"events", "new"}
  BY <1>1, RunFacts, SemaphoreAssumption
<1>3. PICK u : u = RmvApSem(a)
  OBVIOUS
<1>4. /\ u \in StType /\ \A t \in Sem : SameBl(u, State, t)
      /\ \A t \in Sem : /\ IsList(RmvLstElm(Queue(t), a), u.bl[t].waiting, u.nxtsem)
                        /\ Members(RmvLstElm(Queue(t), a)) = Waiters(t) \ {a}
      /\ \A t \in Sem : bl[t].waiting = NONE => u.bl[t].waiting = NONE
  BY <1>2, <1>3, RmvApSemOK
<1>5. k' = EndWait(k, a) /\ bl' = u.bl /\ nxtsem' = u.nxtsem
  <2>1. PICK v : v = [u EXCEPT !.k = EndWait(k, a)]
    OBVIOUS
  <2>2. v.k = EndWait(k, a) /\ v.bl = u.bl /\ v.nxtsem = u.nxtsem
    BY <1>4, <2>1 DEF StType
  <2>3. Return(v)
    BY <1>3, <2>1 DEF TermEvents
  <2>. QED BY <2>2, <2>3 DEF Return
<1>6. /\ KOK(k', live) /\ k'.ready = k.ready /\ k'.status = k.status
      /\ k'.rbits[a] = {} /\ k'.hbits[a] = {}
      /\ \A b \in App \ {a} : k'.rbits[b] = k.rbits[b] /\ k'.hbits[b] = k.hbits[b]
  BY <1>1, <1>5, EndWaitOK
<1>7. /\ pc' \in [App -> Pc] /\ pc'[a] = "new" /\ \A b \in App \ {a} : pc'[b] = pc[b]
      /\ semaph' \in [App -> Sem \cup {NONE}] /\ semaph'[a] = NONE
      /\ \A b \in App \ {a} : semaph'[b] = semaph[b]
  <2>1. pc \in [App -> Pc] /\ "new" \in Pc /\ semaph \in [App -> Sem \cup {NONE}]
    BY DEF SemInv, TypeOK, Pc
  <2>. QED BY <1>1, <2>1
<1>8. \A t \in Sem : /\ bl'[t].app = bl[t].app /\ bl'[t].pd = bl[t].pd /\ bl'[t].cnt = bl[t].cnt
                     /\ bl'[t].valid = bl[t].valid
                     /\ bl[t].waiting = NONE => bl'[t].waiting = NONE
  BY <1>4, <1>5 DEF SameBl, State
<1>9. TypeOK'
  <2>1. tim' \subseteq App
    BY DEF TermEvents, SemInv, TypeOK
  <2>2. bl' \in [Sem -> Blockage] /\ nxtsem' \in [App -> Ptr] /\ k' \in KState
    BY <1>4, <1>5, <1>6 DEF StType, KOK
  <2>. QED BY <1>1, <1>7, <2>1, <2>2 DEF SemInv, TypeOK
<1>10. Lists'
  BY <1>1, <1>2, <1>6 DEF Lists, KOK
<1>11. \A t \in Sem : Waiters(t)' = Waiters(t) \ {a}
  <2>1. ASSUME NEW t \in Sem, NEW b \in live PROVE b \in Waiters(t)' <=> b \in Waiters(t) \ {a}
    <3>1. b \in App
      BY <1>2
    <3>. QED BY <1>1, <1>6, <1>7, <3>1 DEF Waiters
  <2>2. \A t \in Sem : Waiters(t)' \subseteq live /\ Waiters(t) \subseteq live
    BY <1>1 DEF Waiters
  <2>. QED BY <2>1, <2>2
<1>12. ASSUME NEW t \in Sem
       PROVE  /\ Queue(t)' = RmvLstElm(Queue(t), a)
              /\ IsList(Queue(t)', bl'[t].waiting, nxtsem') /\ Members(Queue(t)') = Waiters(t)'
  <2>1. PICK q : q = RmvLstElm(Queue(t), a)
    OBVIOUS
  <2>2. IsList(q, bl'[t].waiting, nxtsem') /\ Members(q) = Waiters(t)'
    BY <1>4, <1>5, <1>11, <2>1
  <2>3. nxtsem' \in [App -> Ptr]
    BY <1>9 DEF TypeOK
  <2>. QED BY <2>1, <2>2, <2>3, NewQueue
<1>13. Queues'
  BY <1>12 DEF Queues
<1>14. \A t \in Sem : held[a][t] = 0
  BY <1>1 DEF SemInv, GaveBack
<1>15. \A t \in Sem : bl[t].app # a
  <2>1. ASSUME NEW t \in Sem, bl[t].app = a PROVE FALSE
    <3>1. held[a][t] > 0 \/ pc[a] \in {"sem", "upd"} \/ pc[a] = "break"
      BY <1>2, <2>1 DEF SemInv, Owned
    <3>. QED BY <1>1, <1>14, <3>1
  <2>. QED BY <2>1
<1>16. WaitInv'
  <2>1. Act(k') = a
    BY <1>1, <1>6 DEF Act
  <2>. QED BY <1>1, <1>2, <1>6, <1>7, <2>1 DEF SemInv, WaitInv
<1>17. GaveBack'
  BY <1>1, <1>2, <1>7, <1>14 DEF SemInv, GaveBack
<1>18. Told'
  <2>1. ASSUME NEW b \in App, pc'[b] \in {"sem", "upd"}, SEM \in k'.hbits[b], semaph'[b] # NONE
        PROVE  bl'[semaph'[b]].app = b /\ (semaph'[b] = SCR => bl'[SCR].cnt = 1)
    <3>1. b # a
      BY <1>7, <2>1
    <3>2. PICK s : s = semaph[b]
      OBVIOUS
    <3>3. s \in Sem /\ semaph'[b] = s
      BY <1>7, <2>1, <3>1, <3>2 DEF SemInv, TypeOK
    <3>4. bl[s].app = b /\ (s = SCR => bl[SCR].cnt = 1)
      BY <1>6, <1>7, <2>1, <3>1, <3>2 DEF SemInv, Told
    <3>. QED BY <1>8, <3>3, <3>4
  <2>. QED BY <2>1 DEF Told
<1>19. Owned'
  <2>1. ASSUME NEW t \in Sem, bl[t].app # NONE
        PROVE  /\ bl[t].valid /\ bl[t].pd = bl[t].app /\ bl[t].app \in live
               /\ t = SCR => bl[t].cnt > 0
               /\ bl[t].app \notin Waiters(t)'
               /\ \/ held[bl[t].app][t] > 0
                  \/ /\ pc'[bl[t].app] \in {"sem", "upd"}
                     /\ SEM \in k'.hbits[bl[t].app] /\ semaph'[bl[t].app] = t
                  \/ pc'[bl[t].app] = "break"
    <3>1. PICK c : c = bl[t].app
      OBVIOUS
    <3>2. /\ bl[t].valid /\ bl[t].pd = c /\ c \in live /\ (t = SCR => bl[t].cnt > 0)
          /\ c \notin Waiters(t) /\ c \in App /\ c # a
          /\ \/ held[c][t] > 0
             \/ pc[c] \in {"sem", "upd"} /\ SEM \in k.hbits[c] /\ semaph[c] = t
             \/ pc[c] = "break"
      BY <1>2, <1>15, <2>1, <3>1 DEF SemInv, Owned
    <3>. QED BY <1>6, <1>7, <1>11, <3>1, <3>2
  <2>2. SCR \in Sem /\ bl[SCR].valid
    BY DEF SemInv, Owned, Sem
  <2>. QED BY <1>1, <1>8, <2>1, <2>2 DEF Owned
<1>20. FreeIsFree' /\ HolderIsOwner'
  BY <1>1, <1>8 DEF SemInv, FreeIsFree, HolderIsOwner
<1>. QED BY <1>8, <1>9, <1>10, <1>12, <1>13, <1>16, <1>17, <1>18, <1>19, <1>20 DEF SemInv

Dropped(n, a) == [n EXCEPT !.ready = Tail(@), !.rbits[a] = {}, !.hbits[a] = {}]

\* n is what m becomes when a leaves the lists
Left(m, n, a, L) ==
    /\ KOK(n, L \ {a}) /\ n.status = m.status
    /\ n.rbits[a] = {} /\ n.hbits[a] = {}
    /\ \A b \in App \ {a} : n.rbits[b] = m.rbits[b] /\ n.hbits[b] = m.hbits[b]

\* The running application leaves the ready list for good.
LEMMA DropRunning ==
    ASSUME NEW L \in SUBSET App, NEW m, NEW a, NEW n,
           KOK(m, L), m.ready # << >>, a = Act(m), n = Dropped(m, a)
    PROVE  Left(m, n, a, L)
<1>1. /\ m \in KState /\ ListsMatch(m, L) /\ NoDup(m.ready) /\ m.ready \in Seq(App)
      /\ \A b \in App : m.status[b] = "SUSPENDED" => m.rbits[b] = {}
  BY DEF KOK, ListsMatch, KState
<1>2. PICK r : r = Tail(m.ready)
  OBVIOUS
<1>3. /\ r \in Seq(App) /\ NoDup(r) /\ a \in App /\ Members(r) = Members(m.ready) \ {a}
      /\ a \in Members(m.ready)
  BY <1>1, <1>2, TailMembers DEF Act
<1>4. /\ n \in KState /\ n.ready = r /\ n.susp = m.susp /\ n.notready = m.notready
      /\ n.status = m.status
      /\ n.rbits = [m.rbits EXCEPT ![a] = {}] /\ n.hbits = [m.hbits EXCEPT ![a] = {}]
  BY <1>1, <1>2, <1>3 DEF KState, Dropped
<1>5. m.rbits \in [App -> SUBSET Event] /\ m.hbits \in [App -> SUBSET Event]
  BY <1>1 DEF KState
<1>6. /\ n.rbits[a] = {} /\ n.hbits[a] = {}
      /\ \A b \in App \ {a} : n.rbits[b] = m.rbits[b] /\ n.hbits[b] = m.hbits[b]
  BY <1>3, <1>4, <1>5
<1>7. m.status[a] = "READY"
  BY <1>1, <1>3 DEF ListsMatch
<1>8. ListsMatch(n, L \ {a})
  <2>1. /\ NoDup(n.ready) /\ NoDup(n.susp)
        /\ Members(n.ready) = Members(m.ready) \ {a} /\ Members(n.susp) = Members(m.susp)
    BY <1>1, <1>3, <1>4 DEF ListsMatch
  <2>2. /\ Members(m.ready) = {b \in L : m.status[b] = "READY"}
        /\ Members(m.susp) = {b \in L : m.status[b] = "SUSPENDED"}
        /\ m.notready = {b \in L : m.status[b] = "WAITING"}
    BY <1>1 DEF ListsMatch
  <2>3. Members(n.ready) = {b \in L \ {a} : n.status[b] = "READY"}
    BY <1>4, <2>1, <2>2
  <2>4. Members(n.susp) = {b \in L \ {a} : n.status[b] = "SUSPENDED"}
    BY <1>4, <1>7, <2>1, <2>2
  <2>5. n.notready = {b \in L \ {a} : n.status[b] = "WAITING"}
    BY <1>4, <1>7, <2>2
  <2>. QED BY <2>1, <2>3, <2>4, <2>5 DEF ListsMatch
<1>9. \A b \in App : n.status[b] = "SUSPENDED" => n.rbits[b] = {}
  BY <1>1, <1>4, <1>6
<1>. QED BY <1>4, <1>6, <1>8, <1>9 DEF KOK, Left

\* The end of an application: SEM_FALL finds nothing to give away.
LEMMA TermEndInv ==
    ASSUME SemInv, NEW a \in App, TermEnd(a)
    PROVE  SemInv' /\ bl' = bl /\ \A s \in Sem : Queue(s)' = Queue(s)
<1>1. /\ mode = "run" /\ a = Act(k) /\ pc[a] = "fall" /\ mode' = "kernel" /\ live' = live \ {a}
      /\ pc' = [pc EXCEPT ![a] = "user"] /\ UNCHANGED << semaph, tim, held >>
  BY DEF TermEnd, Running
<1>2. /\ a \in live /\ live \in SUBSET App /\ k.ready # << >> /\ k \in KState /\ a # NONE
      /\ \A b \in App \ {a} : pc[b] \notin {"events", "new"}
  BY <1>1, RunFacts, SemaphoreAssumption
<1>3. \A t \in Sem : held[a][t] = 0
  BY <1>1 DEF SemInv, GaveBack
<1>4. \A t \in Sem : bl[t].app # a
  <2>1. ASSUME NEW t \in Sem, bl[t].app = a PROVE FALSE
    <3>1. held[a][t] > 0 \/ pc[a] \in {"sem", "upd"} \/ pc[a] = "break"
      BY <1>2, <2>1 DEF SemInv, Owned
    <3>. QED BY <1>1, <1>3, <3>1
  <2>. QED BY <2>1
<1>5. k.rbits[a] = {} /\ k.hbits[a] = {} /\ semaph[a] = NONE
  BY <1>1 DEF SemInv, WaitInv
<1>6. PICK u : u = FreeAll(State, {})
  OBVIOUS
<1>7. /\ bl' = u.bl /\ nxtsem' = u.nxtsem
      /\ k' = [u.k EXCEPT !.ready = Tail(@), !.rbits[a] = {}, !.hbits[a] = {}]
  <2>1. {s \in Sem : bl[s].valid /\ bl[s].app = a} = {}
    BY <1>4
  <2>. QED BY <1>6, <2>1 DEF TermEnd
<1>8. State \in StType /\ State.k = k /\ State.bl = bl /\ State.nxtsem = nxtsem /\ KOK(k, live)
  BY QueueFacts DEF State
<1>9. Freed(State, u, {}, Qs, live)
  <2>1. PICK st, Q, L : st = State /\ Q = Qs /\ L = live
    OBVIOUS
  <2>2. /\ Freed(st, st, {}, Q, L) /\ Apart(Q) /\ L \in SUBSET App /\ st \in StType
        /\ \A t \in Sem : Q[t] \in Seq(App) /\ NoDup(Q[t]) /\ Members(Q[t]) \subseteq L
    BY <1>8, <2>1, FreedStart
  <2>3. {} \in SUBSET Sem
    OBVIOUS
  <2>4. Freed(st, FreeAll(st, {}), {}, Q, L)
    BY <2>2, <2>3, FreeAllOK
  <2>. QED BY <1>6, <2>1, <2>4
<1>10. /\ u \in StType /\ Woken(k, u.k, {}, live)
       /\ \A t \in Sem : u.bl[t] = bl[t] /\ IsList(Queue(t), bl[t].waiting, u.nxtsem)
  <2>1. Heads({}, Qs) = {} /\ \A t \in Sem : Qs[t] = Queue(t) /\ t \in Sem \ {}
    BY DEF Heads, Qs
  <2>. QED BY <1>8, <1>9, <2>1 DEF Freed, Kept
<1>11. bl' = bl /\ bl \in [Sem -> Blockage] /\ nxtsem' \in [App -> Ptr]
  <2>1. u.bl \in [Sem -> Blockage] /\ u.nxtsem \in [App -> Ptr] /\ bl \in [Sem -> Blockage]
    BY <1>10 DEF StType, SemInv, TypeOK
  <2>2. PICK f, g : f = u.bl /\ g = bl
    OBVIOUS
  <2>3. f \in [Sem -> Blockage] /\ g \in [Sem -> Blockage] /\ \A t \in Sem : f[t] = g[t]
    BY <1>10, <2>1, <2>2
  <2>4. f = g
    BY ONLY <2>3
  <2>. QED BY <1>7, <2>1, <2>2, <2>4
<1>12. /\ KOK(k', live \ {a}) /\ k'.rbits[a] = {} /\ k'.hbits[a] = {}
       /\ k'.status = k.status
       /\ \A b \in App \ {a} : k'.rbits[b] = k.rbits[b] /\ k'.hbits[b] = k.hbits[b]
  <2>1. PICK m, n, L : m = u.k /\ n = k' /\ L = live
    OBVIOUS
  <2>2. /\ KOK(m, L) /\ m.ready # << >> /\ Act(m) = a /\ m.rbits = k.rbits /\ m \in KState
        /\ \A b \in App : m.hbits[b] = k.hbits[b] /\ m.status[b] = k.status[b]
    BY <1>1, <1>2, <1>10, <2>1 DEF Woken, KOK
  <2>3. /\ KOK(n, L \ {a}) /\ n.status = m.status
        /\ n.rbits[a] = {} /\ n.hbits[a] = {}
        /\ \A b \in App \ {a} : n.rbits[b] = m.rbits[b] /\ n.hbits[b] = m.hbits[b]
    <3>1. L \in SUBSET App /\ n = Dropped(m, a)
      BY <1>2, <1>7, <2>1 DEF Dropped
    <3>2. KOK(m, L) /\ m.ready # << >> /\ a = Act(m)
      BY <2>2
    <3>3. Left(m, n, a, L)
      BY ONLY <3>1, <3>2, DropRunning
    <3>. QED BY ONLY <3>3 DEF Left
  <2>4. m.status = k.status
    <3>1. m.status \in [App -> Status] /\ k.status \in [App -> Status]
      BY <1>2, <2>2 DEF KState
    <3>. QED BY <2>2, <3>1
  <2>. QED BY ONLY <2>1, <2>2, <2>3, <2>4
<1>13. /\ pc' \in [App -> Pc] /\ pc'[a] = "user" /\ \A b \in App \ {a} : pc'[b] = pc[b]
  <2>1. pc \in [App -> Pc] /\ "user" \in Pc
    BY DEF SemInv, TypeOK, Pc
  <2>. QED BY <1>1, <2>1
<1>14. TypeOK' /\ Lists'
  <2>1. TypeOK'
    <3>1. k' \in KState /\ live' \subseteq App
      BY <1>1, <1>2, <1>12 DEF KOK
    <3>. QED BY <1>1, <1>11, <1>13, <3>1 DEF SemInv, TypeOK
  <2>2. Lists'
    BY <1>1, <1>12 DEF Lists, KOK
  <2>. QED BY <2>1, <2>2
<1>15. \A t \in Sem : Waiters(t)' = Waiters(t)
  <2>1. ASSUME NEW t \in Sem, NEW b \in live PROVE b \in Waiters(t)' <=> b \in Waiters(t)
    <3>1. b \in App
      BY <1>2
    <3>2. CASE b = a
      BY <1>5, <1>12, <3>2 DEF Waiters
    <3>3. CASE b # a
      BY <1>1, <1>12, <3>1, <3>3 DEF Waiters
    <3>. QED BY <3>2, <3>3
  <2>2. \A t \in Sem : Waiters(t)' \subseteq live /\ Waiters(t) \subseteq live
    BY <1>1 DEF Waiters
  <2>. QED BY <2>1, <2>2
<1>16. ASSUME NEW t \in Sem
       PROVE  /\ Queue(t)' = Queue(t)
              /\ IsList(Queue(t)', bl'[t].waiting, nxtsem') /\ Members(Queue(t)') = Waiters(t)'
  <2>1. PICK q : q = Queue(t)
    OBVIOUS
  <2>2. IsList(q, bl'[t].waiting, nxtsem') /\ Members(q) = Waiters(t)'
    <3>1. Members(q) = Waiters(t)
      BY <2>1, QueueFacts
    <3>. QED BY <1>7, <1>10, <1>11, <1>15, <2>1, <3>1
  <2>. QED BY <1>11, <2>1, <2>2, NewQueue
<1>17. Queues'
  BY <1>16 DEF Queues
<1>18. WaitInv'
  BY <1>1, <1>2, <1>5, <1>12, <1>13 DEF SemInv, WaitInv
<1>19. GaveBack'
  BY <1>1, <1>3, <1>13 DEF SemInv, GaveBack
<1>20. Told'
  BY <1>1, <1>11, <1>12, <1>13 DEF SemInv, Told
<1>21. Owned'
  <2>1. ASSUME NEW t \in Sem, bl[t].app # NONE
        PROVE  /\ bl[t].valid /\ bl[t].pd = bl[t].app /\ bl[t].app \in live \ {a}
               /\ t = SCR => bl[t].cnt > 0
               /\ bl[t].app \notin Waiters(t)'
               /\ \/ held[bl[t].app][t] > 0
                  \/ /\ pc'[bl[t].app] \in {"sem", "upd"}
                     /\ SEM \in k'.hbits[bl[t].app] /\ semaph[bl[t].app] = t
                  \/ pc'[bl[t].app] = "break"
    <3>1. PICK c : c = bl[t].app
      OBVIOUS
    <3>2. /\ bl[t].valid /\ bl[t].pd = c /\ c \in live /\ (t = SCR => bl[t].cnt > 0)
          /\ c \notin Waiters(t) /\ c \in App /\ c # a
          /\ \/ held[c][t] > 0
             \/ pc[c] \in {"sem", "upd"} /\ SEM \in k.hbits[c] /\ semaph[c] = t
             \/ pc[c] = "break"
      BY <1>2, <1>4, <2>1, <3>1 DEF SemInv, Owned
    <3>. QED BY <1>12, <1>13, <1>15, <3>1, <3>2
  <2>. QED BY <1>1, <1>11, <2>1 DEF SemInv, Owned
<1>22. FreeIsFree' /\ HolderIsOwner'
  BY <1>1, <1>11 DEF SemInv, FreeIsFree, HolderIsOwner
<1>. QED BY <1>11, <1>14, <1>16, <1>17, <1>18, <1>19, <1>20, <1>21, <1>22 DEF SemInv

\* SEM_DEL: everybody who waits for the semaphore goes on without it.
LEMMA SemDelInv ==
    ASSUME SemInv, NEW a \in App, NEW s \in Named, SemDel(a, s)
    PROVE  /\ SemInv' /\ bl[s].app \in {NONE, a} /\ bl'[s].app = NONE /\ Queue(s)' = << >>
           /\ \A t \in Sem \ {s} : Queue(t)' = Queue(t) /\ bl'[t].app = bl[t].app
<1>1. /\ mode = "run" /\ a = Act(k) /\ pc[a] = "user" /\ bl[s].app \in {NONE, a}
      /\ held' = [held EXCEPT ![a][s] = 0] /\ UNCHANGED << mode, live, pc, nxtsem, tim >>
  BY DEF SemDel, Running
<1>2. /\ a \in live /\ live \in SUBSET App /\ k.ready # << >> /\ k \in KState /\ a # NONE
      /\ \A b \in App : pc[b] \notin {"events", "new"}
  BY <1>1, RunFacts, SemaphoreAssumption
<1>3. s \in Sem /\ s # SCR /\ s # NONE /\ NONE \in Ptr
  BY SemaphoreAssumption DEF Sem, Ptr
<1>4. PICK M : M = Waiters(s)
  OBVIOUS
<1>5. PICK w : w = Queue(s)
  OBVIOUS
<1>6. /\ w \in Seq(App) /\ Members(w) = M /\ M \subseteq live /\ KOK(k, live)
      /\ Linked(bl[s].waiting, nxtsem) = M
  BY <1>3, <1>4, <1>5, QueueFacts
<1>7. Woken(k, k', M, live)
  <2>1. PICK f : f = CHOOSE x : Waking(x, k, w)
    OBVIOUS
  <2>2. k' = f[Len(w)]
    BY <1>5, <2>1 DEF SemDel, Waking, Queue
  <2>3. PICK n, L : n = k /\ L = live /\ L \in SUBSET App /\ KOK(n, L) /\ Members(w) \subseteq L
                    /\ f = CHOOSE x : Waking(x, n, w)
    BY <1>2, <1>6, <2>1
  <2>4. Woken(n, f[Len(w)], Members(w), L)
    BY <1>6, <2>3, WakeAll
  <2>. QED BY <1>6, <2>2, <2>3, <2>4
<1>8. \A b \in App : /\ k'.rbits[b] = k.rbits[b]
                     /\ k'.hbits[b] = IF b \in M THEN k.hbits[b] \cup {SEM} ELSE k.hbits[b]
                     /\ k'.status[b] = "READY" => k.status[b] = "READY" \/ b \in M
  BY <1>7 DEF Woken
<1>9. KOK(k', live) /\ k'.ready # << >> /\ Act(k') = a /\ k' \in KState
  BY <1>1, <1>2, <1>7 DEF Woken, KOK
<1>10. \A b \in M : b \in live /\ SEM \in k.rbits[b] /\ SEM \notin k.hbits[b] /\ semaph[b] = s
  BY <1>4 DEF Waiters
<1>11. /\ semaph' \in [App -> Sem \cup {NONE}]
       /\ \A b \in App : semaph'[b] = IF b \in M THEN NONE ELSE semaph[b]
  <2>1. semaph' = [b \in App |-> IF b \in M THEN NONE ELSE semaph[b]]
    BY <1>6 DEF SemDel
  <2>2. semaph \in [App -> Sem \cup {NONE}]
    BY DEF SemInv, TypeOK
  <2>. QED BY <2>1, <2>2
<1>12. PICK r : r = [app |-> NONE, pd |-> NONE, cnt |-> 0, waiting |-> NONE, valid |-> FALSE]
  OBVIOUS
<1>13. r \in Blockage /\ r.app = NONE /\ r.waiting = NONE
  BY <1>3, <1>12, SemaphoreAssumption DEF Blockage
<1>14. bl' \in [Sem -> Blockage] /\ bl'[s] = r /\ \A t \in Sem \ {s} : bl'[t] = bl[t]
  <2>1. bl' = [bl EXCEPT ![s] = r]
    BY <1>12 DEF SemDel
  <2>2. bl \in [Sem -> Blockage]
    BY DEF SemInv, TypeOK
  <2>. QED BY <1>3, <1>13, <2>1, <2>2, OneBl
<1>15. /\ held' \in [App -> [Sem -> 0..MaxNest]] /\ held'[a][s] = 0
       /\ \A b \in App, t \in Sem : (b # a \/ t # s) => held'[b][t] = held[b][t]
  <2>1. held \in [App -> [Sem -> 0..MaxNest]] /\ 0 \in 0..MaxNest
    BY SemaphoreAssumption DEF SemInv, TypeOK
  <2>. QED BY <1>1, <1>3, <2>1, OneHeld
<1>16. TypeOK' /\ Lists'
  <2>1. TypeOK'
    BY <1>1, <1>9, <1>11, <1>14, <1>15 DEF SemInv, TypeOK
  <2>2. Lists'
    BY <1>1, <1>9 DEF Lists, KOK
  <2>. QED BY <2>1, <2>2
<1>17. Waiters(s)' = {} /\ \A t \in Sem \ {s} : Waiters(t)' = Waiters(t)
  <2>1. ASSUME NEW b \in live PROVE b \notin Waiters(s)'
    <3>1. b \in App
      BY <1>2
    <3>2. b \notin M => ~(SEM \in k.rbits[b] \ k.hbits[b] /\ semaph[b] = s)
      BY <1>4 DEF Waiters
    <3>. QED BY <1>3, <1>8, <1>11, <3>1, <3>2 DEF Waiters
  <2>2. ASSUME NEW t \in Sem \ {s}, NEW b \in live PROVE b \in Waiters(t)' <=> b \in Waiters(t)
    <3>1. b \in App /\ t # NONE
      BY <1>2, SemaphoreAssumption DEF Sem
    <3>2. CASE b \in M
      BY <1>8, <1>10, <3>1, <3>2 DEF Waiters
    <3>3. CASE b \notin M
      BY <1>1, <1>8, <1>11, <3>1, <3>3 DEF Waiters
    <3>. QED BY <3>2, <3>3
  <2>3. \A t \in Sem : Waiters(t)' \subseteq live /\ Waiters(t) \subseteq live
    BY <1>1 DEF Waiters
  <2>. QED BY <1>3, <2>1, <2>2, <2>3
<1>18. /\ Queue(s)' = << >>
       /\ IsList(Queue(s)', bl'[s].waiting, nxtsem') /\ Members(Queue(s)') = Waiters(s)'
  <2>1. PICK q : q = << >>
    OBVIOUS
  <2>2. IsList(q, bl'[s].waiting, nxtsem') /\ Members(q) = Waiters(s)'
    BY <1>13, <1>14, <1>17, <2>1, EmptyList
  <2>3. nxtsem' \in [App -> Ptr]
    BY <1>16 DEF TypeOK
  <2>. QED BY <1>3, <2>1, <2>2, <2>3, NewQueue
<1>19. ASSUME NEW t \in Sem \ {s}
       PROVE  /\ Queue(t)' = Queue(t)
              /\ IsList(Queue(t)', bl'[t].waiting, nxtsem') /\ Members(Queue(t)') = Waiters(t)'
  <2>1. nxtsem' \in [App -> Ptr]
    BY <1>16 DEF TypeOK
  <2>2. bl'[t].waiting = bl[t].waiting /\ \A c \in Waiters(t) : nxtsem'[c] = nxtsem[c]
    BY <1>1, <1>14
  <2>. QED BY <1>17, <2>1, <2>2, SameQueue
<1>20. Queues'
  BY <1>18, <1>19 DEF Queues
<1>21. \A b \in M : pc[b] \in {"sem", "break"}
  <2>1. ASSUME NEW b \in M PROVE pc[b] \in {"sem", "break"}
    <3>1. b \in App /\ pc[b] \in Pc
      BY <1>2, <1>10 DEF SemInv, TypeOK
    <3>2. pc[b] \notin {"user", "new", "fall", "upd", "events"}
      BY <1>2, <1>3, <1>10, <3>1 DEF SemInv, WaitInv
    <3>. QED BY <3>1, <3>2 DEF Pc
  <2>. QED BY <2>1
<1>22. WaitInv'
  <2>1. ASSUME NEW b \in App
        PROVE  /\ pc[b] \in {"user", "new", "fall"} => /\ k'.rbits[b] = {} /\ k'.hbits[b] = {}
                                                     /\ semaph'[b] = NONE
               /\ pc[b] \in {"sem", "upd"} => /\ SEM \in k'.rbits[b] /\ k'.hbits[b] \subseteq {SEM}
                                             /\ (k'.status[b] = "READY" => SEM \in k'.hbits[b])
               /\ pc[b] = "upd" => semaph'[b] = SCR
               /\ SEM \in k'.rbits[b] \ k'.hbits[b] => semaph'[b] # NONE
    <3>1. CASE b \in M
      <4>1. pc[b] \in {"sem", "break"} /\ (pc[b] = "sem" => k.hbits[b] \subseteq {SEM})
        BY <1>21, <3>1 DEF SemInv, WaitInv
      <4>. QED BY <1>8, <1>10, <3>1, <4>1
    <3>2. CASE b \notin M
      BY <1>8, <1>11, <3>2 DEF SemInv, WaitInv
    <3>. QED BY <3>1, <3>2
  <2>. QED BY <1>1, <1>2, <2>1 DEF WaitInv
<1>23. GaveBack'
  <2>1. \A b \in App, t \in Sem : held[b][t] = 0 => held'[b][t] = 0
    BY <1>15
  <2>. QED BY <1>1, <2>1 DEF SemInv, GaveBack
<1>24. Told'
  <2>1. ASSUME NEW b \in App, pc[b] \in {"sem", "upd"}, SEM \in k'.hbits[b], semaph'[b] # NONE
        PROVE  bl'[semaph'[b]].app = b /\ (semaph'[b] = SCR => bl'[SCR].cnt = 1)
    <3>1. PICK t : t = semaph[b]
      OBVIOUS
    <3>2. b \notin M /\ semaph'[b] = t /\ SEM \in k.hbits[b] /\ t # NONE /\ t \in Sem
      BY <1>8, <1>11, <2>1, <3>1 DEF SemInv, TypeOK
    <3>3. bl[t].app = b /\ (t = SCR => bl[SCR].cnt = 1)
      BY <2>1, <3>1, <3>2 DEF SemInv, Told
    <3>4. t # s
      BY <1>1, <2>1, <3>3, SemaphoreAssumption
    <3>. QED BY <1>14, <3>2, <3>3, <3>4
  <2>. QED BY <1>1, <2>1 DEF Told
<1>25. Owned'
  <2>1. ASSUME NEW t \in Sem \ {s}, bl[t].app # NONE
        PROVE  /\ bl[t].valid /\ bl[t].pd = bl[t].app /\ bl[t].app \in live
               /\ t = SCR => bl[t].cnt > 0
               /\ bl[t].app \notin Waiters(t)'
               /\ \/ held'[bl[t].app][t] > 0
                  \/ /\ pc[bl[t].app] \in {"sem", "upd"}
                     /\ SEM \in k'.hbits[bl[t].app] /\ semaph'[bl[t].app] = t
                  \/ pc[bl[t].app] = "break"
    <3>1. PICK c : c = bl[t].app
      OBVIOUS
    <3>2. /\ bl[t].valid /\ bl[t].pd = c /\ c \in live /\ (t = SCR => bl[t].cnt > 0)
          /\ c \notin Waiters(t) /\ c \in App
          /\ \/ held[c][t] > 0
             \/ pc[c] \in {"sem", "upd"} /\ SEM \in k.hbits[c] /\ semaph[c] = t
             \/ pc[c] = "break"
      BY <1>2, <2>1, <3>1 DEF SemInv, Owned
    <3>3. SEM \in k.hbits[c] => SEM \in k'.hbits[c] /\ semaph'[c] = semaph[c]
      BY <1>8, <1>10, <1>11, <3>2
    <3>4. held'[c][t] = held[c][t]
      BY <1>15, <3>2
    <3>. QED BY <1>17, <3>1, <3>2, <3>3, <3>4
  <2>2. SCR \in Sem \ {s} /\ bl[SCR].valid
    BY <1>3 DEF SemInv, Owned, Sem
  <2>3. bl'[SCR].valid
    BY <1>14, <2>2, Zenon
  <2>4. \A t \in Sem : bl'[t].app # NONE => t \in Sem \ {s}
    BY <1>13, <1>14
  <2>. QED BY <1>1, <1>14, <2>1, <2>3, <2>4 DEF Owned
<1>26. FreeIsFree'
  BY <1>3, <1>13, <1>14 DEF SemInv, FreeIsFree
<1>27. HolderIsOwner'
  <2>1. ASSUME NEW b \in live, NEW t \in Sem, held'[b][t] > 0
        PROVE  bl'[t].valid /\ bl'[t].app = b /\ (t = SCR => bl'[t].cnt = held'[b][t])
    <3>1. b \in App /\ held'[b][t] = held[b][t] /\ (b # a \/ t # s)
      BY <1>2, <1>15, <2>1
    <3>2. bl[t].valid /\ bl[t].app = b /\ (t = SCR => bl[t].cnt = held[b][t])
      BY <2>1, <3>1 DEF SemInv, HolderIsOwner
    <3>3. t # s
      BY <1>1, <3>1, <3>2, SemaphoreAssumption
    <3>. QED BY <1>14, <3>1, <3>2, <3>3
  <2>. QED BY <1>1, <2>1 DEF HolderIsOwner
<1>. QED BY <1>1, <1>13, <1>14, <1>16, <1>18, <1>19, <1>20, <1>22, <1>23, <1>24, <1>25, <1>26, <1>27
     DEF SemInv

-----------------------------------------------------------------------------
(* The invariant *)

\* The invariant holds initially.
LEMMA InitSemInv == Init => SemInv /\ \A s \in Sem : Queue(s) = << >>
<1>. SUFFICES ASSUME Init PROVE SemInv /\ \A s \in Sem : Queue(s) = << >>
  OBVIOUS
<1>1. PICK a \in App :
         /\ k = [ready |-> << a >>, notready |-> {}, susp |-> << >>,
                 status |-> [b \in App |-> "READY"], rbits |-> [b \in App |-> {}],
                 hbits |-> [b \in App |-> {}], unsusp |-> UnSusp]
         /\ live = {a}
  BY DEF Init
<1>2. /\ k.ready = << a >> /\ k.notready = {} /\ k.susp = << >>
      /\ \A b \in App : k.status[b] = "READY" /\ k.rbits[b] = {} /\ k.hbits[b] = {}
  BY <1>1
<1>3. k \in KState
  BY <1>1, KernelAssumption DEF KState, Status
<1>4. /\ mode = "run" /\ pc = [b \in App |-> "user"] /\ nxtsem = [b \in App |-> NONE]
      /\ semaph = [b \in App |-> NONE] /\ tim = {} /\ held = [b \in App |-> [s \in Sem |-> 0]]
  BY DEF Init
<1>5. PICK r : r = [app |-> NONE, pd |-> NONE, cnt |-> 0, waiting |-> NONE, valid |-> TRUE]
  OBVIOUS
<1>6. r \in Blockage /\ r.app = NONE /\ r.cnt = 0 /\ r.waiting = NONE /\ r.valid
  BY <1>5, SemaphoreAssumption DEF Blockage, Ptr
<1>7. bl \in [Sem -> Blockage] /\ \A s \in Sem : bl[s] = r
  <2>1. bl = [s \in Sem |-> r]
    BY <1>5 DEF Init
  <2>. QED BY <1>6, <2>1
<1>8. TypeOK
  <2>1. /\ live \subseteq App /\ pc \in [App -> Pc] /\ nxtsem \in [App -> Ptr] /\ tim \subseteq App
        /\ semaph \in [App -> Sem \cup {NONE}] /\ mode \in {"run", "kernel"}
    BY <1>1, <1>4 DEF Pc, Ptr
  <2>2. held \in [App -> [Sem -> 0..MaxNest]]
    BY <1>4, SemaphoreAssumption
  <2>. QED BY <1>3, <1>7, <2>1, <2>2 DEF TypeOK
<1>9. \A s \in Sem : Waiters(s) = {}
  BY <1>1, <1>2 DEF Waiters
<1>10. ASSUME NEW s \in Sem PROVE Queue(s) = << >> /\ IsList(Queue(s), bl[s].waiting, nxtsem)
  <2>1. PICK q, p, nx : q = << >> /\ p = bl[s].waiting /\ nx = nxtsem
    OBVIOUS
  <2>2. IsList(q, p, nx) /\ nx \in [App -> Ptr]
    BY <1>6, <1>7, <1>8, <2>1, EmptyList DEF TypeOK
  <2>3. WaitOrder(p, nx) = q
    BY <2>2, ListWalk
  <2>. QED BY <2>1, <2>2, <2>3 DEF Queue
<1>11. Queues
  BY <1>9, <1>10, EmptyList DEF Queues
<1>12. Lists
  <2>1. ListsMatch(k, live)
    BY <1>1, <1>2 DEF ListsMatch, NoDup, Members
  <2>. QED BY <1>2, <2>1 DEF Lists
<1>13. WaitInv
  BY <1>2, <1>4 DEF WaitInv
<1>14. GaveBack /\ HolderIsOwner
  <2>1. \A b \in App : pc[b] = "user" /\ \A s \in Sem : held[b][s] = 0
    BY <1>4
  <2>. QED BY <1>1, <2>1 DEF GaveBack, HolderIsOwner
<1>15. Told /\ FreeIsFree
  BY <1>4, <1>6, <1>7 DEF Told, FreeIsFree
<1>16. Owned
  <2>1. SCR \in Sem
    BY DEF Sem
  <2>. QED BY <1>6, <1>7, <2>1 DEF Owned
<1>. QED BY <1>8, <1>10, <1>11, <1>12, <1>13, <1>14, <1>15, <1>16 DEF SemInv

-----------------------------------------------------------------------------
(* Refinement of SemSpec *)

\* a step of SemSpec, or one that SemSpec does not see
Refined == Abstract!SpecNext \/ UNCHANGED Abstract!specvars

\* Owners and queues stay.
LEMMA StutterRefines ==
    ASSUME \A t \in Sem : bl'[t].app = bl[t].app, \A t \in Sem : Queue(t)' = Queue(t)
    PROVE  Refined
BY DEF Refined, Abstract!specvars, Queue

\* A free semaphore is taken.
LEMMA AcquireRefines ==
    ASSUME NEW a \in App, NEW s \in Sem, bl[s].app = NONE, bl'[s].app = a,
           \A t \in Sem \ {s} : bl'[t].app = bl[t].app, \A t \in Sem : Queue(t)' = Queue(t)
    PROVE  Refined
<1>1. Abstract!Acquire(a, s)
  BY DEF Abstract!Acquire, Queue
<1>. QED BY <1>1 DEF Refined, Abstract!SpecNext

\* An application waits behind the others.
LEMMA EnqueueRefines ==
    ASSUME NEW a \in App, NEW s \in Sem, bl[s].app \notin {NONE, a},
           \A t \in Sem : bl'[t].app = bl[t].app, \A t \in Sem : a \notin Members(Queue(t)),
           Queue(s)' = Append(Queue(s), a), \A t \in Sem \ {s} : Queue(t)' = Queue(t)
    PROVE  Refined
<1>1. Abstract!Enqueue(a, s)
  BY DEF Abstract!Enqueue, Abstract!Queued, Queue, Members
<1>. QED BY <1>1 DEF Refined, Abstract!SpecNext

\* Semaphores are given to those who wait longest.
LEMMA HandOverRefines ==
    ASSUME NEW a \in App, NEW S \in SUBSET Sem, \A t \in S : bl[t].app = a,
           \A t \in Sem : Queue(t) \in Seq(App),
           \A t \in S : /\ Queue(t)' = Rest(Queue(t))
                        /\ bl'[t].app = IF Queue(t) = << >> THEN NONE ELSE Queue(t)[1],
           \A t \in Sem \ S : Queue(t)' = Queue(t) /\ bl'[t].app = bl[t].app
    PROVE  Refined
<1>1. \A t \in Sem : Queue(t) # << >> => Head(Queue(t)) = Queue(t)[1]
  OBVIOUS
<1>2. \A t \in Sem : Queue(t)' = IF t \in S /\ Queue(t) # << >> THEN Tail(Queue(t)) ELSE Queue(t)
  BY DEF Rest
<1>3. \A t \in Sem : bl'[t].app = IF t \notin S THEN bl[t].app
                                  ELSE IF Queue(t) = << >> THEN NONE ELSE Head(Queue(t))
  BY <1>1
<1>4. Abstract!HandOver(a, S)
  BY <1>2, <1>3 DEF Abstract!HandOver, Queue
<1>. QED BY <1>4 DEF Refined, Abstract!SpecNext

\* One semaphore is given to who waits longest.
LEMMA GiveOneRefines ==
    ASSUME NEW a \in App, NEW s \in Sem, bl[s].app = a,
           \A t \in Sem : Queue(t) \in Seq(App), Queue(s)' = Rest(Queue(s)),
           bl'[s].app = IF Queue(s) = << >> THEN NONE ELSE Queue(s)[1],
           \A t \in Sem \ {s} : Queue(t)' = Queue(t) /\ bl'[t].app = bl[t].app
    PROVE  Refined
<1>1. PICK S : S = {s}
  OBVIOUS
<1>2. S \in SUBSET Sem /\ \A t \in S : t = s
  BY <1>1
<1>3. \A t \in S : /\ bl[t].app = a /\ Queue(t)' = Rest(Queue(t))
                   /\ bl'[t].app = IF Queue(t) = << >> THEN NONE ELSE Queue(t)[1]
  BY <1>2
<1>4. \A t \in Sem \ S : Queue(t)' = Queue(t) /\ bl'[t].app = bl[t].app
  BY <1>1
<1>. QED BY <1>2, <1>3, <1>4, HandOverRefines

\* An application leaves the queue it is in.
LEMMA LeaveRefines ==
    ASSUME NEW a \in App, \A t \in Sem : bl'[t].app = bl[t].app,
           \A t \in Sem : Queue(t)' = RmvLstElm(Queue(t), a) /\ Queue(t) \in Seq(App) /\ NoDup(Queue(t)),
           \A t, u \in Sem : a \in Members(Queue(t)) /\ a \in Members(Queue(u)) => t = u
    PROVE  Refined
<1>1. CASE \A t \in Sem : a \notin Members(Queue(t))
  BY <1>1, StutterRefines DEF RmvLstElm
<1>2. CASE \E t \in Sem : a \in Members(Queue(t))
  <2>1. PICK s \in Sem : a \in Members(Queue(s))
    BY <1>2
  <2>2. PICK i \in DOMAIN Queue(s) : Queue(s)[i] = a
    BY <2>1 DEF Members
  <2>3. Queue(s)' = [j \in 1..(Len(Queue(s)) - 1) |-> IF j < i THEN Queue(s)[j] ELSE Queue(s)[j + 1]]
    <3>1. PICK q : q = Queue(s)
      OBVIOUS
    <3>2. q \in Seq(App) /\ NoDup(q) /\ i \in DOMAIN q /\ q[i] = a /\ Queue(s)' = RmvLstElm(q, a)
      BY <2>2, <3>1
    <3>3. RmvLstElm(q, q[i]) = [j \in 1..(Len(q) - 1) |-> IF j < i THEN q[j] ELSE q[j + 1]]
      BY ONLY <3>2, CutIs
    <3>. QED BY <3>1, <3>2, <3>3
  <2>4. \A t \in Sem \ {s} : Queue(t)' = Queue(t)
    BY <2>1 DEF RmvLstElm
  <2>5. Abstract!Leave(a, s)
    <3>1. PICK Q, P : /\ Q = [t \in Sem |-> WaitOrder(bl[t].waiting, nxtsem)]
                      /\ P = [t \in Sem |-> WaitOrder(bl[t].waiting, nxtsem)]'
      OBVIOUS
    <3>2. \A t \in Sem : Q[t] = Queue(t) /\ P[t] = Queue(t)'
      BY <3>1 DEF Queue
    <3>3. PICK c : c = [j \in 1..(Len(Q[s]) - 1) |-> IF j < i THEN Q[s][j] ELSE Q[s][j + 1]]
      OBVIOUS
    <3>4. P[s] = c /\ \A t \in Sem \ {s} : P[t] = Q[t]
      BY <2>3, <2>4, <3>2, <3>3
    <3>5. P = [Q EXCEPT ![s] = c]
      BY <3>1, <3>4
    <3>6. i \in DOMAIN Q[s] /\ Q[s][i] = a
      BY <2>2, <3>2
    <3>7. [t \in Sem |-> bl[t].app]' = [t \in Sem |-> bl[t].app]
      OBVIOUS
    <3>. DEFINE R == [t \in Sem |-> WaitOrder(bl[t].waiting, nxtsem)]
    <3>8. R' = [R EXCEPT ![s] = [j \in 1..(Len(R[s]) - 1) |-> IF j < i THEN R[s][j] ELSE R[s][j + 1]]]
      <4>1. R = Q /\ R' = P
        BY <3>1
      <4>. QED BY ONLY <3>3, <3>5, <4>1
    <3>9. i \in DOMAIN R[s] /\ R[s][i] = a
      BY <3>1, <3>6
    <3>. QED BY ONLY <3>7, <3>8, <3>9, Zenon DEF Abstract!Leave
  <2>. QED BY <2>5 DEF Refined, Abstract!SpecNext
<1>. QED BY <1>1, <1>2

\* A semaphore is removed.
LEMMA DeleteRefines ==
    ASSUME NEW a \in App, NEW s \in Sem, bl[s].app \in {NONE, a}, bl'[s].app = NONE,
           Queue(s)' = << >>, \A t \in Sem \ {s} : Queue(t)' = Queue(t) /\ bl'[t].app = bl[t].app
    PROVE  Refined
<1>1. Abstract!Delete(a, s)
  BY DEF Abstract!Delete, Queue
<1>. QED BY <1>1 DEF Refined, Abstract!SpecNext

\* What a step of the running application does to a queue or an owner, one
\* action at a time.
LEMMA StepRefines ==
    ASSUME SemInv, NEW a \in App, AppStep(a)
    PROVE  SemInv' /\ Refined
<1>1. \A t \in Sem : /\ Queue(t) \in Seq(App) /\ NoDup(Queue(t)) /\ Members(Queue(t)) = Waiters(t)
                     /\ IsList(Queue(t), bl[t].waiting, nxtsem)
  BY QueueFacts
<1>2. SCR \in Sem /\ Named \subseteq Sem
  BY DEF Sem
<1>3. CASE Yield(a)
  <2>1. SemInv' /\ \A t \in Sem : Queue(t)' = Queue(t)
    BY <1>3, YieldInv
  <2>2. bl' = bl
    BY <1>3 DEF Yield
  <2>. QED BY <2>1, <2>2, StutterRefines
<1>4. CASE WaitRet(a)
  BY <1>4, WaitRetInv, StutterRefines
<1>5. CASE BegUpdate(a)
  <2>1. /\ SemInv' /\ \A t \in Sem : Queue(t)' = Queue(t)
        /\ bl[SCR].app \in {NONE, a} /\ bl'[SCR].app = a
        /\ \A t \in Sem \ {SCR} : bl'[t] = bl[t]
    BY <1>5, BegUpdateInv
  <2>2. CASE bl[SCR].app = NONE
    BY <1>2, <2>1, <2>2, AcquireRefines
  <2>3. CASE bl[SCR].app = a
    BY <2>1, <2>3, StutterRefines
  <2>. QED BY <2>1, <2>2, <2>3
<1>6. ASSUME NEW s \in Sem,
             (s \in Named /\ SemSetWait(a, s)) \/ (s = SCR /\ (BegUpdateWait(a) \/ TermUpdWait(a)))
      PROVE  SemInv' /\ Refined
  <2>1. /\ SemInv' /\ Queue(s)' = Append(Queue(s), a)
        /\ \A t \in Sem \ {s} : Queue(t)' = Queue(t)
        /\ \A t \in Sem : bl'[t].app = bl[t].app
        /\ \A t \in Sem : a \notin Waiters(t)
        /\ bl[s].app \notin {NONE, a}
    BY <1>6, WaitsInv
  <2>2. \A t \in Sem : a \notin Members(Queue(t))
    BY <1>1, <2>1
  <2>. QED BY <2>1, <2>2, EnqueueRefines
<1>7. CASE EndUpdate(a)
  <2>1. /\ SemInv' /\ bl[SCR].app = a
        /\ \A t \in Sem \ {SCR} : Queue(t)' = Queue(t) /\ bl'[t].app = bl[t].app
        /\ \/ Queue(SCR)' = Queue(SCR) /\ bl'[SCR].app = bl[SCR].app
           \/ /\ Queue(SCR)' = Rest(Queue(SCR))
              /\ bl'[SCR].app = IF Queue(SCR) = << >> THEN NONE ELSE Queue(SCR)[1]
    BY <1>7, EndUpdateInv
  <2>2. CASE Queue(SCR)' = Queue(SCR) /\ bl'[SCR].app = bl[SCR].app
    BY <2>1, <2>2, StutterRefines
  <2>3. CASE /\ Queue(SCR)' = Rest(Queue(SCR))
             /\ bl'[SCR].app = IF Queue(SCR) = << >> THEN NONE ELSE Queue(SCR)[1]
    BY <1>1, <1>2, <2>1, <2>3, GiveOneRefines
  <2>. QED BY <2>1, <2>2, <2>3
<1>8. CASE TermFpd(a)
  <2>1. PICK S \in SUBSET Sem : S = {s \in Sem : bl[s].app = a}
    OBVIOUS
  <2>2. /\ SemInv'
        /\ \A s \in S : /\ Queue(s)' = Rest(Queue(s))
                        /\ bl'[s].app = IF Queue(s) = << >> THEN NONE ELSE Queue(s)[1]
        /\ \A s \in Sem \ S : Queue(s)' = Queue(s) /\ bl'[s].app = bl[s].app
    BY <1>8, <2>1, TermFpdInv
  <2>3. \A s \in S : bl[s].app = a
    BY <2>1
  <2>. QED BY <1>1, <2>2, <2>3, HandOverRefines
<1>9. CASE TermEvents(a)
  <2>1. SemInv' /\ \A t \in Sem : Queue(t)' = RmvLstElm(Queue(t), a) /\ bl'[t].app = bl[t].app
    BY <1>9, TermEventsInv
  <2>2. \A t, u \in Sem : a \in Members(Queue(t)) /\ a \in Members(Queue(u)) => t = u
    BY <1>1 DEF Waiters
  <2>. QED BY <1>1, <2>1, <2>2, LeaveRefines
<1>10. CASE TermWindNew(a)
  <2>1. /\ SemInv' /\ bl[SCR].app \in {NONE, a}
        /\ Queue(SCR)' = Rest(Queue(SCR))
        /\ bl'[SCR].app = IF Queue(SCR) = << >> THEN NONE ELSE Queue(SCR)[1]
        /\ \A t \in Sem \ {SCR} : Queue(t)' = Queue(t) /\ bl'[t].app = bl[t].app
    BY <1>10, TermWindNewInv
  <2>2. CASE bl[SCR].app = a
    BY <1>1, <1>2, <2>1, <2>2, GiveOneRefines
  <2>3. CASE bl[SCR].app = NONE
    <3>1. bl[SCR].waiting = NONE
      BY <1>2, <2>3 DEF SemInv, FreeIsFree
    <3>2. Queue(SCR) = << >>
      <4>1. PICK q : q = Queue(SCR) /\ q \in Seq(App) /\ IsList(q, NONE, nxtsem)
        BY <1>1, <1>2, <3>1
      <4>2. q # << >> => q[Len(q)] \in App
        BY <4>1
      <4>. QED BY <4>1, <4>2, SemaphoreAssumption DEF IsList
    <3>3. Queue(SCR)' = Queue(SCR) /\ bl'[SCR].app = bl[SCR].app
      BY <2>1, <2>3, <3>2 DEF Rest
    <3>. QED BY <2>1, <3>3, StutterRefines
  <2>. QED BY <2>1, <2>2, <2>3
<1>11. CASE TermEnd(a)
  BY <1>11, TermEndInv, StutterRefines
<1>12. ASSUME NEW s \in Named, SemSet(a, s) \/ SemCreate(a, s) PROVE SemInv' /\ Refined
  <2>1. /\ SemInv' /\ \A t \in Sem : Queue(t)' = Queue(t)
        /\ bl[s].app = NONE /\ bl'[s].app = a /\ \A t \in Sem \ {s} : bl'[t] = bl[t]
    BY <1>12, SemSetInv, SemCreateInv
  <2>. QED BY <1>2, <2>1, AcquireRefines
<1>13. ASSUME NEW s \in Named, SemFree(a, s) PROVE SemInv' /\ Refined
  <2>1. /\ SemInv' /\ bl[s].app = a
        /\ Queue(s)' = Rest(Queue(s))
        /\ bl'[s].app = IF Queue(s) = << >> THEN NONE ELSE Queue(s)[1]
        /\ \A t \in Sem \ {s} : Queue(t)' = Queue(t) /\ bl'[t].app = bl[t].app
    BY <1>13, SemFreeInv
  <2>. QED BY <1>1, <1>2, <2>1, GiveOneRefines
<1>14. ASSUME NEW s \in Named, SemDel(a, s) PROVE SemInv' /\ Refined
  <2>1. /\ SemInv' /\ bl[s].app \in {NONE, a} /\ bl'[s].app = NONE /\ Queue(s)' = << >>
        /\ \A t \in Sem \ {s} : Queue(t)' = Queue(t) /\ bl'[t].app = bl[t].app
    BY <1>14, SemDelInv
  <2>. QED BY <1>2, <2>1, DeleteRefines
<1>15. ASSUME NEW b \in App, InitAPPL(a, b) \/ Kill(a, b) PROVE SemInv' /\ Refined
  <2>1. SemInv' /\ bl' = bl /\ \A t \in Sem : Queue(t)' = Queue(t)
    BY <1>15, InitAPPLInv, KillInv
  <2>. QED BY <2>1, StutterRefines
<1>16. CASE BegUpdateWait(a) \/ TermUpdWait(a)
  BY <1>2, <1>6, <1>16
<1>17. CASE \E s \in Named : SemSetWait(a, s)
  BY <1>2, <1>6, <1>17
<1>. QED BY <1>3, <1>4, <1>5, <1>7, <1>8, <1>9, <1>10, <1>11, <1>12, <1>13, <1>14, <1>15, <1>16, <1>17
     DEF AppStep

\* Every step keeps the invariant and is one of SemSpec or changes nothing that
\* SemSpec knows.
LEMMA NextRefines == SemInv /\ [Next]_vars => SemInv' /\ Refined
<1>. SUFFICES ASSUME SemInv, [Next]_vars PROVE SemInv' /\ Refined
  OBVIOUS
<1>1. CASE UNCHANGED vars
  <2>1. /\ k' = k /\ mode' = mode /\ live' = live /\ pc' = pc /\ bl' = bl /\ nxtsem' = nxtsem
        /\ semaph' = semaph /\ tim' = tim /\ held' = held
    BY <1>1 DEF vars
  <2>2. \A s \in Sem : Queue(s)' = Queue(s) /\ Waiters(s)' = Waiters(s)
    BY <2>1 DEF Queue, Waiters
  <2>3. TypeOK' /\ Lists' /\ WaitInv' /\ GaveBack'
    BY <2>1 DEF SemInv, TypeOK, Lists, WaitInv, GaveBack
  <2>4. Queues' /\ Told' /\ Owned' /\ FreeIsFree' /\ HolderIsOwner'
    BY <2>1, <2>2 DEF SemInv, Queues, Told, Owned, FreeIsFree, HolderIsOwner
  <2>. QED BY <2>1, <2>2, <2>3, <2>4, StutterRefines DEF SemInv
<1>2. CASE Switch
  <2>1. bl' = bl
    BY <1>2 DEF Switch
  <2>. QED BY <1>2, <2>1, SwitchInv, StutterRefines
<1>. QED BY <1>1, <1>2, StepRefines DEF Next

\* The inductive invariant holds in every state.
THEOREM SemInvAlways == Spec => []SemInv
<1>1. Init => SemInv
  BY InitSemInv
<1>2. SemInv /\ [Next]_vars => SemInv'
  BY NextRefines
<1>. QED BY <1>1, <1>2, PTL DEF Spec

\* BLOCKAGEs and links name applications and bl_cnt stays between 0 and MaxNest,
\* for any number of applications and semaphores.
THEOREM SemaphoresTyped == Spec => []TypeOK
<1>1. SemInv => TypeOK
  BY DEF SemInv
<1>. QED BY <1>1, SemInvAlways, PTL

\* Whoever was told it has a semaphore has it until it releases it or ends, as
\* long as no wait runs out (Spec).
THEOREM HolderStaysOwner == Spec => []HolderIsOwner
<1>1. SemInv => HolderIsOwner
  BY DEF SemInv
<1>. QED BY <1>1, SemInvAlways, PTL

\* No semaphore belongs to an application that does not know of it.
THEOREM OwnersKnow == Spec => []OwnerKnows
<1>1. SemInv => OwnerKnows
  BY DEF SemInv, Owned, OwnerKnows
<1>. QED BY <1>1, SemInvAlways, PTL

\* Every loop over a waiting list ends, and the list holds exactly those who wait.
THEOREM WaitersStayLinked == Spec => []WaitersLinked
<1>1. SemInv => WaitersLinked
  <2>. SUFFICES ASSUME SemInv PROVE WaitersLinked
    OBVIOUS
  <2>. QED BY QueueFacts DEF WaitersLinked, Waiters
<1>. QED BY <1>1, SemInvAlways, PTL

\* Nobody is left waiting for a semaphore that nobody has.
THEOREM FreeStaysFree == Spec => []FreeIsFree
<1>1. SemInv => FreeIsFree
  BY DEF SemInv
<1>. QED BY <1>1, SemInvAlways, PTL

\* evnt_sem, wind_update and termination implement SemSpec: one owner, and the
\* application that waits longest is next, for any number of them.
THEOREM SemaphoreImplements == Spec => ImplementsSemSpec
<1>1. Init => Abstract!SpecInit
  <2>. SUFFICES ASSUME Init PROVE Abstract!SpecInit
    OBVIOUS
  <2>1. \A s \in Sem : Queue(s) = << >> /\ bl[s].app = NONE
    BY InitSemInv DEF Init
  <2>. QED BY <2>1 DEF Abstract!SpecInit, Queue
<1>2. SemInv /\ [Next]_vars => [Abstract!SpecNext]_(Abstract!specvars)
  BY NextRefines DEF Refined
<1>. QED BY <1>1, <1>2, SemInvAlways, PTL DEF Spec, ImplementsSemSpec, Abstract!SemSpecification

-----------------------------------------------------------------------------
(* What SemSpec promises *)

\* Those of SemSpec, which these theorems are about, whatever implements it
VARIABLES owner, queue

Promise == INSTANCE SemSpec

SpecInv == NONE \notin App /\ Promise!SpecTypeOK /\ Promise!NoNeedlessWait /\ Promise!WaitsOnce

\* Taking a free semaphore changes no queue.
LEMMA AcquireStep ==
    ASSUME SpecInv, NEW a \in App, NEW s \in Sem, Promise!Acquire(a, s) PROVE SpecInv'
BY DEF SpecInv, Promise!SpecTypeOK, Promise!NoNeedlessWait, Promise!WaitsOnce, Promise!Acquire, Promise!Queued

\* The new element goes to the end of its queue and was in none before.
LEMMA EnqueueStep ==
    ASSUME SpecInv, NEW a \in App, NEW s \in Sem, Promise!Enqueue(a, s) PROVE SpecInv'
<1>. DEFINE q == queue[s]
<1>1. /\ owner[s] \notin {NONE, a} /\ owner' = owner
      /\ \A t \in Sem : \A i \in DOMAIN queue[t] : queue[t][i] # a
      /\ queue' = [queue EXCEPT ![s] = Append(q, a)]
  BY DEF Promise!Enqueue, Promise!Queued
<1>2. q \in Seq(App) /\ queue \in [Sem -> Seq(App)]
  BY DEF SpecInv, Promise!SpecTypeOK
<1>3. /\ queue'[s] = Append(q, a) /\ \A t \in Sem \ {s} : queue'[t] = queue[t]
      /\ queue' \in [Sem -> Seq(App)]
  BY <1>1, <1>2
<1>4. /\ DOMAIN q = 1..Len(q) /\ DOMAIN queue'[s] = 1..(Len(q) + 1) /\ Len(q) \in Nat
      /\ \A i \in 1..Len(q) : queue'[s][i] = q[i]
      /\ queue'[s][Len(q) + 1] = a
  BY <1>2, <1>3
<1>5. Promise!SpecTypeOK'
  BY <1>1, <1>3 DEF SpecInv, Promise!SpecTypeOK
<1>6. Promise!NoNeedlessWait'
  BY <1>1, <1>3, <1>4 DEF SpecInv, Promise!NoNeedlessWait, Promise!Queued
<1>7. Promise!WaitsOnce'
  <2>. SUFFICES ASSUME NEW t \in Sem, NEW u \in Sem, NEW i \in DOMAIN queue'[t],
                       NEW j \in DOMAIN queue'[u], queue'[t][i] = queue'[u][j]
                PROVE  t = u /\ i = j
    BY DEF Promise!WaitsOnce
  <2>1. CASE t # s /\ u # s
    BY <1>3, <2>1 DEF SpecInv, Promise!WaitsOnce
  <2>2. CASE t = s /\ u # s
    BY <1>1, <1>3, <1>4, <2>2 DEF SpecInv, Promise!WaitsOnce
  <2>3. CASE t # s /\ u = s
    BY <1>1, <1>3, <1>4, <2>3 DEF SpecInv, Promise!WaitsOnce
  <2>4. CASE t = s /\ u = s
    BY <1>1, <1>3, <1>4, <2>4 DEF SpecInv, Promise!WaitsOnce
  <2>. QED BY <2>1, <2>2, <2>3, <2>4
<1>. QED BY <1>5, <1>6, <1>7 DEF SpecInv

\* A queue without its first element: the others are in it, once each.
LEMMA TailOnce ==
    ASSUME NEW q \in Seq(App), q # << >>, \A i, j \in DOMAIN q : q[i] = q[j] => i = j
    PROVE  /\ Tail(q) \in Seq(App) /\ Head(q) \in App /\ Head(q) = q[1] /\ 1 \in DOMAIN q
           /\ \A i \in DOMAIN Tail(q) : /\ i + 1 \in DOMAIN q /\ Tail(q)[i] = q[i + 1]
                                        /\ Tail(q)[i] # Head(q)
           /\ \A i, j \in DOMAIN Tail(q) : Tail(q)[i] = Tail(q)[j] => i = j
<1>. DEFINE t == Tail(q)
<1>1. /\ t \in Seq(App) /\ Len(t) = Len(q) - 1 /\ Len(q) \in Nat /\ Len(q) > 0
      /\ \A i \in 1..Len(t) : t[i] = q[i + 1]
      /\ DOMAIN t = 1..(Len(q) - 1) /\ DOMAIN q = 1..Len(q)
      /\ Head(q) = q[1] /\ Head(q) \in App
  OBVIOUS
<1>. HIDE DEF t
<1>2. \A i \in DOMAIN t : i + 1 \in DOMAIN q /\ t[i] = q[i + 1] /\ t[i] # Head(q)
  BY <1>1
<1>3. \A i, j \in DOMAIN t : t[i] = t[j] => i = j
  BY <1>1, <1>2
<1>. QED BY <1>1, <1>2, <1>3 DEF t

\* A queue without its element number x.
LEMMA CutOnce ==
    ASSUME NEW q \in Seq(App), NEW x \in DOMAIN q, \A i, j \in DOMAIN q : q[i] = q[j] => i = j,
           NEW r, r = [j \in 1..(Len(q) - 1) |-> IF j < x THEN q[j] ELSE q[j + 1]]
    PROVE  /\ r \in Seq(App)
           /\ \A i \in DOMAIN r : \E j \in DOMAIN q : r[i] = q[j] /\ j # x
           /\ \A i, j \in DOMAIN r : r[i] = r[j] => i = j
           /\ \A j \in DOMAIN q : j < x => j \in DOMAIN r /\ r[j] = q[j]
           /\ \A j \in DOMAIN q : j > x => j - 1 \in DOMAIN r /\ r[j - 1] = q[j]
<1>1. Len(q) \in Nat /\ DOMAIN q = 1..Len(q) /\ x \in 1..Len(q) /\ \A j \in 1..Len(q) : q[j] \in App
  OBVIOUS
<1>2. /\ DOMAIN r = 1..(Len(q) - 1) /\ Len(q) - 1 \in Nat
      /\ \A j \in 1..(Len(q) - 1) : j < x => r[j] = q[j]
      /\ \A j \in 1..(Len(q) - 1) : ~(j < x) => r[j] = q[j + 1]
  BY <1>1
<1>3. \A i \in DOMAIN r : r[i] \in App
  BY <1>1, <1>2
<1>4. r \in Seq(App)
  BY <1>2, <1>3
<1>5. ASSUME NEW i \in DOMAIN r PROVE \E j \in DOMAIN q : r[i] = q[j] /\ j # x
  <2>1. CASE i < x
    BY <1>1, <1>2, <2>1
  <2>2. CASE ~(i < x)
    <3>1. i + 1 \in DOMAIN q /\ r[i] = q[i + 1] /\ i + 1 # x
      BY <1>1, <1>2, <2>2
    <3>. QED BY <3>1
  <2>. QED BY <2>1, <2>2
<1>6. \A i, j \in DOMAIN r : r[i] = r[j] => i = j
  BY <1>1, <1>2
<1>7. \A j \in DOMAIN q : j < x => j \in DOMAIN r /\ r[j] = q[j]
  BY <1>1, <1>2
<1>8. \A j \in DOMAIN q : j > x => j - 1 \in DOMAIN r /\ r[j - 1] = q[j]
  BY <1>1, <1>2
<1>. QED BY <1>4, <1>5, <1>6, <1>7, <1>8

\* Queues that only lose elements stay good.
LEMMA ShrinkStep ==
    ASSUME SpecInv,
           owner' \in [Sem -> App \cup {NONE}], queue' \in [Sem -> Seq(App)],
           \A s \in Sem : \A i \in DOMAIN queue'[s] : \E j \in DOMAIN queue[s] : queue'[s][i] = queue[s][j],
           \A s \in Sem : \A i, j \in DOMAIN queue'[s] : queue'[s][i] = queue'[s][j] => i = j,
           \A s \in Sem : owner'[s] = NONE => queue'[s] = << >>,
           \A s \in Sem : \A i \in DOMAIN queue'[s] : owner'[s] # queue'[s][i]
    PROVE  SpecInv'
<1>1. Promise!SpecTypeOK'
  BY DEF Promise!SpecTypeOK
<1>2. Promise!NoNeedlessWait'
  BY DEF Promise!NoNeedlessWait, Promise!Queued
<1>3. Promise!WaitsOnce'
  <2>. SUFFICES ASSUME NEW s \in Sem, NEW t \in Sem, NEW i \in DOMAIN queue'[s],
                       NEW j \in DOMAIN queue'[t], queue'[s][i] = queue'[t][j]
                PROVE  s = t /\ i = j
    BY DEF Promise!WaitsOnce
  <2>1. PICK x \in DOMAIN queue[s] : queue'[s][i] = queue[s][x]
    OBVIOUS
  <2>2. PICK y \in DOMAIN queue[t] : queue'[t][j] = queue[t][y]
    OBVIOUS
  <2>3. queue[s][x] = queue[t][y] /\ Promise!WaitsOnce
    BY <2>1, <2>2 DEF SpecInv
  <2>4. s = t
    BY <2>3 DEF Promise!WaitsOnce
  <2>. QED BY <2>4
<1>. QED BY <1>1, <1>2, <1>3 DEF SpecInv

\* What HandOver does to one semaphore.
LEMMA HandOverOne ==
    ASSUME SpecInv, NEW a \in App, NEW S \in SUBSET Sem, Promise!HandOver(a, S), NEW s \in Sem
    PROVE  /\ owner'[s] \in App \cup {NONE} /\ queue'[s] \in Seq(App)
           /\ \A i \in DOMAIN queue'[s] : \E j \in DOMAIN queue[s] : queue'[s][i] = queue[s][j]
           /\ \A i, j \in DOMAIN queue'[s] : queue'[s][i] = queue'[s][j] => i = j
           /\ owner'[s] = NONE => queue'[s] = << >>
           /\ \A i \in DOMAIN queue'[s] : owner'[s] # queue'[s][i]
<1>0. /\ owner[s] \in App \cup {NONE} /\ queue[s] \in Seq(App)
      /\ \A i, j \in DOMAIN queue[s] : queue[s][i] = queue[s][j] => i = j
      /\ owner[s] = NONE => queue[s] = << >>
      /\ \A i \in DOMAIN queue[s] : owner[s] # queue[s][i]
  BY DEF SpecInv, Promise!SpecTypeOK, Promise!NoNeedlessWait, Promise!WaitsOnce, Promise!Queued
<1>1. CASE s \notin S
  <2>1. owner'[s] = owner[s] /\ queue'[s] = queue[s]
    BY <1>1 DEF Promise!HandOver
  <2>. QED BY <1>0, <2>1
<1>2. CASE s \in S /\ queue[s] = << >>
  <2>1. owner'[s] = NONE /\ queue'[s] = << >>
    BY <1>2 DEF Promise!HandOver
  <2>. QED BY <2>1
<1>3. CASE s \in S /\ queue[s] # << >>
  <2>1. owner'[s] = Head(queue[s]) /\ queue'[s] = Tail(queue[s])
    BY <1>3 DEF Promise!HandOver
  <2>. DEFINE q == queue[s]
  <2>2. q \in Seq(App) /\ q # << >> /\ \A i, j \in DOMAIN q : q[i] = q[j] => i = j
    BY <1>0, <1>3
  <2>. HIDE DEF q
  <2>3. /\ Tail(q) \in Seq(App) /\ Head(q) \in App
        /\ \A i \in DOMAIN Tail(q) : /\ i + 1 \in DOMAIN q /\ Tail(q)[i] = q[i + 1]
                                     /\ Tail(q)[i] # Head(q)
        /\ \A i, j \in DOMAIN Tail(q) : Tail(q)[i] = Tail(q)[j] => i = j
    BY <2>2, TailOnce
  <2>4. owner'[s] = Head(q) /\ queue'[s] = Tail(q) /\ queue[s] = q
    BY <2>1 DEF q
  <2>5. Head(q) # NONE
    BY <2>3 DEF SpecInv
  <2>6. \A i \in DOMAIN Tail(q) : \E j \in DOMAIN q : Tail(q)[i] = q[j]
    BY <2>3
  <2>. QED BY <2>3, <2>4, <2>5, <2>6
<1>. QED BY <1>1, <1>2, <1>3

\* Releasing any set of semaphores at once.
LEMMA HandOverStep ==
    ASSUME SpecInv, NEW a \in App, NEW S \in SUBSET Sem, Promise!HandOver(a, S) PROVE SpecInv'
<1>1. \A s \in Sem :
           /\ owner'[s] \in App \cup {NONE} /\ queue'[s] \in Seq(App)
           /\ \A i \in DOMAIN queue'[s] : \E j \in DOMAIN queue[s] : queue'[s][i] = queue[s][j]
           /\ \A i, j \in DOMAIN queue'[s] : queue'[s][i] = queue'[s][j] => i = j
           /\ owner'[s] = NONE => queue'[s] = << >>
           /\ \A i \in DOMAIN queue'[s] : owner'[s] # queue'[s][i]
  BY HandOverOne
<1>2. /\ owner' = [s \in Sem |-> owner'[s]] /\ queue' = [s \in Sem |-> queue'[s]]
  BY DEF Promise!HandOver
<1>3. owner' \in [Sem -> App \cup {NONE}] /\ queue' \in [Sem -> Seq(App)]
  BY <1>1, <1>2
<1>. QED BY <1>1, <1>3, ShrinkStep

\* A terminated application is cut out of its queue.
LEMMA LeaveStep ==
    ASSUME SpecInv, NEW a \in App, NEW s \in Sem, Promise!Leave(a, s) PROVE SpecInv'
<1>. DEFINE q == queue[s]
<1>0. /\ queue \in [Sem -> Seq(App)] /\ owner \in [Sem -> App \cup {NONE}]
      /\ q \in Seq(App) /\ \A i, j \in DOMAIN q : q[i] = q[j] => i = j
  BY DEF SpecInv, Promise!SpecTypeOK, Promise!WaitsOnce
<1>1. PICK x \in DOMAIN q :
         queue' = [queue EXCEPT ![s] =
                     [j \in 1..(Len(q) - 1) |-> IF j < x THEN q[j] ELSE q[j + 1]]]
  BY DEF Promise!Leave
<1>. DEFINE r == [j \in 1..(Len(q) - 1) |-> IF j < x THEN q[j] ELSE q[j + 1]]
<1>2. /\ r \in Seq(App)
      /\ \A i \in DOMAIN r : \E j \in DOMAIN q : r[i] = q[j] /\ j # x
      /\ \A i, j \in DOMAIN r : r[i] = r[j] => i = j
  BY <1>0, CutOnce, SMTT(30)
<1>3. queue' = [queue EXCEPT ![s] = r]
  BY <1>1
<1>. HIDE DEF r
<1>4. queue'[s] = r /\ (\A t \in Sem \ {s} : queue'[t] = queue[t]) /\ queue' \in [Sem -> Seq(App)]
  BY <1>0, <1>2, <1>3
<1>5. owner' = owner
  BY DEF Promise!Leave
<1>6. /\ \A t \in Sem : owner[t] = NONE => queue[t] = << >>
      /\ \A t \in Sem : \A i \in DOMAIN queue[t] : owner[t] # queue[t][i]
      /\ \A t \in Sem : \A i, j \in DOMAIN queue[t] : queue[t][i] = queue[t][j] => i = j
  BY DEF SpecInv, Promise!NoNeedlessWait, Promise!WaitsOnce, Promise!Queued
<1>7. owner[s] # NONE
  BY <1>6, x \in DOMAIN q
<1>8. \A t \in Sem : \A i \in DOMAIN queue'[t] : \E j \in DOMAIN queue[t] : queue'[t][i] = queue[t][j]
  BY <1>2, <1>4
<1>9. \A t \in Sem : \A i, j \in DOMAIN queue'[t] : queue'[t][i] = queue'[t][j] => i = j
  BY <1>2, <1>4, <1>6
<1>10. \A t \in Sem : owner'[t] = NONE => queue'[t] = << >>
  BY <1>4, <1>5, <1>6, <1>7
<1>11. \A t \in Sem : \A i \in DOMAIN queue'[t] : owner'[t] # queue'[t][i]
  BY <1>5, <1>6, <1>8
<1>. QED BY <1>0, <1>4, <1>5, <1>8, <1>9, <1>10, <1>11, ShrinkStep

\* Nobody waits for a semaphore that has been removed.
LEMMA DeleteStep ==
    ASSUME SpecInv, NEW a \in App, NEW s \in Sem, Promise!Delete(a, s) PROVE SpecInv'
BY DEF SpecInv, Promise!SpecTypeOK, Promise!NoNeedlessWait, Promise!WaitsOnce, Promise!Delete, Promise!Queued

\* A queue and an owner that may go together: owners do not wait for what they
\* have, and nobody waits for what nobody has.
Proper(q, o) ==
    /\ q \in Seq(App) /\ o \in App \cup {NONE} /\ NoDup(q)
    /\ o = NONE => q = << >>
    /\ \A i \in DOMAIN q : q[i] # o

\* What a step does to one queue q and its owner o: nothing, to take what is
\* free, to wait, to stop waiting, to remove, to hand over.
Moves(q, o, q2, o2) ==
    \/ q2 = q /\ o2 = o
    \/ q2 = q /\ o = NONE /\ o2 \in App
    \/ o2 = o /\ o # NONE /\ \E a \in App \ {o} : q2 = Append(q, a) /\ \A i \in DOMAIN q : q[i] # a
    \/ o2 = o /\ \E x \in DOMAIN q : q2 = [j \in 1..(Len(q) - 1) |-> IF j < x THEN q[j] ELSE q[j + 1]]
    \/ o2 = NONE /\ q2 = << >>
    \/ o2 = Head(q) /\ q2 = Tail(q) /\ q # << >>

\* What FirstComeFirstServed asks for one queue.
InOrder(q, o, q2, o2) ==
    \A i \in DOMAIN q :
       \/ o2 = q[i] /\ i = 1
       \/ q[i] \notin {q2[j] : j \in DOMAIN q2} /\ (o2 = o \/ o2 = NONE)
       \/ \E j \in DOMAIN q2 : q2[j] = q[i] /\ j <= i /\ o2 \in {o, q[1]}

\* Whatever a step does, queue and owner stay proper and the queue is served in order.
LEMMA MoveKeepsOrder ==
    ASSUME NEW q, NEW o, NEW q2, NEW o2, Proper(q, o), Moves(q, o, q2, o2), NONE \notin App
    PROVE  Proper(q2, o2) /\ InOrder(q, o, q2, o2)
<1>0. /\ q \in Seq(App) /\ o \in App \cup {NONE} /\ Len(q) \in Nat /\ DOMAIN q = 1..Len(q)
      /\ \A i, j \in DOMAIN q : q[i] = q[j] => i = j
      /\ o = NONE => q = << >>
      /\ \A i \in DOMAIN q : q[i] # o
  BY DEF Proper, NoDup
<1>1. CASE q2 = q /\ o2 = o
  BY <1>0, <1>1 DEF InOrder, Proper
<1>2. CASE q2 = q /\ o = NONE /\ o2 \in App
  BY <1>0, <1>2 DEF InOrder, Proper, NoDup
<1>3. ASSUME o2 = o, o # NONE, NEW a \in App \ {o}, q2 = Append(q, a), \A i \in DOMAIN q : q[i] # a
      PROVE  Proper(q2, o2) /\ InOrder(q, o, q2, o2)
  <2>1. /\ q2 \in Seq(App) /\ DOMAIN q2 = 1..(Len(q) + 1) /\ q2[Len(q) + 1] = a
        /\ \A i \in DOMAIN q : i \in DOMAIN q2 /\ q2[i] = q[i] /\ i <= i
    BY <1>0, <1>3
  <2>2. \A i \in DOMAIN q2 : i \in DOMAIN q \/ i = Len(q) + 1
    BY <1>0, <2>1
  <2>3. NoDup(q2) /\ \A i \in DOMAIN q2 : q2[i] # o2
    BY <1>0, <1>3, <2>1, <2>2 DEF NoDup
  <2>. QED BY <1>0, <1>3, <2>1, <2>3 DEF InOrder, Proper
<1>4. ASSUME o2 = o, NEW x \in DOMAIN q,
             q2 = [j \in 1..(Len(q) - 1) |-> IF j < x THEN q[j] ELSE q[j + 1]]
      PROVE  Proper(q2, o2) /\ InOrder(q, o, q2, o2)
  <2>. DEFINE r == [j \in 1..(Len(q) - 1) |-> IF j < x THEN q[j] ELSE q[j + 1]]
  <2>0. /\ r \in Seq(App)
        /\ \A i \in DOMAIN r : \E j \in DOMAIN q : r[i] = q[j] /\ j # x
        /\ \A i, j \in DOMAIN r : r[i] = r[j] => i = j
        /\ \A j \in DOMAIN q : j < x => j \in DOMAIN r /\ r[j] = q[j]
        /\ \A j \in DOMAIN q : j > x => j - 1 \in DOMAIN r /\ r[j - 1] = q[j]
    BY <1>0, CutOnce, SMTT(30)
  <2>1. /\ q2 \in Seq(App)
        /\ \A i \in DOMAIN q2 : \E j \in DOMAIN q : q2[i] = q[j] /\ j # x
        /\ \A i, j \in DOMAIN q2 : q2[i] = q2[j] => i = j
        /\ \A j \in DOMAIN q : j < x => j \in DOMAIN q2 /\ q2[j] = q[j]
        /\ \A j \in DOMAIN q : j > x => j - 1 \in DOMAIN q2 /\ q2[j - 1] = q[j]
    <3>. HIDE DEF r
    <3>1. q2 = r
      BY <1>4 DEF r
    <3>. QED BY <2>0, <3>1
  <2>. HIDE DEF r
  <2>2. Proper(q2, o2)
    BY ONLY <1>0, <1>4, <2>1 DEF Proper, NoDup
  <2>3. ASSUME NEW i \in DOMAIN q, i # x PROVE \E j \in DOMAIN q2 : q2[j] = q[i] /\ j <= i
    <3>1. CASE i < x
      <4>1. i \in DOMAIN q2 /\ q2[i] = q[i] /\ i <= i
        BY ONLY <1>0, <2>1, <2>3, <3>1
      <4>. QED BY <4>1
    <3>2. CASE i > x
      <4>1. i - 1 \in DOMAIN q2 /\ q2[i - 1] = q[i] /\ i - 1 <= i
        BY ONLY <1>0, <2>1, <2>3, <3>2
      <4>. QED BY <4>1
    <3>. QED BY ONLY <1>0, <1>4, <2>3, <3>1, <3>2
  <2>4. q[x] \notin {q2[j] : j \in DOMAIN q2}
    BY ONLY <1>0, <1>4, <2>1
  <2>. QED BY ONLY <1>4, <2>2, <2>3, <2>4 DEF InOrder
<1>5. CASE o2 = NONE /\ q2 = << >>
  BY <1>0, <1>5 DEF InOrder, Proper, NoDup
<1>6. CASE o2 = Head(q) /\ q2 = Tail(q) /\ q # << >>
  <2>1. /\ q2 \in Seq(App) /\ o2 \in App /\ o2 = q[1]
        /\ \A i \in DOMAIN q2 : q2[i] # o2
        /\ \A i, j \in DOMAIN q2 : q2[i] = q2[j] => i = j
    BY <1>0, <1>6, TailOnce
  <2>2. DOMAIN q2 = 1..(Len(q) - 1) /\ \A j \in 1..(Len(q) - 1) : q2[j] = q[j + 1]
    BY <1>0, <1>6
  <2>3. ASSUME NEW i \in DOMAIN q, i # 1 PROVE \E j \in DOMAIN q2 : q2[j] = q[i] /\ j <= i
    <3>1. i - 1 \in 1..(Len(q) - 1) /\ (i - 1) + 1 = i /\ i - 1 <= i
      BY <1>0, <2>3
    <3>2. i - 1 \in DOMAIN q2 /\ q2[i - 1] = q[i]
      BY <2>2, <3>1
    <3>. QED BY <3>1, <3>2
  <2>4. Proper(q2, o2)
    BY <2>1 DEF Proper, NoDup
  <2>. QED BY <2>1, <2>3, <2>4 DEF InOrder
<1>. QED BY <1>1, <1>2, <1>3, <1>4, <1>5, <1>6 DEF Moves

\* What SpecNext does to the queue of each semaphore.
LEMMA PromiseMoves ==
    ASSUME SpecInv, Promise!SpecNext, NEW s \in Sem
    PROVE  Moves(queue[s], owner[s], queue'[s], owner'[s])
<1>0. /\ queue \in [Sem -> Seq(App)] /\ owner \in [Sem -> App \cup {NONE}]
      /\ owner[s] = NONE => queue[s] = << >>
  BY DEF SpecInv, Promise!SpecTypeOK, Promise!NoNeedlessWait
<1>1. ASSUME NEW a \in App, NEW t \in Sem, Promise!Acquire(a, t)
      PROVE  Moves(queue[s], owner[s], queue'[s], owner'[s])
  <2>1. queue'[s] = queue[s] /\ (owner'[s] = owner[s] \/ (owner[s] = NONE /\ owner'[s] \in App))
    BY <1>0, <1>1 DEF Promise!Acquire
  <2>. QED BY <2>1 DEF Moves
<1>2. ASSUME NEW a \in App, NEW t \in Sem, Promise!Enqueue(a, t)
      PROVE  Moves(queue[s], owner[s], queue'[s], owner'[s])
  <2>1. owner' = owner /\ (s # t => queue'[s] = queue[s])
    BY <1>0, <1>2 DEF Promise!Enqueue
  <2>2. s = t => /\ queue'[s] = Append(queue[s], a) /\ owner[s] # NONE /\ a \in App \ {owner[s]}
                 /\ \A i \in DOMAIN queue[s] : queue[s][i] # a
    BY <1>0, <1>2 DEF Promise!Enqueue, Promise!Queued
  <2>. QED BY <2>1, <2>2, Zenon DEF Moves
<1>3. ASSUME NEW a \in App, NEW t \in Sem, Promise!Leave(a, t)
      PROVE  Moves(queue[s], owner[s], queue'[s], owner'[s])
  <2>. DEFINE Cut(q, x) == [j \in 1..(Len(q) - 1) |-> IF j < x THEN q[j] ELSE q[j + 1]]
  <2>1. PICK x \in DOMAIN queue[t] : owner' = owner /\ queue' = [queue EXCEPT ![t] = Cut(queue[t], x)]
    BY <1>3 DEF Promise!Leave
  <2>. HIDE DEF Cut
  <2>2. owner'[s] = owner[s] /\ queue'[s] = IF s = t THEN Cut(queue[s], x) ELSE queue[s]
    BY <1>0, <2>1
  <2>3. CASE s = t
    <3>1. x \in DOMAIN queue[s] /\ queue'[s] = Cut(queue[s], x) /\ owner'[s] = owner[s]
      BY <2>2, <2>3
    <3>. QED BY <3>1, Zenon DEF Moves, Cut
  <2>4. CASE s # t
    BY <2>2, <2>4 DEF Moves
  <2>. QED BY <2>3, <2>4
<1>4. ASSUME NEW a \in App, NEW t \in Sem, Promise!Delete(a, t)
      PROVE  Moves(queue[s], owner[s], queue'[s], owner'[s])
  <2>1. IF s = t THEN queue'[s] = << >> /\ owner'[s] = NONE ELSE queue'[s] = queue[s] /\ owner'[s] = owner[s]
    BY <1>0, <1>4 DEF Promise!Delete
  <2>. QED BY <2>1 DEF Moves
<1>5. ASSUME NEW a \in App, NEW S \in SUBSET Sem, Promise!HandOver(a, S)
      PROVE  Moves(queue[s], owner[s], queue'[s], owner'[s])
  <2>1. /\ owner'[s] = IF s \notin S THEN owner[s] ELSE IF queue[s] = << >> THEN NONE ELSE Head(queue[s])
        /\ queue'[s] = IF s \in S /\ queue[s] # << >> THEN Tail(queue[s]) ELSE queue[s]
    BY <1>5 DEF Promise!HandOver
  <2>. QED BY <2>1, Zenon DEF Moves
<1>. QED BY <1>1, <1>2, <1>3, <1>4, <1>5 DEF Promise!SpecNext

\* Every step serves the queue of every semaphore in order.
LEMMA NextServed ==
    ASSUME SpecInv, Promise!SpecNext, NEW s \in Sem
    PROVE  InOrder(queue[s], owner[s], queue'[s], owner'[s])
<1>1. Proper(queue[s], owner[s]) /\ NONE \notin App
  BY DEF Proper, NoDup, SpecInv, Promise!SpecTypeOK, Promise!NoNeedlessWait, Promise!WaitsOnce, Promise!Queued
<1>. QED BY <1>1, PromiseMoves, MoveKeepsOrder

\* Every step keeps the invariant.
LEMMA NextSpecInv == SpecInv /\ [Promise!SpecNext]_(Promise!specvars) => SpecInv'
<1>. SUFFICES ASSUME SpecInv, [Promise!SpecNext]_(Promise!specvars) PROVE SpecInv'
  OBVIOUS
<1>1. CASE UNCHANGED Promise!specvars
  BY <1>1 DEF Promise!specvars, SpecInv, Promise!SpecTypeOK, Promise!NoNeedlessWait, Promise!WaitsOnce, Promise!Queued
<1>2. CASE Promise!SpecNext
  BY <1>2, AcquireStep, EnqueueStep, HandOverStep, LeaveStep, DeleteStep DEF Promise!SpecNext
<1>. QED BY <1>1, <1>2

\* Nobody waits for a free semaphore or for its own one, and nobody waits twice.
THEOREM SemSpecSafe ==
    ASSUME NONE \notin App
    PROVE  Promise!SemSpecification => [](Promise!SpecTypeOK /\ Promise!NoNeedlessWait /\ Promise!WaitsOnce)
<1>1. Promise!SpecInit => SpecInv
  BY DEF Promise!SpecInit, SpecInv, Promise!SpecTypeOK, Promise!NoNeedlessWait, Promise!WaitsOnce, Promise!Queued
<1>2. SpecInv /\ [Promise!SpecNext]_(Promise!specvars) => SpecInv'
  BY NextSpecInv
<1>3. SpecInv => Promise!SpecTypeOK /\ Promise!NoNeedlessWait /\ Promise!WaitsOnce
  BY DEF SpecInv
<1>. QED BY <1>1, <1>2, <1>3, PTL DEF Promise!SemSpecification

\* No application is overtaken in the queue of a semaphore or sees it go to one
\* that came later.
THEOREM ServedInOrder ==
    ASSUME NONE \notin App
    PROVE  Promise!SemSpecification => Promise!FirstComeFirstServed
<1>1. Promise!SpecInit => SpecInv
  BY DEF Promise!SpecInit, SpecInv, Promise!SpecTypeOK, Promise!NoNeedlessWait, Promise!WaitsOnce, Promise!Queued
<1>2. SpecInv /\ [Promise!SpecNext]_(Promise!specvars) => SpecInv'
  BY NextSpecInv
<1>3. SpecInv /\ Promise!SpecNext => \A s \in Sem : InOrder(queue[s], owner[s], queue'[s], owner'[s])
  BY NextServed
<1>4. SpecInv /\ [Promise!SpecNext]_(Promise!specvars) =>
        [\A s \in Sem : \A i \in DOMAIN queue[s] :
          \/ owner'[s] = queue[s][i] /\ i = 1
          \/ queue[s][i] \notin Promise!Queued(s)' /\ (owner'[s] = owner[s] \/ owner'[s] = NONE)
          \/ \E j \in DOMAIN queue'[s] : /\ queue'[s][j] = queue[s][i] /\ j <= i
                                         /\ owner'[s] \in {owner[s], queue[s][1]}]_(Promise!specvars)
  BY <1>3 DEF InOrder, Promise!Queued
<1>. QED BY <1>1, <1>2, <1>4, PTL DEF Promise!SemSpecification, Promise!FirstComeFirstServed

-----------------------------------------------------------------------------
(* The promises of SemSpec, kept by evnt_sem and wind_update *)

\* What a step of the program does to each waiting list and its bl_app.
LEMMA ListMoves ==
    ASSUME SemInv, Refined, NEW s \in Sem
    PROVE  Moves(Queue(s), bl[s].app, Queue(s)', bl'[s].app)
<1>. DEFINE os == [t \in Sem |-> bl[t].app]
            qs == [t \in Sem |-> WaitOrder(bl[t].waiting, nxtsem)]
<1>0. PICK o, q, o2, q2 : o = os /\ q = qs /\ o2 = os' /\ q2 = qs'
  OBVIOUS
<1>1. /\ o[s] = bl[s].app /\ q[s] = Queue(s) /\ o2[s] = bl'[s].app /\ q2[s] = Queue(s)'
      /\ o = [t \in Sem |-> o[t]] /\ q = [t \in Sem |-> q[t]]
  BY <1>0 DEF Queue
<1>2. CASE UNCHANGED Abstract!specvars
  <2>1. o2 = o /\ q2 = q
    BY <1>0, <1>2 DEF Abstract!specvars
  <2>. QED BY <1>1, <2>1 DEF Moves
<1>3. ASSUME NEW a \in App, NEW t \in Sem, Abstract!Acquire(a, t) PROVE Moves(q[s], o[s], q2[s], o2[s])
  <2>1. o[t] = NONE /\ o2 = [o EXCEPT ![t] = a] /\ q2 = q
    BY <1>0, <1>3 DEF Abstract!Acquire
  <2>2. q2[s] = q[s] /\ (o2[s] = o[s] \/ (o[s] = NONE /\ o2[s] \in App))
    BY <1>1, <2>1
  <2>. QED BY <2>2 DEF Moves
<1>4. ASSUME NEW a \in App, NEW t \in Sem, Abstract!Enqueue(a, t) PROVE Moves(q[s], o[s], q2[s], o2[s])
  <2>0. /\ os[t] \notin {NONE, a} /\ qs' = [qs EXCEPT ![t] = Append(qs[t], a)] /\ os' = os
        /\ \A i \in DOMAIN qs[t] : qs[t][i] # a
    <3>1. os[t] \notin {NONE, a}
      BY <1>4 DEF Abstract!Enqueue
    <3>2. qs' = [qs EXCEPT ![t] = Append(qs[t], a)] /\ os' = os
      BY <1>4 DEF Abstract!Enqueue
    <3>3. \A i \in DOMAIN qs[t] : qs[t][i] # a
      <4>1. a \notin Abstract!Queued(t)
        BY <1>4 DEF Abstract!Enqueue
      <4>2. Abstract!Queued(t) = {qs[t][i] : i \in DOMAIN qs[t]}
        BY Zenon DEF Abstract!Queued
      <4>. HIDE DEF qs
      <4>. QED BY <4>1, <4>2
    <3>. QED BY <3>1, <3>2, <3>3, Zenon
  <2>1. /\ o[t] \notin {NONE, a} /\ q2 = [q EXCEPT ![t] = Append(q[t], a)] /\ o2 = o
        /\ \A i \in DOMAIN q[t] : q[t][i] # a
    <3>. HIDE DEF os, qs
    <3>. QED BY <1>0, <2>0, Zenon
  <2>2. CASE s = t
    <3>1. /\ q2[s] = Append(q[s], a) /\ o2[s] = o[s] /\ o[s] # NONE /\ a \in App \ {o[s]}
          /\ \A i \in DOMAIN q[s] : q[s][i] # a
      BY <1>1, <2>1, <2>2
    <3>. QED BY <3>1, Zenon DEF Moves
  <2>3. CASE s # t
    BY <1>1, <2>1, <2>3 DEF Moves
  <2>. QED BY <2>2, <2>3
<1>5. ASSUME NEW a \in App, NEW t \in Sem, Abstract!Leave(a, t) PROVE Moves(q[s], o[s], q2[s], o2[s])
  <2>. DEFINE Cut(z, x) == [j \in 1..(Len(z) - 1) |-> IF j < x THEN z[j] ELSE z[j + 1]]
  <2>0. \E x \in DOMAIN qs[t] : os' = os /\ qs' = [qs EXCEPT ![t] = Cut(qs[t], x)]
    BY <1>5, Zenon DEF Abstract!Leave
  <2>1. \E x \in DOMAIN q[t] : o2 = o /\ q2 = [q EXCEPT ![t] = Cut(q[t], x)]
    <3>. HIDE DEF os, qs, Cut
    <3>. QED BY <1>0, <2>0
  <2>. HIDE DEF Cut
  <2>2. PICK x \in DOMAIN q[t] : o2 = o /\ q2 = [q EXCEPT ![t] = Cut(q[t], x)]
    BY <2>1
  <2>3. CASE s = t
    <3>1. x \in DOMAIN q[s] /\ q2[s] = Cut(q[s], x) /\ o2[s] = o[s]
      BY <1>1, <2>2, <2>3
    <3>. QED BY <3>1, Zenon DEF Moves, Cut
  <2>4. CASE s # t
    BY <1>1, <2>2, <2>4 DEF Moves
  <2>. QED BY <2>3, <2>4
<1>6. ASSUME NEW a \in App, NEW t \in Sem, Abstract!Delete(a, t) PROVE Moves(q[s], o[s], q2[s], o2[s])
  <2>1. o2 = [o EXCEPT ![t] = NONE] /\ q2 = [q EXCEPT ![t] = << >>]
    BY <1>0, <1>6 DEF Abstract!Delete
  <2>2. IF s = t THEN q2[s] = << >> /\ o2[s] = NONE ELSE q2[s] = q[s] /\ o2[s] = o[s]
    BY <1>1, <2>1
  <2>. QED BY <2>2 DEF Moves
<1>7. ASSUME NEW a \in App, NEW S \in SUBSET Sem, Abstract!HandOver(a, S)
      PROVE  Moves(q[s], o[s], q2[s], o2[s])
  <2>1. /\ o2 = [t \in Sem |-> IF t \notin S THEN o[t] ELSE IF q[t] = << >> THEN NONE ELSE Head(q[t])]
        /\ q2 = [t \in Sem |-> IF t \in S /\ q[t] # << >> THEN Tail(q[t]) ELSE q[t]]
    BY <1>0, <1>7 DEF Abstract!HandOver
  <2>2. /\ o2[s] = IF s \notin S THEN o[s] ELSE IF q[s] = << >> THEN NONE ELSE Head(q[s])
        /\ q2[s] = IF s \in S /\ q[s] # << >> THEN Tail(q[s]) ELSE q[s]
    BY <2>1
  <2>. QED BY <2>2, Zenon DEF Moves
<1>8. Moves(q[s], o[s], q2[s], o2[s])
  BY <1>1, <1>2, <1>3, <1>4, <1>5, <1>6, <1>7 DEF Refined, Abstract!SpecNext
<1>. QED BY <1>1, <1>8

\* Owners and waiting lists go together.
ProperQueues == \A s \in Sem : Proper(Queue(s), bl[s].app)

\* They stay proper in every step, and each list is served in order.
LEMMA QueuesServed ==
    ASSUME SemInv, ProperQueues, [Next]_vars
    PROVE  ProperQueues' /\ \A s \in Sem : InOrder(Queue(s), bl[s].app, Queue(s)', bl'[s].app)
<1>1. NONE \notin App
  BY SemaphoreAssumption
<1>2. Refined
  BY NextRefines
<1>3. ASSUME NEW s \in Sem
      PROVE  Proper(Queue(s)', bl'[s].app) /\ InOrder(Queue(s), bl[s].app, Queue(s)', bl'[s].app)
  <2>1. Moves(Queue(s), bl[s].app, Queue(s)', bl'[s].app)
    BY <1>2, ListMoves
  <2>2. Proper(Queue(s), bl[s].app)
    BY DEF ProperQueues
  <2>3. PICK q, o, q2, o2 : q = Queue(s) /\ o = bl[s].app /\ q2 = Queue(s)' /\ o2 = bl'[s].app
    OBVIOUS
  <2>4. Proper(q2, o2) /\ InOrder(q, o, q2, o2)
    BY <1>1, <2>1, <2>2, <2>3, MoveKeepsOrder
  <2>. QED BY <2>3, <2>4
<1>4. ProperQueues'
  BY <1>3 DEF ProperQueues, Proper
<1>. QED BY <1>3, <1>4

\* In every state.
LEMMA ProperAlways == Spec => []ProperQueues
<1>1. Init => ProperQueues
  <2>. SUFFICES ASSUME Init, NEW s \in Sem PROVE Proper(Queue(s), bl[s].app)
    BY DEF ProperQueues
  <2>1. Queue(s) = << >> /\ bl[s].app = NONE
    BY InitSemInv DEF Init
  <2>. QED BY <2>1 DEF Proper, NoDup
<1>2. SemInv /\ ProperQueues /\ [Next]_vars => ProperQueues'
  BY QueuesServed
<1>. QED BY <1>1, <1>2, SemInvAlways, PTL DEF Spec

\* The waiting lists keep what SemSpec promises: nobody waits for a semaphore that is free
\* or that it has itself, and nobody is in two lists or twice in one.
THEOREM NobodyWaitsNeedlessly == Spec => [](Abstract!NoNeedlessWait /\ Abstract!WaitsOnce)
<1>1. SemInv /\ ProperQueues => Abstract!NoNeedlessWait
  <2>. SUFFICES ASSUME ProperQueues, NEW s \in Sem
                PROVE  /\ bl[s].app = NONE => Queue(s) = << >>
                       /\ bl[s].app \notin {Queue(s)[i] : i \in DOMAIN Queue(s)}
    BY DEF Abstract!NoNeedlessWait, Abstract!Queued, Queue
  <2>. QED BY DEF ProperQueues, Proper
<1>2. SemInv => Abstract!WaitsOnce
  <2>. SUFFICES ASSUME SemInv, NEW s \in Sem, NEW t \in Sem, NEW i \in DOMAIN Queue(s), NEW j \in DOMAIN Queue(t),
                       Queue(s)[i] = Queue(t)[j]
                PROVE  s = t /\ i = j
    BY DEF Abstract!WaitsOnce, Queue
  <2>1. /\ NoDup(Queue(s)) /\ Queue(s)[i] \in Members(Queue(s)) /\ Queue(t)[j] \in Members(Queue(t))
        /\ Members(Queue(s)) = Waiters(s) /\ Members(Queue(t)) = Waiters(t)
    BY QueueFacts, Zenon DEF Members
  <2>2. s = t
    BY <2>1 DEF Waiters
  <2>. QED BY <2>1, <2>2 DEF NoDup
<1>. QED BY <1>1, <1>2, SemInvAlways, ProperAlways, PTL

\* First come first served, in the waiting lists of the program: nobody is overtaken in the
\* list of a semaphore, or sees it go to an application that came later.
THEOREM ListsServedInOrder == Spec => Abstract!FirstComeFirstServed
<1>1. SemInv /\ ProperQueues /\ [Next]_vars
        => \A s \in Sem : InOrder(Queue(s), bl[s].app, Queue(s)', bl'[s].app)
  BY QueuesServed
<1>. DEFINE os == [s \in Sem |-> bl[s].app]
            qs == [s \in Sem |-> WaitOrder(bl[s].waiting, nxtsem)]
            Served == \A s \in Sem : \A i \in DOMAIN qs[s] :
                         \/ os'[s] = qs[s][i] /\ i = 1
                         \/ qs[s][i] \notin Abstract!Queued(s)' /\ (os'[s] = os[s] \/ os'[s] = NONE)
                         \/ \E j \in DOMAIN qs'[s] : /\ qs'[s][j] = qs[s][i] /\ j <= i
                                                     /\ os'[s] \in {os[s], qs[s][1]}
<1>2. SemInv /\ ProperQueues /\ [Next]_vars => [Served]_(Abstract!specvars)
  <2>. SUFFICES ASSUME SemInv, ProperQueues, [Next]_vars, NEW s \in Sem, NEW i \in DOMAIN qs[s]
                PROVE  \/ os'[s] = qs[s][i] /\ i = 1
                       \/ /\ qs[s][i] \notin {qs'[s][j] : j \in DOMAIN qs'[s]}
                          /\ os'[s] = os[s] \/ os'[s] = NONE
                       \/ \E j \in DOMAIN qs'[s] : /\ qs'[s][j] = qs[s][i] /\ j <= i
                                                   /\ os'[s] \in {os[s], qs[s][1]}
    BY DEF Abstract!Queued
  <2>1. InOrder(Queue(s), bl[s].app, Queue(s)', bl'[s].app)
    BY <1>1
  <2>2. os[s] = bl[s].app /\ os'[s] = bl'[s].app /\ qs[s] = Queue(s) /\ qs'[s] = Queue(s)'
    BY DEF Queue
  <2>. HIDE DEF os, qs
  <2>. QED BY <2>1, <2>2 DEF InOrder
<1>. QED BY <1>2, SemInvAlways, ProperAlways, PTL DEF Spec, Abstract!FirstComeFirstServed
=============================================================================
