---------------------------- MODULE Timer_proofs ----------------------------
(***************************************************************************)
(* The safety invariants of Timer for any number of applications, waits of *)
(* any length and any size of the ring buffer. The proof needs to know     *)
(* what wait_timer and handle_tim add up while they walk along the list    *)
(* (OffsetOK) and that they find the place where they stop (PlaceOK,       *)
(* ExpiredOK); the rest is about cutting the list there.                   *)
(***************************************************************************)
EXTENDS Timer, FiniteSets, SequenceTheorems, NaturalsInduction, WellFoundedInduction, TLAPS

-----------------------------------------------------------------------------
(* Numbers and lists *)

\* A set of numbers that is not empty has a least one.
LEMMA LeastOf ==
    ASSUME NEW T \in SUBSET Nat, T # {}
    PROVE  \E n \in T : \A m \in T : n <= m
<1>1. PICK n \in T : \A m \in T : ~(<< m, n >> \in OpToRel(<, Nat))
  BY WFMin, NatLessThanWellFounded
<1>2. \A m \in T : ~(m < n)
  BY <1>1 DEF OpToRel
<1>. QED BY <1>2

\* A part of a list.
LEMMA Cut ==
    ASSUME NEW s \in Seq(App), NEW m \in 1..(Len(s) + 1), NEW n \in (m - 1)..Len(s)
    PROVE  /\ SubSeq(s, m, n) \in Seq(App) /\ Len(SubSeq(s, m, n)) = n - m + 1
           /\ \A i \in 1..(n - m + 1) : SubSeq(s, m, n)[i] = s[m + i - 1]
OBVIOUS

\* Two lists put together.
LEMMA Joined ==
    ASSUME NEW x \in Seq(App), NEW y \in Seq(App), NEW m \in Nat, NEW n \in Nat,
           m = Len(x), n = Len(y)
    PROVE  /\ x \o y \in Seq(App) /\ Len(x \o y) = m + n
           /\ \A i \in 1..m : (x \o y)[i] = x[i]
           /\ \A i \in (m + 1)..(m + n) : (x \o y)[i] = y[i - m]
OBVIOUS

\* r is the list s with a put in behind its first p members.
WithAt(r, s, p, a) ==
    /\ Len(r) = Len(s) + 1 /\ r[p + 1] = a
    /\ \A i \in 1..p : r[i] = s[i]
    /\ \A i \in (p + 2)..(Len(s) + 1) : r[i] = s[i - 1]

\* r is the list s without its member number p.
WithoutAt(r, s, p) ==
    /\ Len(r) = Len(s) - 1
    /\ \A i \in 1..(p - 1) : r[i] = s[i]
    /\ \A i \in p..(Len(s) - 1) : r[i] = s[i + 1]

\* wt_sort puts a into the list s behind its first p members.
LEMMA Inserted ==
    ASSUME NEW s \in Seq(App), NEW p \in 0..Len(s), NEW a \in App,
           NEW r, r = SubSeq(s, 1, p) \o << a >> \o SubSeq(s, p + 1, Len(s))
    PROVE  r \in Seq(App) /\ WithAt(r, s, p, a)
<1>1. PICK L \in Nat : L = Len(s)
  OBVIOUS
<1>2. PICK x : x = SubSeq(s, 1, p)
  OBVIOUS
<1>3. x \in Seq(App) /\ Len(x) = p /\ \A i \in 1..p : x[i] = s[i]
  BY <1>1, <1>2, Cut
<1>4. PICK y : y = SubSeq(s, p + 1, Len(s))
  OBVIOUS
<1>5. y \in Seq(App) /\ Len(y) = L - p /\ \A i \in 1..(L - p) : y[i] = s[p + i]
  BY <1>1, <1>4, Cut
<1>6. PICK z : z = x \o << a >>
  OBVIOUS
<1>7. z \in Seq(App) /\ Len(z) = p + 1 /\ z[p + 1] = a /\ \A i \in 1..p : z[i] = x[i]
  <2>1. PICK w : w = << a >>
    OBVIOUS
  <2>2. PICK e \in Nat : e = 1
    OBVIOUS
  <2>3. w \in Seq(App) /\ e = Len(w) /\ x \in Seq(App) /\ p = Len(x) /\ p \in Nat /\ e \in Nat
    BY <1>3, <2>1, <2>2
  <2>7. w[1] = a
    BY <2>1
  <2>4. /\ x \o w \in Seq(App) /\ Len(x \o w) = p + e /\ \A i \in 1..p : (x \o w)[i] = x[i]
        /\ \A i \in (p + 1)..(p + e) : (x \o w)[i] = w[i - p]
    BY ONLY <2>3, Joined
  <2>5. p + 1 \in (p + 1)..(p + e) /\ p + 1 - p = 1
    BY <2>2
  <2>6. (x \o w)[p + 1] = a
    <3>1. PICK v : v = x \o w
      OBVIOUS
    <3>2. PICK i : i = p + 1
      OBVIOUS
    <3>3. i \in (p + 1)..(p + e) /\ i - p = 1
      BY <2>5, <3>2
    <3>4. v[i] = w[i - p]
      BY ONLY <2>4, <3>1, <3>3
    <3>. QED BY ONLY <2>7, <3>1, <3>2, <3>3, <3>4
  <2>. QED BY <1>6, <2>1, <2>2, <2>4, <2>6
<1>8. r = z \o y
  BY <1>2, <1>4, <1>6
<1>9. L - p \in Nat /\ p + 1 \in Nat /\ (p + 1) + (L - p) = L + 1
  BY <1>1
<1>10. /\ r \in Seq(App) /\ Len(r) = L + 1
       /\ \A i \in 1..(p + 1) : r[i] = z[i]
       /\ \A i \in (p + 2)..(L + 1) : r[i] = y[i - (p + 1)]
  <2>1. /\ r \in Seq(App) /\ Len(r) = (p + 1) + (L - p)
        /\ \A i \in 1..(p + 1) : r[i] = z[i]
        /\ \A i \in (p + 1 + 1)..(p + 1 + (L - p)) : r[i] = y[i - (p + 1)]
    <3>1. PICK u, v : u = p + 1 /\ v = L - p
      OBVIOUS
    <3>2. z \in Seq(App) /\ y \in Seq(App) /\ u \in Nat /\ v \in Nat /\ u = Len(z) /\ v = Len(y)
      BY <1>5, <1>7, <1>9, <3>1
    <3>3. /\ z \o y \in Seq(App) /\ Len(z \o y) = u + v
          /\ \A i \in 1..u : (z \o y)[i] = z[i]
          /\ \A i \in (u + 1)..(u + v) : (z \o y)[i] = y[i - u]
      BY ONLY <3>2, Joined
    <3>. QED BY ONLY <1>8, <3>1, <3>3
  <2>2. (p + 1 + 1)..(p + 1 + (L - p)) = (p + 2)..(L + 1)
    BY <1>1
  <2>. QED BY <1>9, <2>1, <2>2
<1>11. ASSUME NEW i \in (p + 2)..(L + 1) PROVE r[i] = s[i - 1]
  <2>1. i - (p + 1) \in 1..(L - p) /\ p + (i - (p + 1)) = i - 1
    BY <1>1, <1>11
  <2>. QED BY <1>5, <1>10, <2>1
<1>12. r[p + 1] = a /\ \A i \in 1..p : r[i] = s[i]
  <2>1. p + 1 \in 1..(p + 1) /\ 1..p \subseteq 1..(p + 1)
    OBVIOUS
  <2>. QED BY <1>3, <1>7, <1>10, <2>1
<1>. QED BY ONLY <1>1, <1>10, <1>11, <1>12 DEF WithAt

\* rmv_ap_timer takes member number p out of the list s.
LEMMA Removed ==
    ASSUME NEW s \in Seq(App), NEW p \in 1..Len(s),
           NEW r, r = SubSeq(s, 1, p - 1) \o SubSeq(s, p + 1, Len(s))
    PROVE  r \in Seq(App) /\ WithoutAt(r, s, p)
<1>1. PICK L \in Nat : L = Len(s)
  OBVIOUS
<1>2. PICK x : x = SubSeq(s, 1, p - 1)
  OBVIOUS
<1>3. x \in Seq(App) /\ Len(x) = p - 1 /\ \A i \in 1..(p - 1) : x[i] = s[i]
  BY <1>1, <1>2, Cut
<1>4. PICK y : y = SubSeq(s, p + 1, Len(s))
  OBVIOUS
<1>5. y \in Seq(App) /\ Len(y) = L - p /\ \A i \in 1..(L - p) : y[i] = s[p + i]
  BY <1>1, <1>4, Cut
<1>6. p - 1 \in Nat /\ L - p \in Nat /\ (p - 1) + (L - p) = L - 1
  BY <1>1
<1>7. /\ r \in Seq(App) /\ Len(r) = L - 1
      /\ \A i \in 1..(p - 1) : r[i] = x[i]
      /\ \A i \in p..(L - 1) : r[i] = y[i - (p - 1)]
  <2>1. /\ r \in Seq(App) /\ Len(r) = (p - 1) + (L - p)
        /\ \A i \in 1..(p - 1) : r[i] = x[i]
        /\ \A i \in (p - 1 + 1)..(p - 1 + (L - p)) : r[i] = y[i - (p - 1)]
    <3>1. PICK u, v : u = p - 1 /\ v = L - p
      OBVIOUS
    <3>2. x \in Seq(App) /\ y \in Seq(App) /\ u \in Nat /\ v \in Nat /\ u = Len(x) /\ v = Len(y)
      BY <1>3, <1>5, <1>6, <3>1
    <3>3. /\ x \o y \in Seq(App) /\ Len(x \o y) = u + v
          /\ \A i \in 1..u : (x \o y)[i] = x[i]
          /\ \A i \in (u + 1)..(u + v) : (x \o y)[i] = y[i - u]
      BY ONLY <3>2, Joined
    <3>4. r = x \o y
      BY <1>2, <1>4
    <3>. QED BY ONLY <3>1, <3>3, <3>4
  <2>2. (p - 1 + 1)..(p - 1 + (L - p)) = p..(L - 1)
    BY <1>1
  <2>. QED BY <1>6, <2>1, <2>2
<1>8. ASSUME NEW i \in p..(L - 1) PROVE r[i] = s[i + 1]
  <2>1. i - (p - 1) \in 1..(L - p) /\ p + (i - (p - 1)) = i + 1
    BY <1>1, <1>8
  <2>. QED BY <1>5, <1>7, <2>1
<1>9. \A i \in 1..(p - 1) : r[i] = s[i]
  BY ONLY <1>3, <1>7
<1>. QED BY ONLY <1>1, <1>7, <1>8, <1>9 DEF WithoutAt

\* The list s without its first n members (handle_tim).
LEMMA Dropped ==
    ASSUME NEW s \in Seq(App), NEW n \in 0..Len(s), NEW r, r = SubSeq(s, n + 1, Len(s))
    PROVE  /\ r \in Seq(App) /\ Len(r) = Len(s) - n
           /\ \A i \in 1..Len(r) : r[i] = s[n + i]
OBVIOUS

-----------------------------------------------------------------------------
(* What the walk along the list adds up *)

\* g holds the sums along the first n applications of the list.
Summed(g, n, up) == g = [j \in 0..n |-> IF j = 0 THEN 0 - up ELSE g[j - 1] + ms[evlist[j]]]

\* There are such sums, as long as the list is.
LEMMA SumsExist ==
    ASSUME TimerTypeOK, NEW up \in Nat, NEW n \in 0..Len(evlist)
    PROVE  \E g \in [0..n -> Int] : Summed(g, n, up)
<1>1. PICK L \in Nat : L = Len(evlist)
  BY DEF TimerTypeOK
<1>. DEFINE T == {m \in 0..L : ~ \E g \in [0..m -> Int] : Summed(g, m, up)}
<1>2. SUFFICES ASSUME T # {} PROVE FALSE
  BY <1>1
<1>3. PICK m \in T : \A l \in T : m <= l
  <2>1. T \in SUBSET Nat
    BY <1>1
  <2>. HIDE DEF T
  <2>. QED BY <1>2, <2>1, LeastOf
<1>4. m # 0
  <2>1. [j \in 0..0 |-> 0 - up] \in [0..0 -> Int] /\ Summed([j \in 0..0 |-> 0 - up], 0, up)
    BY DEF Summed
  <2>. QED BY <2>1
<1>5. m - 1 \in 0..L /\ m - 1 \notin T
  <2>1. m \in 1..L
    BY <1>3, <1>4
  <2>2. m - 1 \in 0..L /\ ~(m <= m - 1)
    BY <1>1, <2>1
  <2>. HIDE DEF T
  <2>. QED BY <1>3, <2>2
<1>6. PICK g \in [0..(m - 1) -> Int] : Summed(g, m - 1, up)
  BY <1>5
<1>7. ms[evlist[m]] \in Nat /\ m \in 1..L
  BY <1>1, <1>3, <1>4 DEF TimerTypeOK
<1>. DEFINE h == [j \in 0..m |-> IF j = m THEN g[m - 1] + ms[evlist[m]] ELSE g[j]]
<1>8. h \in [0..m -> Int]
  BY <1>6, <1>7
<1>9. ASSUME NEW j \in 0..m PROVE h[j] = IF j = 0 THEN 0 - up ELSE h[j - 1] + ms[evlist[j]]
  <2>1. CASE j = m
    BY <1>4, <1>7, <2>1
  <2>2. CASE j # m
    <3>1. j \in 0..(m - 1)
      BY <1>7, <2>2
    <3>2. g[j] = IF j = 0 THEN 0 - up ELSE g[j - 1] + ms[evlist[j]]
      BY <1>6, <3>1 DEF Summed
    <3>. QED BY <1>7, <3>1, <3>2
  <2>. QED BY <2>1, <2>2
<1>10. Summed(h, m, up)
  BY <1>8, <1>9 DEF Summed
<1>. QED BY <1>3, <1>8, <1>10

\* Offset starts at minus the ticks that have passed and grows by the ap_ms of
\* each application.
LEMMA OffsetOK ==
    ASSUME TimerTypeOK, NEW up \in Nat
    PROVE  /\ Offset(0, up) = 0 - up
           /\ \A i \in 0..Len(evlist) : Offset(i, up) \in Int
           /\ \A i \in 1..Len(evlist) : Offset(i, up) = Offset(i - 1, up) + ms[evlist[i]]
<1>1. PICK L \in Nat : L = Len(evlist)
  BY DEF TimerTypeOK
<1>2. PICK f : f = CHOOSE g : Summed(g, L, up)
  OBVIOUS
<1>3. \A i \in 0..L : Offset(i, up) = f[i]
  BY <1>1, <1>2 DEF Offset, Summed
<1>4. \E g \in [0..L -> Int] : Summed(g, L, up)
  <2>1. L \in 0..Len(evlist)
    BY <1>1
  <2>. QED BY <2>1, SumsExist
<1>5. Summed(f, L, up)
  BY <1>2, <1>4
<1>6. f[0] = 0 - up /\ \A i \in 1..L : f[i] = f[i - 1] + ms[evlist[i]]
  BY <1>1, <1>5 DEF Summed
<1>7. \A i \in 1..L : ms[evlist[i]] \in Nat
  BY <1>1 DEF TimerTypeOK
<1>8. ASSUME NEW T, T = {i \in 0..L : f[i] \notin Int} PROVE T = {}
  <2>1. SUFFICES ASSUME T # {} PROVE FALSE
    OBVIOUS
  <2>2. PICK m \in T : \A l \in T : m <= l
    BY <1>8, <2>1, LeastOf
  <2>3. m # 0
    BY <1>6, <1>8, <2>2
  <2>4. m - 1 \in 0..L /\ m - 1 \notin T /\ m \in 1..L
    BY <1>8, <2>2, <2>3
  <2>. QED BY <1>6, <1>7, <1>8, <2>2, <2>4
<1>9. \A i \in 0..L : f[i] \in Int
  BY <1>8
<1>. QED BY <1>1, <1>3, <1>6, <1>9, SMTT(30)

\* wait_timer finds the place of the new application.
LEMMA PlaceOK ==
    ASSUME TimerTypeOK, NEW t \in Nat, NEW up \in Nat, NEW p, p = Place(t, up)
    PROVE  /\ p \in 0..Len(evlist)
           /\ \A i \in 1..p : t > Offset(i, up)
           /\ p < Len(evlist) => t <= Offset(p + 1, up)
<1>1. PICK L \in Nat : L = Len(evlist)
  BY DEF TimerTypeOK
<1>. DEFINE T == {q \in 0..L : q < L => t <= Offset(q + 1, up)}
<1>2. PICK n \in T : \A m \in T : n <= m
  <2>1. L \in T /\ T \in SUBSET Nat
    BY <1>1
  <2>. QED BY <2>1, LeastOf
<1>3. ASSUME NEW i \in 1..n PROVE t > Offset(i, up)
  <2>1. i - 1 \in 0..L /\ i - 1 \notin T /\ i \in 0..L /\ i - 1 + 1 = i
    BY <1>1, <1>2, <1>3
  <2>2. Offset(i, up) \in Int
    BY <1>1, <2>1, OffsetOK
  <2>. QED BY <2>1, <2>2
<1>4. n \in 0..Len(evlist) /\ (n < Len(evlist) => t <= Offset(n + 1, up))
  BY <1>1, <1>2
<1>. QED BY <1>3, <1>4 DEF Place

\* handle_tim finds the first application that is not yet due.
LEMMA ExpiredOK ==
    ASSUME TimerTypeOK, NEW clicks \in Nat, NEW n, n = Expired(clicks)
    PROVE  /\ n \in 0..Len(evlist)
           /\ \A i \in 1..n : Offset(i, 0) <= clicks
           /\ n < Len(evlist) => Offset(n + 1, 0) > clicks
<1>1. PICK L \in Nat : L = Len(evlist)
  BY DEF TimerTypeOK
<1>. DEFINE T == {q \in 0..L : q < L => Offset(q + 1, 0) > clicks}
<1>2. PICK m \in T : \A l \in T : m <= l
  <2>1. L \in T /\ T \in SUBSET Nat
    BY <1>1
  <2>. QED BY <2>1, LeastOf
<1>3. ASSUME NEW i \in 1..m PROVE Offset(i, 0) <= clicks
  <2>1. i - 1 \in 0..L /\ i - 1 \notin T /\ i \in 0..L /\ i - 1 + 1 = i
    BY <1>1, <1>2, <1>3
  <2>2. Offset(i, 0) \in Int
    BY <1>1, <2>1, OffsetOK
  <2>. QED BY <2>1, <2>2
<1>4. m \in 0..Len(evlist) /\ (m < Len(evlist) => Offset(m + 1, 0) > clicks)
  BY <1>1, <1>2
<1>. QED BY <1>3, <1>4 DEF Expired

-----------------------------------------------------------------------------
(* Who is in the list *)

\* No application is in the list twice.
Once(list) == \A i, j \in DOMAIN list : list[i] = list[j] => i = j

\* The applications in the list.
Listed(list) == {list[i] : i \in DOMAIN list}

\* A list r that is the list s of length L with a put in behind position q.
LEMMA InsertedMembers ==
    ASSUME NEW L \in Nat, NEW q \in Nat, q <= L, NEW s, NEW r, NEW a,
           L = Len(s), DOMAIN s = 1..L, DOMAIN r = 1..(L + 1), WithAt(r, s, q, a),
           Once(s), a \notin Listed(s)
    PROVE  Once(r) /\ Listed(r) = Listed(s) \cup {a}
<1>1. /\ r[q + 1] = a
      /\ \A i \in 1..q : r[i] = s[i]
      /\ \A i \in (q + 2)..(L + 1) : r[i] = s[i - 1]
  BY DEF WithAt
<1>5. /\ \A i \in 1..L : s[i] # a
      /\ \A i, j \in 1..L : s[i] = s[j] => i = j
  BY <1>1 DEF Once, Listed
<1>6. \A i \in 1..(L + 1) : i = q + 1 \/ i \in 1..q \/ (i \in (q + 2)..(L + 1) /\ i - 1 \in 1..L)
  BY <1>1
<1>7. ASSUME NEW i \in 1..(L + 1), NEW j \in 1..(L + 1), r[i] = r[j] PROVE i = j
  <2>1. 1..q \subseteq 1..L
    BY <1>1
  <2>2. CASE i = q + 1
    BY <1>1, <1>5, <1>6, <1>7, <2>1, <2>2
  <2>3. CASE j = q + 1
    BY <1>1, <1>5, <1>6, <1>7, <2>1, <2>3
  <2>4. CASE i # q + 1 /\ j # q + 1
    <3>1. CASE i \in 1..q /\ j \in 1..q
      BY <1>1, <1>5, <1>7, <2>1, <3>1
    <3>2. CASE i \in 1..q /\ j \in (q + 2)..(L + 1)
      <4>1. r[i] = s[i] /\ r[j] = s[j - 1] /\ i \in 1..L /\ j - 1 \in 1..L /\ i # j - 1
        BY <1>1, <3>2
      <4>. QED BY <1>1, <1>5, <1>7, <4>1
    <3>3. CASE j \in 1..q /\ i \in (q + 2)..(L + 1)
      <4>1. r[j] = s[j] /\ r[i] = s[i - 1] /\ j \in 1..L /\ i - 1 \in 1..L /\ j # i - 1
        BY <1>1, <3>3
      <4>. QED BY <1>1, <1>5, <1>7, <4>1
    <3>4. CASE j \in (q + 2)..(L + 1) /\ i \in (q + 2)..(L + 1)
      <4>1. r[j] = s[j - 1] /\ r[i] = s[i - 1] /\ j - 1 \in 1..L /\ i - 1 \in 1..L
        BY <1>1, <3>4
      <4>2. i - 1 = j - 1
        BY <1>1, <1>5, <1>7, <4>1
      <4>. QED BY <1>1, <4>2
    <3>. QED BY <1>1, <1>6, <2>4, <3>1, <3>2, <3>3, <3>4
  <2>. QED BY <1>1, <2>2, <2>3, <2>4
<1>8. ASSUME NEW i \in 1..(L + 1) PROVE r[i] \in Listed(s) \cup {a}
  <2>1. CASE i = q + 1
    BY <1>1, <2>1
  <2>2. CASE i \in 1..q
    <3>1. r[i] = s[i] /\ i \in DOMAIN s
      BY <1>1, <2>2
    <3>. QED BY <1>1, <3>1 DEF Listed
  <2>3. CASE i \in (q + 2)..(L + 1) /\ i - 1 \in 1..L
    <3>1. r[i] = s[i - 1] /\ i - 1 \in DOMAIN s
      BY <1>1, <2>3
    <3>. QED BY <1>1, <3>1 DEF Listed
  <2>. QED BY <1>1, <1>6, <2>1, <2>2, <2>3
<1>9. ASSUME NEW i \in 1..L PROVE s[i] \in Listed(r)
  <2>1. CASE i <= q
    <3>1. r[i] = s[i] /\ i \in DOMAIN r
      BY <1>1, <1>9, <2>1
    <3>. QED BY <1>1, <3>1 DEF Listed
  <2>2. CASE i > q
    <3>1. i + 1 \in (q + 2)..(L + 1) /\ i + 1 - 1 = i /\ i + 1 \in DOMAIN r
      BY <1>1, <1>9, <2>2
    <3>2. r[i + 1] = s[i]
      BY <1>1, <3>1
    <3>. QED BY <1>1, <3>1, <3>2 DEF Listed
  <2>. QED BY <1>1, <1>9, <2>1, <2>2
<1>10. a \in Listed(r)
  <2>1. q + 1 \in DOMAIN r
    BY <1>1
  <2>. QED BY <1>1, <2>1 DEF Listed
<1>11. Listed(r) = Listed(s) \cup {a}
  <2>1. Listed(r) \subseteq Listed(s) \cup {a}
    BY <1>1, <1>8 DEF Listed
  <2>2. Listed(s) \subseteq Listed(r)
    BY <1>1, <1>9 DEF Listed
  <2>. QED BY <1>1, <1>10, <2>1, <2>2
<1>12. Once(r)
  BY <1>1, <1>7 DEF Once
<1>. QED BY <1>1, <1>11, <1>12

\* wt_sort adds one application to the list.
LEMMA InsertedOnce ==
    ASSUME NEW s \in Seq(App), NEW p \in 0..Len(s), NEW a \in App, Once(s), a \notin Listed(s),
           NEW r, r = SubSeq(s, 1, p) \o << a >> \o SubSeq(s, p + 1, Len(s))
    PROVE  Once(r) /\ Listed(r) = Listed(s) \cup {a}
<1>1. DOMAIN s = 1..Len(s) /\ Len(s) \in Nat /\ p \in Nat /\ p <= Len(s)
  OBVIOUS
<1>2. r \in Seq(App) /\ WithAt(r, s, p, a)
  BY Inserted
<1>3. DOMAIN r = 1..(Len(s) + 1)
  BY ONLY <1>2 DEF WithAt
<1>. QED BY ONLY <1>1, <1>2, <1>3, InsertedMembers, Once(s), a \notin Listed(s)

\* A list r that is the list s of length L without its member number q.
LEMMA RemovedMembers ==
    ASSUME NEW L \in Nat, NEW q \in Nat, q <= L, q >= 1, NEW s, NEW r,
           L = Len(s), DOMAIN s = 1..L, DOMAIN r = 1..(L - 1), WithoutAt(r, s, q),
           Once(s)
    PROVE  Once(r) /\ Listed(r) = Listed(s) \ {s[q]}
<1>1. /\ \A i \in 1..(q - 1) : r[i] = s[i]
      /\ \A i \in q..(L - 1) : r[i] = s[i + 1]
  BY DEF WithoutAt
<1>5. \A i, j \in 1..L : s[i] = s[j] => i = j
  BY <1>1 DEF Once
<1>. DEFINE o(i) == IF i < q THEN i ELSE i + 1
<1>6. ASSUME NEW i \in 1..(L - 1) PROVE r[i] = s[o(i)] /\ o(i) \in 1..L /\ o(i) # q
  BY <1>1, <1>6
<1>7. ASSUME NEW i \in 1..(L - 1), NEW j \in 1..(L - 1), r[i] = r[j] PROVE i = j
  <2>1. o(i) = o(j)
    <3>. HIDE DEF o
    <3>. QED BY <1>1, <1>5, <1>6, <1>7
  <2>. QED BY <1>1, <2>1
<1>8. ASSUME NEW i \in 1..(L - 1) PROVE r[i] \in Listed(s) \ {s[q]}
  <2>. HIDE DEF o
  <2>1. o(i) \in DOMAIN s /\ r[i] = s[o(i)]
    BY <1>1, <1>6
  <2>2. s[o(i)] # s[q]
    BY <1>1, <1>5, <1>6
  <2>. QED BY <1>1, <2>1, <2>2 DEF Listed
<1>9. ASSUME NEW i \in 1..L, i # q PROVE s[i] \in Listed(r)
  <2>1. CASE i < q
    <3>1. i \in DOMAIN r /\ i \in 1..(q - 1)
      BY <1>1, <1>9, <2>1
    <3>2. r[i] = s[i]
      BY <1>1, <3>1
    <3>. QED BY <1>1, <3>1, <3>2 DEF Listed
  <2>2. CASE i > q
    <3>1. i - 1 \in DOMAIN r /\ i - 1 \in q..(L - 1) /\ i - 1 + 1 = i
      BY <1>1, <1>9, <2>2
    <3>2. r[i - 1] = s[i]
      BY <1>1, <3>1
    <3>. QED BY <1>1, <3>1, <3>2 DEF Listed
  <2>. QED BY <1>1, <1>9, <2>1, <2>2
<1>10. Listed(r) = Listed(s) \ {s[q]}
  <2>1. Listed(r) \subseteq Listed(s) \ {s[q]}
    BY <1>1, <1>8 DEF Listed
  <2>2. Listed(s) \ {s[q]} \subseteq Listed(r)
    BY <1>1, <1>9 DEF Listed
  <2>. QED BY <1>1, <2>1, <2>2
<1>11. Once(r)
  BY <1>1, <1>7 DEF Once
<1>. QED BY <1>1, <1>10, <1>11

\* rmv_ap_timer takes one application out of the list.
LEMMA RemovedOnce ==
    ASSUME NEW s \in Seq(App), NEW p \in 1..Len(s), Once(s),
           NEW r, r = SubSeq(s, 1, p - 1) \o SubSeq(s, p + 1, Len(s))
    PROVE  Once(r) /\ Listed(r) = Listed(s) \ {s[p]}
<1>1. DOMAIN s = 1..Len(s) /\ Len(s) \in Nat /\ p \in Nat /\ p <= Len(s) /\ p >= 1
  OBVIOUS
<1>2. r \in Seq(App) /\ WithoutAt(r, s, p)
  BY Removed
<1>3. DOMAIN r = 1..(Len(s) - 1)
  BY ONLY <1>1, <1>2 DEF WithoutAt
<1>. QED BY ONLY <1>1, <1>2, <1>3, RemovedMembers, Once(s)

\* handle_tim takes the first n applications out of the list.
LEMMA DroppedOnce ==
    ASSUME NEW s \in Seq(App), NEW n \in 0..Len(s), Once(s), NEW r, r = SubSeq(s, n + 1, Len(s))
    PROVE  Once(r) /\ Listed(r) = Listed(s) \ {s[i] : i \in 1..n}
<1>1. PICK L \in Nat : L = Len(s) /\ DOMAIN s = 1..L
  OBVIOUS
<1>2. PICK q \in Nat : q = n /\ q <= L
  BY <1>1
<1>3. r \in Seq(App) /\ Len(r) = L - q /\ \A i \in 1..(L - q) : r[i] = s[q + i]
  BY <1>1, <1>2, Dropped
<1>4. DOMAIN r = 1..(L - q)
  BY <1>3
<1>5. \A i, j \in 1..L : s[i] = s[j] => i = j
  BY <1>1 DEF Once
<1>6. \A i \in 1..(L - q) : q + i \in 1..L /\ q + i \notin 1..q
  BY <1>2
<1>7. ASSUME NEW i \in 1..(L - q), NEW j \in 1..(L - q), r[i] = r[j] PROVE i = j
  <2>1. q + i = q + j
    BY <1>3, <1>5, <1>6, <1>7
  <2>. QED BY <1>2, <2>1
<1>8. ASSUME NEW i \in 1..(L - q) PROVE r[i] \in Listed(s) \ {s[j] : j \in 1..n}
  <2>1. r[i] = s[q + i] /\ q + i \in DOMAIN s
    BY <1>1, <1>3, <1>6
  <2>2. \A j \in 1..q : s[j] # s[q + i]
    <3>1. ASSUME NEW j \in 1..q PROVE s[j] # s[q + i]
      <4>1. j \in 1..L /\ j # q + i
        BY <1>2, <3>1
      <4>. QED BY <1>5, <1>6, <4>1
    <3>. QED BY <3>1
  <2>. QED BY <1>2, <2>1, <2>2 DEF Listed
<1>9. ASSUME NEW i \in 1..L, i \notin 1..q PROVE s[i] \in Listed(r)
  <2>1. i - q \in 1..(L - q) /\ q + (i - q) = i
    BY <1>2, <1>9
  <2>2. r[i - q] = s[i]
    BY <1>3, <2>1
  <2>. QED BY <1>4, <2>1, <2>2 DEF Listed
<1>10. Listed(r) = Listed(s) \ {s[i] : i \in 1..n}
  <2>1. Listed(r) \subseteq Listed(s) \ {s[i] : i \in 1..n}
    BY <1>4, <1>8 DEF Listed
  <2>2. Listed(s) \ {s[i] : i \in 1..n} \subseteq Listed(r)
    BY <1>1, <1>2, <1>9 DEF Listed
  <2>. QED BY <2>1, <2>2
<1>11. Once(r)
  BY <1>4, <1>7 DEF Once
<1>. QED BY <1>10, <1>11

-----------------------------------------------------------------------------
(* The steps *)

\* The inductive invariant: the properties of Timer together.
TimerInv == TimerTypeOK /\ ListedOnce /\ CountdownRuns

\* ListedOnce in the terms of the lemmas above.
LEMMA ListedIs == ListedOnce <=> waits = Listed(evlist) /\ Once(evlist)
BY DEF ListedOnce, Listed, Once

\* The distance wait_timer stores with the new application, and what is left of
\* the one of the application behind it.
LEMMA DistanceOK ==
    ASSUME TimerTypeOK, NEW t \in Nat, t > 0, NEW up \in Nat, NEW p, p = Place(t, up),
           NEW d, d = IF p = 0 THEN t ELSE t - Offset(p, up)
    PROVE  /\ p \in 0..Len(evlist) /\ d \in Nat /\ d > 0
           /\ p < Len(evlist) => ms[evlist[p + 1]] - d \in Nat
<1>1. PICK L \in Nat : L = Len(evlist)
  BY DEF TimerTypeOK
<1>2. /\ p \in 0..L
      /\ \A i \in 1..p : t > Offset(i, up)
      /\ p < L => t <= Offset(p + 1, up)
  BY <1>1, PlaceOK
<1>3. /\ Offset(0, up) = 0 - up
      /\ \A i \in 0..L : Offset(i, up) \in Int
      /\ \A i \in 1..L : Offset(i, up) = Offset(i - 1, up) + ms[evlist[i]]
  BY <1>1, OffsetOK
<1>4. Offset(p, up) \in Int /\ (p # 0 => t > Offset(p, up))
  <2>1. p # 0 => p \in 1..p
    BY <1>2
  <2>. QED BY <1>2, <1>3, <2>1
<1>5. PICK o \in Int : o = Offset(p, up)
  BY <1>4
<1>6. d \in Nat /\ d > 0
  BY <1>4, <1>5
<1>7. ASSUME p < L PROVE ms[evlist[p + 1]] - d \in Nat
  <2>1. p + 1 \in 1..L /\ p + 1 - 1 = p
    BY <1>2, <1>7
  <2>2. PICK m : m = ms[evlist[p + 1]]
    OBVIOUS
  <2>3. m \in Nat
    BY <1>1, <2>1, <2>2 DEF TimerTypeOK
  <2>4. t <= o + m
    BY <1>2, <1>3, <1>5, <1>7, <2>1, <2>2
  <2>5. p = 0 => o = 0 - up
    BY <1>3, <1>5
  <2>6. m - d \in Nat
    BY <1>5, <2>3, <2>4, <2>5
  <2>. QED BY <2>2, <2>6
<1>. QED BY <1>1, <1>2, <1>6, <1>7

\* wait_timer
LEMMA WaitTimerInv ==
    ASSUME TimerInv, NEW a \in App, NEW t \in 1..MaxMs, WaitTimer(a, t) PROVE TimerInv'
<1>0. /\ evlist \in Seq(App) /\ ms \in [App -> Nat] /\ cntdown \in Nat /\ cntup \in Nat
      /\ waits \subseteq App /\ due \in [App -> Nat] /\ TimerTypeOK /\ t \in Nat /\ t > 0
  BY TimerAssumption DEF TimerInv, TimerTypeOK
<1>1. PICK up : up = cntup'
  OBVIOUS
<1>2. PICK p : p = Place(t, up)
  OBVIOUS
<1>3. PICK d : d = IF p = 0 THEN t ELSE t - Offset(p, up)
  OBVIOUS
<1>4. /\ a \notin waits /\ UNCHANGED ring /\ waits' = waits \cup {a} /\ due' = [due EXCEPT ![a] = t]
      /\ cntdown' = IF cntdown = 0 \/ t <= cntdown THEN t ELSE cntdown
      /\ cntup' = IF cntdown = 0 THEN 0 ELSE cntup
      /\ evlist' = SubSeq(evlist, 1, p) \o << a >> \o SubSeq(evlist, p + 1, Len(evlist))
      /\ ms' = [b \in App |-> IF b = a THEN d
                              ELSE IF p < Len(evlist) /\ b = evlist[p + 1] THEN ms[b] - d
                              ELSE ms[b]]
  BY <1>1, <1>2, <1>3 DEF WaitTimer
<1>5. up \in Nat /\ cntup' \in Nat /\ cntdown' \in Nat
  BY <1>0, <1>1, <1>4
<1>6. /\ p \in 0..Len(evlist) /\ d \in Nat /\ d > 0
      /\ p < Len(evlist) => ms[evlist[p + 1]] - d \in Nat
  BY <1>0, <1>2, <1>3, <1>5, DistanceOK
<1>7. waits = Listed(evlist) /\ Once(evlist)
  BY ListedIs DEF TimerInv
<1>8. evlist' \in Seq(App) /\ WithAt(evlist', evlist, p, a)
  BY <1>0, <1>4, <1>6, Inserted
<1>9. Once(evlist') /\ Listed(evlist') = Listed(evlist) \cup {a}
  BY <1>0, <1>4, <1>6, <1>7, InsertedOnce
<1>10. ms' \in [App -> Nat]
  <2>1. ASSUME NEW b \in App PROVE ms'[b] \in Nat
    <3>1. CASE b = a
      BY <1>4, <1>6, <3>1
    <3>2. CASE b # a /\ p < Len(evlist) /\ b = evlist[p + 1]
      BY <1>4, <1>6, <3>2
    <3>3. CASE b # a /\ ~(p < Len(evlist) /\ b = evlist[p + 1])
      BY <1>0, <1>4, <3>3
    <3>. QED BY <3>1, <3>2, <3>3
  <2>. QED BY <1>4, <2>1
<1>11. due' \in [App -> Nat]
  BY <1>0, <1>4
<1>12. TimerTypeOK'
  BY <1>0, <1>4, <1>5, <1>8, <1>10, <1>11 DEF TimerTypeOK
<1>13. ListedOnce'
  BY <1>4, <1>7, <1>9 DEF ListedOnce, Listed, Once
<1>14. CountdownRuns'
  <2>. SUFFICES ASSUME ring = << >> PROVE cntdown' \in 1..ms'[evlist'[1]]
    BY <1>4 DEF CountdownRuns
  <2>1. CASE p = 0
    <3>1. evlist'[1] = a /\ d = t
      BY <1>3, <1>8, <2>1 DEF WithAt
    <3>2. ms'[a] = t
      BY <1>4, <3>1
    <3>3. cntdown' \in 1..t
      BY ONLY <1>0, <1>4
    <3>. QED BY ONLY <3>1, <3>2, <3>3
  <2>2. CASE p # 0
    <3>1. 1 \in 1..p /\ 1 \in DOMAIN evlist /\ evlist # << >>
      BY <1>0, <1>6, <2>2
    <3>2. evlist'[1] = evlist[1]
      BY <1>8, <3>1 DEF WithAt
    <3>3. evlist[1] \in Listed(evlist) /\ evlist[1] \in App
      BY <1>0, <3>1 DEF Listed
    <3>4. ~(p < Len(evlist) /\ evlist[1] = evlist[p + 1])
      <4>1. p < Len(evlist) => p + 1 \in DOMAIN evlist /\ p + 1 # 1
        BY <1>0, <1>6, <2>2
      <4>. QED BY <1>7, <3>1, <4>1 DEF Once
    <3>5. ms'[evlist[1]] = ms[evlist[1]]
      BY <1>4, <1>7, <3>3, <3>4
    <3>6. cntdown \in 1..ms[evlist[1]]
      BY <3>1 DEF TimerInv, CountdownRuns
    <3>7. PICK x \in Nat : x = ms[evlist[1]]
      BY <1>0, <3>3
    <3>8. cntdown' \in 1..x
      <4>1. cntdown' = IF cntdown = 0 \/ t <= cntdown THEN t ELSE cntdown
        BY <1>4
      <4>2. cntdown \in 1..x /\ t \in Nat /\ t > 0
        BY <1>0, <3>6, <3>7
      <4>. QED BY ONLY <3>7, <4>1, <4>2
    <3>. QED BY ONLY <3>2, <3>5, <3>7, <3>8
  <2>. QED BY <2>1, <2>2
<1>. QED BY <1>12, <1>13, <1>14 DEF TimerInv

\* rmv_ap_timer
LEMMA RmvApTimerInv ==
    ASSUME TimerInv, NEW a \in App, RmvApTimer(a) PROVE TimerInv'
<1>0. /\ evlist \in Seq(App) /\ ms \in [App -> Nat] /\ cntdown \in Nat /\ cntup \in Nat
      /\ waits \subseteq App /\ due \in [App -> Nat]
  BY DEF TimerInv, TimerTypeOK
<1>1. waits = Listed(evlist) /\ Once(evlist)
  BY ListedIs DEF TimerInv
<1>2. PICK p : p = CHOOSE i \in DOMAIN evlist : evlist[i] = a
  OBVIOUS
<1>3. /\ a \in waits /\ waits' = waits \ {a} /\ due' = [due EXCEPT ![a] = 0] /\ UNCHANGED << cntup, ring >>
      /\ evlist' = SubSeq(evlist, 1, p - 1) \o SubSeq(evlist, p + 1, Len(evlist))
      /\ ms' = IF p < Len(evlist) THEN [ms EXCEPT ![evlist[p + 1]] = @ + ms[a], ![a] = 0]
               ELSE [ms EXCEPT ![a] = 0]
      /\ cntdown' = IF Len(evlist) = 1 THEN 0 ELSE cntdown
  BY <1>2 DEF RmvApTimer
<1>4. p \in DOMAIN evlist /\ evlist[p] = a
  <2>1. \E i \in DOMAIN evlist : evlist[i] = a
    BY <1>1, <1>3 DEF Listed
  <2>. QED BY <1>2, <2>1
<1>5. p \in 1..Len(evlist)
  BY <1>0, <1>4
<1>6. evlist' \in Seq(App) /\ WithoutAt(evlist', evlist, p)
  BY <1>0, <1>3, <1>5, Removed
<1>7. Once(evlist') /\ Listed(evlist') = Listed(evlist) \ {a}
  <2>1. Once(evlist') /\ Listed(evlist') = Listed(evlist) \ {evlist[p]}
    BY <1>0, <1>1, <1>3, <1>5, RemovedOnce
  <2>. QED BY <1>4, <2>1
<1>8. p < Len(evlist) => evlist[p + 1] \in App /\ evlist[p + 1] # a
  <2>1. p < Len(evlist) => p + 1 \in DOMAIN evlist /\ p + 1 # p
    BY <1>0, <1>5
  <2>. QED BY <1>0, <1>1, <1>4, <2>1 DEF Once
<1>9. ms' \in [App -> Nat] /\ \A b \in App \ {a} : ms'[b] >= ms[b]
  <2>1. CASE p < Len(evlist)
    <3>1. PICK q \in App : q = evlist[p + 1] /\ q # a
      BY <1>8, <2>1
    <3>2. ms' = [ms EXCEPT ![q] = @ + ms[a], ![a] = 0]
      BY <1>3, <2>1, <3>1
    <3>3. ms[a] \in Nat /\ ms[q] \in Nat /\ ms[q] + ms[a] \in Nat /\ ms[q] + ms[a] >= ms[q]
      BY <1>0, <3>1
    <3>4. /\ ms'[a] = 0 /\ ms'[q] = ms[q] + ms[a]
          /\ \A b \in App \ {a, q} : ms'[b] = ms[b]
      BY <1>0, <3>1, <3>2
    <3>5. ms' \in [App -> Nat]
      BY <1>0, <3>1, <3>2, <3>3
    <3>6. \A b \in App \ {a} : ms[b] \in Nat /\ ms'[b] >= ms[b]
      BY <1>0, <3>3, <3>4
    <3>. QED BY <3>5, <3>6
  <2>2. CASE ~(p < Len(evlist))
    <3>1. ms' = [ms EXCEPT ![a] = 0]
      BY <1>3, <2>2
    <3>. QED BY <1>0, <3>1
  <2>. QED BY <2>1, <2>2
<1>10. cntdown' \in Nat /\ due' \in [App -> Nat]
  BY <1>0, <1>3
<1>11. TimerTypeOK'
  BY <1>0, <1>3, <1>6, <1>9, <1>10 DEF TimerInv, TimerTypeOK
<1>12. ListedOnce'
  BY <1>1, <1>3, <1>7 DEF ListedOnce, Listed, Once
<1>13. CountdownRuns'
  <2>. SUFFICES ASSUME ring = << >>, evlist' # << >> PROVE cntdown' \in 1..ms'[evlist'[1]]
    BY <1>3 DEF CountdownRuns
  <2>1. PICK L \in Nat : L = Len(evlist) /\ DOMAIN evlist = 1..L
    BY <1>0
  <2>2. Len(evlist') = L - 1 /\ L - 1 # 0 /\ L >= 2
    BY <1>5, <1>6, <2>1 DEF WithoutAt
  <2>3. cntdown' = cntdown /\ 1 \in DOMAIN evlist /\ evlist # << >>
    BY <1>0, <1>3, <2>1, <2>2
  <2>4. cntdown \in 1..ms[evlist[1]] /\ evlist[1] \in App
    BY <1>0, <2>3 DEF TimerInv, CountdownRuns
  <2>5. CASE p = 1
    <3>1. evlist'[1] = evlist[2] /\ evlist[2] # a /\ evlist[2] \in App /\ 1 < Len(evlist)
      <4>1. 1 \in p..(Len(evlist) - 1) /\ 1 + 1 = 2 /\ 1 < Len(evlist)
        BY <2>1, <2>2, <2>5
      <4>2. evlist'[1] = evlist[2]
        BY <1>6, <4>1 DEF WithoutAt
      <4>. QED BY <1>8, <2>5, <4>1, <4>2
    <3>2. ms'[evlist[2]] = ms[evlist[2]] + ms[a]
      <4>1. PICK q \in App : q = evlist[2] /\ q # a
        BY <3>1
      <4>2. ms' = [ms EXCEPT ![q] = @ + ms[a], ![a] = 0]
        BY <1>3, <2>5, <3>1, <4>1
      <4>. QED BY <1>0, <4>1, <4>2
    <3>3. ms[evlist[2]] \in Nat /\ ms[a] \in Nat /\ evlist[1] = a
      BY <1>0, <1>4, <2>5, <3>1
    <3>. QED BY <1>0, <2>3, <2>4, <3>1, <3>2, <3>3
  <2>6. CASE p # 1
    <3>1. 1 \in 1..(p - 1) /\ 1 # p
      BY <1>5, <2>6
    <3>2. evlist'[1] = evlist[1]
      BY <1>6, <3>1 DEF WithoutAt
    <3>3. evlist[1] # a
      BY <1>1, <1>4, <2>3, <3>1 DEF Once
    <3>4. PICK x, y : x = ms[evlist[1]] /\ y = ms'[evlist[1]]
      OBVIOUS
    <3>5. x \in Nat /\ y \in Nat /\ y >= x /\ cntdown \in 1..x
      BY <1>0, <1>9, <2>4, <3>3, <3>4
    <3>. QED BY <2>3, <3>2, <3>4, <3>5
  <2>. QED BY <2>5, <2>6
<1>. QED BY <1>11, <1>12, <1>13 DEF TimerInv

\* timer_int
LEMMA TimerIntInv == ASSUME TimerInv, TimerInt PROVE TimerInv'
<1>0. /\ cntdown \in Nat /\ cntup \in Nat /\ due \in [App -> Nat]
      /\ ring \in Seq(Nat) /\ Len(ring) <= RngBfLen /\ RngBfLen \in Nat
  BY TimerAssumption DEF TimerInv, TimerTypeOK
<1>1. /\ UNCHANGED << evlist, ms, waits >>
      /\ due' = [a \in App |-> IF due[a] > 0 THEN due[a] - 1 ELSE 0]
      /\ cntup' = IF cntdown > 0 THEN cntup + 1 ELSE cntup
  BY DEF TimerInt
<1>2. /\ cntdown' \in Nat /\ ring' \in Seq(Nat) /\ Len(ring') <= RngBfLen
      /\ ring' = << >> /\ cntdown # 0 => ring = << >> /\ cntdown' \in 1..cntdown
  <2>1. CASE cntdown = 1 /\ Len(ring) < RngBfLen
    <3>1. ring' = Append(ring, cntup + 1) /\ cntdown' = 0
      BY <2>1 DEF TimerInt
    <3>2. cntup + 1 \in Nat
      BY <1>0
    <3>3. ring' \in Seq(Nat) /\ Len(ring') = Len(ring) + 1 /\ ring' # << >>
      BY <1>0, <3>1, <3>2
    <3>. QED BY <1>0, <2>1, <3>1, <3>3
  <2>2. CASE cntdown = 1 /\ ~(Len(ring) < RngBfLen)
    <3>1. ring' = ring /\ cntdown' = cntdown
      BY <2>2 DEF TimerInt
    <3>. QED BY <1>0, <2>2, <3>1
  <2>3. CASE cntdown # 1
    <3>1. ring' = ring /\ cntdown' = IF cntdown = 0 THEN 0 ELSE cntdown - 1
      BY <2>3 DEF TimerInt
    <3>. QED BY <1>0, <2>3, <3>1
  <2>. QED BY <2>1, <2>2, <2>3
<1>3. cntup' \in Nat /\ due' \in [App -> Nat]
  BY <1>0, <1>1
<1>4. TimerTypeOK'
  BY <1>1, <1>2, <1>3 DEF TimerInv, TimerTypeOK
<1>5. ListedOnce'
  BY <1>1 DEF TimerInv, ListedOnce
<1>6. CountdownRuns'
  <2>. SUFFICES ASSUME evlist # << >>, ring' = << >> PROVE cntdown' \in 1..ms[evlist[1]]
    BY <1>1 DEF CountdownRuns
  <2>0. ms[evlist[1]] \in Nat
    BY DEF TimerInv, TimerTypeOK
  <2>1. ring = << >>
    <3>1. CASE cntdown = 0
      BY <3>1 DEF TimerInt
    <3>2. CASE cntdown # 0
      BY <1>2, <3>2
    <3>. QED BY <3>1, <3>2
  <2>2. cntdown \in 1..ms[evlist[1]]
    BY <2>1 DEF TimerInv, CountdownRuns
  <2>. QED BY <1>0, <1>2, <2>0, <2>2
<1>. QED BY <1>4, <1>5, <1>6 DEF TimerInv

\* handle_tim
LEMMA HandleTimInv == ASSUME TimerInv, HandleTim PROVE TimerInv'
<1>0. /\ evlist \in Seq(App) /\ ms \in [App -> Nat] /\ cntdown \in Nat /\ cntup \in Nat
      /\ waits \subseteq App /\ due \in [App -> Nat] /\ TimerTypeOK
      /\ ring \in Seq(Nat) /\ Len(ring) <= RngBfLen /\ RngBfLen \in Nat
  BY TimerAssumption DEF TimerInv, TimerTypeOK
<1>1. waits = Listed(evlist) /\ Once(evlist)
  BY ListedIs DEF TimerInv
<1>2. PICK clicks : clicks = Head(ring)
  OBVIOUS
<1>3. PICK n : n = Expired(clicks)
  OBVIOUS
<1>4. PICK out : out = {evlist[i] : i \in 1..n}
  OBVIOUS
<1>5. PICK x : x = IF n < Len(evlist) THEN Offset(n + 1, 0) - clicks ELSE 0
  OBVIOUS
<1>6. /\ ring # << >> /\ ring' = Tail(ring)
      /\ evlist' = SubSeq(evlist, n + 1, Len(evlist))
      /\ ms' = [b \in App |-> IF b \in out THEN 0
                              ELSE IF n < Len(evlist) /\ b = evlist[n + 1] THEN x ELSE ms[b]]
      /\ waits' = waits \ out
      /\ cntdown' = IF n < Len(evlist) THEN x ELSE cntdown
      /\ cntup' = IF n < Len(evlist) THEN 0 ELSE cntup
      /\ due' = [b \in App |-> IF b \in out THEN 0 ELSE due[b]]
  BY <1>2, <1>3, <1>4, <1>5 DEF HandleTim
<1>7. clicks \in Nat /\ ring' \in Seq(Nat) /\ Len(ring') <= RngBfLen
  <2>1. /\ Head(ring) \in Nat /\ Tail(ring) \in Seq(Nat) /\ Len(Tail(ring)) = Len(ring) - 1
    BY <1>0, <1>6
  <2>. QED BY <1>0, <1>2, <1>6, <2>1
<1>8. /\ n \in 0..Len(evlist)
      /\ n < Len(evlist) => Offset(n + 1, 0) > clicks
  BY <1>0, <1>3, <1>7, ExpiredOK
<1>9. x \in Nat /\ (n < Len(evlist) => x > 0)
  <2>1. CASE n < Len(evlist)
    <3>1. n + 1 \in 0..Len(evlist)
      BY <1>0, <1>8, <2>1
    <3>2. Offset(n + 1, 0) \in Int
      BY <1>0, <3>1, OffsetOK
    <3>. QED BY <1>5, <1>7, <1>8, <2>1, <3>2
  <2>2. CASE ~(n < Len(evlist))
    BY <1>5, <2>2
  <2>. QED BY <2>1, <2>2
<1>10. /\ evlist' \in Seq(App) /\ Len(evlist') = Len(evlist) - n
       /\ \A i \in 1..Len(evlist') : evlist'[i] = evlist[n + i]
  BY <1>0, <1>6, <1>8, Dropped
<1>11. Once(evlist') /\ Listed(evlist') = Listed(evlist) \ out
  BY <1>0, <1>1, <1>4, <1>6, <1>8, DroppedOnce
<1>12. ms' \in [App -> Nat] /\ due' \in [App -> Nat] /\ cntdown' \in Nat /\ cntup' \in Nat
  BY <1>0, <1>6, <1>9
<1>13. TimerTypeOK'
  BY <1>0, <1>6, <1>7, <1>10, <1>12 DEF TimerTypeOK
<1>14. ListedOnce'
  BY <1>1, <1>6, <1>11 DEF ListedOnce, Listed, Once
<1>15. CountdownRuns'
  <2>. SUFFICES ASSUME evlist' # << >> PROVE cntdown' \in 1..ms'[evlist'[1]]
    BY DEF CountdownRuns
  <2>0. PICK L \in Nat : L = Len(evlist)
    BY <1>0
  <2>1. Len(evlist') # 0 /\ n < Len(evlist)
    <3>1. Len(evlist') # 0 /\ Len(evlist') \in Nat
      BY <1>10
    <3>2. n \in 0..L /\ Len(evlist') = L - n
      BY <1>8, <1>10, <2>0
    <3>3. n < L
      BY ONLY <2>0, <3>1, <3>2
    <3>. QED BY <2>0, <3>1, <3>3
  <2>2. 1 \in 1..Len(evlist') /\ 1 \in DOMAIN evlist'
    BY <1>10, <2>1
  <2>3. evlist'[1] = evlist[n + 1] /\ evlist'[1] \in App
    BY <1>10, <2>2
  <2>4. evlist'[1] \notin out
    BY <1>11, <2>2 DEF Listed
  <2>5. ms'[evlist'[1]] = x
    BY <1>6, <2>1, <2>3, <2>4
  <2>6. cntdown' = x
    BY <1>6, <2>1
  <2>. QED BY ONLY <1>9, <2>1, <2>5, <2>6
<1>. QED BY <1>13, <1>14, <1>15 DEF TimerInv

\* The three properties hold at first and after every step.
LEMMA TimerInvAlways == Spec => []TimerInv
<1>1. Init => TimerInv
  BY TimerAssumption DEF Init, TimerInv, TimerTypeOK, ListedOnce, CountdownRuns
<1>2. TimerInv /\ [Next]_vars => TimerInv'
  <2>. SUFFICES ASSUME TimerInv, [Next]_vars PROVE TimerInv'
    OBVIOUS
  <2>1. CASE UNCHANGED vars
    BY <2>1 DEF vars, TimerInv, TimerTypeOK, ListedOnce, CountdownRuns
  <2>. QED BY <2>1, WaitTimerInv, RmvApTimerInv, TimerIntInv, HandleTimInv DEF Next
<1>. QED BY <1>1, <1>2, PTL DEF Spec

\* No ap_ms and no countdown becomes negative, however long the applications
\* wait and however late the notes are read, and the ring buffer never overflows.
THEOREM TimersTyped == Spec => []TimerTypeOK
<1>1. TimerInv => TimerTypeOK
  BY DEF TimerInv
<1>. QED BY <1>1, TimerInvAlways, PTL

\* timer_evlist holds exactly the applications that wait, each once, for any
\* number of applications and notes.
THEOREM TimersListedOnce == Spec => []ListedOnce
<1>1. TimerInv => ListedOnce
  BY DEF TimerInv
<1>. QED BY <1>1, TimerInvAlways, PTL

\* As long as an application waits, a note is on its way or the countdown runs
\* and ends no later than the first wait.
THEOREM CountdownNeverLost == Spec => []CountdownRuns
<1>1. TimerInv => CountdownRuns
  BY DEF TimerInv
<1>. QED BY <1>1, TimerInvAlways, PTL
=============================================================================
