--------------------------- MODULE Message_proofs ---------------------------
(***************************************************************************)
(* Proofs about messages (Message): they reach their application in order  *)
(* and each once, merging them forgets nothing and bounds the buffer, and  *)
(* nobody waits while there is a message for it. First the lists and       *)
(* rectangles, then what happens to the messages of one application, then  *)
(* the actions.                                                            *)
(***************************************************************************)
EXTENDS Message, Kernel_proofs, FiniteSetTheorems, NaturalsInduction

-----------------------------------------------------------------------------
(* Messages and rectangles *)

Rect == [lo : Cells, hi : Cells]

\* What is known of a message.
LEMMA MsgIs ==
    ASSUME NEW m \in Msg
    PROVE  /\ m.kind \in {"plain", "slid", "redraw"} /\ m # NONE
           /\ m.kind = "plain" => m = Plain(m.id) /\ m.id \in 1..MaxPlain
           /\ m.kind = "slid" => m = Slid(m.id) /\ m.id \in 1..MaxSlid
           /\ m.kind = "redraw" => m = Redraw(m.win, m.rect) /\ m.win \in Window /\ m.rect \in Rect
<1>0. m # NONE
  BY NoneAssumption
<1>1. CASE \E n \in 1..MaxPlain : m = Plain(n)
  BY <1>0, <1>1 DEF Plain
<1>2. CASE \E n \in 1..MaxSlid : m = Slid(n)
  BY <1>0, <1>2 DEF Slid
<1>3. CASE \E w \in Window, r \in Rect : m = Redraw(w, r)
  BY <1>0, <1>3 DEF Redraw
<1>. QED BY <1>1, <1>2, <1>3 DEF Msg, Rect

\* The messages that are sent are messages.
LEMMA PlainIs ==
    ASSUME NEW n \in 1..MaxPlain
    PROVE  Plain(n) \in Msg /\ Plain(n).kind = "plain" /\ Plain(n).id = n
BY DEF Msg, Plain

\* A numbered slider message is a message of kind slid.
LEMMA SlidIs ==
    ASSUME NEW n \in 1..MaxSlid
    PROVE  Slid(n) \in Msg /\ Slid(n).kind = "slid" /\ Slid(n).id = n
BY DEF Msg, Slid

\* A redraw message is a message with its window and rectangle.
LEMMA RedrawIs ==
    ASSUME NEW w \in Window, NEW r \in Rect
    PROVE  /\ Redraw(w, r) \in Msg /\ Redraw(w, r).kind = "redraw"
           /\ Redraw(w, r).win = w /\ Redraw(w, r).rect = r
BY DEF Msg, Redraw, Rect

\* The smaller and the larger one of two numbers.
LEMMA MinMaxIs ==
    ASSUME NEW i \in Int, NEW j \in Int
    PROVE  /\ Min({i, j}) \in {i, j} /\ Min({i, j}) <= i /\ Min({i, j}) <= j
           /\ Max({i, j}) \in {i, j} /\ Max({i, j}) >= i /\ Max({i, j}) >= j
<1>1. (\E x \in {i, j} : \A y \in {i, j} : x <= y) /\ (\E x \in {i, j} : \A y \in {i, j} : x >= y)
  BY SMT
<1>2. Min({i, j}) \in {i, j} /\ \A y \in {i, j} : Min({i, j}) <= y
  BY <1>1, Zenon DEF Min
<1>3. Max({i, j}) \in {i, j} /\ \A y \in {i, j} : Max({i, j}) >= y
  BY <1>1, Zenon DEF Max
<1>. QED BY <1>2, <1>3, SMT

\* grects_union covers both rectangles.
LEMMA UnionCovers ==
    ASSUME NEW r \in Rect, NEW s \in Rect
    PROVE  /\ Union(r, s) \in Rect
           /\ CellsOf(r) \subseteq CellsOf(Union(r, s)) /\ CellsOf(s) \subseteq CellsOf(Union(r, s))
<1>1. /\ r.lo \in Int /\ r.hi \in Int /\ s.lo \in Int /\ s.hi \in Int
      /\ r.lo \in Cells /\ r.hi \in Cells /\ s.lo \in Cells /\ s.hi \in Cells
      /\ Cells \subseteq Int
  BY MessageAssumption DEF Rect
<1>2. PICK lo : lo = Min({r.lo, s.lo})
  OBVIOUS
<1>3. PICK hi : hi = Max({r.hi, s.hi})
  OBVIOUS
<1>4. /\ lo \in Int /\ lo \in Cells /\ lo <= r.lo /\ lo <= s.lo
      /\ hi \in Int /\ hi \in Cells /\ hi >= r.hi /\ hi >= s.hi
  BY <1>1, <1>2, <1>3, MinMaxIs
<1>5. Union(r, s) = [lo |-> lo, hi |-> hi]
  BY <1>2, <1>3 DEF Union
<1>6. PICK u : u = Union(r, s)
  OBVIOUS
<1>7. u \in Rect /\ u.lo = lo /\ u.hi = hi
  BY <1>4, <1>5, <1>6 DEF Rect
<1>8. \A c \in Cells : /\ r.lo <= c /\ c <= r.hi => u.lo <= c /\ c <= u.hi
                       /\ s.lo <= c /\ c <= s.hi => u.lo <= c /\ c <= u.hi
  BY <1>1, <1>4, <1>7
<1>. QED BY <1>6, <1>7, <1>8, Zenon DEF CellsOf

-----------------------------------------------------------------------------
(* Numbers, small sets and lists *)

\* A set of natural numbers has a least member, and Min finds it.
LEMMA LeastIs ==
    ASSUME NEW T \in SUBSET Nat, T # {}
    PROVE  Min(T) \in T /\ \A n \in T : Min(T) <= n
<1>1. PICK n \in T : \A m \in T : ~(<< m, n >> \in OpToRel(<, Nat))
  BY WFMin, NatLessThanWellFounded
<1>2. \A m \in T : ~(m < n)
  BY <1>1 DEF OpToRel
<1>3. \E x \in T : \A y \in T : x <= y
  BY <1>2
<1>. QED BY <1>3, Zenon DEF Min

\* What "more than one" and "at most two" mean.
LEMMA CardIs ==
    ASSUME NEW S, IsFiniteSet(S)
    PROVE  /\ Cardinality(S) > 1 <=> \E x, y \in S : x # y
           /\ Cardinality(S) <= 2 <=> \A x, y, z \in S : x = y \/ y = z \/ x = z
<1>0. Cardinality(S) \in Nat
  BY FS_CardinalityType
<1>1. CASE S = {}
  BY <1>1, FS_EmptySet
<1>2. CASE \E x : S = {x}
  BY <1>2, FS_Singleton
<1>3. ASSUME NEW x \in S, NEW y \in S, x # y PROVE Cardinality({x, y}) = 2 /\ IsFiniteSet({x, y})
  <2>1. IsFiniteSet({x}) /\ Cardinality({x}) = 1
    BY FS_Singleton
  <2>2. {x, y} = {x} \cup {y} /\ y \notin {x}
    BY <1>3
  <2>3. IsFiniteSet({x} \cup {y}) /\ Cardinality({x} \cup {y}) = Cardinality({x}) + 1
    BY <2>1, <2>2, FS_AddElement, Zenon
  <2>. QED BY <2>1, <2>2, <2>3
<1>4. CASE \E x, y \in S : x # y
  <2>1. PICK x \in S, y \in S : x # y
    BY <1>4
  <2>2. Cardinality({x, y}) = 2 /\ IsFiniteSet({x, y}) /\ {x, y} \in SUBSET S
    BY <1>3, <2>1
  <2>3. Cardinality(S) >= 2 /\ (Cardinality(S) = 2 => S = {x, y})
    BY <1>0, <2>2, FS_Subset
  <2>4. CASE S = {x, y}
    BY <2>1, <2>2, <2>4
  <2>5. CASE S # {x, y}
    <3>1. PICK z \in S : z # x /\ z # y
      BY <2>5
    <3>. QED BY <1>0, <2>1, <2>3, <2>5, <3>1
  <2>. QED BY <2>4, <2>5
<1>. QED BY <1>1, <1>2, <1>4

\* A piece of a list.
LEMMA Cut ==
    ASSUME NEW S, NEW s \in Seq(S), NEW m \in 1..(Len(s) + 1), NEW n \in (m - 1)..Len(s)
    PROVE  /\ SubSeq(s, m, n) \in Seq(S) /\ Len(SubSeq(s, m, n)) = n - m + 1
           /\ \A i \in 1..(n - m + 1) : SubSeq(s, m, n)[i] = s[m + i - 1]
OBVIOUS

\* Two lists put together.
LEMMA Joined ==
    ASSUME NEW S, NEW x \in Seq(S), NEW y \in Seq(S), NEW m \in Nat, NEW n \in Nat,
           m = Len(x), n = Len(y)
    PROVE  /\ x \o y \in Seq(S) /\ Len(x \o y) = m + n
           /\ \A i \in 1..m : (x \o y)[i] = x[i]
           /\ \A i \in (m + 1)..(m + n) : (x \o y)[i] = y[i - m]
OBVIOUS

\* r is the list s without its member number p, one by one.
WithoutAt(r, s, p) ==
    /\ Len(r) = Len(s) - 1
    /\ \A i \in 1..(p - 1) : r[i] = s[i]
    /\ \A i \in p..(Len(s) - 1) : r[i] = s[i + 1]

\* A list without its member number p.
LEMMA WithoutIs ==
    ASSUME NEW S, NEW s \in Seq(S), NEW p \in DOMAIN s, NEW r, r = Without(s, p)
    PROVE  r \in Seq(S) /\ WithoutAt(r, s, p)
<1>1. PICK L \in Nat : L = Len(s) /\ p \in 1..L
  OBVIOUS
<1>2. PICK x : x = SubSeq(s, 1, p - 1)
  OBVIOUS
<1>3. x \in Seq(S) /\ Len(x) = p - 1 /\ \A i \in 1..(p - 1) : x[i] = s[i]
  BY <1>1, <1>2, Cut
<1>4. PICK y : y = SubSeq(s, p + 1, Len(s))
  OBVIOUS
<1>5. y \in Seq(S) /\ Len(y) = L - p /\ \A i \in 1..(L - p) : y[i] = s[p + i]
  BY <1>1, <1>4, Cut
<1>6. p - 1 \in Nat /\ L - p \in Nat /\ (p - 1) + (L - p) = L - 1
  BY <1>1
<1>7. /\ r \in Seq(S) /\ Len(r) = L - 1
      /\ \A i \in 1..(p - 1) : r[i] = x[i]
      /\ \A i \in p..(L - 1) : r[i] = y[i - (p - 1)]
  <2>1. PICK u, v : u = p - 1 /\ v = L - p
    OBVIOUS
  <2>2. x \in Seq(S) /\ y \in Seq(S) /\ u \in Nat /\ v \in Nat /\ u = Len(x) /\ v = Len(y)
    BY <1>3, <1>5, <1>6, <2>1
  <2>3. /\ x \o y \in Seq(S) /\ Len(x \o y) = u + v
        /\ \A i \in 1..u : (x \o y)[i] = x[i]
        /\ \A i \in (u + 1)..(u + v) : (x \o y)[i] = y[i - u]
    BY ONLY <2>2, Joined
  <2>4. r = x \o y
    BY <1>2, <1>4 DEF Without
  <2>5. u + 1 = p /\ u + v = L - 1
    BY <1>6, <2>1, SMTT(30)
  <2>. QED BY ONLY <2>1, <2>3, <2>4, <2>5
<1>8. ASSUME NEW i \in p..(L - 1) PROVE r[i] = s[i + 1]
  <2>1. i - (p - 1) \in 1..(L - p) /\ p + (i - (p - 1)) = i + 1
    BY <1>1, <1>8
  <2>. QED BY <1>5, <1>7, <2>1
<1>9. \A i \in 1..(p - 1) : r[i] = s[i]
  BY ONLY <1>3, <1>7
<1>. QED BY ONLY <1>1, <1>7, <1>8, <1>9 DEF WithoutAt

-----------------------------------------------------------------------------
(* What rw_ap_buf makes of the buffer b when it merges m into it *)

\* r comes from b by rewriting redraws, of the same window, and leaving some
\* of them out; f says where a message of r has been in b.
Kept(b, r, f) ==
    /\ f \in [DOMAIN r -> DOMAIN b]
    /\ \A i, j \in DOMAIN r : i < j => f[i] < f[j]
    /\ \A i \in DOMAIN r :
          /\ r[i].kind = b[f[i]].kind
          /\ r[i].kind = "redraw" => r[i].win = b[f[i]].win
          /\ r[i].kind # "redraw" => r[i] = b[f[i]]
    /\ \A j \in DOMAIN b : b[j].kind # "redraw" => \E i \in DOMAIN r : f[i] = j

\* a redraw in r covers the one that x asks for
Covers(r, x) ==
    \E i \in DOMAIN r : /\ r[i].kind = "redraw" /\ r[i].win = x.win
                        /\ CellsOf(x.rect) \subseteq CellsOf(r[i].rect)

\* r comes from b and m by merging redraws
Rewritten(b, r, m) ==
    /\ b # << >> /\ Covers(r, m)
    /\ \A j \in DOMAIN b : b[j].kind = "redraw" => Covers(r, b[j])
    /\ \E f : Kept(b, r, f)

\* m may be put behind b
Fresh(b, m) ==
    /\ m.kind = "slid" => \A i \in DOMAIN b : b[i].kind # "slid"
    /\ m.kind = "redraw" => \A i, j \in RedrawsOf(b, m.win) : i = j

\* b with rectangle q in its message at i
Enlarge(b, i, q) == [b EXCEPT ![i].rect = q]

\* A redraw with a larger rectangle.
LEMMA Enlarged ==
    ASSUME NEW b \in Seq(Msg), NEW i \in DOMAIN b, b[i].kind = "redraw", NEW q \in Rect,
           NEW r, r = Enlarge(b, i, q)
    PROVE  /\ r \in Seq(Msg) /\ Len(r) = Len(b) /\ DOMAIN r = DOMAIN b
           /\ r[i].kind = "redraw" /\ r[i].win = b[i].win /\ r[i].rect = q
           /\ \A j \in DOMAIN b \ {i} : r[j] = b[j]
<1>1. b[i] \in Msg /\ DOMAIN b = 1..Len(b) /\ Len(b) \in Nat
  OBVIOUS
<1>2. b[i] = Redraw(b[i].win, b[i].rect) /\ b[i].win \in Window
  BY <1>1, MsgIs
<1>3. PICK x : x = Redraw(b[i].win, q)
  OBVIOUS
<1>4. x \in Msg /\ x.kind = "redraw" /\ x.win = b[i].win /\ x.rect = q
  BY <1>2, <1>3, RedrawIs
<1>5. [b[i] EXCEPT !.rect = q] = x
  BY <1>2, <1>3 DEF Redraw
<1>6. r = [b EXCEPT ![i] = x]
  BY <1>5 DEF Enlarge
<1>7. r \in Seq(Msg) /\ Len(r) = Len(b)
  BY <1>1, <1>4, <1>6
<1>. QED BY <1>1, <1>4, <1>6, <1>7

\* The redraw of b at i is enlarged to cover m.
LEMMA IntoRewrites ==
    ASSUME NEW b \in Seq(Msg), NEW m \in Msg, m.kind = "redraw", NEW i \in DOMAIN b,
           b[i].kind = "redraw", b[i].win = m.win, NEW q \in Rect,
           CellsOf(b[i].rect) \subseteq CellsOf(q), CellsOf(m.rect) \subseteq CellsOf(q),
           NEW r, r = Enlarge(b, i, q)
    PROVE  Rewritten(b, r, m) /\ r \in Seq(Msg) /\ Len(r) = Len(b)
<1>1. /\ r \in Seq(Msg) /\ Len(r) = Len(b) /\ DOMAIN r = DOMAIN b
      /\ r[i].kind = "redraw" /\ r[i].win = b[i].win /\ r[i].rect = q
      /\ \A j \in DOMAIN b \ {i} : r[j] = b[j]
  BY Enlarged
<1>2. Covers(r, m)
  BY <1>1 DEF Covers
<1>3. \A j \in DOMAIN b : b[j].kind = "redraw" => Covers(r, b[j])
  BY <1>1 DEF Covers
<1>4. DOMAIN b \subseteq Int /\ b # << >>
  OBVIOUS
<1>. DEFINE f == [j \in DOMAIN r |-> j]
<1>5. Kept(b, r, f)
  BY <1>1, <1>4 DEF Kept
<1>. QED BY <1>1, <1>2, <1>3, <1>4, <1>5 DEF Rewritten

\* The redraw of b at i is enlarged to cover m and the one at j, which is removed.
LEMMA ThreeRewrite ==
    ASSUME NEW b \in Seq(Msg), NEW m \in Msg, m.kind = "redraw", NEW i \in DOMAIN b,
           b[i].kind = "redraw", b[i].win = m.win, NEW q \in Rect,
           CellsOf(b[i].rect) \subseteq CellsOf(q), CellsOf(m.rect) \subseteq CellsOf(q),
           NEW j \in DOMAIN b, j # i, b[j].kind = "redraw", b[j].win = m.win,
           CellsOf(b[j].rect) \subseteq CellsOf(q),
           NEW r, r = Without(Enlarge(b, i, q), j)
    PROVE  Rewritten(b, r, m) /\ r \in Seq(Msg) /\ Len(r) = Len(b) - 1
<1>1. PICK s : s = Enlarge(b, i, q)
  OBVIOUS
<1>2. /\ s \in Seq(Msg) /\ Len(s) = Len(b) /\ DOMAIN s = DOMAIN b
      /\ s[i].kind = "redraw" /\ s[i].win = b[i].win /\ s[i].rect = q
      /\ \A n \in DOMAIN b \ {i} : s[n] = b[n]
  BY <1>1, Enlarged
<1>3. PICK L \in Nat : L = Len(b) /\ DOMAIN b = 1..L /\ L = Len(s)
  <2>1. Len(b) \in Nat /\ DOMAIN b = 1..Len(b)
    OBVIOUS
  <2>. QED BY ONLY <1>2, <2>1, Zenon
<1>4. /\ r \in Seq(Msg) /\ Len(r) = L - 1
      /\ \A n \in 1..(j - 1) : r[n] = s[n]
      /\ \A n \in j..(L - 1) : r[n] = s[n + 1]
  <2>1. j \in DOMAIN s /\ r = Without(s, j)
    BY <1>1, <1>2
  <2>2. r \in Seq(Msg) /\ WithoutAt(r, s, j)
    BY <1>2, <2>1, WithoutIs
  <2>. QED BY ONLY <1>3, <2>2 DEF WithoutAt
<1>5. DOMAIN r = 1..(L - 1)
  BY <1>4
<1>. DEFINE f == [n \in 1..(L - 1) |-> IF n < j THEN n ELSE n + 1]
            at(n) == IF n < j THEN n ELSE n - 1
<1>6. /\ \A n \in 1..(L - 1) : f[n] \in 1..L /\ f[n] # j /\ r[n] = s[f[n]]
      /\ \A n, l \in 1..(L - 1) : n < l => f[n] < f[l]
      /\ \A n \in (1..L) \ {j} : at(n) \in 1..(L - 1) /\ f[at(n)] = n
  <2>1. j \in Nat /\ 1 <= j /\ j <= L
    BY <1>3
  <2>2. ASSUME NEW n \in 1..(L - 1) PROVE f[n] \in 1..L /\ f[n] # j
    BY ONLY <2>1, <1>3, <2>2
  <2>3. ASSUME NEW n \in 1..(L - 1) PROVE r[n] = s[f[n]]
    <3>1. CASE n < j
      <4>1. n \in 1..(j - 1) /\ f[n] = n
        BY ONLY <2>1, <1>3, <2>3, <3>1
      <4>. QED BY <1>4, <4>1
    <3>2. CASE ~(n < j)
      <4>1. n \in j..(L - 1) /\ f[n] = n + 1
        BY ONLY <2>1, <1>3, <2>3, <3>2
      <4>. QED BY <1>4, <4>1
    <3>. QED BY <3>1, <3>2
  <2>4. ASSUME NEW n \in 1..(L - 1), NEW l \in 1..(L - 1), n < l PROVE f[n] < f[l]
    BY ONLY <2>1, <1>3, <2>4
  <2>5. ASSUME NEW n \in (1..L) \ {j} PROVE at(n) \in 1..(L - 1) /\ f[at(n)] = n
    <3>1. n \in Nat /\ 1 <= n /\ n <= L /\ n # j
      BY ONLY <1>3, <2>5
    <3>2. at(n) \in 1..(L - 1)
      BY ONLY <1>3, <2>1, <3>1
    <3>. QED BY ONLY <1>3, <2>1, <3>1, <3>2
  <2>. QED BY <2>2, <2>3, <2>4, <2>5
<1>7. f \in [1..(L - 1) -> 1..L]
  BY <1>6
<1>. HIDE DEF f, at
<1>8. \A n \in (1..L) \ {j} : r[at(n)] = s[n]
  BY <1>6
<1>9. at(i) \in DOMAIN r /\ r[at(i)] = s[i]
  BY <1>3, <1>5, <1>6, <1>8
<1>10. Covers(r, m)
  BY <1>2, <1>9 DEF Covers
<1>11. \A n \in DOMAIN b : b[n].kind = "redraw" => Covers(r, b[n])
  <2>1. SUFFICES ASSUME NEW n \in DOMAIN b, b[n].kind = "redraw" PROVE Covers(r, b[n])
    OBVIOUS
  <2>2. CASE n \in {i, j}
    BY <1>2, <1>9, <2>2 DEF Covers
  <2>3. CASE n \notin {i, j}
    <3>1. at(n) \in DOMAIN r /\ r[at(n)] = b[n]
      BY <1>2, <1>3, <1>5, <1>6, <1>8, <2>3
    <3>. QED BY <2>1, <3>1 DEF Covers
  <2>. QED BY <2>2, <2>3
<1>12. Kept(b, r, f)
  <2>1. \A n \in DOMAIN b : s[n].kind = b[n].kind /\ (s[n].kind = "redraw" => s[n].win = b[n].win)
                            /\ (s[n].kind # "redraw" => s[n] = b[n])
    BY <1>2
  <2>2. \A n \in DOMAIN b : b[n].kind # "redraw" => \E l \in DOMAIN r : f[l] = n
    BY <1>3, <1>5, <1>6
  <2>3. \A n \in DOMAIN r : f[n] \in DOMAIN b /\ r[n] = s[f[n]]
    BY <1>3, <1>5, <1>6
  <2>4. \A n \in DOMAIN r :
          /\ r[n].kind = b[f[n]].kind
          /\ r[n].kind = "redraw" => r[n].win = b[f[n]].win
          /\ r[n].kind # "redraw" => r[n] = b[f[n]]
    BY <2>1, <2>3
  <2>5. f \in [DOMAIN r -> DOMAIN b] /\ \A n, l \in DOMAIN r : n < l => f[n] < f[l]
    BY <1>3, <1>5, <1>6, <1>7
  <2>. QED BY <2>2, <2>4, <2>5, Zenon DEF Kept
<1>13. b # << >>
  OBVIOUS
<1>. QED BY <1>3, <1>4, <1>10, <1>11, <1>12, <1>13 DEF Rewritten

\* The three things that rw_ap_buf may do with a message.
LEMMA MergeIs ==
    ASSUME NEW b \in Seq(Msg), NEW m \in Msg, NEW smart \in BOOLEAN, NEW r, r = Merge(b, m, smart)
    PROVE  /\ r \in Seq(Msg) /\ Len(r) <= Len(b) + 1
           /\ \/ r = Append(b, m) /\ Fresh(b, m)
              \/ m.kind = "slid" /\ \E i \in DOMAIN b : b[i].kind = "slid" /\ r = [b EXCEPT ![i] = m]
              \/ m.kind = "redraw" /\ Rewritten(b, r, m)
<1>. DEFINE A == Alike(b, m)
<1>1. Len(b) \in Nat /\ DOMAIN b = 1..Len(b) /\ IsFiniteSet(DOMAIN b) /\ DOMAIN b \subseteq Nat
  BY FS_Interval, SMTT(30)
<1>2. A \subseteq DOMAIN b /\ IsFiniteSet(A) /\ A \in SUBSET Nat
  BY <1>1, FS_Subset DEF Alike
<1>3. PICK i : i = Min(A)
  OBVIOUS
<1>4. PICK j : j = Min(A \ {i})
  OBVIOUS
<1>5. \A n \in DOMAIN b : b[n] \in Msg
  OBVIOUS
<1>6. Append(b, m) \in Seq(Msg) /\ Len(Append(b, m)) = Len(b) + 1
  OBVIOUS
<1>7. m.kind = "redraw" => A = RedrawsOf(b, m.win)
  BY DEF Alike, RedrawsOf
<1>8. m.kind \in {"plain", "slid", "redraw"}
  BY MsgIs
<1>9. CASE A = {}
  <2>1. r = Append(b, m)
    BY <1>9 DEF Merge
  <2>2. Fresh(b, m)
    BY <1>7, <1>9 DEF Fresh, Alike
  <2>. QED BY <1>1, <1>6, <2>1, <2>2
<1>10. ASSUME A # {} PROVE i \in A /\ m.kind # "plain" /\ b[i].kind = m.kind /\ i \in DOMAIN b
                           /\ (m.kind = "redraw" => b[i].win = m.win)
  BY <1>2, <1>3, <1>10, LeastIs DEF Alike
<1>11. CASE A # {} /\ m.kind = "slid"
  <2>1. r = [b EXCEPT ![i] = m]
    BY <1>3, <1>11 DEF Merge
  <2>2. r \in Seq(Msg) /\ Len(r) = Len(b)
    BY <1>10, <1>11, <2>1
  <2>3. \E n \in DOMAIN b : b[n].kind = "slid" /\ r = [b EXCEPT ![n] = m]
    BY <1>10, <1>11, <2>1, Zenon
  <2>4. Len(r) <= Len(b) + 1
    BY <1>1, <2>2
  <2>. QED BY <1>11, <2>2, <2>3, <2>4, Zenon
<1>12. CASE A # {} /\ m.kind = "redraw" /\ Cardinality(A) > 1
  <2>1. A \ {i} # {}
    BY <1>2, <1>12, CardIs
  <2>2. A \ {i} \in SUBSET Nat
    BY <1>2
  <2>3. j \in A /\ j # i
    BY <1>4, <2>1, <2>2, LeastIs
  <2>4. j \in DOMAIN b /\ b[j].kind = "redraw" /\ b[j].win = m.win
    BY <1>12, <2>3 DEF Alike
  <2>5. PICK u : u = Union(m.rect, b[j].rect)
    OBVIOUS
  <2>6. PICK q : q = Union(b[i].rect, u)
    OBVIOUS
  <2>7. m.rect \in Rect /\ b[i].rect \in Rect /\ b[j].rect \in Rect
    BY <1>5, <1>10, <1>12, <2>4, MsgIs
  <2>8. u \in Rect /\ CellsOf(m.rect) \subseteq CellsOf(u) /\ CellsOf(b[j].rect) \subseteq CellsOf(u)
    BY <2>5, <2>7, UnionCovers
  <2>9. q \in Rect /\ CellsOf(b[i].rect) \subseteq CellsOf(q) /\ CellsOf(u) \subseteq CellsOf(q)
    BY <2>6, <2>7, <2>8, UnionCovers
  <2>10. r = Without(Enlarge(b, i, q), j)
    BY <1>3, <1>4, <1>12, <2>5, <2>6 DEF Merge, Enlarge
  <2>11. CellsOf(m.rect) \subseteq CellsOf(q) /\ CellsOf(b[j].rect) \subseteq CellsOf(q)
    BY <2>8, <2>9
  <2>12. Rewritten(b, r, m) /\ r \in Seq(Msg) /\ Len(r) = Len(b) - 1
    BY <1>10, <1>12, <2>3, <2>4, <2>9, <2>10, <2>11, ThreeRewrite, SMTT(30)
  <2>. QED BY <1>1, <1>12, <2>12
<1>13. CASE A # {} /\ m.kind = "redraw" /\ ~(Cardinality(A) > 1)
  <2>1. \A x, y \in A : x = y
    BY <1>2, <1>13, CardIs
  <2>2. Fresh(b, m)
    BY <1>7, <1>13, <2>1 DEF Fresh
  <2>3. PICK q : q = Union(b[i].rect, m.rect)
    OBVIOUS
  <2>4. r = Append(b, m) \/ r = Enlarge(b, i, q)
    BY <1>3, <1>13, <2>3 DEF Merge, Enlarge
  <2>5. CASE r = Append(b, m)
    BY <1>1, <1>6, <2>2, <2>5
  <2>6. CASE r = Enlarge(b, i, q)
    <3>1. m.rect \in Rect /\ b[i].rect \in Rect
      BY <1>5, <1>10, <1>13, MsgIs
    <3>2. q \in Rect /\ CellsOf(b[i].rect) \subseteq CellsOf(q) /\ CellsOf(m.rect) \subseteq CellsOf(q)
      BY <2>3, <3>1, UnionCovers
    <3>3. Rewritten(b, r, m) /\ r \in Seq(Msg) /\ Len(r) = Len(b)
      BY <1>10, <1>13, <2>6, <3>2, IntoRewrites
    <3>. QED BY <1>1, <1>13, <3>3
  <2>. QED BY <2>4, <2>5, <2>6
<1>14. A # {} => m.kind \in {"slid", "redraw"}
  BY <1>8, <1>10
<1>. QED BY <1>9, <1>11, <1>12, <1>13, <1>14

-----------------------------------------------------------------------------
(* Merging keeps what is promised about a buffer *)

\* The list b with m behind it.
LEMMA AppendIs ==
    ASSUME NEW b \in Seq(Msg), NEW m \in Msg, NEW r, r = Append(b, m)
    PROVE  \E L \in Nat : /\ DOMAIN b = 1..L /\ DOMAIN r = 1..(L + 1) /\ r[L + 1] = m
                          /\ \A i \in 1..L : r[i] = b[i]
<1>1. PICK L \in Nat : L = Len(b)
  OBVIOUS
<1>. QED BY <1>1

\* Plain messages stay in order.
LEMMA MergeNumbered ==
    ASSUME NEW b \in Seq(Msg), NEW m \in Msg, NEW smart \in BOOLEAN, NEW r, r = Merge(b, m, smart),
           NEW lo \in Nat, NEW hi \in Nat, Numbered(b, lo, hi),
           m.kind = "plain" => m.id = hi + 1
    PROVE  Numbered(r, lo, IF m.kind = "plain" THEN m.id ELSE hi)
<1>1. /\ r \in Seq(Msg)
      /\ \/ r = Append(b, m) /\ Fresh(b, m)
         \/ m.kind = "slid" /\ \E i \in DOMAIN b : b[i].kind = "slid" /\ r = [b EXCEPT ![i] = m]
         \/ m.kind = "redraw" /\ Rewritten(b, r, m)
  BY MergeIs
<1>. DEFINE top == IF m.kind = "plain" THEN m.id ELSE hi
<1>2. /\ lo <= hi
      /\ \A i \in DOMAIN b : b[i].kind = "plain" => b[i].id \in (lo + 1)..hi
      /\ \A i, j \in DOMAIN b : b[i].kind = "plain" /\ b[j].kind = "plain" /\ i < j => b[i].id < b[j].id
      /\ \A n \in (lo + 1)..hi : \E i \in DOMAIN b : b[i] = Plain(n)
  BY DEF Numbered, Members
<1>3. top \in Nat /\ lo <= top /\ hi <= top /\ (m.kind # "plain" => top = hi)
  BY <1>2
<1>4. SUFFICES /\ \A i \in DOMAIN r : r[i].kind = "plain" => r[i].id \in (lo + 1)..top
               /\ \A i, j \in DOMAIN r : r[i].kind = "plain" /\ r[j].kind = "plain" /\ i < j => r[i].id < r[j].id
               /\ \A n \in (lo + 1)..top : \E i \in DOMAIN r : r[i] = Plain(n)
  BY <1>3 DEF Numbered, Members
<1>5. CASE r = Append(b, m)
  <2>1. PICK L \in Nat : /\ DOMAIN b = 1..L /\ DOMAIN r = 1..(L + 1) /\ r[L + 1] = m
                         /\ \A i \in 1..L : r[i] = b[i]
    BY <1>5, AppendIs
  <2>2. m.kind = "plain" => m = Plain(hi + 1) /\ top = hi + 1
    BY MsgIs
  <2>3. ASSUME NEW i \in DOMAIN r PROVE (i \in DOMAIN b /\ i < L + 1) \/ i = L + 1
    BY <2>1
  <2>4. \A i \in DOMAIN r : r[i].kind = "plain" => r[i].id \in (lo + 1)..top
    <3>1. SUFFICES ASSUME NEW i \in DOMAIN r, r[i].kind = "plain" PROVE r[i].id \in (lo + 1)..top
      OBVIOUS
    <3>2. CASE i \in DOMAIN b
      <4>1. r[i].id \in (lo + 1)..hi
        BY <1>2, <2>1, <3>1, <3>2
      <4>. QED BY ONLY <1>3, <4>1
    <3>3. CASE i = L + 1
      <4>1. r[i].id = hi + 1 /\ top = hi + 1
        BY <2>1, <2>2, <3>1, <3>3
      <4>. QED BY ONLY <1>2, <4>1
    <3>. QED BY <2>3, <3>2, <3>3
  <2>5. \A i, j \in DOMAIN r : r[i].kind = "plain" /\ r[j].kind = "plain" /\ i < j => r[i].id < r[j].id
    <3>1. SUFFICES ASSUME NEW i \in DOMAIN r, NEW j \in DOMAIN r, i < j,
                          r[i].kind = "plain", r[j].kind = "plain"
                   PROVE  r[i].id < r[j].id
      OBVIOUS
    <3>2. i \in DOMAIN b
      BY <2>1, <3>1
    <3>3. CASE j \in DOMAIN b
      BY <1>2, <2>1, <3>1, <3>2, <3>3
    <3>4. CASE j = L + 1
      <4>1. r[i].id \in (lo + 1)..hi /\ r[j].id = hi + 1
        BY <1>2, <2>1, <3>1, <3>2, <3>4
      <4>. QED BY ONLY <4>1
    <3>. QED BY <2>3, <3>3, <3>4
  <2>6. \A n \in (lo + 1)..top : \E i \in DOMAIN r : r[i] = Plain(n)
    <3>1. SUFFICES ASSUME NEW n \in (lo + 1)..top PROVE \E i \in DOMAIN r : r[i] = Plain(n)
      OBVIOUS
    <3>2. n \in (lo + 1)..hi \/ (m.kind = "plain" /\ n = hi + 1)
      BY ONLY <1>3, <2>2, <3>1
    <3>3. CASE n \in (lo + 1)..hi
      <4>1. PICK i \in DOMAIN b : b[i] = Plain(n)
        BY <1>2, <3>3
      <4>2. i \in DOMAIN r /\ r[i] = Plain(n)
        BY <2>1, <4>1
      <4>. QED BY <4>2
    <3>4. CASE m.kind = "plain" /\ n = hi + 1
      <4>1. L + 1 \in DOMAIN r /\ r[L + 1] = Plain(n)
        BY <2>1, <2>2, <3>4
      <4>. QED BY <4>1
    <3>. QED BY <3>2, <3>3, <3>4
  <2>. QED BY <2>4, <2>5, <2>6
<1>6. CASE m.kind = "slid" /\ \E i \in DOMAIN b : b[i].kind = "slid" /\ r = [b EXCEPT ![i] = m]
  <2>1. PICK i \in DOMAIN b : b[i].kind = "slid" /\ r = [b EXCEPT ![i] = m]
    BY <1>6
  <2>2. /\ DOMAIN r = DOMAIN b /\ r[i].kind # "plain" /\ b[i].kind # "plain"
        /\ \A j \in DOMAIN b \ {i} : r[j] = b[j]
    BY <1>6, <2>1
  <2>3. \A j \in DOMAIN b : r[j].kind = "plain" \/ b[j].kind = "plain" => r[j] = b[j]
    BY <2>2
  <2>4. \A n \in (lo + 1)..hi : Plain(n).kind = "plain"
    BY DEF Plain
  <2>5. top = hi
    BY <1>3, <1>6
  <2>. QED BY <1>2, <2>2, <2>3, <2>4, <2>5, SMTT(30)
<1>7. CASE m.kind = "redraw" /\ Rewritten(b, r, m)
  <2>1. PICK f : Kept(b, r, f)
    BY <1>7 DEF Rewritten
  <2>2. /\ \A i \in DOMAIN r : f[i] \in DOMAIN b
        /\ \A i, j \in DOMAIN r : i < j => f[i] < f[j]
        /\ \A i \in DOMAIN r : r[i].kind = "plain" => r[i] = b[f[i]]
        /\ \A j \in DOMAIN b : b[j].kind = "plain" => \E i \in DOMAIN r : f[i] = j
        /\ \A i \in DOMAIN r : r[i].kind = b[f[i]].kind
    BY <2>1 DEF Kept
  <2>3. \A n \in (lo + 1)..hi : Plain(n).kind = "plain"
    BY DEF Plain
  <2>4. top = hi
    BY <1>3, <1>7
  <2>5. \A i, j \in DOMAIN r : r[i].kind = "plain" /\ r[j].kind = "plain" /\ i < j => r[i].id < r[j].id
    BY <1>2, <2>2, SMTT(30)
  <2>6. ASSUME NEW n \in (lo + 1)..hi PROVE \E i \in DOMAIN r : r[i] = Plain(n)
    <3>1. PICK j \in DOMAIN b : b[j] = Plain(n)
      BY <1>2
    <3>2. b[j].kind = "plain"
      BY <2>3, <3>1
    <3>3. PICK i \in DOMAIN r : f[i] = j
      BY <2>2, <3>2
    <3>4. r[i] = b[f[i]]
      BY <2>2, <3>2, <3>3
    <3>. QED BY <3>1, <3>3, <3>4
  <2>7. \A i \in DOMAIN r : r[i].kind = "plain" => r[i].id \in (lo + 1)..hi
    BY <1>2, <2>2
  <2>. QED BY <2>4, <2>5, <2>6, <2>7
<1>. QED BY <1>1, <1>5, <1>6, <1>7

\* Everything that was covered still is, and the cells of m are.
LEMMA MergeCovers ==
    ASSUME NEW b \in Seq(Msg), NEW m \in Msg, NEW smart \in BOOLEAN, NEW r, r = Merge(b, m, smart)
    PROVE  /\ \A j \in DOMAIN b : b[j].kind = "redraw" => Covers(r, b[j])
           /\ m.kind = "redraw" => Covers(r, m)
<1>1. /\ r \in Seq(Msg)
      /\ \/ r = Append(b, m) /\ Fresh(b, m)
         \/ m.kind = "slid" /\ \E i \in DOMAIN b : b[i].kind = "slid" /\ r = [b EXCEPT ![i] = m]
         \/ m.kind = "redraw" /\ Rewritten(b, r, m)
  BY MergeIs
<1>2. CASE r = Append(b, m)
  <2>1. PICK L \in Nat : /\ DOMAIN b = 1..L /\ DOMAIN r = 1..(L + 1) /\ r[L + 1] = m
                         /\ \A i \in 1..L : r[i] = b[i]
    BY <1>2, AppendIs, SMTT(30)
  <2>2. (\A j \in DOMAIN b : j \in DOMAIN r /\ r[j] = b[j]) /\ L + 1 \in DOMAIN r
    BY <2>1
  <2>. QED BY <2>1, <2>2 DEF Covers
<1>3. CASE m.kind = "slid" /\ \E i \in DOMAIN b : b[i].kind = "slid" /\ r = [b EXCEPT ![i] = m]
  <2>1. PICK i \in DOMAIN b : b[i].kind = "slid" /\ r = [b EXCEPT ![i] = m]
    BY <1>3
  <2>2. DOMAIN r = DOMAIN b /\ \A j \in DOMAIN b : b[j].kind = "redraw" => r[j] = b[j]
    BY <1>3, <2>1
  <2>. QED BY <1>3, <2>2 DEF Covers
<1>4. CASE m.kind = "redraw" /\ Rewritten(b, r, m)
  BY <1>4 DEF Rewritten
<1>. QED BY <1>1, <1>2, <1>3, <1>4

\* at most two redraws for a window, as Merged says it
AtMostTwo(b) ==
    \A w \in Window : \A i, j, l \in RedrawsOf(b, w) : i = j \/ j = l \/ i = l

\* A third redraw of a window is merged.
LEMMA MergeTwo ==
    ASSUME NEW b \in Seq(Msg), NEW m \in Msg, NEW smart \in BOOLEAN, NEW r, r = Merge(b, m, smart),
           AtMostTwo(b)
    PROVE  AtMostTwo(r)
<1>1. /\ r \in Seq(Msg)
      /\ \/ r = Append(b, m) /\ Fresh(b, m)
         \/ m.kind = "slid" /\ \E i \in DOMAIN b : b[i].kind = "slid" /\ r = [b EXCEPT ![i] = m]
         \/ m.kind = "redraw" /\ Rewritten(b, r, m)
  BY MergeIs
<1>2. CASE r = Append(b, m) /\ Fresh(b, m)
  <2>1. PICK L \in Nat : /\ DOMAIN b = 1..L /\ DOMAIN r = 1..(L + 1) /\ r[L + 1] = m
                         /\ \A i \in 1..L : r[i] = b[i]
    BY <1>2, AppendIs
  <2>2. SUFFICES ASSUME NEW w \in Window PROVE \A i, j, l \in RedrawsOf(r, w) : i = j \/ j = l \/ i = l
    BY DEF AtMostTwo
  <2>3. RedrawsOf(r, w) \subseteq RedrawsOf(b, w) \cup {L + 1}
    BY <2>1 DEF RedrawsOf
  <2>4. L + 1 \in RedrawsOf(r, w) => m.kind = "redraw" /\ m.win = w
    BY <2>1 DEF RedrawsOf
  <2>5. L + 1 \in RedrawsOf(r, w) => \A i, j \in RedrawsOf(b, w) : i = j
    BY <1>2, <2>4 DEF Fresh
  <2>6. \A i, j, l \in RedrawsOf(b, w) : i = j \/ j = l \/ i = l
    BY DEF AtMostTwo
  <2>. HIDE DEF AtMostTwo
  <2>. QED BY ONLY <2>3, <2>5, <2>6
<1>3. CASE m.kind = "slid" /\ \E i \in DOMAIN b : b[i].kind = "slid" /\ r = [b EXCEPT ![i] = m]
  <2>1. PICK i \in DOMAIN b : b[i].kind = "slid" /\ r = [b EXCEPT ![i] = m]
    BY <1>3
  <2>2. /\ DOMAIN r = DOMAIN b /\ \A j \in DOMAIN b : b[j].kind = "redraw" => r[j] = b[j]
        /\ \A j \in DOMAIN b : r[j].kind = "redraw" => r[j] = b[j]
    BY <1>3, <2>1
  <2>3. \A w \in Window : RedrawsOf(r, w) = RedrawsOf(b, w)
    BY <2>2 DEF RedrawsOf
  <2>. QED BY <2>3 DEF AtMostTwo
<1>4. CASE m.kind = "redraw" /\ Rewritten(b, r, m)
  <2>1. PICK f : Kept(b, r, f)
    BY <1>4 DEF Rewritten
  <2>2. \A w \in Window : \A i \in RedrawsOf(r, w) : i \in DOMAIN r /\ f[i] \in RedrawsOf(b, w)
    BY <2>1 DEF Kept, RedrawsOf
  <2>3. \A i, j \in DOMAIN r : f[i] = f[j] => i = j
    <3>1. DOMAIN r \subseteq Int /\ DOMAIN b \subseteq Int
      BY <1>1
    <3>2. \A i, j \in DOMAIN r : i < j => f[i] < f[j]
      BY <2>1 DEF Kept
    <3>3. \A i \in DOMAIN r : f[i] \in DOMAIN b
      BY <2>1 DEF Kept
    <3>. QED BY ONLY <3>1, <3>2, <3>3
  <2>. QED BY <2>2, <2>3 DEF AtMostTwo
<1>. QED BY <1>1, <1>2, <1>3, <1>4

\* Of the slid messages only the latest one stays.
LEMMA MergeLatest ==
    ASSUME NEW b \in Seq(Msg), NEW m \in Msg, NEW smart \in BOOLEAN, NEW r, r = Merge(b, m, smart),
           NEW n, OnlyLatest(b, n)
    PROVE  OnlyLatest(r, IF m.kind = "slid" THEN m.id ELSE n)
<1>1. /\ r \in Seq(Msg)
      /\ \/ r = Append(b, m) /\ Fresh(b, m)
         \/ m.kind = "slid" /\ \E i \in DOMAIN b : b[i].kind = "slid" /\ r = [b EXCEPT ![i] = m]
         \/ m.kind = "redraw" /\ Rewritten(b, r, m)
  BY MergeIs
<1>0. \A i, j \in DOMAIN b : b[i].kind = "slid" /\ b[j].kind = "slid" => i = j /\ b[i].id = n
  BY DEF OnlyLatest
<1>2. CASE r = Append(b, m) /\ Fresh(b, m)
  <2>1. PICK L \in Nat : /\ DOMAIN b = 1..L /\ DOMAIN r = 1..(L + 1) /\ r[L + 1] = m
                         /\ \A i \in 1..L : r[i] = b[i]
    BY <1>2, AppendIs
  <2>2. \A i \in DOMAIN r : (i \in DOMAIN b /\ r[i] = b[i]) \/ (i = L + 1 /\ r[i] = m)
    BY <2>1
  <2>3. m.kind = "slid" => \A i \in DOMAIN b : b[i].kind # "slid"
    BY <1>2 DEF Fresh
  <2>. QED BY <1>0, <2>2, <2>3 DEF OnlyLatest
<1>3. CASE m.kind = "slid" /\ \E i \in DOMAIN b : b[i].kind = "slid" /\ r = [b EXCEPT ![i] = m]
  <2>1. PICK i \in DOMAIN b : b[i].kind = "slid" /\ r = [b EXCEPT ![i] = m]
    BY <1>3
  <2>2. DOMAIN r = DOMAIN b /\ r[i] = m /\ \A j \in DOMAIN b \ {i} : r[j] = b[j]
    BY <1>3, <2>1
  <2>. QED BY <1>0, <1>3, <2>1, <2>2 DEF OnlyLatest
<1>4. CASE m.kind = "redraw" /\ Rewritten(b, r, m)
  <2>1. PICK f : Kept(b, r, f)
    BY <1>4 DEF Rewritten
  <2>2. \A i \in DOMAIN r : f[i] \in DOMAIN b /\ (r[i].kind = "slid" => r[i] = b[f[i]])
    BY <2>1 DEF Kept
  <2>3. \A i, j \in DOMAIN r : f[i] = f[j] => i = j
    <3>1. DOMAIN r \subseteq Int /\ DOMAIN b \subseteq Int
      BY <1>1
    <3>2. \A i, j \in DOMAIN r : i < j => f[i] < f[j]
      BY <2>1 DEF Kept
    <3>. QED BY ONLY <2>2, <3>1, <3>2
  <2>. QED BY <1>0, <1>4, <2>2, <2>3 DEF OnlyLatest
<1>. QED BY <1>1, <1>2, <1>3, <1>4

-----------------------------------------------------------------------------
(* The messages of one application *)

\* What InOrder and Merged say of an application with message bx behind its
\* ap_evparm, buffer bf, the numbers sn, rc and sl of its last messages, and
\* the cells dr that it was asked to redraw.
Good(bx, bf, sn, rc, sl, dr) ==
    /\ bx # NONE /\ bx.kind = "plain" => bx = Plain(rc + 1)
    /\ Numbered(bf, rc + (IF bx # NONE /\ bx.kind = "plain" THEN 1 ELSE 0), sn)
    /\ Covered(({bx} \ {NONE}) \cup Members(bf), dr)
    /\ AtMostTwo(bf)
    /\ OnlyLatest(bf, sl)

\* An application without messages.
LEMMA GoodNew ==
    ASSUME NEW n \in Nat, NEW sl, NEW dr, dr = Clean
    PROVE  Good(NONE, << >>, n, n, sl, dr)
<1>1. n + 0 = n /\ (n + 1)..n = {} /\ DOMAIN << >> = {} /\ Members(<< >>) = {}
  BY DEF Members
<1>2. Numbered(<< >>, n, n)
  BY <1>1 DEF Numbered
<1>3. Covered(({NONE} \ {NONE}) \cup Members(<< >>), dr)
  BY DEF Covered, Clean
<1>4. AtMostTwo(<< >>)
  BY DEF AtMostTwo, RedrawsOf
<1>5. OnlyLatest(<< >>, sl)
  BY DEF OnlyLatest
<1>. QED BY <1>1, <1>2, <1>3, <1>4, <1>5 DEF Good

\* the cells to be redrawn when m has been sent, too
Asked(dr, m) == IF m.kind = "redraw" THEN [dr EXCEPT ![m.win] = @ \cup CellsOf(m.rect)] ELSE dr

\* the number of the last message of a kind when m has been sent, too
Latest(n, m, kind) == IF m.kind = kind THEN m.id ELSE n

\* A message is sent.
LEMMA GoodSend ==
    ASSUME NEW bx \in Msg \cup {NONE}, NEW b \in Seq(Msg), NEW sn \in Nat, NEW rc \in Nat, NEW sl,
           NEW dr \in [Window -> SUBSET Cells], Good(bx, b, sn, rc, sl, dr),
           NEW m \in Msg, NEW smart \in BOOLEAN, m.kind = "plain" => m.id = sn + 1,
           NEW r, r = Merge(b, m, smart),
           NEW sn2, sn2 = Latest(sn, m, "plain"), NEW sl2, sl2 = Latest(sl, m, "slid"),
           NEW dr2, dr2 = Asked(dr, m)
    PROVE  Good(bx, r, sn2, rc, sl2, dr2)
<1>1. PICK lo \in Nat : lo = rc + (IF bx # NONE /\ bx.kind = "plain" THEN 1 ELSE 0)
  OBVIOUS
<1>2. /\ bx # NONE /\ bx.kind = "plain" => bx = Plain(rc + 1)
      /\ Numbered(b, lo, sn)
      /\ Covered(({bx} \ {NONE}) \cup Members(b), dr)
      /\ AtMostTwo(b) /\ OnlyLatest(b, sl)
  BY <1>1 DEF Good
<1>3. Numbered(r, lo, sn2)
  BY <1>2, MergeNumbered DEF Latest
<1>4. AtMostTwo(r) /\ OnlyLatest(r, sl2)
  BY <1>2, MergeTwo, MergeLatest DEF Latest
<1>5. /\ \A j \in DOMAIN b : b[j].kind = "redraw" => Covers(r, b[j])
      /\ m.kind = "redraw" => Covers(r, m)
  BY MergeCovers
<1>. DEFINE old == ({bx} \ {NONE}) \cup Members(b)
            new == ({bx} \ {NONE}) \cup Members(r)
<1>6. Covered(new, dr2)
  <2>1. SUFFICES ASSUME NEW w \in Window, NEW c \in dr2[w]
                 PROVE  \E x \in new : x.kind = "redraw" /\ x.win = w /\ c \in CellsOf(x.rect)
    BY DEF Covered
  <2>2. c \in dr[w] \/ (m.kind = "redraw" /\ m.win = w /\ c \in CellsOf(m.rect))
    BY DEF Asked
  <2>3. ASSUME NEW x, x.win = w, c \in CellsOf(x.rect), Covers(r, x)
        PROVE  \E y \in new : y.kind = "redraw" /\ y.win = w /\ c \in CellsOf(y.rect)
    BY <2>3 DEF Covers, Members
  <2>4. CASE m.kind = "redraw" /\ m.win = w /\ c \in CellsOf(m.rect)
    BY <1>5, <2>3, <2>4
  <2>5. CASE c \in dr[w]
    <3>1. PICK x \in old : x.kind = "redraw" /\ x.win = w /\ c \in CellsOf(x.rect)
      BY <1>2, <2>5 DEF Covered
    <3>2. CASE x \in {bx} \ {NONE}
      BY <3>1, <3>2
    <3>3. CASE x \in Members(b)
      <4>1. Covers(r, x)
        BY <1>5, <3>1, <3>3 DEF Members
      <4>. QED BY <2>3, <3>1, <4>1
    <3>. QED BY <3>2, <3>3
  <2>. QED BY <2>2, <2>4, <2>5
<1>. QED BY <1>1, <1>2, <1>3, <1>4, <1>6 DEF Good

\* The oldest message of a buffer, and the others.
LEMMA TailIs ==
    ASSUME NEW b \in Seq(Msg), b # << >>, NEW r, r = Tail(b)
    PROVE  /\ r \in Seq(Msg) /\ Len(r) < Len(b) /\ Head(b) \in Msg
           /\ \E L \in Nat : /\ L > 0 /\ DOMAIN b = 1..L /\ DOMAIN r = 1..(L - 1) /\ b[1] = Head(b)
                             /\ \A i \in 1..(L - 1) : r[i] = b[i + 1]
<1>1. PICK L \in Nat : L = Len(b) /\ L > 0
  OBVIOUS
<1>. QED BY <1>1

\* The oldest message is taken out of the buffer.
LEMMA GoodTake ==
    ASSUME NEW b \in Seq(Msg), b # << >>, NEW sn \in Nat, NEW rc \in Nat, NEW sl, NEW dr,
           Good(NONE, b, sn, rc, sl, dr)
    PROVE  Good(Head(b), Tail(b), sn, rc, sl, dr)
<1>. DEFINE h == Head(b)
            r == Tail(b)
<1>1. /\ Numbered(b, rc, sn)
      /\ Covered(({NONE} \ {NONE}) \cup Members(b), dr)
      /\ AtMostTwo(b) /\ OnlyLatest(b, sl)
  BY DEF Good
<1>2. h \in Msg /\ h # NONE
  BY TailIs, MsgIs
<1>3. PICK L \in Nat : /\ L > 0 /\ DOMAIN b = 1..L /\ DOMAIN r = 1..(L - 1) /\ b[1] = h
                       /\ \A i \in 1..(L - 1) : r[i] = b[i + 1]
  BY TailIs
<1>. HIDE DEF h, r
<1>4. /\ 1 \in DOMAIN b
      /\ \A i \in DOMAIN r : i + 1 \in DOMAIN b /\ r[i] = b[i + 1] /\ i \in Int /\ i + 1 > 1
      /\ \A i \in DOMAIN b : i = 1 \/ (i - 1 \in DOMAIN r /\ r[i - 1] = b[i] /\ 1 < i)
  BY <1>3
<1>5. /\ rc <= sn
      /\ \A i \in DOMAIN b : b[i].kind = "plain" => b[i].id \in (rc + 1)..sn
      /\ \A i, j \in DOMAIN b : b[i].kind = "plain" /\ b[j].kind = "plain" /\ i < j => b[i].id < b[j].id
      /\ \A n \in (rc + 1)..sn : \E i \in DOMAIN b : b[i] = Plain(n)
  BY <1>1 DEF Numbered, Members
<1>6. h.kind = "plain" => h = Plain(rc + 1) /\ rc + 1 <= sn
  <2>1. SUFFICES ASSUME h.kind = "plain" PROVE h = Plain(rc + 1) /\ rc + 1 <= sn
    OBVIOUS
  <2>2. h.id \in (rc + 1)..sn
    BY <1>3, <1>4, <1>5, <2>1
  <2>3. rc + 1 \in (rc + 1)..sn
    BY ONLY <2>2
  <2>4. PICK i \in DOMAIN b : b[i] = Plain(rc + 1)
    BY <1>5, <2>3
  <2>5. b[i].kind = "plain" /\ b[i].id = rc + 1
    BY <2>4 DEF Plain
  <2>6. ~(1 < i)
    <3>1. SUFFICES ASSUME 1 < i PROVE FALSE
      OBVIOUS
    <3>2. b[1].id < b[i].id
      BY <1>3, <1>4, <1>5, <2>1, <2>5, <3>1
    <3>. QED BY <1>3, <2>2, <2>5, <3>2
  <2>7. i = 1
    BY <1>4, <2>6
  <2>. QED BY <1>3, <2>2, <2>4, <2>7
<1>7. PICK lo \in Nat : lo = rc + (IF h # NONE /\ h.kind = "plain" THEN 1 ELSE 0)
  OBVIOUS
<1>8. lo <= sn /\ (h.kind = "plain" => lo = rc + 1) /\ (h.kind # "plain" => lo = rc)
  BY <1>2, <1>5, <1>6, <1>7
<1>9. Numbered(r, lo, sn)
  <2>1. \A i \in DOMAIN r : r[i].kind = "plain" => r[i].id \in (lo + 1)..sn
    <3>1. SUFFICES ASSUME NEW i \in DOMAIN r, r[i].kind = "plain" PROVE r[i].id \in (lo + 1)..sn
      OBVIOUS
    <3>2. r[i].id \in (rc + 1)..sn
      BY <1>4, <1>5, <3>1
    <3>3. CASE h.kind = "plain"
      <4>1. b[1].kind = "plain" /\ b[1].id = rc + 1
        BY <1>3, <1>6, <3>3 DEF Plain
      <4>2. b[1].id < r[i].id
        BY <1>4, <1>5, <3>1, <4>1
      <4>. QED BY <1>8, <3>2, <3>3, <4>1, <4>2
    <3>. QED BY <1>8, <3>2, <3>3
  <2>2. \A i, j \in DOMAIN r : r[i].kind = "plain" /\ r[j].kind = "plain" /\ i < j => r[i].id < r[j].id
    <3>1. \A i, j \in DOMAIN r : i < j => i + 1 < j + 1
      BY <1>4
    <3>. QED BY <1>4, <1>5, <3>1
  <2>3. ASSUME NEW n \in (lo + 1)..sn PROVE \E i \in DOMAIN r : r[i] = Plain(n)
    <3>1. n \in (rc + 1)..sn
      BY <1>8
    <3>2. PICK i \in DOMAIN b : b[i] = Plain(n)
      BY <1>5, <3>1
    <3>3. b[i].kind = "plain" /\ b[i].id = n
      BY <3>2 DEF Plain
    <3>4. i # 1
      <4>1. SUFFICES ASSUME i = 1 PROVE FALSE
        OBVIOUS
      <4>2. h.kind = "plain" /\ h.id = n
        BY <1>3, <3>3, <4>1
      <4>3. h.id = rc + 1 /\ lo = rc + 1
        BY <1>6, <1>8, <4>2 DEF Plain
      <4>. QED BY ONLY <2>3, <4>2, <4>3
    <3>. QED BY <1>4, <3>2, <3>4
  <2>. QED BY <1>8, <2>1, <2>2, <2>3 DEF Numbered, Members
<1>10. Members(b) = {h} \cup Members(r)
  <2>1. \A x \in Members(b) : x \in {h} \cup Members(r)
    <3>1. SUFFICES ASSUME NEW i \in DOMAIN b PROVE b[i] \in {h} \cup Members(r)
      BY DEF Members
    <3>2. CASE i = 1
      BY <1>3, <3>2
    <3>3. CASE i # 1
      <4>1. i - 1 \in DOMAIN r /\ r[i - 1] = b[i]
        BY <1>4, <3>3
      <4>. QED BY <4>1 DEF Members
    <3>. QED BY <3>2, <3>3
  <2>2. \A x \in Members(r) : x \in Members(b)
    BY <1>4 DEF Members
  <2>3. h \in Members(b)
    BY <1>3, <1>4 DEF Members
  <2>. QED BY <2>1, <2>2, <2>3
<1>11. Covered(({h} \ {NONE}) \cup Members(r), dr)
  <2>1. ({h} \ {NONE}) \cup Members(r) = ({NONE} \ {NONE}) \cup Members(b)
    BY <1>2, <1>10
  <2>. QED BY <1>1, <2>1
<1>12. AtMostTwo(r)
  <2>1. \A w \in Window : \A i \in RedrawsOf(r, w) : i \in Int /\ i + 1 \in RedrawsOf(b, w)
    BY <1>4 DEF RedrawsOf
  <2>2. SUFFICES ASSUME NEW w \in Window, NEW i \in RedrawsOf(r, w), NEW j \in RedrawsOf(r, w),
                        NEW l \in RedrawsOf(r, w)
                 PROVE  i = j \/ j = l \/ i = l
    BY DEF AtMostTwo
  <2>3. i + 1 = j + 1 \/ j + 1 = l + 1 \/ i + 1 = l + 1
    BY <1>1, <2>1 DEF AtMostTwo
  <2>. QED BY <2>1, <2>3
<1>13. OnlyLatest(r, sl)
  <2>1. SUFFICES ASSUME NEW i \in DOMAIN r, NEW j \in DOMAIN r, r[i].kind = "slid", r[j].kind = "slid"
                 PROVE  i = j /\ r[i].id = sl
    BY DEF OnlyLatest
  <2>2. i + 1 = j + 1 /\ r[i].id = sl
    BY <1>1, <1>4, <2>1 DEF OnlyLatest
  <2>. QED BY <1>4, <2>2
<1>. QED BY <1>2, <1>6, <1>7, <1>9, <1>11, <1>12, <1>13 DEF Good, h, r

\* what remains to be fetched and redrawn once message bx is fetched
NowRcvd(bx, rc) == IF bx.kind = "plain" THEN bx.id ELSE rc
NowDirty(bx, dr) ==
    IF bx.kind = "redraw" THEN [dr EXCEPT ![bx.win] = @ \ CellsOf(bx.rect)] ELSE dr

\* The message is fetched.
LEMMA GoodFetch ==
    ASSUME NEW bx \in Msg, NEW b \in Seq(Msg), NEW sn \in Nat, NEW rc \in Nat, NEW sl,
           NEW dr \in [Window -> SUBSET Cells], Good(bx, b, sn, rc, sl, dr),
           NEW rc2, rc2 = NowRcvd(bx, rc), NEW dr2, dr2 = NowDirty(bx, dr)
    PROVE  Good(NONE, b, sn, rc2, sl, dr2)
<1>1. bx # NONE
  BY MsgIs
<1>2. PICK lo \in Nat : lo = rc + (IF bx # NONE /\ bx.kind = "plain" THEN 1 ELSE 0)
  OBVIOUS
<1>3. /\ bx.kind = "plain" => bx = Plain(rc + 1)
      /\ Numbered(b, lo, sn) /\ Covered(({bx} \ {NONE}) \cup Members(b), dr)
      /\ AtMostTwo(b) /\ OnlyLatest(b, sl)
  BY <1>1, <1>2 DEF Good
<1>4. rc2 = lo /\ rc2 + 0 = lo
  BY <1>1, <1>2, <1>3 DEF Plain, NowRcvd
<1>5. Covered(({NONE} \ {NONE}) \cup Members(b), dr2)
  <2>1. SUFFICES ASSUME NEW w \in Window, NEW c \in dr2[w]
                 PROVE  \E x \in Members(b) : x.kind = "redraw" /\ x.win = w /\ c \in CellsOf(x.rect)
    BY DEF Covered
  <2>2. c \in dr[w] /\ (bx.kind = "redraw" /\ bx.win = w => c \notin CellsOf(bx.rect))
    BY DEF NowDirty
  <2>3. PICK x \in ({bx} \ {NONE}) \cup Members(b) : x.kind = "redraw" /\ x.win = w /\ c \in CellsOf(x.rect)
    BY <1>3, <2>2 DEF Covered
  <2>. QED BY <2>2, <2>3
<1>. QED BY <1>3, <1>4, <1>5 DEF Good

-----------------------------------------------------------------------------
(* The inductive invariant *)

AllGood ==
    \A a \in Dst \cap live : Good(box[a], buf[a], sent[a], rcvd[a], slid[a], dirty[a])

MessageInv == MsgTypeOK /\ WaitInv /\ NoMessageMissed /\ AllGood

\* AllGood is what InOrder and Merged say.
LEMMA GoodMeans ==
    ASSUME MsgTypeOK, AllGood
    PROVE  InOrder /\ Merged
<1>1. SUFFICES ASSUME NEW a \in Dst \cap live
               PROVE  /\ box[a] # NONE /\ box[a].kind = "plain" => box[a] = Plain(rcvd[a] + 1)
                      /\ Numbered(buf[a], Given(a), sent[a])
                      /\ Covered(Unfetched(a), dirty[a])
                      /\ \A w \in Window : Cardinality(RedrawsOf(buf[a], w)) <= 2
                      /\ OnlyLatest(buf[a], slid[a])
  BY DEF InOrder, Merged
<1>2. Good(box[a], buf[a], sent[a], rcvd[a], slid[a], dirty[a])
  BY DEF AllGood
<1>3. /\ box[a] # NONE /\ box[a].kind = "plain" => box[a] = Plain(rcvd[a] + 1)
      /\ Numbered(buf[a], Given(a), sent[a])
      /\ Covered(Unfetched(a), dirty[a])
      /\ AtMostTwo(buf[a])
      /\ OnlyLatest(buf[a], slid[a])
  BY <1>2 DEF Good, Given, Unfetched
<1>4. ASSUME NEW w \in Window PROVE Cardinality(RedrawsOf(buf[a], w)) <= 2
  <2>1. buf[a] \in Seq(Msg)
    BY MessageAssumption DEF MsgTypeOK
  <2>2. IsFiniteSet(DOMAIN buf[a])
    BY <2>1, FS_Interval
  <2>3. RedrawsOf(buf[a], w) \in SUBSET DOMAIN buf[a]
    BY DEF RedrawsOf
  <2>4. IsFiniteSet(RedrawsOf(buf[a], w))
    BY <2>2, <2>3, FS_Subset
  <2>5. \A x, y, z \in RedrawsOf(buf[a], w) : x = y \/ y = z \/ x = z
    BY <1>3 DEF AtMostTwo
  <2>. QED BY <2>4, <2>5, CardIs
<1>. QED BY <1>3, <1>4

\* What is needed of the constants.
LEMMA Consts ==
    /\ MSG \in Event /\ TIM \in Event /\ MSG # TIM /\ Dst \subseteq App /\ Smart \subseteq BOOLEAN
    /\ MaxMsgs \in Nat /\ MaxPlain \in Nat /\ MaxSlid \in Nat
BY MessageAssumption

\* The first application.
LEMMA InitMessageInv == Init => MessageInv
<1>1. SUFFICES ASSUME Init PROVE MessageInv
  OBVIOUS
<1>2. PICK a \in App :
          /\ k = [ready |-> << a >>, notready |-> {}, susp |-> << >>,
                  status |-> [b \in App |-> "READY"], rbits |-> [b \in App |-> {}],
                  hbits |-> [b \in App |-> {}], unsusp |-> UnSusp]
          /\ live = {a}
  BY <1>1 DEF Init
<1>3. /\ mode = "run" /\ pc = [b \in App |-> "user"] /\ tim = {}
      /\ buf = [b \in App |-> << >>] /\ box = [b \in App |-> NONE]
      /\ sent = [b \in App |-> 0] /\ rcvd = [b \in App |-> 0] /\ slid = [b \in App |-> 0]
      /\ dirty = [b \in App |-> Clean]
  BY <1>1 DEF Init
<1>4. k \in KState
  BY <1>2, KernelAssumption DEF KState, Status
<1>5. MsgTypeOK
  <2>1. << >> \in Seq(Msg) /\ Len(<< >>) = 0 /\ Clean \in [Window -> SUBSET Cells]
    BY DEF Clean
  <2>2. buf \in [App -> Seq(Msg)] /\ \A b \in App : Len(buf[b]) <= MaxMsgs
    BY <1>3, <2>1, Consts
  <2>. QED BY <1>2, <1>3, <1>4, <2>1, <2>2, Consts DEF MsgTypeOK
<1>6. WaitInv
  <2>1. ListsMatch(k, live)
    <3>1. /\ k.ready = << a >> /\ k.susp = << >> /\ k.notready = {}
          /\ k.status = [b \in App |-> "READY"]
      BY <1>2
    <3>2. Members(k.ready) = {a} /\ Members(k.susp) = {} /\ NoDup(k.ready) /\ NoDup(k.susp)
      BY <3>1 DEF Members, NoDup
    <3>. QED BY <1>2, <3>1, <3>2 DEF ListsMatch
  <2>2. k.ready # << >> /\ k.rbits = [b \in App |-> {}]
    BY <1>2
  <2>. QED BY <1>3, <2>1, <2>2 DEF WaitInv
<1>7. NoMessageMissed
  BY <1>2, Consts DEF NoMessageMissed
<1>8. AllGood
  <2>1. Good(NONE, << >>, 0, 0, 0, Clean)
    BY GoodNew
  <2>. QED BY <1>3, <2>1, Consts DEF AllGood
<1>. QED BY <1>5, <1>6, <1>7, <1>8 DEF MessageInv

-----------------------------------------------------------------------------
(* The applications and the kernel loop *)

\* Facts about the kernel state.
LEMMA KFacts ==
    ASSUME MessageInv
    PROVE  /\ k \in KState /\ live \in SUBSET App /\ ListsMatch(k, live)
           /\ k.status \in [App -> Status] /\ k.rbits \in [App -> SUBSET Event]
           /\ k.hbits \in [App -> SUBSET Event]
BY DEF MessageInv, MsgTypeOK, WaitInv, KState

\* Who runs is ready.
LEMMA RunningIs ==
    ASSUME MessageInv, NEW a \in App, NEW where, Running(a, where)
    PROVE  /\ mode = "run" /\ a = Act(k) /\ a \in live /\ k.status[a] = "READY" /\ pc[a] = where
           /\ k.ready # << >> /\ ListsMatchBut(k, live, a)
<1>1. mode = "run" /\ a = Act(k) /\ pc[a] = where
  BY DEF Running
<1>2. k.ready # << >>
  BY <1>1 DEF MessageInv, WaitInv
<1>. QED BY <1>1, <1>2, KFacts, EnterCall

\* A step that moves applications between the lists and hands over no message.
LEMMA ListsOnly ==
    ASSUME MessageInv, UNCHANGED << live, pc, msgs >>, tim' \subseteq tim,
           k' \in KState, ListsMatch(k', live), mode' \in {"run", "kernel"},
           mode' = "run" => k'.ready # << >>, k'.rbits = k.rbits,
           \A a \in App : MSG \in k'.hbits[a] <=> MSG \in k.hbits[a],
           \A a \in App : pc[a] = "wait" =>
                /\ k'.status[a] # "SUSPENDED"
                /\ MSG \in k.hbits[a] \cap k.rbits[a] /\ k.status[a] \in {"READY", "STOPPED"} =>
                      k'.status[a] \in {"READY", "STOPPED"}
    PROVE  MessageInv'
<1>1. MsgTypeOK /\ WaitInv /\ NoMessageMissed /\ AllGood
  BY DEF MessageInv
<1>2. MsgTypeOK'
  BY <1>1 DEF MsgTypeOK, msgs
<1>3. WaitInv'
  BY <1>1 DEF WaitInv, msgs
<1>4. NoMessageMissed'
  <2>1. SUFFICES ASSUME NEW a \in Dst \cap live, MSG \in k.rbits[a]
                 PROVE  /\ MSG \notin k'.hbits[a] => buf[a] = << >> /\ box[a] = NONE
                        /\ MSG \in k'.hbits[a] => box[a] # NONE /\ k'.status[a] \in {"READY", "STOPPED"}
    BY DEF NoMessageMissed, msgs
  <2>2. a \in App /\ pc[a] = "wait"
    BY <1>1, <2>1, Consts DEF WaitInv, MsgTypeOK
  <2>3. /\ MSG \notin k.hbits[a] => buf[a] = << >> /\ box[a] = NONE
        /\ MSG \in k.hbits[a] => box[a] # NONE /\ k.status[a] \in {"READY", "STOPPED"}
    BY <1>1, <2>1 DEF NoMessageMissed
  <2>. QED BY <2>1, <2>2, <2>3
<1>5. AllGood'
  BY <1>1 DEF AllGood, msgs
<1>. QED BY <1>2, <1>3, <1>4, <1>5 DEF MessageInv

\* The kernel loop.
LEMMA SwitchInv == ASSUME MessageInv, Switch PROVE MessageInv'
<1>1. /\ CanSwitch(k) /\ k' = SwitchTo(k) /\ mode' = "run" /\ UNCHANGED << live, pc, msgs >> /\ tim' = tim
  BY DEF Switch
<1>2. /\ k' \in KState /\ ListsMatch(k', live) /\ k'.ready # << >>
      /\ k'.rbits = k.rbits /\ k'.hbits = k.hbits
      /\ \A b \in App : k'.status[b] = k.status[b]
                        \/ (k.status[b] = "SUSPENDED" /\ k'.status[b] = "READY")
  BY <1>1, KFacts, SwitchToOK
<1>3. \A a \in App : pc[a] = "wait" => k.status[a] # "SUSPENDED"
  BY DEF MessageInv, WaitInv
<1>. QED BY <1>1, <1>2, <1>3, ListsOnly

\* The end of a timeout.
LEMMA HandleTimInv == ASSUME MessageInv, NEW b \in App, HandleTim(b) PROVE MessageInv'
<1>1. /\ mode = "kernel" /\ b \in tim /\ k' = EventHappened(k, b, TIM)
      /\ mode' = mode /\ UNCHANGED << live, pc, msgs >> /\ tim' \subseteq tim
  BY DEF HandleTim
<1>2. b \in live /\ pc[b] = "wait" /\ k.status[b] # "SUSPENDED"
  BY <1>1 DEF MessageInv, WaitInv, MsgTypeOK
<1>3. /\ k' \in KState /\ ListsMatch(k', live) /\ k'.rbits = k.rbits
      /\ k'.hbits = [k.hbits EXCEPT ![b] = @ \cup {TIM}]
      /\ \/ k'.status = [k.status EXCEPT ![b] = "READY"]
         \/ k'.status = k.status
  BY <1>1, <1>2, KFacts, Consts, EventHappenedOK
<1>4. \A a \in App : MSG \in k'.hbits[a] <=> MSG \in k.hbits[a]
  BY <1>3, KFacts, Consts
<1>5. \A a \in App : pc[a] = "wait" => k.status[a] # "SUSPENDED"
  BY DEF MessageInv, WaitInv
<1>6. \A a \in App : k'.status[a] = k.status[a] \/ k'.status[a] = "READY"
  BY <1>3, KFacts
<1>. QED BY <1>1, <1>3, <1>4, <1>5, <1>6, ListsOnly

\* The end of a time slice.
LEMMA ApplSuspendInv == ASSUME MessageInv, NEW a \in App, ApplSuspend(a) PROVE MessageInv'
<1>1. PICK n : n = [k EXCEPT !.status[a] = "SUSPENDED"]
  OBVIOUS
<1>2. /\ Running(a, "user") /\ k' = YieldLists(n) /\ mode' = "kernel"
      /\ UNCHANGED << live, pc, msgs >> /\ tim' = tim
  BY <1>1 DEF ApplSuspend, ApplYield
<1>3. /\ a = Act(k) /\ a \in live /\ pc[a] = "user" /\ k.ready # << >>
  BY <1>2, RunningIs
<1>4. /\ n \in KState /\ n.ready = k.ready /\ n.susp = k.susp /\ n.notready = k.notready
      /\ n.status = [k.status EXCEPT ![a] = "SUSPENDED"] /\ n.rbits = k.rbits /\ n.hbits = k.hbits
  BY <1>1, KFacts DEF KState, Status
<1>5. ListsMatchBut(n, live, a)
  BY <1>3, <1>4, KFacts, SetStatusOK DEF Status
<1>6. /\ k' \in KState /\ ListsMatch(k', live) /\ k'.rbits = k.rbits /\ k'.hbits = k.hbits
      /\ \A b \in App \ {a} : k'.status[b] = n.status[b]
                              \/ (n.status[b] = "SUSPENDED" /\ k'.status[b] = "READY")
  BY <1>2, <1>4, <1>5, KFacts, YieldListsOK
<1>7. \A b \in App : pc[b] = "wait" => k'.status[b] = k.status[b] /\ k.status[b] # "SUSPENDED"
  <2>1. \A b \in App : pc[b] = "wait" => b # a /\ k.status[b] # "SUSPENDED"
    BY <1>3 DEF MessageInv, WaitInv
  <2>2. \A b \in App \ {a} : n.status[b] = k.status[b]
    BY <1>4, KFacts
  <2>. QED BY <1>6, <2>1, <2>2
<1>. QED BY <1>2, <1>6, <1>7, ListsOnly

\* stp_thr and appl_yield.
LEMMA StopThreadInv == ASSUME MessageInv, NEW a \in App, NEW b \in App, StopThread(a, b) PROVE MessageInv'
<1>1. PICK n : n = StpThr(k, b)
  OBVIOUS
<1>2. /\ Running(a, "user") /\ b \in live /\ k' = YieldLists(n) /\ mode' = "kernel"
      /\ UNCHANGED << live, pc, msgs >> /\ tim' = tim
  BY <1>1 DEF StopThread, ApplYield
<1>3. /\ a = Act(k) /\ a \in live /\ pc[a] = "user" /\ k.ready # << >>
  BY <1>2, RunningIs
<1>4. /\ n \in KState /\ ListsMatchBut(n, live, a) /\ n.rbits = k.rbits /\ n.hbits = k.hbits
      /\ n.status = [k.status EXCEPT ![b] = "STOPPED"]
  BY <1>1, <1>2, <1>3, KFacts, StpThrOK
<1>5. /\ k' \in KState /\ ListsMatch(k', live) /\ k'.rbits = k.rbits /\ k'.hbits = k.hbits
      /\ \A c \in App \ {a} : k'.status[c] = n.status[c]
                              \/ (n.status[c] = "SUSPENDED" /\ k'.status[c] = "READY")
  BY <1>2, <1>4, KFacts, YieldListsOK
<1>6. \A c \in App : pc[c] = "wait" => k'.status[c] \in {k.status[c], "STOPPED"} /\ k.status[c] # "SUSPENDED"
  <2>1. \A c \in App : pc[c] = "wait" => c # a /\ k.status[c] # "SUSPENDED"
    BY <1>3 DEF MessageInv, WaitInv
  <2>2. \A c \in App : n.status[c] = k.status[c] \/ n.status[c] = "STOPPED"
    BY <1>4, KFacts
  <2>. QED BY <1>5, <2>1, <2>2
<1>. QED BY <1>2, <1>5, <1>6, ListsOnly

\* cnt_thr: an application that was given its message while it was stopped
\* becomes ready.
LEMMA ContThreadInv == ASSUME MessageInv, NEW a \in App, NEW b \in App, ContThread(a, b) PROVE MessageInv'
<1>1. /\ Running(a, "user") /\ b \in live /\ k.status[b] = "STOPPED" /\ k' = CntThr(k, b) /\ mode' = mode
      /\ UNCHANGED << live, pc, msgs >> /\ tim' = tim
  BY DEF ContThread
<1>2. mode = "run" /\ k.ready # << >>
  BY <1>1, RunningIs
<1>3. /\ k' \in KState /\ ListsMatch(k', live)
      /\ k'.rbits = k.rbits /\ k'.hbits = k.hbits
      /\ k'.status[b] # "STOPPED"
      /\ \A c \in App \ {b} : k'.status[c] = k.status[c]
      /\ k'.status[b] = "WAITING" /\ k.status[b] = "STOPPED" => k.rbits[b] \cap k.hbits[b] = {}
      /\ k'.status[b] = "SUSPENDED" => k.status[b] = "SUSPENDED"
      /\ k'.ready # << >>
  BY <1>1, <1>2, KFacts, CntThrOK
<1>4. k'.status[b] \in {"READY", "WAITING"}
  BY <1>1, <1>3 DEF KState, Status
<1>5. \A c \in App : pc[c] = "wait" => k.status[c] # "SUSPENDED"
  BY DEF MessageInv, WaitInv
<1>6. \A c \in App : pc[c] = "wait" =>
                /\ k'.status[c] # "SUSPENDED"
                /\ MSG \in k.hbits[c] \cap k.rbits[c] /\ k.status[c] \in {"READY", "STOPPED"} =>
                      k'.status[c] \in {"READY", "STOPPED"}
  BY <1>1, <1>3, <1>4, <1>5
<1>. QED BY <1>1, <1>2, <1>3, <1>6, ListsOnly

\* An application ends.
LEMMA EndThreadInv == ASSUME MessageInv, NEW a \in App, EndThread(a) PROVE MessageInv'
<1>1. /\ Running(a, "user") /\ k' = [k EXCEPT !.ready = Tail(@)] /\ mode' = "kernel"
      /\ live' = live \ {a} /\ UNCHANGED << pc, msgs >> /\ tim' = tim
  BY DEF EndThread
<1>2. a = Act(k) /\ a \in live /\ pc[a] = "user" /\ k.ready # << >> /\ k.status[a] = "READY"
  BY <1>1, RunningIs
<1>3. k.ready \in Seq(App) /\ NoDup(k.ready)
  BY KFacts DEF KState, ListsMatch
<1>4. Tail(k.ready) \in Seq(App) /\ NoDup(Tail(k.ready)) /\ Members(Tail(k.ready)) = Members(k.ready) \ {a}
  BY <1>2, <1>3, TailMembers DEF Act
<1>5. /\ k' \in KState /\ k'.ready = Tail(k.ready) /\ k'.susp = k.susp /\ k'.notready = k.notready
      /\ k'.status = k.status /\ k'.rbits = k.rbits /\ k'.hbits = k.hbits
  BY <1>1, <1>4, KFacts DEF KState
<1>6. ListsMatch(k', live')
  BY <1>1, <1>2, <1>4, <1>5, KFacts DEF ListsMatch
<1>7. MsgTypeOK /\ WaitInv /\ NoMessageMissed /\ AllGood
  BY DEF MessageInv
<1>8. a \notin tim
  BY <1>2, <1>7 DEF WaitInv
<1>9. MsgTypeOK'
  BY <1>1, <1>5, <1>7, <1>8 DEF MsgTypeOK, msgs
<1>10. WaitInv'
  BY <1>1, <1>2, <1>5, <1>6, <1>7 DEF WaitInv, msgs
<1>11. NoMessageMissed'
  BY <1>1, <1>5, <1>7 DEF NoMessageMissed, msgs
<1>12. AllGood'
  BY <1>1, <1>7 DEF AllGood, msgs
<1>. QED BY <1>9, <1>10, <1>11, <1>12 DEF MessageInv

\* A new application.
LEMMA InitAPPLInv == ASSUME MessageInv, NEW a \in App, NEW b \in App, InitAPPL(a, b) PROVE MessageInv'
<1>1. /\ Running(a, "user") /\ b \notin live /\ k' = ApToLastReady(k, b) /\ live' = live \cup {b}
      /\ buf' = [buf EXCEPT ![b] = << >>] /\ box' = [box EXCEPT ![b] = NONE]
      /\ sent' = [sent EXCEPT ![b] = 0] /\ rcvd' = [rcvd EXCEPT ![b] = 0]
      /\ slid' = [slid EXCEPT ![b] = 0] /\ dirty' = [dirty EXCEPT ![b] = Clean]
      /\ mode' = mode /\ pc' = pc /\ tim' = tim
  BY DEF InitAPPL
<1>2. mode = "run" /\ k.ready # << >>
  BY <1>1, RunningIs
<1>3. NoDup(k.ready) /\ b \notin Members(k.ready)
  BY <1>1, KFacts DEF ListsMatch
<1>4. /\ k' \in KState /\ NoDup(k'.ready) /\ k'.ready # << >>
      /\ Members(k'.ready) = Members(k.ready) \cup {b}
      /\ k'.status = [k.status EXCEPT ![b] = "READY"]
      /\ k'.susp = k.susp /\ k'.notready = k.notready
      /\ k'.rbits = k.rbits /\ k'.hbits = k.hbits
  BY <1>1, <1>3, KFacts, ApToLastReadyOK
<1>5. ListsMatch(k', live')
  BY <1>1, <1>4, KFacts DEF ListsMatch
<1>6. MsgTypeOK /\ WaitInv /\ NoMessageMissed /\ AllGood
  BY DEF MessageInv
<1>7. pc[b] = "user" /\ k.rbits[b] = {} /\ b \notin tim
  BY <1>1, <1>6 DEF WaitInv, MsgTypeOK
<1>8. MsgTypeOK'
  <2>1. << >> \in Seq(Msg) /\ Len(<< >>) = 0 /\ Clean \in [Window -> SUBSET Cells]
    BY DEF Clean
  <2>2. buf' \in [App -> Seq(Msg)] /\ \A c \in App : Len(buf'[c]) <= MaxMsgs
    BY <1>1, <1>6, <2>1, Consts DEF MsgTypeOK
  <2>. QED BY <1>1, <1>4, <1>6, <2>1, <2>2, Consts DEF MsgTypeOK
<1>9. \A c \in App \ {b} : /\ k'.status[c] = k.status[c] /\ box'[c] = box[c] /\ buf'[c] = buf[c]
                           /\ sent'[c] = sent[c] /\ rcvd'[c] = rcvd[c] /\ slid'[c] = slid[c]
                           /\ dirty'[c] = dirty[c]
  BY <1>1, <1>4, <1>6, KFacts DEF MsgTypeOK
<1>10. /\ box'[b] = NONE /\ buf'[b] = << >> /\ sent'[b] = 0 /\ rcvd'[b] = 0 /\ slid'[b] = 0
       /\ dirty'[b] = Clean
  BY <1>1, <1>6 DEF MsgTypeOK
<1>11. WaitInv'
  BY <1>1, <1>4, <1>5, <1>6, <1>7, <1>9, <1>10 DEF WaitInv
<1>12. NoMessageMissed'
  BY <1>1, <1>4, <1>6, <1>7, <1>9, Consts DEF NoMessageMissed
<1>13. AllGood'
  <2>1. Good(box'[b], buf'[b], sent'[b], rcvd'[b], slid'[b], dirty'[b])
    BY <1>10, GoodNew
  <2>2. ASSUME NEW c \in (Dst \cap live) \ {b}
        PROVE  Good(box'[c], buf'[c], sent'[c], rcvd'[c], slid'[c], dirty'[c])
    <3>1. c \in App \ {b}
      BY Consts
    <3>2. Good(box[c], buf[c], sent[c], rcvd[c], slid[c], dirty[c])
      BY <1>6 DEF AllGood
    <3>. QED BY <1>9, <3>1, <3>2
  <2>. QED BY <1>1, <2>1, <2>2 DEF AllGood
<1>. QED BY <1>8, <1>11, <1>12, <1>13 DEF MessageInv

-----------------------------------------------------------------------------
(* appl_write and appl_read *)

\* An application waits only when its buffer is empty.
LEMMA ReadWaitInv ==
    ASSUME MessageInv, NEW a \in App, NEW t \in BOOLEAN, ReadWait(a, t)
    PROVE  MessageInv'
<1>1. PICK evs : evs = IF t THEN {MSG, TIM} ELSE {MSG}
  OBVIOUS
<1>2. PICK n : n = BeginWait(k, a, evs)
  OBVIOUS
<1>3. /\ Running(a, "user") /\ a \in Dst /\ buf[a] = << >>
      /\ k' = YieldLists(n) /\ mode' = "kernel" /\ pc' = [pc EXCEPT ![a] = "wait"]
      /\ UNCHANGED << live, msgs >> /\ tim' \subseteq tim \cup {a}
  BY <1>1, <1>2 DEF ReadWait, ApplYield
<1>4. a = Act(k) /\ a \in live /\ pc[a] = "user" /\ k.ready # << >> /\ k.status[a] = "READY"
  BY <1>3, RunningIs
<1>5. evs \in {{MSG}, {MSG, TIM}} /\ evs \subseteq Event /\ MSG \in evs
  BY <1>1, Consts
<1>6. /\ n \in KState /\ n.ready = k.ready /\ n.susp = k.susp /\ n.notready = k.notready
      /\ n.status = [k.status EXCEPT ![a] = "WAITING"]
      /\ n.rbits = [k.rbits EXCEPT ![a] = evs] /\ n.hbits = [k.hbits EXCEPT ![a] = {}]
  BY <1>2, <1>5, KFacts DEF BeginWait, KState, Status
<1>7. ListsMatchBut(n, live, a)
  BY <1>4, <1>6, KFacts, SetStatusOK DEF Status
<1>8. /\ k' \in KState /\ ListsMatch(k', live) /\ k'.rbits = n.rbits /\ k'.hbits = n.hbits
      /\ k'.status[a] = n.status[a] \/ k'.status[a] = "READY"
      /\ \A b \in App \ {a} : k'.status[b] = n.status[b]
                              \/ (n.status[b] = "SUSPENDED" /\ k'.status[b] = "READY")
  <2>1. /\ k' \in KState /\ ListsMatch(k', live) /\ k'.rbits = n.rbits /\ k'.hbits = n.hbits
        /\ k'.status[a] = n.status[a] \/ (k'.status[a] = "READY" /\ n.status[a] = "WAITING")
        /\ k'.status[a] = "WAITING" => n.rbits[a] \cap n.hbits[a] = {}
        /\ \A b \in App \ {a} : k'.status[b] = n.status[b]
                                \/ (n.status[b] = "SUSPENDED" /\ k'.status[b] = "READY")
    <3>1. live \in SUBSET App /\ n \in KState
      BY <1>6, KFacts
    <3>2. PICK y : y = YieldLists(n)
      OBVIOUS
    <3>3. /\ y \in KState /\ ListsMatch(y, live) /\ y.rbits = n.rbits /\ y.hbits = n.hbits
          /\ y.status[a] = n.status[a] \/ (y.status[a] = "READY" /\ n.status[a] = "WAITING")
          /\ y.status[a] = "WAITING" => n.rbits[a] \cap n.hbits[a] = {}
          /\ \A b \in App \ {a} : y.status[b] = n.status[b]
                                  \/ (n.status[b] = "SUSPENDED" /\ y.status[b] = "READY")
      BY ONLY <1>7, <3>1, <3>2, YieldListsOK
    <3>4. k' = y
      BY <1>3, <3>2
    <3>. QED BY ONLY <3>3, <3>4, Zenon
  <2>. QED BY ONLY <2>1, Zenon
<1>9. /\ k'.rbits[a] = evs /\ k'.hbits[a] = {} /\ k'.status[a] # "SUSPENDED"
      /\ \A b \in App \ {a} : /\ k'.rbits[b] = k.rbits[b] /\ k'.hbits[b] = k.hbits[b]
                              /\ k.status[b] # "SUSPENDED" => k'.status[b] = k.status[b]
  BY <1>6, <1>8, KFacts
<1>10. MsgTypeOK /\ WaitInv /\ NoMessageMissed /\ AllGood
  BY DEF MessageInv
<1>11. box[a] = NONE /\ pc \in [App -> {"user", "wait"}]
  BY <1>4, <1>10 DEF WaitInv, MsgTypeOK
<1>12. MsgTypeOK'
  BY <1>3, <1>4, <1>8, <1>10 DEF MsgTypeOK, msgs
<1>13. WaitInv'
  <2>1. \A b \in App : pc'[b] = IF b = a THEN "wait" ELSE pc[b]
    BY <1>3, <1>11
  <2>. QED BY <1>3, <1>4, <1>5, <1>8, <1>9, <1>10, <2>1 DEF WaitInv, msgs
<1>14. NoMessageMissed'
  <2>1. SUFFICES ASSUME NEW b \in Dst \cap live, MSG \in k'.rbits[b]
                 PROVE  /\ MSG \notin k'.hbits[b] => buf[b] = << >> /\ box[b] = NONE
                        /\ MSG \in k'.hbits[b] => box[b] # NONE /\ k'.status[b] \in {"READY", "STOPPED"}
    BY <1>3 DEF NoMessageMissed, msgs
  <2>2. CASE b = a
    BY <1>3, <1>9, <1>11, <2>2
  <2>3. CASE b # a
    <3>1. b \in App \ {a} /\ MSG \in k.rbits[b]
      BY <1>9, <2>1, <2>3, Consts
    <3>2. /\ MSG \notin k.hbits[b] => buf[b] = << >> /\ box[b] = NONE
          /\ MSG \in k.hbits[b] => box[b] # NONE /\ k.status[b] \in {"READY", "STOPPED"}
      BY <1>10, <3>1 DEF NoMessageMissed
    <3>. QED BY <1>9, <3>1, <3>2
  <2>. QED BY <2>2, <2>3
<1>15. AllGood'
  BY <1>3, <1>10 DEF AllGood, msgs
<1>. QED BY <1>12, <1>13, <1>14, <1>15 DEF MessageInv

\* Types of the messages of one application.
LEMMA MFacts ==
    ASSUME MessageInv, NEW a \in App
    PROVE  /\ buf[a] \in Seq(Msg) /\ Len(buf[a]) <= MaxMsgs /\ Len(buf[a]) \in Nat
           /\ box[a] \in Msg \cup {NONE}
           /\ sent[a] \in 0..MaxPlain /\ rcvd[a] \in 0..MaxPlain /\ slid[a] \in 0..MaxSlid
           /\ sent[a] \in Nat /\ rcvd[a] \in Nat /\ slid[a] \in Nat
           /\ dirty[a] \in [Window -> SUBSET Cells]
<1>1. /\ buf \in [App -> Seq(Msg)] /\ \A b \in App : Len(buf[b]) <= MaxMsgs
      /\ box \in [App -> Msg \cup {NONE}]
      /\ sent \in [App -> 0..MaxPlain] /\ rcvd \in [App -> 0..MaxPlain]
      /\ slid \in [App -> 0..MaxSlid]
      /\ dirty \in [App -> [Window -> SUBSET Cells]]
  BY DEF MessageInv, MsgTypeOK
<1>. QED BY <1>1

\* What an application has fetched is accounted for.
LEMMA FetchedIs ==
    ASSUME MessageInv, NEW a \in App, NEW m \in Msg, Fetched(a, m)
    PROVE  /\ rcvd' \in [App -> 0..MaxPlain] /\ dirty' \in [App -> [Window -> SUBSET Cells]]
           /\ rcvd'[a] = NowRcvd(m, rcvd[a]) /\ dirty'[a] = NowDirty(m, dirty[a])
           /\ \A b \in App \ {a} : rcvd'[b] = rcvd[b] /\ dirty'[b] = dirty[b]
<1>1. rcvd \in [App -> 0..MaxPlain] /\ dirty \in [App -> [Window -> SUBSET Cells]]
  BY DEF MessageInv, MsgTypeOK
<1>2. /\ rcvd' = [rcvd EXCEPT ![a] = IF m.kind = "plain" THEN m.id ELSE @]
      /\ dirty' = IF m.kind = "redraw" THEN [dirty EXCEPT ![a][m.win] = @ \ CellsOf(m.rect)] ELSE dirty
  BY DEF Fetched
<1>3. m.kind = "plain" => m.id \in 0..MaxPlain
  <2>1. m.kind = "plain" => m.id \in 1..MaxPlain
    BY MsgIs
  <2>. QED BY <2>1, Consts
<1>4. rcvd' \in [App -> 0..MaxPlain]
  BY <1>1, <1>2, <1>3
<1>5. rcvd'[a] = (IF m.kind = "plain" THEN m.id ELSE rcvd[a]) /\ \A b \in App \ {a} : rcvd'[b] = rcvd[b]
  BY <1>1, <1>2
<1>6. PICK d : d = NowDirty(m, dirty[a])
  OBVIOUS
<1>7. d \in [Window -> SUBSET Cells]
  BY <1>1, <1>6 DEF NowDirty
<1>8. dirty' = [dirty EXCEPT ![a] = d]
  BY <1>1, <1>2, <1>6 DEF NowDirty
<1>9. rcvd'[a] = NowRcvd(m, rcvd[a])
  BY <1>5 DEF NowRcvd
<1>. QED BY <1>1, <1>4, <1>5, <1>6, <1>7, <1>8, <1>9

\* A step that changes only the messages of a, which stay good.
LEMMA OthersGood ==
    ASSUME MessageInv, NEW a \in App, live' = live,
           \A b \in App \ {a} : /\ box'[b] = box[b] /\ buf'[b] = buf[b] /\ sent'[b] = sent[b]
                                /\ rcvd'[b] = rcvd[b] /\ slid'[b] = slid[b] /\ dirty'[b] = dirty[b],
           a \in Dst \cap live => Good(box'[a], buf'[a], sent'[a], rcvd'[a], slid'[a], dirty'[a])
    PROVE  AllGood'
<1>1. ASSUME NEW c \in (Dst \cap live) \ {a}
      PROVE  Good(box'[c], buf'[c], sent'[c], rcvd'[c], slid'[c], dirty'[c])
  <2>1. c \in App \ {a}
    BY Consts
  <2>2. Good(box[c], buf[c], sent[c], rcvd[c], slid[c], dirty[c])
    BY DEF AllGood, MessageInv
  <2>. QED BY <2>1, <2>2
<1>. QED BY <1>1 DEF AllGood

\* The oldest message is fetched.
LEMMA ReadNowInv == ASSUME MessageInv, NEW a \in App, ReadNow(a) PROVE MessageInv'
<1>1. PICK h : h = Head(buf[a])
  OBVIOUS
<1>2. /\ Running(a, "user") /\ a \in Dst /\ buf[a] # << >> /\ buf' = [buf EXCEPT ![a] = Tail(@)]
      /\ Fetched(a, h) /\ UNCHANGED << k, mode, live, pc, tim, box, sent, slid >>
  BY <1>1 DEF ReadNow
<1>3. a \in live /\ pc[a] = "user"
  BY <1>2, RunningIs
<1>4. MsgTypeOK /\ WaitInv /\ NoMessageMissed /\ AllGood
  BY DEF MessageInv
<1>5. box[a] = NONE /\ k.rbits[a] = {}
  BY <1>3, <1>4 DEF WaitInv
<1>6. h \in Msg /\ Tail(buf[a]) \in Seq(Msg) /\ Len(Tail(buf[a])) <= MaxMsgs
  <2>1. Tail(buf[a]) \in Seq(Msg) /\ Len(Tail(buf[a])) < Len(buf[a]) /\ Head(buf[a]) \in Msg
    BY <1>2, MFacts, TailIs
  <2>. QED BY <1>1, <2>1, MFacts, Consts
<1>7. /\ rcvd' \in [App -> 0..MaxPlain] /\ dirty' \in [App -> [Window -> SUBSET Cells]]
      /\ rcvd'[a] = NowRcvd(h, rcvd[a]) /\ dirty'[a] = NowDirty(h, dirty[a])
      /\ \A b \in App \ {a} : rcvd'[b] = rcvd[b] /\ dirty'[b] = dirty[b]
  BY <1>2, <1>6, FetchedIs
<1>8. buf' \in [App -> Seq(Msg)] /\ buf'[a] = Tail(buf[a]) /\ \A b \in App \ {a} : buf'[b] = buf[b]
  BY <1>2, <1>4, <1>6 DEF MsgTypeOK
<1>9. MsgTypeOK'
  <2>1. \A b \in App : Len(buf'[b]) <= MaxMsgs
    BY <1>4, <1>6, <1>8 DEF MsgTypeOK
  <2>. QED BY <1>2, <1>4, <1>7, <1>8, <2>1 DEF MsgTypeOK
<1>10. WaitInv'
  BY <1>2, <1>4 DEF WaitInv
<1>11. NoMessageMissed'
  BY <1>2, <1>4, <1>5, <1>8, Consts DEF NoMessageMissed
<1>12. AllGood'
  <2>1. Good(NONE, buf[a], sent[a], rcvd[a], slid[a], dirty[a])
    BY <1>2, <1>3, <1>4, <1>5 DEF AllGood
  <2>2. Good(h, Tail(buf[a]), sent[a], rcvd[a], slid[a], dirty[a])
    BY <1>1, <1>2, <2>1, MFacts, GoodTake
  <2>3. Good(NONE, Tail(buf[a]), sent[a], rcvd'[a], slid[a], dirty'[a])
    <3>1. PICK t, rc, rc2, dr, dr2 : /\ t = Tail(buf[a]) /\ rc = rcvd[a] /\ rc2 = rcvd'[a]
                                     /\ dr = dirty[a] /\ dr2 = dirty'[a]
      OBVIOUS
    <3>2. /\ t \in Seq(Msg) /\ sent[a] \in Nat /\ rc \in Nat /\ h \in Msg
          /\ dr \in [Window -> SUBSET Cells]
      BY <1>6, <3>1, MFacts
    <3>3. /\ Good(h, t, sent[a], rc, slid[a], dr)
          /\ rc2 = NowRcvd(h, rc) /\ dr2 = NowDirty(h, dr)
      BY <1>7, <2>2, <3>1, Zenon
    <3>4. Good(NONE, t, sent[a], rc2, slid[a], dr2)
      BY ONLY <3>2, <3>3, GoodFetch, Zenon
    <3>. QED BY <3>1, <3>4, Zenon
  <2>4. Good(box'[a], buf'[a], sent'[a], rcvd'[a], slid'[a], dirty'[a])
    BY <1>2, <1>5, <1>8, <2>3
  <2>. QED BY <1>2, <1>7, <1>8, <2>4, OthersGood
<1>. QED BY <1>9, <1>10, <1>11, <1>12 DEF MessageInv

\* The wait is over.
LEMMA ReadRetInv == ASSUME MessageInv, NEW a \in App, ReadRet(a) PROVE MessageInv'
<1>1. /\ Running(a, "wait") /\ k' = EndWait(k, a) /\ tim' = tim \ {a} /\ box' = [box EXCEPT ![a] = NONE]
      /\ pc' = [pc EXCEPT ![a] = "user"] /\ UNCHANGED << mode, live, buf, sent, slid >>
      /\ IF box[a] = NONE THEN UNCHANGED << rcvd, dirty >> ELSE Fetched(a, box[a])
  BY DEF ReadRet
<1>2. a \in live /\ pc[a] = "wait" /\ mode = "run" /\ k.ready # << >>
  BY <1>1, RunningIs
<1>3. MsgTypeOK /\ WaitInv /\ NoMessageMissed /\ AllGood
  BY DEF MessageInv
<1>4. a \in Dst
  BY <1>2, <1>3 DEF WaitInv
<1>5. /\ k' \in KState /\ k'.ready = k.ready /\ k'.susp = k.susp /\ k'.notready = k.notready
      /\ k'.status = k.status /\ k'.rbits = [k.rbits EXCEPT ![a] = {}]
      /\ k'.hbits = [k.hbits EXCEPT ![a] = {}]
  BY <1>1, KFacts DEF EndWait, KState
<1>6. ListsMatch(k', live)
  BY <1>5, KFacts DEF ListsMatch
<1>7. /\ k'.rbits[a] = {} /\ pc'[a] = "user" /\ box'[a] = NONE /\ a \notin tim'
      /\ \A b \in App \ {a} : /\ k'.rbits[b] = k.rbits[b] /\ k'.hbits[b] = k.hbits[b]
                              /\ box'[b] = box[b] /\ pc'[b] = pc[b]
  BY <1>1, <1>3, <1>5, KFacts DEF MsgTypeOK
<1>8. /\ rcvd' \in [App -> 0..MaxPlain] /\ dirty' \in [App -> [Window -> SUBSET Cells]]
      /\ \A b \in App \ {a} : rcvd'[b] = rcvd[b] /\ dirty'[b] = dirty[b]
      /\ Good(NONE, buf[a], sent[a], rcvd'[a], slid[a], dirty'[a])
  <2>1. Good(box[a], buf[a], sent[a], rcvd[a], slid[a], dirty[a])
    BY <1>2, <1>3, <1>4 DEF AllGood
  <2>2. CASE box[a] = NONE
    BY <1>1, <1>3, <2>1, <2>2 DEF MsgTypeOK
  <2>3. CASE box[a] # NONE
    <3>1. PICK m : m = box[a]
      OBVIOUS
    <3>2. m \in Msg /\ Fetched(a, m)
      BY <1>1, <2>3, <3>1, MFacts
    <3>3. /\ rcvd' \in [App -> 0..MaxPlain] /\ dirty' \in [App -> [Window -> SUBSET Cells]]
          /\ rcvd'[a] = NowRcvd(m, rcvd[a]) /\ dirty'[a] = NowDirty(m, dirty[a])
          /\ \A b \in App \ {a} : rcvd'[b] = rcvd[b] /\ dirty'[b] = dirty[b]
      BY <3>2, FetchedIs
    <3>4. Good(NONE, buf[a], sent[a], rcvd'[a], slid[a], dirty'[a])
      <4>1. /\ buf[a] \in Seq(Msg) /\ sent[a] \in Nat /\ rcvd[a] \in Nat
            /\ dirty[a] \in [Window -> SUBSET Cells]
        BY MFacts
      <4>2. Good(m, buf[a], sent[a], rcvd[a], slid[a], dirty[a])
        BY <2>1, <3>1
      <4>. QED BY ONLY <3>2, <3>3, <4>1, <4>2, GoodFetch, Zenon
    <3>. QED BY <3>3, <3>4
  <2>. QED BY <2>2, <2>3
<1>9. MsgTypeOK'
  <2>1. box' \in [App -> Msg \cup {NONE}] /\ pc' \in [App -> {"user", "wait"}]
    BY <1>1, <1>3 DEF MsgTypeOK
  <2>. QED BY <1>1, <1>3, <1>5, <1>8, <2>1 DEF MsgTypeOK
<1>10. WaitInv'
  BY <1>1, <1>2, <1>3, <1>5, <1>6, <1>7 DEF WaitInv
<1>11. NoMessageMissed'
  BY <1>1, <1>3, <1>5, <1>7, Consts DEF NoMessageMissed
<1>12. AllGood'
  BY <1>1, <1>7, <1>8, OthersGood
<1>. QED BY <1>9, <1>10, <1>11, <1>12 DEF MessageInv

\* The buffer is thrown away.
LEMMA FlushMsgbufInv == ASSUME MessageInv, NEW a \in App, FlushMsgbuf(a) PROVE MessageInv'
<1>1. /\ Running(a, "user") /\ a \in Dst /\ buf' = [buf EXCEPT ![a] = << >>]
      /\ rcvd' = [rcvd EXCEPT ![a] = sent[a]] /\ dirty' = [dirty EXCEPT ![a] = Clean]
      /\ UNCHANGED << k, mode, live, pc, tim, box, sent, slid >>
  BY DEF FlushMsgbuf
<1>2. a \in live /\ pc[a] = "user"
  BY <1>1, RunningIs
<1>3. MsgTypeOK /\ WaitInv /\ NoMessageMissed /\ AllGood
  BY DEF MessageInv
<1>4. box[a] = NONE
  BY <1>2, <1>3 DEF WaitInv
<1>5. << >> \in Seq(Msg) /\ Len(<< >>) = 0 /\ Clean \in [Window -> SUBSET Cells]
  BY DEF Clean
<1>6. /\ buf' \in [App -> Seq(Msg)] /\ rcvd' \in [App -> 0..MaxPlain]
      /\ dirty' \in [App -> [Window -> SUBSET Cells]]
      /\ buf'[a] = << >> /\ rcvd'[a] = sent[a] /\ dirty'[a] = Clean
      /\ \A b \in App \ {a} : buf'[b] = buf[b] /\ rcvd'[b] = rcvd[b] /\ dirty'[b] = dirty[b]
  BY <1>1, <1>3, <1>5 DEF MsgTypeOK
<1>7. MsgTypeOK'
  <2>1. \A b \in App : Len(buf'[b]) <= MaxMsgs
    <3>1. \A b \in App : Len(buf[b]) <= MaxMsgs
      BY <1>3 DEF MsgTypeOK
    <3>2. Len(buf'[a]) = 0
      BY <1>5, <1>6
    <3>3. Len(buf'[a]) <= MaxMsgs
      BY ONLY <3>2, Consts
    <3>. QED BY ONLY <1>6, <3>1, <3>3, Zenon
  <2>. QED BY <1>1, <1>3, <1>6, <2>1 DEF MsgTypeOK
<1>8. WaitInv'
  BY <1>1, <1>3 DEF WaitInv
<1>9. NoMessageMissed'
  BY <1>1, <1>3, <1>6, Consts DEF NoMessageMissed
<1>10. AllGood'
  <2>1. Good(NONE, << >>, sent[a], sent[a], slid[a], Clean)
    BY MFacts, GoodNew
  <2>2. Good(box'[a], buf'[a], sent'[a], rcvd'[a], slid'[a], dirty'[a])
    BY <1>1, <1>4, <1>6, <2>1
  <2>. QED BY <1>1, <1>6, <2>2, OthersGood
<1>. QED BY <1>7, <1>8, <1>9, <1>10 DEF MessageInv

\* appl_write: the message is put into the buffer or handed over.
LEMMA ApplWriteInv ==
    ASSUME MessageInv, NEW a \in App, NEW d \in Dst, NEW m \in Msg, ApplWrite(a, d, m),
           m.kind = "plain" => m.id = sent[d] + 1
    PROVE  MessageInv'
<1>1. /\ Running(a, "user") /\ d \in live /\ Len(buf[d]) < MaxMsgs
      /\ sent' = [sent EXCEPT ![d] = IF m.kind = "plain" THEN m.id ELSE @]
      /\ slid' = [slid EXCEPT ![d] = IF m.kind = "slid" THEN m.id ELSE @]
      /\ dirty' = IF m.kind = "redraw" THEN [dirty EXCEPT ![d][m.win] = @ \cup CellsOf(m.rect)] ELSE dirty
      /\ UNCHANGED << mode, live, pc, tim, rcvd >>
  BY DEF ApplWrite
<1>2. PICK smart \in Smart : HandOver(d, Merge(buf[d], m, smart))
  BY DEF ApplWrite
<1>3. PICK b : b = Merge(buf[d], m, smart)
  OBVIOUS
<1>4. d \in App /\ smart \in BOOLEAN
  BY Consts
<1>5. MsgTypeOK /\ WaitInv /\ NoMessageMissed /\ AllGood
  BY DEF MessageInv
<1>6. mode = "run" /\ k.ready # << >>
  BY <1>1, RunningIs
<1>7. b \in Seq(Msg) /\ Len(b) <= MaxMsgs /\ Len(b) \in Nat
  <2>1. b \in Seq(Msg) /\ Len(b) <= Len(buf[d]) + 1
    BY <1>3, <1>4, MFacts, MergeIs
  <2>2. Len(b) \in Nat
    BY <2>1
  <2>. QED BY <1>1, <1>4, <2>1, <2>2, MFacts, Consts
<1>8. /\ sent' \in [App -> 0..MaxPlain] /\ slid' \in [App -> 0..MaxSlid]
      /\ sent'[d] = (IF m.kind = "plain" THEN m.id ELSE sent[d])
      /\ slid'[d] = (IF m.kind = "slid" THEN m.id ELSE slid[d])
      /\ \A c \in App \ {d} : sent'[c] = sent[c] /\ slid'[c] = slid[c]
  <2>1. (m.kind = "plain" => m.id \in 0..MaxPlain) /\ (m.kind = "slid" => m.id \in 0..MaxSlid)
    <3>1. (m.kind = "plain" => m.id \in 1..MaxPlain) /\ (m.kind = "slid" => m.id \in 1..MaxSlid)
      BY MsgIs
    <3>. QED BY <3>1, Consts
  <2>2. sent \in [App -> 0..MaxPlain] /\ slid \in [App -> 0..MaxSlid]
    BY <1>5 DEF MsgTypeOK
  <2>3. (IF m.kind = "plain" THEN m.id ELSE sent[d]) \in 0..MaxPlain
    BY <1>4, <2>1, <2>2
  <2>4. (IF m.kind = "slid" THEN m.id ELSE slid[d]) \in 0..MaxSlid
    BY <1>4, <2>1, <2>2
  <2>. QED BY <1>1, <1>4, <2>2, <2>3, <2>4
<1>9. /\ dirty' \in [App -> [Window -> SUBSET Cells]]
      /\ dirty'[d] = (IF m.kind = "redraw" THEN [dirty[d] EXCEPT ![m.win] = @ \cup CellsOf(m.rect)]
                      ELSE dirty[d])
      /\ \A c \in App \ {d} : dirty'[c] = dirty[c]
  <2>1. dirty \in [App -> [Window -> SUBSET Cells]]
    BY <1>5 DEF MsgTypeOK
  <2>2. PICK e : e = IF m.kind = "redraw" THEN [dirty[d] EXCEPT ![m.win] = @ \cup CellsOf(m.rect)] ELSE dirty[d]
    OBVIOUS
  <2>3. CellsOf(m.rect) \subseteq Cells
    BY DEF CellsOf
  <2>4. e \in [Window -> SUBSET Cells]
    <3>1. PICK g, z : g = dirty[d] /\ z = CellsOf(m.rect)
      OBVIOUS
    <3>2. g \in [Window -> SUBSET Cells] /\ z \subseteq Cells
      BY <1>4, <2>1, <2>3, <3>1
    <3>3. PICK w : w = m.win
      OBVIOUS
    <3>4. [g EXCEPT ![w] = @ \cup z] \in [Window -> SUBSET Cells]
      BY ONLY <3>2
    <3>. QED BY <2>2, <3>1, <3>2, <3>3, <3>4, Zenon
  <2>5. dirty' = [dirty EXCEPT ![d] = e]
    BY <1>1, <1>4, <2>1, <2>2
  <2>. QED BY <1>4, <2>1, <2>2, <2>4, <2>5
<1>10. Good(box[d], b, sent'[d], rcvd[d], slid'[d], dirty'[d])
  <2>1. Good(box[d], buf[d], sent[d], rcvd[d], slid[d], dirty[d])
    BY <1>1, <1>5 DEF AllGood
  <2>2. /\ box[d] \in Msg \cup {NONE} /\ buf[d] \in Seq(Msg) /\ sent[d] \in Nat /\ rcvd[d] \in Nat
        /\ dirty[d] \in [Window -> SUBSET Cells]
    BY <1>4, MFacts
  <2>3. /\ sent'[d] = (IF m.kind = "plain" THEN m.id ELSE sent[d])
        /\ slid'[d] = (IF m.kind = "slid" THEN m.id ELSE slid[d])
        /\ dirty'[d] = (IF m.kind = "redraw" THEN [dirty[d] EXCEPT ![m.win] = @ \cup CellsOf(m.rect)]
                        ELSE dirty[d])
    BY <1>8, <1>9
  <2>4. m.kind = "plain" => m.id = sent[d] + 1
    OBVIOUS
  <2>5. PICK bx, bf, sn, rc, sl, dr : /\ bx = box[d] /\ bf = buf[d] /\ sn = sent[d]
                                      /\ rc = rcvd[d] /\ sl = slid[d] /\ dr = dirty[d]
    OBVIOUS
  <2>6. PICK sn2, sl2, dr2 : sn2 = sent'[d] /\ sl2 = slid'[d] /\ dr2 = dirty'[d]
    OBVIOUS
  <2>7. /\ bx \in Msg \cup {NONE} /\ bf \in Seq(Msg) /\ sn \in Nat /\ rc \in Nat
        /\ dr \in [Window -> SUBSET Cells] /\ Good(bx, bf, sn, rc, sl, dr)
        /\ m \in Msg /\ smart \in BOOLEAN /\ (m.kind = "plain" => m.id = sn + 1)
        /\ b = Merge(bf, m, smart)
    BY <1>3, <1>4, <2>1, <2>2, <2>4, <2>5
  <2>8. sn2 = Latest(sn, m, "plain") /\ sl2 = Latest(sl, m, "slid") /\ dr2 = Asked(dr, m)
    BY <2>3, <2>5, <2>6 DEF Latest, Asked
  <2>9. Good(bx, b, sn2, rc, sl2, dr2)
    BY ONLY <2>7, <2>8, GoodSend
  <2>. QED BY <2>5, <2>6, <2>9
<1>11. CASE MSG \in k.rbits[d] \ k.hbits[d]
  <2>1. /\ box' = [box EXCEPT ![d] = Head(b)] /\ buf' = [buf EXCEPT ![d] = Tail(b)]
        /\ k' = EventHappened(k, d, MSG)
    BY <1>2, <1>3, <1>11 DEF HandOver
  <2>2. buf[d] = << >> /\ box[d] = NONE
    BY <1>1, <1>5, <1>11 DEF NoMessageMissed
  <2>3. pc[d] = "wait" /\ k.status[d] # "SUSPENDED"
    BY <1>4, <1>5, <1>11 DEF WaitInv, MsgTypeOK
  <2>4. b = << m >>
    <3>1. Alike(<< >>, m) = {}
      BY DEF Alike
    <3>2. b = Append(<< >>, m)
      BY <1>3, <2>2, <3>1 DEF Merge
    <3>. QED BY <3>2
  <2>5. b # << >> /\ Head(b) = m /\ Tail(b) = << >> /\ m # NONE
    BY <2>4, MsgIs
  <2>6. /\ box' \in [App -> Msg \cup {NONE}] /\ buf' \in [App -> Seq(Msg)]
        /\ box'[d] = m /\ buf'[d] = << >>
        /\ \A c \in App \ {d} : box'[c] = box[c] /\ buf'[c] = buf[c]
    <3>1. << >> \in Seq(Msg) /\ box \in [App -> Msg \cup {NONE}] /\ buf \in [App -> Seq(Msg)]
      BY <1>5 DEF MsgTypeOK
    <3>. QED BY <1>4, <2>1, <2>5, <3>1
  <2>7. /\ k' \in KState /\ ListsMatch(k', live) /\ k'.rbits = k.rbits
        /\ k'.hbits = [k.hbits EXCEPT ![d] = @ \cup {MSG}]
        /\ k.status[d] = "WAITING" /\ (k.hbits[d] \cup {MSG}) \cap k.rbits[d] # {} =>
              k'.status = [k.status EXCEPT ![d] = "READY"]
        /\ ~(k.status[d] = "WAITING" /\ (k.hbits[d] \cup {MSG}) \cap k.rbits[d] # {}) =>
              k'.status = k.status
        /\ k'.ready # << >>
    BY <1>1, <1>6, <2>1, <2>3, KFacts, Consts, EventHappenedOK
  <2>8. /\ k'.status[d] \in {"READY", "STOPPED"} /\ MSG \in k'.hbits[d]
        /\ \A c \in App \ {d} : k'.status[c] = k.status[c] /\ k'.hbits[c] = k.hbits[c]
    <3>1. (k.hbits[d] \cup {MSG}) \cap k.rbits[d] # {}
      BY <1>11
    <3>2. k.status[d] \in {"READY", "STOPPED", "WAITING"}
      BY <1>4, <2>3, KFacts DEF Status
    <3>3. CASE k.status[d] = "WAITING"
      <4>1. k'.status = [k.status EXCEPT ![d] = "READY"]
        BY <2>7, <3>1, <3>3
      <4>. QED BY <1>4, <2>7, <4>1, KFacts
    <3>4. CASE k.status[d] # "WAITING"
      <4>1. k'.status = k.status
        BY <2>7, <3>4
      <4>. QED BY <1>4, <2>7, <3>2, <3>4, <4>1, KFacts
    <3>. QED BY <3>3, <3>4
  <2>9. MsgTypeOK'
    <3>1. \A c \in App : Len(buf'[c]) <= MaxMsgs
      <4>1. \A c \in App : Len(buf[c]) <= MaxMsgs
        BY <1>5 DEF MsgTypeOK
      <4>2. Len(buf'[d]) = 0
        BY <2>6
      <4>3. Len(buf'[d]) <= MaxMsgs
        BY ONLY <4>2, Consts
      <4>. QED BY ONLY <2>6, <4>1, <4>3, Zenon
    <3>. QED BY <1>1, <1>5, <1>8, <1>9, <2>6, <2>7, <3>1 DEF MsgTypeOK
  <2>10. WaitInv'
    BY <1>1, <1>5, <1>6, <2>3, <2>6, <2>7, <2>8 DEF WaitInv
  <2>11. NoMessageMissed'
    BY <1>1, <1>4, <1>5, <2>5, <2>6, <2>7, <2>8, Consts DEF NoMessageMissed
  <2>12. AllGood'
    <3>1. Good(NONE, b, sent'[d], rcvd[d], slid'[d], dirty'[d])
      BY <1>10, <2>2
    <3>2. sent'[d] \in Nat /\ rcvd[d] \in Nat
      BY <1>4, <1>8, MFacts
    <3>3. Good(m, << >>, sent'[d], rcvd[d], slid'[d], dirty'[d])
      BY <1>7, <2>5, <3>1, <3>2, GoodTake
    <3>4. Good(box'[d], buf'[d], sent'[d], rcvd'[d], slid'[d], dirty'[d])
      BY <1>1, <2>6, <3>3
    <3>5. \A c \in App \ {d} :
             /\ box'[c] = box[c] /\ buf'[c] = buf[c] /\ sent'[c] = sent[c]
             /\ rcvd'[c] = rcvd[c] /\ slid'[c] = slid[c] /\ dirty'[c] = dirty[c]
      BY <1>1, <1>4, <1>8, <1>9, <2>6
    <3>. QED BY <1>1, <1>4, <3>4, <3>5, OthersGood, ZenonT(40)
  <2>. QED BY <2>9, <2>10, <2>11, <2>12 DEF MessageInv
<1>12. CASE ~(MSG \in k.rbits[d] \ k.hbits[d])
  <2>1. buf' = [buf EXCEPT ![d] = b] /\ k' = k /\ box' = box
    BY <1>2, <1>3, <1>12 DEF HandOver
  <2>2. buf' \in [App -> Seq(Msg)] /\ buf'[d] = b /\ \A c \in App \ {d} : buf'[c] = buf[c]
    BY <1>4, <1>5, <1>7, <2>1 DEF MsgTypeOK
  <2>3. MsgTypeOK'
    <3>1. \A c \in App : Len(buf'[c]) <= MaxMsgs
      BY <1>5, <1>7, <2>2 DEF MsgTypeOK
    <3>. QED BY <1>1, <1>5, <1>8, <1>9, <2>1, <2>2, <3>1 DEF MsgTypeOK
  <2>4. WaitInv'
    BY <1>1, <1>5, <2>1 DEF WaitInv
  <2>5. NoMessageMissed'
    BY <1>1, <1>5, <1>12, <2>1, <2>2, Consts DEF NoMessageMissed
  <2>6. AllGood'
    <3>1. Good(box'[d], buf'[d], sent'[d], rcvd'[d], slid'[d], dirty'[d])
      BY <1>1, <1>10, <2>1, <2>2
    <3>. QED BY <1>1, <1>4, <1>8, <1>9, <2>1, <2>2, <3>1, OthersGood
  <2>. QED BY <2>3, <2>4, <2>5, <2>6 DEF MessageInv
<1>. QED BY <1>11, <1>12

-----------------------------------------------------------------------------
(* The theorems *)

\* Every step keeps the invariant.
LEMMA NextMessageInv == MessageInv /\ [Next]_vars => MessageInv'
<1>1. SUFFICES ASSUME MessageInv, [Next]_vars PROVE MessageInv'
  OBVIOUS
<1>2. CASE UNCHANGED vars
  BY <1>1, <1>2 DEF vars, MessageInv, MsgTypeOK, WaitInv, NoMessageMissed, AllGood
<1>3. CASE Switch
  BY <1>1, <1>3, SwitchInv
<1>4. ASSUME NEW b \in App, HandleTim(b) PROVE MessageInv'
  BY <1>1, <1>4, HandleTimInv
<1>5. ASSUME NEW a \in App, AppStep(a) PROVE MessageInv'
  <2>1. CASE ReadNow(a) \/ ReadRet(a) \/ FlushMsgbuf(a) \/ ApplSuspend(a) \/ EndThread(a)
    BY <1>1, <2>1, ReadNowInv, ReadRetInv, FlushMsgbufInv, ApplSuspendInv, EndThreadInv
  <2>2. ASSUME NEW t \in BOOLEAN, ReadWait(a, t) PROVE MessageInv'
    BY <1>1, <2>2, ReadWaitInv
  <2>3. ASSUME NEW d \in Dst, SendPlain(a, d) PROVE MessageInv'
    <3>1. sent[d] < MaxPlain /\ ApplWrite(a, d, Plain(sent[d] + 1))
      BY <2>3 DEF SendPlain
    <3>2. d \in App
      BY Consts
    <3>3. sent[d] + 1 \in 1..MaxPlain
      BY <1>1, <3>1, <3>2, MFacts, Consts
    <3>. QED BY <1>1, <3>1, <3>3, PlainIs, ApplWriteInv
  <2>4. ASSUME NEW d \in Dst, SendSlid(a, d) PROVE MessageInv'
    <3>1. slid[d] < MaxSlid /\ ApplWrite(a, d, Slid(slid[d] + 1))
      BY <2>4 DEF SendSlid
    <3>2. d \in App
      BY Consts
    <3>3. slid[d] + 1 \in 1..MaxSlid
      BY <1>1, <3>1, <3>2, MFacts, Consts
    <3>. QED BY <1>1, <3>1, <3>3, SlidIs, ApplWriteInv
  <2>5. ASSUME NEW d \in Dst, NEW r \in Redraws, SendRedraw(a, d, r[1], r[2]) PROVE MessageInv'
    <3>1. ApplWrite(a, d, Redraw(r[1], r[2]))
      BY <2>5 DEF SendRedraw
    <3>2. r[1] \in Window /\ r[2] \in Rect
      BY MessageAssumption DEF Rect
    <3>. QED BY <1>1, <3>1, <3>2, RedrawIs, ApplWriteInv
  <2>6. ASSUME NEW b \in App, StopThread(a, b) \/ ContThread(a, b) \/ InitAPPL(a, b) PROVE MessageInv'
    BY <1>1, <2>6, StopThreadInv, ContThreadInv, InitAPPLInv
  <2>. QED BY <1>5, <2>1, <2>2, <2>3, <2>4, <2>5, <2>6 DEF AppStep
<1>. QED BY <1>1, <1>2, <1>3, <1>4, <1>5 DEF Next

\* The invariant holds always.
LEMMA MessageInvAlways == Spec => []MessageInv
BY InitMessageInv, NextMessageInv, PTL DEF Spec

\* Types: whatever applications send each other, merged or not, ap_buf never
\* holds more than ap_buflen bytes (appl_write, rw_ap_buf), and timers belong
\* to applications that exist.
THEOREM MessagesTyped == Spec => []MsgTypeOK
<1>1. MessageInv => MsgTypeOK
  BY DEF MessageInv
<1>. QED BY <1>1, MessageInvAlways, PTL

\* No application waits in evnt_mesag or evnt_xmesag while a message is in its
\* buffer; one that was given a message is awake or stopped.
THEOREM MessagesNotMissed == Spec => []NoMessageMissed
<1>1. MessageInv => NoMessageMissed
  BY DEF MessageInv
<1>. QED BY <1>1, MessageInvAlways, PTL

\* Messages that are not merged are fetched in the order in which appl_write
\* accepted them, each once.
THEOREM MessagesInOrder == Spec => []InOrder
<1>1. MessageInv => InOrder
  BY GoodMeans DEF MessageInv
<1>. QED BY <1>1, MessageInvAlways, PTL

\* rw_ap_buf forgets no cell that was to be redrawn, however many redraws it
\* merges, and keeps at most two redraws of a window and one slid message.
THEOREM MergingForgetsNothing == Spec => []Merged
<1>1. MessageInv => Merged
  BY GoodMeans DEF MessageInv
<1>. QED BY <1>1, MessageInvAlways, PTL
=============================================================================
