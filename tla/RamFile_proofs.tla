--------------------------- MODULE RamFile_proofs ---------------------------
(***************************************************************************)
(* The RAM disk's files for any files, any memory, any block size and any  *)
(* calls whose end is a LONG: blocks are never shared, positions stay      *)
(* inside the file and the file inside its blocks, no read passes the end, *)
(* and every step is a step of FileSpec or leaves it alone.                *)
(***************************************************************************)
EXTENDS RamFile, FiniteSetTheorems, SequenceTheorems, WellFoundedInduction, TLAPS

-----------------------------------------------------------------------------
(* Arithmetic *)

\* Division with remainder by a block size.
LEMMA DivMod ==
    ASSUME NEW a \in Nat, NEW b \in Nat \ {0}
    PROVE  a \div b \in Nat /\ a % b \in 0..(b - 1) /\ a = (a \div b) * b + (a % b)
OBVIOUS

\* Quotient and remainder are the only numbers like that.
LEMMA DivUnique ==
    ASSUME NEW b \in Nat \ {0}, NEW q \in Nat, NEW r \in 0..(b - 1), NEW a, a = q * b + r
    PROVE  a \div b = q /\ a % b = r
OBVIOUS

\* More blocks hold more bytes.
LEMMA TimesMonotone ==
    ASSUME NEW a \in Int, NEW c \in Int, NEW b \in Nat, a <= c
    PROVE  a * b <= c * b
OBVIOUS

\* Multiplication distributes over a sum.
LEMMA TimesPlus ==
    ASSUME NEW a \in Int, NEW c \in Int, NEW b \in Int
    PROVE  (a + c) * b = a * b + c * b /\ a * b \in Int
OBVIOUS

\* A set of numbers that is not empty has a least one.
LEMMA LeastNat ==
    ASSUME NEW T \in SUBSET Nat, T # {}
    PROVE  \E n \in T : \A m \in T : n <= m
<1>1. PICK n \in T : \A m \in T : ~(<< m, n >> \in OpToRel(<, Nat))
  BY WFMin, NatLessThanWellFounded
<1>2. \A m \in T : ~(m < n)
  BY <1>1 DEF OpToRel
<1>. QED BY <1>2

\* read and write put byte i of a transfer from position p at the place of
\* byte p + i of the file, however the transfer is cut at the blocks.
LEMMA PlaceOK ==
    ASSUME NEW p \in Nat, NEW i \in Nat
    PROVE  Place(p, i) = << (p + i) \div BS, (p + i) % BS >>
<1>0. BS \in Nat \ {0}
  BY RamFileAssumption
<1>1. PICK s \in Nat, o \in 0..BS : s = (IF p = 0 THEN 0 ELSE (p - 1) \div BS) /\ p = s * BS + o
  <2>1. CASE p = 0
    BY <1>0, <2>1
  <2>2. CASE p # 0
    <3>1. PICK x \in Nat : x = p - 1
      BY <2>2
    <3>2. PICK q \in Nat, r \in 0..(BS - 1) : q = x \div BS /\ r = x % BS /\ x = q * BS + r
      BY <1>0, DivMod
    <3>3. r + 1 \in 0..BS /\ p = q * BS + (r + 1)
      BY <1>0, <3>1, <3>2
    <3>. QED BY <2>2, <3>1, <3>2, <3>3
  <2>. QED BY <2>1, <2>2
<1>2. Place(p, i) = IF i < BS - o THEN << s, o + i >>
                    ELSE << s + 1 + ((i - (BS - o)) \div BS), (i - (BS - o)) % BS >>
  <2>1. p - s * BS = o
    BY <1>0, <1>1
  <2>. QED BY <1>1, <2>1 DEF Place
<1>3. CASE i < BS - o
  <2>1. o + i \in 0..(BS - 1) /\ p + i = s * BS + (o + i)
    BY <1>0, <1>1, <1>3
  <2>2. (p + i) \div BS = s /\ (p + i) % BS = o + i
    <3>1. PICK x \in Nat, t \in 0..(BS - 1) : x = p + i /\ t = o + i /\ x = s * BS + t
      BY <1>0, <2>1
    <3>2. x \div BS = s /\ x % BS = t
      BY <1>0, <3>1
    <3>. QED BY <3>1, <3>2
  <2>. QED BY <1>2, <1>3, <2>2
<1>4. CASE ~(i < BS - o)
  <2>1. PICK j \in Nat : j = i - (BS - o)
    BY <1>0, <1>1, <1>4
  <2>2. PICK q \in Nat, r \in 0..(BS - 1) : q = j \div BS /\ r = j % BS /\ j = q * BS + r
    BY <1>0, <2>1, DivMod
  <2>3. (s + 1 + q) * BS = s * BS + BS + q * BS /\ s + 1 + q \in Nat
    BY <1>0, <1>1, <2>2
  <2>4. p + i = (s + 1 + q) * BS + r
    <3>1. p + i = s * BS + BS + j
      BY <1>0, <1>1, <2>1
    <3>. QED BY <1>0, <2>2, <2>3, <3>1
  <2>5. (p + i) \div BS = s + 1 + q /\ (p + i) % BS = r
    <3>1. PICK x \in Nat, t \in Nat : x = p + i /\ t = s + 1 + q /\ x = t * BS + r
      BY <2>3, <2>4
    <3>2. r \in 0..(BS - 1)
      BY <2>2
    <3>3. x \div BS = t /\ x % BS = r
      <4>1. x = t * BS + r
        BY <3>1
      <4>. QED BY <1>0, <3>2, <4>1, DivUnique
    <3>. QED BY <3>1, <3>3
  <2>. QED BY <1>2, <1>4, <2>1, <2>2, <2>5
<1>. QED BY <1>3, <1>4

-----------------------------------------------------------------------------
(* The invariant *)

\* The types and who owns which block are needed to show that a position is a
\* LONG: all blocks of a file are different, so that they fit into memory.
RamInv == RamTypeOK /\ BlocksOwned /\ SizeFits

\* No block is twice in the list c; all its blocks are f's or free; it begins
\* with f's list.
Distinct(c) == \A i, j \in DOMAIN c : c[i] = c[j] => i = j
FromPool(f, c) == \A i \in DOMAIN c : c[i] \in BlocksOf(f) \cup Free
Prolongs(f, c) == \A i \in DOMAIN chain[f] : c[i] = chain[f][i]

\* A list without repetitions holds no more bytes than memory does.
LEMMA ChainFits ==
    ASSUME NEW c \in Seq(Blk), Distinct(c)
    PROVE  Len(c) * BS <= LMAX
<1>1. Len(c) \in Nat /\ c \in [1..Len(c) -> Blk] /\ DOMAIN c = 1..Len(c)
  OBVIOUS
<1>2. c \in Injection(1..Len(c), Blk)
  BY <1>1 DEF Distinct, Injection, IsInjective
<1>3. IsFiniteSet(Blk) /\ BS \in Nat /\ LMAX \in Nat
  BY MemoryAssumption, RamFileAssumption
<1>4. Cardinality(1..Len(c)) <= Cardinality(Blk)
  BY <1>2, <1>3, FS_Injection
<1>5. Cardinality(1..Len(c)) = Len(c)
  <2>1. PICK n \in Nat : n = Len(c)
    BY <1>1
  <2>2. Cardinality(1..n) = n
    BY ONLY n \in Nat, FS_Interval
  <2>. QED BY ONLY <2>1, <2>2
<1>6. Cardinality(Blk) \in Nat
  BY <1>3, FS_CardinalityType
<1>7. Len(c) * BS <= Cardinality(Blk) * BS
  BY <1>1, <1>3, <1>4, <1>5, <1>6, TimesMonotone
<1>. QED BY <1>1, <1>3, <1>6, <1>7, MemoryAssumption

\* No file and no FD: the invariant does not look at the reply.
LEMMA AnswerInv ==
    ASSUME RamInv, NEW r, Answer(r) PROVE RamInv'
BY DEF Answer, RamInv, RamTypeOK, BlocksOwned, SizeFits, files, fds

\* A step that only moves the position of an open file keeps it inside.
LEMMA MoveInv ==
    ASSUME RamInv, NEW f \in File, NEW p \in Nat, p <= st_size[f],
           fpos' = [fpos EXCEPT ![f] = p], UNCHANGED << files, refcnt, mode >>
    PROVE  RamInv'
<1>1. p \in 0..LMAX
  BY RamFileAssumption DEF RamInv, RamTypeOK
<1>2. RamTypeOK'
  BY <1>1 DEF RamInv, RamTypeOK, files
<1>3. BlocksOwned'
  BY DEF RamInv, BlocksOwned, files
<1>4. SizeFits'
  BY DEF RamInv, RamTypeOK, SizeFits, files
<1>. QED BY <1>2, <1>3, <1>4 DEF RamInv

\* What a file loses or gets back with its list c: a new list of the file's
\* blocks and of free ones, without repetitions, keeps the blocks apart.
LEMMA NewChain ==
    ASSUME RamInv, NEW f \in File, NEW c \in Seq(Blk),
           Distinct(c),
           FromPool(f, c),
           chain' = [chain EXCEPT ![f] = c], st_blocks' = [st_blocks EXCEPT ![f] = Len(c)]
    PROVE  BlocksOwned' /\ chain' \in [File -> Seq(Blk)] /\ st_blocks' \in [File -> Nat]
<1>1. chain \in [File -> Seq(Blk)] /\ st_blocks \in [File -> Nat] /\ Len(c) \in Nat
  BY DEF RamInv, RamTypeOK
<1>2. \A g \in File : st_blocks'[g] = Len(chain'[g])
  BY <1>1 DEF RamInv, BlocksOwned
<1>3. ASSUME NEW g \in File, NEW h \in File, NEW i \in DOMAIN chain'[g], NEW j \in DOMAIN chain'[h],
             chain'[g][i] = chain'[h][j]
      PROVE  g = h /\ i = j
  <2>1. ASSUME NEW x \in File \ {f}, NEW m \in DOMAIN c, NEW n \in DOMAIN chain[x]
        PROVE  c[m] # chain[x][n]
    <3>1. chain[x][n] \in BlocksOf(x)
      BY DEF BlocksOf
    <3>2. chain[x][n] \notin Free
      BY <3>1 DEF Free
    <3>3. chain[x][n] \notin BlocksOf(f)
      BY DEF BlocksOf, RamInv, BlocksOwned
    <3>. QED BY <3>2, <3>3 DEF FromPool
  <2>2. CASE g = f /\ h = f
    BY <1>1, <1>3, <2>2 DEF Distinct
  <2>3. CASE g # f /\ h # f
    BY <1>1, <1>3, <2>3 DEF RamInv, BlocksOwned
  <2>4. CASE g = f /\ h # f
    BY <1>1, <1>3, <2>1, <2>4
  <2>5. CASE g # f /\ h = f
    BY <1>1, <1>3, <2>1, <2>5
  <2>. QED BY <2>2, <2>3, <2>4, <2>5
<1>4. BlocksOwned'
  BY <1>2, <1>3 DEF BlocksOwned
<1>. QED BY <1>1, <1>4

\* Kfree leaves bytes behind
LEMMA FreedType ==
    ASSUME RamInv, NEW B PROVE Freed(B) \in [Blk -> [0..(BS - 1) -> Byte \cup {Junk}]]
BY DEF RamInv, RamTypeOK, Freed, Blank

\* Fopen keeps the invariant: it refuses, opens what is there, truncates, or makes an empty file.
LEMMA FopenInv ==
    ASSUME RamInv, NEW f \in File, NEW m \in Modes, NEW creat, NEW trunc, NEW excl,
           Fopen(f, m, creat, trunc, excl)
    PROVE  RamInv'
<1>0. BS \in Nat \ {0} /\ LMAX \in Nat /\ MaxRef \in Nat \ {0}
  BY RamFileAssumption
<1>1. CASE \E e : Answer(Refuse(e))
  BY <1>1, AnswerInv
<1>2. CASE UNCHANGED files /\ Opened(f, m) /\ chain[f] # << >> /\ refcnt[f] = 0
  <2>1. RamTypeOK'
    BY <1>0, <1>2 DEF RamInv, RamTypeOK, files, Opened
  <2>2. BlocksOwned'
    BY <1>2 DEF RamInv, BlocksOwned, files
  <2>3. ASSUME NEW g \in File
        PROVE  /\ st_size'[g] <= st_blocks'[g] * BS
               /\ refcnt'[g] > 0 => chain'[g] # << >> /\ fpos'[g] <= st_size'[g]
    <3>1. st_size'[g] = st_size[g] /\ st_blocks'[g] = st_blocks[g] /\ chain'[g] = chain[g]
      BY <1>2 DEF files
    <3>2. /\ st_size[g] <= st_blocks[g] * BS /\ st_size[g] \in Nat
          /\ refcnt[g] > 0 => chain[g] # << >> /\ fpos[g] <= st_size[g]
      BY <1>0 DEF RamInv, RamTypeOK, SizeFits
    <3>3. \/ g = f /\ fpos'[g] = 0
          \/ g # f /\ refcnt'[g] = refcnt[g] /\ fpos'[g] = fpos[g]
      BY <1>2 DEF Opened, RamInv, RamTypeOK
    <3>. QED BY ONLY <1>2, <3>1, <3>2, <3>3
  <2>4. SizeFits'
    BY <2>3 DEF SizeFits
  <2>. QED BY <2>1, <2>2, <2>4 DEF RamInv
<1>3. ASSUME NEW b \in Blk, b \in BlocksOf(f) \cup Free,
             chain' = [chain EXCEPT ![f] = << b >>],
             st_size' = [st_size EXCEPT ![f] = 0], st_blocks' = [st_blocks EXCEPT ![f] = 1],
             data' \in [Blk -> [0..(BS - 1) -> Byte \cup {Junk}]], Opened(f, m)
      PROVE  RamInv'
  <2>1. << b >> \in Seq(Blk) /\ DOMAIN << b >> = {1} /\ << b >>[1] = b /\ Len(<< b >>) = 1
    OBVIOUS
  <2>2. BlocksOwned' /\ chain' \in [File -> Seq(Blk)] /\ st_blocks' \in [File -> Nat]
    <3>. DEFINE c == << b >>
    <3>1. /\ c \in Seq(Blk) /\ st_blocks' = [st_blocks EXCEPT ![f] = Len(c)]
          /\ Distinct(c)
          /\ FromPool(f, c)
          /\ chain' = [chain EXCEPT ![f] = c]
      BY <1>3, <2>1 DEF Distinct, FromPool
    <3>. HIDE DEF c
    <3>. QED BY <3>1, NewChain
  <2>3. RamTypeOK'
    BY <1>0, <1>3, <2>2 DEF RamInv, RamTypeOK, Opened
  <2>4. SizeFits'
    BY <1>0, <1>3, <2>1 DEF RamInv, RamTypeOK, SizeFits, Opened
  <2>. QED BY <2>2, <2>3, <2>4 DEF RamInv
<1>4. CASE chain[f] # << >> /\ Truncate(f) /\ Opened(f, m)
  <2>1. chain[f][1] \in Blk /\ chain[f][1] \in BlocksOf(f)
    BY <1>4 DEF RamInv, RamTypeOK, BlocksOf
  <2>2. data' \in [Blk -> [0..(BS - 1) -> Byte \cup {Junk}]]
    BY <1>4, FreedType DEF Truncate
  <2>. QED BY <1>3, <1>4, <2>1, <2>2 DEF Truncate
<1>5. CASE \E b \in Free : NewFile(f, b) /\ Opened(f, m)
  <2>1. PICK b \in Free : NewFile(f, b) /\ Opened(f, m)
    BY <1>5
  <2>2. b \in Blk /\ data' \in [Blk -> [0..(BS - 1) -> Byte \cup {Junk}]]
    BY <2>1 DEF Free, NewFile, RamInv, RamTypeOK
  <2>. QED BY <1>3, <2>1, <2>2 DEF NewFile
<1>. QED BY <1>1, <1>2, <1>4, <1>5 DEF Fopen

\* Fdup keeps the invariant: it only counts.
LEMMA FdupInv ==
    ASSUME RamInv, NEW f \in File, Fdup(f) PROVE RamInv'
<1>1. refcnt[f] + 1 \in 0..MaxRef
  BY RamFileAssumption DEF Fdup
<1>2. RamTypeOK'
  BY <1>1 DEF RamInv, RamTypeOK, Fdup, files
<1>3. BlocksOwned'
  BY DEF RamInv, BlocksOwned, Fdup, files
<1>4. \A g \in File : refcnt'[g] > 0 => refcnt[g] > 0
  BY DEF RamInv, RamTypeOK, Fdup
<1>5. SizeFits'
  BY <1>4 DEF RamInv, SizeFits, Fdup, files
<1>. QED BY <1>2, <1>3, <1>5 DEF RamInv

\* Fclose keeps the invariant: a file without a name gives its blocks back with the last handle.
LEMMA FcloseInv ==
    ASSUME RamInv, NEW f \in File, Fclose(f) PROVE RamInv'
<1>1. refcnt[f] - 1 \in 0..MaxRef /\ 0 \in 0..LMAX
  BY RamFileAssumption DEF RamInv, RamTypeOK, Fclose
<1>2. RamTypeOK'
  <2>1. refcnt' \in [File -> 0..MaxRef]
    BY <1>1 DEF RamInv, RamTypeOK, Fclose
  <2>2. mode' \in [File -> Modes] /\ fpos' \in [File -> 0..LMAX]
    BY <1>1 DEF RamInv, RamTypeOK, Fclose, Modes
  <2>. QED BY <2>1, <2>2 DEF RamInv, RamTypeOK, Fclose, files
<1>3. BlocksOwned'
  BY DEF RamInv, BlocksOwned, Fclose, files
<1>4. SizeFits'
  <2>1. ASSUME NEW g \in File, refcnt'[g] > 0 PROVE chain[g] # << >> /\ fpos'[g] <= st_size[g]
    <3>1. CASE g # f
      BY <2>1, <3>1 DEF RamInv, RamTypeOK, SizeFits, Fclose
    <3>2. CASE g = f
      <4>1. refcnt[f] # 1 /\ refcnt[f] > 0
        BY <2>1, <3>2 DEF RamInv, RamTypeOK, Fclose
      <4>. QED BY <3>2, <4>1 DEF RamInv, RamTypeOK, SizeFits, Fclose
    <3>. QED BY <3>1, <3>2
  <2>. QED BY <2>1 DEF RamInv, SizeFits, Fclose, files
<1>. QED BY <1>2, <1>3, <1>4 DEF RamInv

\* Fdelete keeps the invariant: the blocks go back, those of an open file later.
LEMMA FdeleteInv ==
    ASSUME RamInv, NEW f \in File, Fdelete(f) PROVE RamInv'
<1>1. CASE \E e : Answer(Refuse(e))
  BY <1>1, AnswerInv
<1>2. CASE /\ refcnt[f] = 0 /\ data' = Freed(BlocksOf(f)) /\ chain' = [chain EXCEPT ![f] = << >>]
           /\ st_size' = [st_size EXCEPT ![f] = 0] /\ st_blocks' = [st_blocks EXCEPT ![f] = 0]
           /\ UNCHANGED fds
  <2>. DEFINE c == << >>
  <2>1. /\ c \in Seq(Blk) /\ st_blocks' = [st_blocks EXCEPT ![f] = Len(c)]
        /\ DOMAIN c = {} /\ chain' = [chain EXCEPT ![f] = c]
    BY <1>2
  <2>2. BlocksOwned' /\ chain' \in [File -> Seq(Blk)] /\ st_blocks' \in [File -> Nat]
    <3>. HIDE DEF c
    <3>1. Distinct(c) /\ FromPool(f, c)
      BY <2>1 DEF Distinct, FromPool
    <3>. QED BY <2>1, <3>1, NewChain
  <2>3. RamTypeOK'
    BY <1>2, <2>2, FreedType, RamFileAssumption DEF RamInv, RamTypeOK, fds
  <2>4. SizeFits'
    BY <1>2, RamFileAssumption DEF RamInv, RamTypeOK, SizeFits, fds
  <2>. QED BY <2>2, <2>3, <2>4 DEF RamInv
<1>. QED BY <1>1, <1>2, SMTT(30) DEF Fdelete, RamInv, RamTypeOK

\* The number of bytes a read gives: as many as are asked for and are there.
LEMMA ReadCount ==
    ASSUME ~HugeReads, RamInv, NEW f \in File, refcnt[f] > 0, NEW count \in Counts,
           fpos[f] + count <= LMAX, NEW want, NEW n,
           want = (IF Long(fpos[f] + count) > st_size[f] THEN st_size[f] - fpos[f] ELSE count),
           n = (IF want < 0 THEN 0 ELSE want)
    PROVE  /\ n \in Nat /\ fpos[f] + n <= st_size[f] /\ Long(fpos[f] + n) = fpos[f] + n
           /\ n = IF count < 0 THEN 0
                  ELSE IF count < st_size[f] - fpos[f] THEN count ELSE st_size[f] - fpos[f]
<1>1. /\ count \in Int /\ LMAX \in Nat
      /\ st_size[f] \in 0..LMAX /\ fpos[f] \in 0..LMAX /\ fpos[f] <= st_size[f]
  BY RamFileAssumption DEF RamInv, RamTypeOK, SizeFits
<1>2. Long(fpos[f] + count) = fpos[f] + count
  BY <1>1 DEF Long
<1>3. n \in Nat /\ fpos[f] + n <= st_size[f]
  BY <1>1, <1>2
<1>4. Long(fpos[f] + n) = fpos[f] + n
  BY <1>1, <1>3 DEF Long
<1>. QED BY <1>1, <1>2, <1>3, <1>4

\* Fread keeps the invariant: it moves the position inside of the file.
LEMMA FreadInv ==
    ASSUME ~HugeReads, RamInv, NEW f \in File, NEW count \in Counts, Fread(f, count)
    PROVE  RamInv'
<1>. DEFINE want == IF Long(fpos[f] + count) > st_size[f] THEN st_size[f] - fpos[f] ELSE count
            n == IF want < 0 THEN 0 ELSE want
<1>1. CASE \E e : Answer(Refuse(e))
  BY <1>1, AnswerInv
<1>2. CASE fpos' = [fpos EXCEPT ![f] = Long(@ + n)] /\ UNCHANGED << files, refcnt, mode >>
  <2>1. n \in Nat /\ fpos[f] + n <= st_size[f] /\ Long(fpos[f] + n) = fpos[f] + n
    <3>1. refcnt[f] > 0 /\ fpos[f] + count <= LMAX
      BY DEF Fread
    <3>. QED BY <3>1, ReadCount
  <2>2. fpos' = [fpos EXCEPT ![f] = fpos[f] + n] /\ fpos[f] + n \in Nat
    <3>1. fpos \in [File -> Nat]
      BY RamFileAssumption DEF RamInv, RamTypeOK
    <3>2. fpos[f] + n \in Nat
      BY <2>1, <3>1
    <3>3. fpos' = [fpos EXCEPT ![f] = Long(fpos[f] + n)]
      BY <1>2
    <3>. HIDE DEF n
    <3>4. fpos' = [fpos EXCEPT ![f] = fpos[f] + n]
      BY ONLY <2>1, <3>3, Zenon
    <3>. QED BY <3>2, <3>4
  <2>. HIDE DEF n
  <2>. QED BY <1>2, <2>1, <2>2, MoveInv
<1>. QED BY <1>1, <1>2 DEF Fread

\* Fseek keeps the invariant: it refuses what is outside of the file.
LEMMA FseekInv ==
    ASSUME RamInv, NEW f \in File, NEW s \in Seeks, Fseek(f, s[1], s[2]) PROVE RamInv'
<1>. DEFINE pos == << 0, fpos[f], st_size[f] >>[s[2] + 1] + s[1]
<1>0. CASE \E r : Answer(r)
  BY <1>0, AnswerInv
<1>1. CASE /\ s[2] \in 0..2 /\ ~(pos < 0 \/ pos > st_size[f])
           /\ fpos' = [fpos EXCEPT ![f] = pos] /\ UNCHANGED << files, refcnt, mode >>
  <2>1. s[1] \in Int
    BY RamFileAssumption
  <2>2. fpos[f] \in Nat /\ st_size[f] \in Nat
    BY RamFileAssumption DEF RamInv, RamTypeOK
  <2>3. s[2] = 0 \/ s[2] = 1 \/ s[2] = 2
    BY <1>1
  <2>4. pos \in Nat /\ pos <= st_size[f]
    BY <1>1, <2>1, <2>2, <2>3
  <2>. HIDE DEF pos
  <2>. QED BY <1>1, <2>4, MoveInv
<1>. QED BY <1>0, <1>1 DEF Fseek

\* The loop of getline ends, and at the first byte that stops it.
LEMMA LineLenOK ==
    ASSUME NEW f, NEW size \in Nat
    PROVE  /\ LineLen(f, size) \in 0..size /\ Stops(f, size, LineLen(f, size))
           /\ \A j \in 0..(LineLen(f, size) - 1) : ~Stops(f, size, j)
<1>. DEFINE T == {i \in 0..size : Stops(f, size, i)}
<1>1. size \in T /\ T \in SUBSET Nat
  BY DEF Stops
<1>2. PICK n \in T : \A m \in T : n <= m
  <2>. HIDE DEF T
  <2>. QED BY <1>1, LeastNat
<1>3. n \in 0..size /\ Stops(f, size, n) /\ \A j \in 0..(n - 1) : ~Stops(f, size, j)
  BY <1>2
<1>. QED BY <1>3 DEF LineLen

\* getline leaves the position inside the file.
LEMMA LineInside ==
    ASSUME RamInv, NEW f \in File, NEW size \in Nat, refcnt[f] > 0,
           NEW n, n = LineLen(f, size)
    PROVE  /\ n \in Nat /\ Eol(f, size, n) \in Nat /\ fpos[f] + n + Eol(f, size, n) <= st_size[f]
           /\ \A j \in 0..(n - 1) : ~AtEnd(f, fpos[f] + j)
<1>1. fpos[f] \in Nat /\ st_size[f] \in Nat /\ fpos[f] <= st_size[f]
  BY RamFileAssumption DEF RamInv, RamTypeOK, SizeFits
<1>2. n \in 0..size /\ Stops(f, size, n) /\ \A j \in 0..(n - 1) : ~Stops(f, size, j)
  BY LineLenOK
<1>3. \A j \in 0..(n - 1) : ~AtEnd(f, fpos[f] + j)
  BY <1>2 DEF Stops
<1>4. fpos[f] + n <= st_size[f]
  <2>1. CASE n = 0
    BY <1>1, <2>1
  <2>2. CASE n # 0
    <3>1. ~AtEnd(f, fpos[f] + (n - 1))
      BY <1>2, <1>3, <2>2
    <3>. QED BY <1>1, <1>2, <3>1 DEF AtEnd
  <2>. QED BY <2>1, <2>2
<1>5. Eol(f, size, n) \in Nat /\ fpos[f] + n + Eol(f, size, n) <= st_size[f]
  BY <1>1, <1>2, <1>4 DEF Eol, AtEnd
<1>. QED BY <1>2, <1>3, <1>5

\* Getline keeps the invariant: a line and its end are inside of the file.
LEMMA GetlineInv ==
    ASSUME RamInv, NEW f \in File, NEW size \in Nat, Getline(f, size) PROVE RamInv'
<1>1. PICK n : n = LineLen(f, size)
  OBVIOUS
<1>2. refcnt[f] > 0 /\ fpos' = [fpos EXCEPT ![f] = fpos[f] + n + Eol(f, size, n)]
      /\ UNCHANGED << files, refcnt, mode >>
  BY <1>1 DEF Getline
<1>3. n \in Nat /\ Eol(f, size, n) \in Nat /\ fpos[f] + n + Eol(f, size, n) <= st_size[f]
  BY <1>1, <1>2, LineInside
<1>4. fpos[f] + n + Eol(f, size, n) \in Nat
  BY <1>3, RamFileAssumption DEF RamInv, RamTypeOK
<1>. QED BY <1>2, <1>3, <1>4, MoveInv

\* What write writes fits into the buffer it comes from and into the blocks
\* the file has then.
LEMMA WriteCount ==
    ASSUME RamInv, NEW f \in File, refcnt[f] > 0, NEW buf \in Seq(Byte), NEW new \in Seq(Blk),
           NEW max, max = (st_blocks[f] + Len(new)) * BS,
           NEW n, n = (IF fpos[f] + Len(buf) > max THEN max - fpos[f] ELSE Len(buf))
    PROVE  /\ max \in Nat /\ n \in 0..Len(buf) /\ fpos[f] + n <= max /\ st_size[f] <= max
           /\ st_size[f] \in Nat /\ fpos[f] \in Nat /\ fpos[f] <= st_size[f]
<1>1. /\ fpos[f] \in Nat /\ st_size[f] \in Nat /\ BS \in Nat /\ st_blocks[f] \in Nat
      /\ Len(new) \in Nat /\ Len(buf) \in Nat /\ st_size[f] <= st_blocks[f] * BS
      /\ fpos[f] <= st_size[f]
  BY RamFileAssumption, SMTT(30) DEF RamInv, RamTypeOK, SizeFits
<1>2. max = st_blocks[f] * BS + Len(new) * BS /\ st_blocks[f] * BS \in Nat /\ Len(new) * BS \in Nat
  <2>1. st_blocks[f] * BS \in Nat /\ Len(new) * BS \in Nat
    BY <1>1
  <2>. QED BY <1>1, <2>1, TimesPlus
<1>3. PICK x \in Nat, y \in Nat : x = st_blocks[f] * BS /\ y = Len(new) * BS
  BY <1>2
<1>4. max = x + y /\ st_size[f] <= x
  BY <1>1, <1>2, <1>3
<1>5. x \in Nat /\ y \in Nat /\ fpos[f] \in Nat /\ st_size[f] \in Nat /\ fpos[f] <= st_size[f] /\ Len(buf) \in Nat
      /\ n = (IF fpos[f] + Len(buf) > max THEN max - fpos[f] ELSE Len(buf))
  BY <1>1
<1>6. max \in Nat /\ n \in 0..Len(buf) /\ fpos[f] + n <= max /\ st_size[f] <= max
  BY ONLY <1>4, <1>5
<1>. QED BY <1>1, <1>6

\* The lists that Kmalloc gives
LEMMA NewsOK ==
    ASSUME NEW n \in Nat, NEW new \in News(n)
    PROVE  /\ new \in Seq(Blk) /\ Len(new) = n /\ DOMAIN new = 1..n
           /\ \A i \in DOMAIN new : new[i] \in Free
           /\ \A i, j \in DOMAIN new : new[i] = new[j] => i = j
<1>1. new \in [1..n -> Free] /\ \A i, j \in 1..n : new[i] = new[j] => i = j
  BY DEF News
<1>2. new \in [1..n -> Blk]
  BY <1>1 DEF Free
<1>. QED BY <1>1, <1>2

\* The list of a file that write makes longer.
LEMMA LongerChain ==
    ASSUME RamInv, NEW f \in File, NEW n \in Nat, NEW new \in News(n),
           NEW c, c = chain[f] \o new
    PROVE  /\ c \in Seq(Blk) /\ Len(c) = st_blocks[f] + Len(new)
           /\ Prolongs(f, c)
           /\ Distinct(c)
           /\ FromPool(f, c)
<1>1. chain[f] \in Seq(Blk) /\ Len(chain[f]) = st_blocks[f]
  BY DEF RamInv, RamTypeOK, BlocksOwned
<1>2. /\ new \in Seq(Blk) /\ \A i \in DOMAIN new : new[i] \in Free
      /\ \A i, j \in DOMAIN new : new[i] = new[j] => i = j
  BY NewsOK
<1>3. /\ c \in Seq(Blk) /\ Len(c) = Len(chain[f]) + Len(new)
      /\ \A i \in 1..Len(c) : c[i] = IF i <= Len(chain[f]) THEN chain[f][i] ELSE new[i - Len(chain[f])]
  BY <1>1, <1>2
<1>4. \A i \in DOMAIN chain[f], j \in DOMAIN new : chain[f][i] \in BlocksOf(f) /\ chain[f][i] # new[j]
  BY <1>2 DEF BlocksOf, Free
<1>5. \A i, j \in DOMAIN chain[f] : chain[f][i] = chain[f][j] => i = j
  BY DEF RamInv, BlocksOwned
<1>6. ASSUME NEW i \in DOMAIN c
      PROVE  \/ i \in DOMAIN chain[f] /\ c[i] = chain[f][i]
             \/ ~(i <= Len(chain[f])) /\ i - Len(chain[f]) \in DOMAIN new /\ c[i] = new[i - Len(chain[f])]
  BY <1>1, <1>2, <1>3
<1>7. \A i \in DOMAIN c : c[i] \in BlocksOf(f) \cup Free
  <2>1. \A i \in DOMAIN chain[f] : chain[f][i] \in BlocksOf(f)
    BY DEF BlocksOf
  <2>. QED BY <1>2, <1>6, <2>1
<1>8. ASSUME NEW i \in DOMAIN c, NEW j \in DOMAIN c, c[i] = c[j] PROVE i = j
  <2>1. i \in Nat /\ j \in Nat /\ Len(chain[f]) \in Nat
    BY <1>1, <1>3
  <2>2. CASE i \in DOMAIN chain[f] /\ c[i] = chain[f][i]
    BY <1>4, <1>5, <1>6, <1>8, <2>2
  <2>3. CASE /\ ~(i <= Len(chain[f])) /\ i - Len(chain[f]) \in DOMAIN new
             /\ c[i] = new[i - Len(chain[f])]
    <3>1. ~(j <= Len(chain[f])) /\ j - Len(chain[f]) \in DOMAIN new /\ c[j] = new[j - Len(chain[f])]
      BY <1>4, <1>6, <1>8, <2>3
    <3>2. i - Len(chain[f]) = j - Len(chain[f])
      BY <1>2, <1>8, <2>3, <3>1
    <3>. QED BY <2>1, <3>2
  <2>. QED BY <1>6, <2>2, <2>3
<1>. QED BY <1>1, <1>3, <1>7, <1>8 DEF Distinct, FromPool, Prolongs

\* write puts bytes of the buffer into the blocks
LEMMA WrittenType ==
    ASSUME RamInv, NEW c, NEW p, NEW buf \in Seq(Byte), NEW n \in 0..Len(buf)
    PROVE  Written(c, p, buf, n) \in [Blk -> [0..(BS - 1) -> Byte \cup {Junk}]]
<1>0. \A b \in Blk, o \in 0..(BS - 1) : data[b][o] \in Byte \cup {Junk}
  <2>1. data \in [Blk -> [0..(BS - 1) -> Byte \cup {Junk}]]
    BY DEF RamInv, RamTypeOK
  <2>. QED BY ONLY <2>1
<1>. DEFINE hit(b, o) == {i \in 0..(n - 1) : Place(p, i)[2] = o /\ c[Place(p, i)[1] + 1] = b}
            val(b, o) == IF hit(b, o) = {} THEN data[b][o] ELSE buf[(CHOOSE i \in hit(b, o) : TRUE) + 1]
<1>1. ASSUME NEW b \in Blk, NEW o \in 0..(BS - 1) PROVE val(b, o) \in Byte \cup {Junk}
  <2>1. CASE hit(b, o) = {}
    <3>1. data[b][o] \in Byte \cup {Junk}
      BY <1>0, Zenon
    <3>2. val(b, o) = data[b][o]
      BY <2>1
    <3>. QED BY ONLY <3>1, <3>2
  <2>2. CASE hit(b, o) # {}
    <3>1. PICK i \in 0..(n - 1) : i = (CHOOSE x \in hit(b, o) : TRUE)
      BY <2>2
    <3>. QED BY <2>2, <3>1
  <2>. QED BY <2>1, <2>2
<1>2. Written(c, p, buf, n) = [b \in Blk |-> [o \in 0..(BS - 1) |-> val(b, o)]]
  BY DEF Written
<1>. HIDE DEF hit, val
<1>. QED BY <1>1, <1>2

\* The number of blocks write asks for is a number.
LEMMA WriteAsks ==
    ASSUME RamInv, NEW f \in File, NEW buf \in Buffers[f]
    PROVE  NewBlocks(f, Len(buf)) \in Int
<1>1. Len(buf) \in Nat /\ BS \in Nat \ {0} /\ fpos[f] \in Nat /\ st_blocks[f] \in Nat
  BY RamFileAssumption DEF RamInv, RamTypeOK
<1>2. PICK x \in Nat : x = fpos[f] + Len(buf) + BS - 1
  BY <1>1
<1>3. x \div BS \in Nat
  BY <1>1, DivMod
<1>4. (x \div BS) - st_blocks[f] \in Int
  BY <1>1, <1>3
<1>. QED BY <1>2, <1>4 DEF NewBlocks

\* Fwrite keeps the invariant: new blocks were nobody's, and the size is inside of them.
LEMMA FwriteInv ==
    ASSUME RamInv, NEW f \in File, NEW buf \in Buffers[f], Fwrite(f, buf) PROVE RamInv'
<1>1. CASE \E e : Answer(Refuse(e))
  BY <1>1, AnswerInv
<1>2. ASSUME NEW k \in Nat, NEW new \in News(k), WriteBlocks(f, buf, new)
      PROVE  RamInv'
  <2>0. buf \in Seq(Byte) /\ refcnt[f] > 0 /\ BS \in Nat \ {0} /\ LMAX \in Nat
    BY RamFileAssumption DEF Fwrite
  <2>1. PICK c, max, n :
             /\ c = chain[f] \o new
             /\ max = (st_blocks[f] + Len(new)) * BS
             /\ n = (IF fpos[f] + Len(buf) > max THEN max - fpos[f] ELSE Len(buf))
    OBVIOUS
  <2>2. /\ chain' = [chain EXCEPT ![f] = c]
        /\ st_blocks' = [st_blocks EXCEPT ![f] = st_blocks[f] + Len(new)]
        /\ fpos' = [fpos EXCEPT ![f] = fpos[f] + n]
        /\ st_size' = [st_size EXCEPT ![f] = IF fpos[f] + n > st_size[f] THEN fpos[f] + n ELSE st_size[f]]
        /\ data' = Written(c, fpos[f], buf, n)
        /\ UNCHANGED << refcnt, mode >>
    BY <1>2, <2>1 DEF WriteBlocks
  <2>3. /\ c \in Seq(Blk) /\ Len(c) = st_blocks[f] + Len(new)
        /\ Distinct(c)
        /\ FromPool(f, c)
    BY <2>1, LongerChain
  <2>4. BlocksOwned' /\ chain' \in [File -> Seq(Blk)] /\ st_blocks' \in [File -> Nat]
    BY <2>2, <2>3, NewChain
  <2>5. max = Len(c) * BS /\ max <= LMAX
    BY <2>1, <2>3, ChainFits
  <2>6. /\ max \in Nat /\ n \in 0..Len(buf) /\ fpos[f] + n <= max /\ st_size[f] <= max
        /\ st_size[f] \in Nat /\ fpos[f] \in Nat /\ fpos[f] <= st_size[f]
    <3>1. new \in Seq(Blk)
      BY NewsOK
    <3>. QED BY <2>0, <2>1, <3>1, WriteCount
  <2>7. PICK e \in Nat, z \in Nat :
             /\ e = fpos[f] + n /\ e <= max /\ e <= LMAX /\ e <= z /\ z <= max /\ z <= LMAX
             /\ st_size' = [st_size EXCEPT ![f] = z] /\ fpos' = [fpos EXCEPT ![f] = e]
    <3>1. PICK e \in Nat : e = fpos[f] + n
      BY <2>0, <2>6
    <3>2. PICK z \in Nat : z = IF e > st_size[f] THEN e ELSE st_size[f]
      BY <2>6
    <3>3. e <= max /\ e <= LMAX /\ e <= z /\ z <= max /\ z <= LMAX
      BY <2>0, <2>5, <2>6, <3>1, <3>2
    <3>4. st_size' = [st_size EXCEPT ![f] = z] /\ fpos' = [fpos EXCEPT ![f] = e]
      BY <2>2, <3>1, <3>2
    <3>. QED BY <3>1, <3>3, <3>4
  <2>8. RamTypeOK'
    <3>1. e \in 0..LMAX /\ z \in 0..LMAX
      BY <2>0, <2>7
    <3>2. st_size' \in [File -> 0..LMAX] /\ fpos' \in [File -> 0..LMAX]
      BY <2>7, <3>1 DEF RamInv, RamTypeOK
    <3>3. data' \in [Blk -> [0..(BS - 1) -> Byte \cup {Junk}]]
      BY <2>0, <2>2, <2>6, WrittenType
    <3>. QED BY <2>2, <2>4, <3>2, <3>3 DEF RamInv, RamTypeOK
  <2>9. SizeFits'
    <3>1. st_blocks'[f] * BS = max /\ st_size'[f] = z /\ fpos'[f] = e /\ chain'[f] = c
      BY <2>2, <2>3, <2>5, <2>7 DEF RamInv, RamTypeOK
    <3>2. ASSUME NEW g \in File, g # f
          PROVE  st_blocks'[g] = st_blocks[g] /\ st_size'[g] = st_size[g] /\ fpos'[g] = fpos[g] /\ chain'[g] = chain[g]
      BY <2>2, <2>7, <3>2 DEF RamInv, RamTypeOK
    <3>3. c # << >>
      <4>1. chain[f] \in Seq(Blk) /\ chain[f] # << >> /\ new \in Seq(Blk)
        BY <2>0, NewsOK DEF RamInv, RamTypeOK, SizeFits
      <4>. QED BY <2>1, <4>1
    <3>. QED BY <2>2, <2>7, <3>1, <3>2, <3>3 DEF RamInv, SizeFits
  <2>. QED BY <2>4, <2>8, <2>9 DEF RamInv
<1>3. NewBlocks(f, Len(buf)) \in Int
  BY WriteAsks
<1>. QED BY <1>1, <1>2, <1>3 DEF Fwrite

\* No call that ends inside a LONG breaks the invariant.
LEMMA NextRamInv ==
    ASSUME ~HugeReads, RamInv, [Next]_vars PROVE RamInv'
<1>1. CASE UNCHANGED vars
  BY <1>1 DEF vars, RamInv, RamTypeOK, BlocksOwned, SizeFits
<1>2. ASSUME NEW f \in File,
             \/ \E o \in OpenModes : Fopen(f, o.m, o.creat, o.trunc, o.excl)
             \/ Fdup(f) \/ Fclose(f) \/ Fdelete(f)
      PROVE  RamInv'
  <2>1. \A o \in OpenModes : o.m \in Modes
    BY RamFileAssumption DEF Modes
  <2>. QED BY <1>2, <2>1, FopenInv, FdupInv, FcloseInv, FdeleteInv
<1>3. ASSUME NEW f \in File, NEW count \in Counts, Fread(f, count) \/ (count >= 0 /\ Getline(f, count))
      PROVE  RamInv'
  <2>1. count >= 0 => count \in Nat
    BY RamFileAssumption
  <2>. QED BY <1>3, <2>1, FreadInv, GetlineInv
<1>4. ASSUME NEW f \in File,
             \/ \E buf \in Buffers[f] : Fwrite(f, buf)
             \/ \E s \in Seeks : Fseek(f, s[1], s[2])
             \/ Fionread(f) \/ Fionwrite(f)
      PROVE  RamInv'
  BY <1>4, FwriteInv, FseekInv, AnswerInv DEF Fionread, Fionwrite
<1>. QED BY <1>1, <1>2, <1>3, <1>4 DEF Next

\* The initial state satisfies the invariant.
LEMMA InitRamInv == Init => RamInv
<1>. SUFFICES ASSUME Init PROVE RamInv
  OBVIOUS
<1>1. RamTypeOK
  BY RamFileAssumption DEF Init, RamTypeOK, Blank, Modes
<1>2. BlocksOwned /\ SizeFits
  BY RamFileAssumption DEF Init, BlocksOwned, SizeFits
<1>. QED BY <1>1, <1>2 DEF RamInv

\* The invariant always holds if no read leaves the range of a LONG.
LEMMA RamInvAlways ==
    ASSUME ~HugeReads PROVE Spec => []RamInv
<1>1. RamInv /\ [Next]_vars => RamInv'
  BY NextRamInv
<1>. QED BY InitRamInv, <1>1, PTL DEF Spec

\* Whatever files there are, whatever memory and block size, as long as no read
\* reaches behind a LONG, every size and every position is a LONG that is not
\* negative: no addition in ramdisk_write, ramdisk_seek or ramdisk_getline
\* overflows.
THEOREM FilesTyped ==
    ASSUME ~HugeReads PROVE Spec => []RamTypeOK
BY RamInvAlways, PTL DEF RamInv

\* No FILEBLOCK is ever in two files or twice in one, although writing, O_TRUNC
\* and fdelete take blocks from memory and give them back in any order.
THEOREM BlocksNeverShared ==
    ASSUME ~HugeReads PROVE Spec => []BlocksOwned
BY RamInvAlways, PTL DEF RamInv

\* Every position lies inside its file and every file inside its blocks: the
\* walks along the FILEBLOCKs never follow the NULL at the end.
THEOREM PositionsInside ==
    ASSUME ~HugeReads PROVE Spec => []SizeFits
BY RamInvAlways, PTL DEF RamInv

-----------------------------------------------------------------------------
(* What the bytes of a file are *)

\* A byte in the first m blocks is in one of them.
LEMMA DivLess ==
    ASSUME NEW b \in Nat \ {0}, NEW m \in Nat, NEW a \in Nat, a < m * b
    PROVE  a \div b \in Nat /\ a \div b < m
<1>1. PICK q \in Nat, r \in 0..(b - 1) : q = a \div b /\ a = q * b + r
  BY DivMod
<1>2. CASE m <= q
  <2>1. m * b <= q * b
    BY <1>2, TimesMonotone
  <2>. QED BY <1>1, <2>1
<1>. QED BY <1>1, <1>2

\* The block of the list in which byte p of a file is, and where
Nth(p) == (p \div BS) + 1
Off(p) == p % BS

\* A position inside of m blocks is a byte of one of them.
LEMMA NthOff ==
    ASSUME NEW m \in Nat, NEW p \in Nat, p < m * BS
    PROVE  Nth(p) \in 1..m /\ Off(p) \in 0..(BS - 1)
<1>1. BS \in Nat \ {0}
  BY RamFileAssumption
<1>2. p \div BS \in Nat /\ p \div BS < m /\ p % BS \in 0..(BS - 1)
  BY <1>1, DivLess, DivMod
<1>3. PICK q \in Nat : q = p \div BS
  BY <1>2
<1>4. q + 1 \in 1..m
  BY <1>2, <1>3
<1>. QED BY <1>2, <1>3, <1>4 DEF Nth, Off

\* Two bytes have different places.
LEMMA NthOffUnique ==
    ASSUME NEW p \in Nat, NEW q \in Nat, Nth(p) = Nth(q), Off(p) = Off(q)
    PROVE  p = q
<1>1. BS \in Nat \ {0}
  BY RamFileAssumption
<1>2. p = (p \div BS) * BS + (p % BS) /\ p \div BS \in Nat
  BY <1>1, DivMod
<1>3. q = (q \div BS) * BS + (q % BS) /\ q \div BS \in Nat
  BY <1>1, DivMod
<1>4. p \div BS = q \div BS /\ p % BS = q % BS
  BY <1>2, <1>3 DEF Nth, Off
<1>. QED BY <1>2, <1>3, <1>4

\* What Place gives, in these terms
LEMMA PlaceNthOff ==
    ASSUME NEW p \in Nat, NEW i \in Nat
    PROVE  Place(p, i)[1] + 1 = Nth(p + i) /\ Place(p, i)[2] = Off(p + i)
BY PlaceOK DEF Nth, Off

\* The byte at a position in terms of its block and its offset.
LEMMA ContentByteIs ==
    ASSUME NEW f, NEW p PROVE ContentByte(f, p) = data[chain[f][Nth(p)]][Off(p)]
BY DEF ContentByte, Nth, Off

\* Every byte of a file is in one of its blocks.
LEMMA InBlocks ==
    ASSUME RamInv, NEW f \in File, NEW p \in Nat, p < st_size[f]
    PROVE  /\ Nth(p) \in 1..Len(chain[f]) /\ Nth(p) \in DOMAIN chain[f] /\ chain[f][Nth(p)] \in Blk
           /\ chain[f][Nth(p)] \in BlocksOf(f)
           /\ Off(p) \in 0..(BS - 1)
<1>1. /\ BS \in Nat \ {0} /\ st_size[f] \in Nat /\ chain[f] \in Seq(Blk) /\ Len(chain[f]) \in Nat
      /\ st_blocks[f] = Len(chain[f])
  BY RamFileAssumption DEF RamInv, RamTypeOK, BlocksOwned
<1>2. st_size[f] <= Len(chain[f]) * BS
  BY <1>1 DEF RamInv, SizeFits
<1>3. p < Len(chain[f]) * BS
  BY <1>1, <1>2
<1>4. Nth(p) \in 1..Len(chain[f]) /\ Off(p) \in 0..(BS - 1)
  BY <1>1, <1>3, NthOff
<1>. QED BY <1>1, <1>4 DEF BlocksOf

\* The bytes FileSpec sees, as sequences
LEMMA ContentsOK ==
    ASSUME RamInv, NEW f \in File
    PROVE  /\ Contents[f] \in Seq(Byte \cup {Junk}) /\ Len(Contents[f]) = st_size[f]
           /\ \A i \in 1..st_size[f] : Contents[f][i] = data[chain[f][Nth(i - 1)]][Off(i - 1)]
<1>0. st_size[f] \in Nat
  BY RamFileAssumption DEF RamInv, RamTypeOK
<1>1. ASSUME NEW i \in 1..st_size[f]
      PROVE  /\ ContentByte(f, i - 1) \in Byte \cup {Junk}
             /\ ContentByte(f, i - 1) = data[chain[f][Nth(i - 1)]][Off(i - 1)]
  <2>1. i - 1 \in Nat /\ i - 1 < st_size[f]
    BY <1>0
  <2>2. chain[f][Nth(i - 1)] \in Blk /\ Off(i - 1) \in 0..(BS - 1)
    BY <2>1, InBlocks
  <2>3. data[chain[f][Nth(i - 1)]][Off(i - 1)] \in Byte \cup {Junk}
    <3>1. data \in [Blk -> [0..(BS - 1) -> Byte \cup {Junk}]]
      BY DEF RamInv, RamTypeOK
    <3>2. \A b \in Blk, o \in 0..(BS - 1) : data[b][o] \in Byte \cup {Junk}
      BY ONLY <3>1
    <3>. QED BY ONLY <2>2, <3>2, Zenon
  <2>. QED BY <2>3, ContentByteIs
<1>2. Contents[f] = [i \in 1..st_size[f] |-> ContentByte(f, i - 1)]
  BY DEF Contents
<1>3. Contents[f] \in [1..st_size[f] -> Byte \cup {Junk}]
  BY <1>1, <1>2
<1>4. \A i \in 1..st_size[f] : Contents[f][i] = data[chain[f][Nth(i - 1)]][Off(i - 1)]
  BY <1>1, <1>2
<1>5. Contents[f] \in Seq(Byte \cup {Junk}) /\ Len(Contents[f]) = st_size[f]
  BY <1>0, <1>3
<1>. QED BY <1>4, <1>5

\* read, getc and getline find the bytes of the file.
LEMMA ByteAtOK ==
    ASSUME RamInv, NEW f \in File, NEW p \in Nat, NEW i \in Nat, p + i < st_size[f]
    PROVE  ByteAt(f, p, i) = Contents[f][p + i + 1]
<1>0. st_size[f] \in Nat
  BY RamFileAssumption DEF RamInv, RamTypeOK
<1>1. Place(p, i)[1] + 1 = Nth(p + i) /\ Place(p, i)[2] = Off(p + i)
  BY PlaceNthOff
<1>2. PICK q \in Nat : q = p + i /\ q < st_size[f]
  BY <1>0
<1>3. Nth(q) \in 1..Len(chain[f])
  BY <1>2, InBlocks
<1>4. Place(p, i)[1] < Len(chain[f])
  <2>1. Place(p, i)[1] \in Nat /\ Len(chain[f]) \in Nat
    <3>1. BS \in Nat \ {0} /\ Place(p, i) = << q \div BS, q % BS >>
      BY <1>2, PlaceOK, RamFileAssumption
    <3>2. q \div BS \in Nat
      BY <3>1, DivMod
    <3>. QED BY <3>1, <3>2 DEF RamInv, RamTypeOK
  <2>. QED BY <1>1, <1>2, <1>3, <2>1
<1>5. ByteAt(f, p, i) = data[chain[f][Nth(q)]][Off(q)]
  BY <1>1, <1>2, <1>4 DEF ByteAt
<1>6. q + 1 \in 1..st_size[f] /\ (q + 1) - 1 = q
  BY <1>0, <1>2
<1>7. Contents[f][q + 1] = data[chain[f][Nth(q)]][Off(q)]
  BY <1>6, ContentsOK
<1>. QED BY <1>2, <1>5, <1>7

\* The bytes in the list c are those of data, with n bytes of buf over them from
\* position p on; blocks d holds that are not in the list are as before.
PutInto(d, c, p, buf, n) ==
    /\ \A q \in Nat : q < Len(c) * BS =>
          d[c[Nth(q)]][Off(q)]
             = IF p <= q /\ q < p + n THEN buf[q - p + 1] ELSE data[c[Nth(q)]][Off(q)]
    /\ \A b \in Blk : (\A k \in DOMAIN c : c[k] # b) => \A o \in 0..(BS - 1) : d[b][o] = data[b][o]

\* The loop of write changes the bytes from its position on, and no others.
LEMMA WrittenOK ==
    ASSUME NEW c \in Seq(Blk), Distinct(c),
           NEW p \in Nat, NEW buf, NEW n \in Nat, p + n <= Len(c) * BS
    PROVE  PutInto(Written(c, p, buf, n), c, p, buf, n)
<1>. DEFINE hit(b, o) == {i \in 0..(n - 1) : Place(p, i)[2] = o /\ c[Place(p, i)[1] + 1] = b}
            val(b, o) == IF hit(b, o) = {} THEN data[b][o] ELSE buf[(CHOOSE i \in hit(b, o) : TRUE) + 1]
<1>1. ASSUME NEW b \in Blk, NEW o \in 0..(BS - 1) PROVE Written(c, p, buf, n)[b][o] = val(b, o)
  BY DEF Written
<1>0. Len(c) * BS \in Nat /\ Len(c) \in Nat /\ DOMAIN c = 1..Len(c)
  BY RamFileAssumption
<1>2. ASSUME NEW i \in 0..(n - 1)
      PROVE  /\ Place(p, i)[1] + 1 = Nth(p + i) /\ Place(p, i)[2] = Off(p + i)
             /\ p + i \in Nat /\ Nth(p + i) \in DOMAIN c
  <2>1. i \in Nat /\ p + i \in Nat /\ p + i < Len(c) * BS
    BY <1>0
  <2>2. Nth(p + i) \in DOMAIN c
    BY <1>0, <2>1, NthOff
  <2>. QED BY <2>1, <2>2, PlaceNthOff
<1>3. ASSUME NEW q \in Nat, q < Len(c) * BS
      PROVE  Written(c, p, buf, n)[c[Nth(q)]][Off(q)]
                = IF p <= q /\ q < p + n THEN buf[q - p + 1] ELSE data[c[Nth(q)]][Off(q)]
  <2>1. Nth(q) \in DOMAIN c /\ Off(q) \in 0..(BS - 1) /\ c[Nth(q)] \in Blk
    BY <1>0, <1>3, NthOff
  <2>2. ASSUME NEW i \in 0..(n - 1) PROVE i \in hit(c[Nth(q)], Off(q)) <=> p + i = q
    <3>1. ASSUME i \in hit(c[Nth(q)], Off(q)) PROVE p + i = q
      <4>1. Off(p + i) = Off(q) /\ c[Nth(p + i)] = c[Nth(q)]
        BY <1>2, <3>1
      <4>2. Nth(p + i) = Nth(q)
        BY <1>2, <2>1, <4>1 DEF Distinct
      <4>. QED BY <1>2, <4>1, <4>2, NthOffUnique
    <3>2. ASSUME p + i = q PROVE i \in hit(c[Nth(q)], Off(q))
      BY <1>2, <3>2
    <3>. QED BY <3>1, <3>2
  <2>3. Written(c, p, buf, n)[c[Nth(q)]][Off(q)] = val(c[Nth(q)], Off(q))
    <3>1. PICK b \in Blk, o \in 0..(BS - 1) : b = c[Nth(q)] /\ o = Off(q)
      BY <2>1
    <3>2. Written(c, p, buf, n)[b][o] = val(b, o)
      BY DEF Written
    <3>. QED BY <3>1, <3>2, Zenon
  <2>4. CASE p <= q /\ q < p + n
    <3>1. PICK j \in 0..(n - 1) : j = q - p
      BY <2>4
    <3>2. hit(c[Nth(q)], Off(q)) = {j}
      <4>1. \A i \in hit(c[Nth(q)], Off(q)) : i \in 0..(n - 1)
        OBVIOUS
      <4>2. \A i \in 0..(n - 1) : p + i = q <=> i = j
        BY <3>1
      <4>3. \A i \in 0..(n - 1) : i \in hit(c[Nth(q)], Off(q)) <=> i = j
        BY <2>2, <4>2
      <4>. HIDE DEF hit
      <4>. QED BY <4>1, <4>3
    <3>3. (CHOOSE i \in hit(c[Nth(q)], Off(q)) : TRUE) = j
      <4>. HIDE DEF hit
      <4>. QED BY <3>2
    <3>4. val(c[Nth(q)], Off(q)) = buf[j + 1]
      <4>. HIDE DEF hit
      <4>. QED BY <3>2, <3>3
    <3>. HIDE DEF val
    <3>. QED BY <2>3, <2>4, <3>1, <3>4
  <2>5. CASE ~(p <= q /\ q < p + n)
    <3>1. \A i \in 0..(n - 1) : p + i # q
      BY <2>5
    <3>2. hit(c[Nth(q)], Off(q)) = {}
      BY <2>2, <3>1
    <3>3. val(c[Nth(q)], Off(q)) = data[c[Nth(q)]][Off(q)]
      BY <3>2
    <3>. HIDE DEF val
    <3>. QED BY <2>3, <2>5, <3>3
  <2>. QED BY <2>4, <2>5
<1>4. ASSUME NEW b \in Blk, \A k \in DOMAIN c : c[k] # b, NEW o \in 0..(BS - 1)
      PROVE  Written(c, p, buf, n)[b][o] = data[b][o]
  <2>1. hit(b, o) = {}
    BY <1>2, <1>4
  <2>. QED BY <1>1, <2>1
<1>. HIDE DEF hit, val
<1>. QED BY <1>3, <1>4 DEF PutInto

-----------------------------------------------------------------------------
(* Every step is a step of FileSpec *)

\* A call that leaves the blocks alone leaves alone what FileSpec sees of them.
LEMMA SameFiles ==
    ASSUME UNCHANGED files
    PROVE  UNCHANGED << Contents, Existing, Capacity >>
BY DEF files, Contents, ContentByte, Existing, Capacity

\* A refusal is a refusal of FileSpec.
LEMMA SimRefused ==
    ASSUME NEW e, NEW errs, e \in errs, Answer(Refuse(e))
    PROVE  Abstract!Refused(errs)
<1>1. UNCHANGED << Contents, Existing, Capacity >>
  BY SameFiles DEF Answer
<1>2. reply' = Abstract!Refuse(e)
  BY DEF Answer, Refuse, Reply, Abstract!Refuse, Abstract!Reply
<1>. QED BY <1>1, <1>2 DEF Abstract!Refused, Answer, fds

\* Fdup is Dup of FileSpec.
LEMMA SimDup ==
    ASSUME RamInv, NEW f \in File, Fdup(f) PROVE Abstract!Dup(f)
<1>1. UNCHANGED << Contents, Existing, Capacity >>
  BY SameFiles DEF Fdup
<1>2. refcnt[f] > 0
  BY RamFileAssumption DEF Fdup
<1>. QED BY <1>1, <1>2 DEF Fdup, Abstract!Dup, Refuse, Reply, Abstract!Refuse, Abstract!Reply

\* Fclose is Close of FileSpec.
LEMMA SimClose ==
    ASSUME NEW f \in File, Fclose(f) PROVE Abstract!Close(f)
<1>1. UNCHANGED << Contents, Existing, Capacity >>
  BY SameFiles DEF Fclose
<1>. QED BY <1>1 DEF Fclose, Abstract!Close, Refuse, Reply, Abstract!Refuse, Abstract!Reply

\* The bytes and the room of the files whose lists and blocks a call leaves
\* alone
LEMMA OtherFiles ==
    ASSUME RamInv, NEW g \in File, chain'[g] = chain[g], st_size'[g] = st_size[g],
           \A b \in BlocksOf(g) : \A o \in 0..(BS - 1) : data'[b][o] = data[b][o]
    PROVE  Contents'[g] = Contents[g] /\ Capacity'[g] = Capacity[g]
<1>1. ASSUME NEW i \in 1..st_size[g]
      PROVE  ContentByte(g, i - 1)' = ContentByte(g, i - 1)
  <2>1. i - 1 \in Nat /\ i - 1 < st_size[g]
    BY RamFileAssumption DEF RamInv, RamTypeOK
  <2>2. chain[g][Nth(i - 1)] \in BlocksOf(g) /\ Off(i - 1) \in 0..(BS - 1)
    BY <2>1, InBlocks
  <2>3. ContentByte(g, i - 1)' = data'[chain'[g][Nth(i - 1)]][Off(i - 1)]
    BY DEF ContentByte, Nth, Off
  <2>. QED BY <2>2, <2>3, ContentByteIs
<1>2. /\ Contents[g] = [i \in 1..st_size[g] |-> ContentByte(g, i - 1)]
      /\ Contents'[g] = [i \in 1..st_size'[g] |-> ContentByte(g, i - 1)']
  BY DEF Contents
<1>. QED BY <1>1, <1>2 DEF Capacity

\* Kfree touches no other file.
LEMMA FreedOthers ==
    ASSUME RamInv, NEW f \in File, NEW B \in SUBSET BlocksOf(f), data' = Freed(B),
           NEW g \in File, g # f
    PROVE  \A b \in BlocksOf(g) : \A o \in 0..(BS - 1) : data'[b][o] = data[b][o]
<1>1. \A b \in BlocksOf(g) : b \in Blk /\ b \notin BlocksOf(f)
  BY DEF BlocksOf, RamInv, RamTypeOK, BlocksOwned
<1>. QED BY <1>1 DEF Freed

\* Fdelete is Delete of FileSpec.
LEMMA SimDelete ==
    ASSUME RamInv, NEW f \in File, Fdelete(f) PROVE Abstract!Delete(f)
<1>1. CASE chain[f] = << >> \/ refcnt[f] > 0
  <2>1. f \notin Existing \/ refcnt[f] > 0
    BY <1>1 DEF Existing
  <2>2. \E e \in {"EACCDN", "EFILNF"} : Answer(Refuse(e))
    BY <1>1 DEF Fdelete
  <2>3. Abstract!Refused({"EACCDN", "EFILNF"})
    BY <2>2, SimRefused
  <2>. QED BY <2>1, <2>3 DEF Abstract!Delete
<1>2. CASE chain[f] # << >> /\ ~(refcnt[f] > 0)
  <2>1. /\ data' = Freed(BlocksOf(f)) /\ chain' = [chain EXCEPT ![f] = << >>]
        /\ st_size' = [st_size EXCEPT ![f] = 0] /\ UNCHANGED fds /\ reply' = Refuse("E_OK")
    BY <1>2 DEF Fdelete
  <2>2. f \in Existing /\ refcnt[f] = 0 /\ Existing' = Existing \ {f}
    BY <1>2, <2>1 DEF Existing, RamInv, RamTypeOK
  <2>3. ASSUME NEW g \in File, g # f PROVE Contents'[g] = Contents[g] /\ Capacity'[g] = Capacity[g]
    <3>1. chain'[g] = chain[g] /\ st_size'[g] = st_size[g]
      BY <2>1, <2>3 DEF RamInv, RamTypeOK
    <3>2. \A b \in BlocksOf(g) : \A o \in 0..(BS - 1) : data'[b][o] = data[b][o]
      BY <2>1, <2>3, FreedOthers
    <3>. QED BY <3>1, <3>2, OtherFiles
  <2>4. Contents'[f] = << >> /\ Capacity'[f] = 0
    <3>1. st_size'[f] = 0 /\ Len(chain'[f]) = 0
      BY <2>1 DEF RamInv, RamTypeOK
    <3>2. Contents'[f] = [i \in 1..0 |-> ContentByte(f, i - 1)']
      BY <3>1 DEF Contents
    <3>3. Contents'[f] = << >>
      BY <3>2
    <3>. QED BY <3>1, <3>3, RamFileAssumption DEF Capacity
  <2>5. Contents' = [Contents EXCEPT ![f] = << >>] /\ Capacity' = [Capacity EXCEPT ![f] = 0]
    BY <2>3, <2>4 DEF Contents, Capacity
  <2>. QED BY <2>1, <2>2, <2>5 DEF Abstract!Delete, fds, Refuse, Reply, Abstract!Refuse, Abstract!Reply
<1>. QED BY <1>1, <1>2

\* Opening a file that gets or keeps one empty block.
LEMMA EmptyFile ==
    ASSUME RamInv, NEW f \in File, NEW b, chain' = [chain EXCEPT ![f] = << b >>],
           st_size' = [st_size EXCEPT ![f] = 0],
           \A g \in File \ {f} : \A x \in BlocksOf(g) : \A o \in 0..(BS - 1) : data'[x][o] = data[x][o]
    PROVE  /\ Existing' = Existing \cup {f} /\ Contents' = [Contents EXCEPT ![f] = << >>]
           /\ Capacity' = [Capacity EXCEPT ![f] = Capacity'[f]]
<1>1. Existing' = Existing \cup {f}
  BY DEF Existing, RamInv, RamTypeOK
<1>2. ASSUME NEW g \in File, g # f PROVE Contents'[g] = Contents[g] /\ Capacity'[g] = Capacity[g]
  <2>1. chain'[g] = chain[g] /\ st_size'[g] = st_size[g]
    BY <1>2 DEF RamInv, RamTypeOK
  <2>. QED BY <1>2, <2>1, OtherFiles
<1>3. Contents'[f] = << >>
  <2>1. st_size'[f] = 0
    BY DEF RamInv, RamTypeOK
  <2>2. Contents'[f] = [i \in 1..0 |-> ContentByte(f, i - 1)']
    BY <2>1 DEF Contents
  <2>. QED BY <2>2
<1>4. Contents' = [Contents EXCEPT ![f] = << >>]
  BY <1>2, <1>3 DEF Contents
<1>5. Capacity' = [Capacity EXCEPT ![f] = Capacity'[f]]
  <2>1. Capacity = [g \in File |-> Capacity[g]] /\ Capacity' = [g \in File |-> Capacity'[g]]
    BY DEF Capacity
  <2>. QED BY <1>2, <2>1
<1>. QED BY <1>1, <1>4, <1>5

\* Fopen is Open of FileSpec.
LEMMA SimOpen ==
    ASSUME RamInv, NEW f \in File, NEW m \in Modes, NEW creat \in BOOLEAN, NEW trunc \in BOOLEAN,
           NEW excl \in BOOLEAN, Fopen(f, m, creat, trunc, excl)
    PROVE  Abstract!Open(f, m, creat, trunc, excl)
<1>0. chain[f] # << >> <=> f \in Existing
  BY DEF Existing
<1>1. ASSUME NEW e \in {"EACCDN", "EFILNF", "ENSMEM"}, Answer(Refuse(e))
      PROVE  Abstract!Open(f, m, creat, trunc, excl)
  BY <1>1, SimRefused DEF Abstract!Open
<1>2. ASSUME refcnt[f] = 0, Opened(f, m), ~((creat \/ trunc) /\ m = "r"),
             f \in Existing => ~(creat /\ excl), f \notin Existing => creat,
             Existing' = Existing \cup {f},
             Contents' = IF trunc \/ f \notin Existing THEN [Contents EXCEPT ![f] = << >>] ELSE Contents,
             Capacity' = [Capacity EXCEPT ![f] = IF trunc \/ f \notin Existing THEN Capacity'[f] ELSE @]
      PROVE  Abstract!Open(f, m, creat, trunc, excl)
  <2>1. creat \/ trunc => Abstract!CanWrite(m)
    BY <1>2 DEF Modes, Abstract!CanWrite
  <2>2. reply' = Abstract!Refuse("E_OK")
    BY <1>2 DEF Opened, Refuse, Reply, Abstract!Refuse, Abstract!Reply
  <2>. QED BY <1>2, <2>1, <2>2 DEF Opened, Abstract!Open
<1>3. CASE /\ ~((creat \/ trunc) /\ m = "r") /\ chain[f] # << >> /\ ~(creat /\ excl) /\ refcnt[f] = 0
           /\ ~trunc /\ UNCHANGED files /\ Opened(f, m)
  <2>1. UNCHANGED << Contents, Existing, Capacity >>
    BY <1>3, SameFiles
  <2>2. Capacity = [Capacity EXCEPT ![f] = @]
    BY DEF Capacity
  <2>. QED BY <1>0, <1>2, <1>3, <2>1, <2>2
<1>4. CASE /\ ~((creat \/ trunc) /\ m = "r") /\ chain[f] # << >> /\ ~(creat /\ excl) /\ refcnt[f] = 0
           /\ trunc /\ Truncate(f) /\ Opened(f, m)
  <2>1. data' = Freed(BlocksOf(f) \ {chain[f][1]}) /\ chain' = [chain EXCEPT ![f] = << chain[f][1] >>]
        /\ st_size' = [st_size EXCEPT ![f] = 0]
    BY <1>4 DEF Truncate
  <2>2. \A g \in File \ {f} : \A x \in BlocksOf(g) : \A o \in 0..(BS - 1) : data'[x][o] = data[x][o]
    BY <2>1, FreedOthers
  <2>3. /\ Existing' = Existing \cup {f} /\ Contents' = [Contents EXCEPT ![f] = << >>]
        /\ Capacity' = [Capacity EXCEPT ![f] = Capacity'[f]]
    BY <2>1, <2>2, EmptyFile
  <2>. QED BY <1>0, <1>2, <1>4, <2>3
<1>5. CASE /\ m # "r" /\ chain[f] = << >> /\ creat
           /\ \E b \in Free : NewFile(f, b) /\ Opened(f, m)
  <2>1. PICK b : NewFile(f, b) /\ Opened(f, m)
    BY <1>5
  <2>2. /\ Existing' = Existing \cup {f} /\ Contents' = [Contents EXCEPT ![f] = << >>]
        /\ Capacity' = [Capacity EXCEPT ![f] = Capacity'[f]]
    BY <2>1, EmptyFile DEF NewFile
  <2>3. refcnt[f] = 0
    BY <1>5 DEF RamInv, RamTypeOK, SizeFits
  <2>. QED BY <1>0, <1>2, <1>5, <2>1, <2>2, <2>3
<1>. QED BY <1>1, <1>3, <1>4, <1>5 DEF Fopen

\* Fseek is Seek of FileSpec.
LEMMA SimSeek ==
    ASSUME RamInv, NEW f \in File, NEW s \in Seeks, Fseek(f, s[1], s[2])
    PROVE  Abstract!Seek(f, s[1], s[2])
<1>1. /\ s[1] \in Int /\ s[2] \in 0..3 /\ fpos[f] \in Nat /\ st_size[f] \in Nat
      /\ refcnt[f] > 0 /\ fpos[f] <= st_size[f] /\ fpos = [fpos EXCEPT ![f] = fpos[f]]
  BY RamFileAssumption DEF RamInv, RamTypeOK, Fseek, SizeFits
<1>2. Len(Contents[f]) = st_size[f]
  BY ContentsOK
<1>3. s[2] = 0 \/ s[2] = 1 \/ s[2] = 2 \/ s[2] = 3
  BY <1>1
<1>4. UNCHANGED files
  BY DEF Fseek, Answer
<1>5. UNCHANGED << Contents, Existing, Capacity >>
  BY <1>4, SameFiles
<1>6. PICK new \in Int : new = IF s[2] = 3 THEN fpos[f] ELSE << 0, fpos[f], st_size[f] >>[s[2] + 1] + s[1]
  BY <1>1, <1>3
<1>7. CASE new \in 0..st_size[f]
  <2>1. fpos' = [fpos EXCEPT ![f] = new] /\ reply' = Reply("E_OK", new, << >>) /\ UNCHANGED << refcnt, mode >>
    BY <1>1, <1>3, <1>6, <1>7 DEF Fseek, Answer, fds
  <2>2. new = IF s[2] \in 0..2 THEN << 0, fpos[f], Len(Contents[f]) >>[s[2] + 1] + s[1] ELSE fpos[f]
    BY <1>1, <1>2, <1>3, <1>6
  <2>3. reply' = Abstract!Reply("E_OK", new, << >>) /\ new \in 0..Len(Contents[f])
    BY <1>2, <1>7, <2>1 DEF Reply, Abstract!Reply
  <2>. QED BY <1>1, <1>5, <2>1, <2>2, <2>3 DEF Abstract!Seek
<1>8. CASE new \notin 0..st_size[f]
  <2>1. Answer(Refuse("ERANGE"))
    BY <1>1, <1>3, <1>6, <1>8 DEF Fseek
  <2>2. Abstract!Refused({"ERANGE"})
    BY <2>1, SimRefused
  <2>3. new = IF s[2] \in 0..2 THEN << 0, fpos[f], Len(Contents[f]) >>[s[2] + 1] + s[1] ELSE fpos[f]
    BY <1>1, <1>2, <1>3, <1>6
  <2>4. new \notin 0..Len(Contents[f])
    BY <1>2, <1>8
  <2>. QED BY <1>1, <2>2, <2>3, <2>4 DEF Abstract!Seek
<1>. QED BY <1>7, <1>8

\* FIONREAD and FIONWRITE are Avail of FileSpec.
LEMMA SimAvail ==
    ASSUME RamInv, NEW f \in File, Fionread(f) \/ Fionwrite(f)
    PROVE  \E w \in BOOLEAN : Abstract!Avail(f, w)
<1>1. /\ refcnt[f] > 0 /\ UNCHANGED << Contents, Existing, Capacity, refcnt, mode, fpos >>
  BY SameFiles DEF Fionread, Fionwrite, Answer, fds
<1>2. CASE Fionread(f)
  <2>1. Len(Contents[f]) = st_size[f]
    BY ContentsOK
  <2>2. Abstract!Avail(f, FALSE)
    BY <1>1, <1>2, <2>1 DEF Fionread, Answer, Readable, Abstract!Avail, Abstract!CanRead,
       Refuse, Reply, Abstract!Refuse, Abstract!Reply
  <2>. QED BY <2>2
<1>3. CASE Fionwrite(f)
  <2>1. /\ Capacity[f] = Len(chain[f]) * BS /\ st_blocks[f] = Len(chain[f]) /\ fpos[f] \in Nat
        /\ fpos[f] <= st_size[f] /\ st_size[f] <= st_blocks[f] * BS /\ st_blocks[f] * BS \in Nat /\ st_size[f] \in Nat
    BY <1>1, RamFileAssumption DEF Capacity, RamInv, RamTypeOK, BlocksOwned, SizeFits
  <2>2. ~(Capacity[f] - fpos[f] < 0) /\ Capacity[f] = st_blocks[f] * BS
    BY <2>1
  <2>3. reply' = IF ~Writeable(f) THEN Refuse("EACCDN") ELSE Reply("E_OK", Capacity[f] - fpos[f], << >>)
    BY <1>3, <2>2 DEF Fionwrite, Answer
  <2>4. Abstract!Avail(f, TRUE)
    BY <1>1, <2>3 DEF Writeable, Abstract!Avail, Abstract!CanWrite,
       Refuse, Reply, Abstract!Refuse, Abstract!Reply
  <2>. QED BY <2>4
<1>. QED BY <1>2, <1>3

\* n bytes from the position on, as read and getline copy them
LEMMA CopiedBytes ==
    ASSUME RamInv, NEW f \in File, NEW n \in Nat, fpos[f] + n <= st_size[f]
    PROVE  SubSeq(Contents[f], fpos[f] + 1, fpos[f] + n) = [i \in 1..n |-> ByteAt(f, fpos[f], i - 1)]
<1>1. fpos[f] \in Nat /\ st_size[f] \in Nat
  BY RamFileAssumption DEF RamInv, RamTypeOK
<1>2. Contents[f] \in Seq(Byte \cup {Junk}) /\ Len(Contents[f]) = st_size[f]
  BY ContentsOK
<1>3. SubSeq(Contents[f], fpos[f] + 1, fpos[f] + n) = [i \in 1..n |-> Contents[f][fpos[f] + i]]
  BY <1>1, <1>2, SMTT(30)
<1>4. ASSUME NEW i \in 1..n PROVE ByteAt(f, fpos[f], i - 1) = Contents[f][fpos[f] + i]
  <2>1. i - 1 \in Nat /\ fpos[f] + (i - 1) < st_size[f] /\ fpos[f] + (i - 1) + 1 = fpos[f] + i
    BY <1>1
  <2>2. ByteAt(f, fpos[f], i - 1) = Contents[f][fpos[f] + (i - 1) + 1]
    BY <1>1, <2>1, ByteAtOK
  <2>. QED BY <2>1, <2>2
<1>. QED BY <1>3, <1>4

\* Fread is Read of FileSpec: block by block it copies a piece of the contents.
LEMMA SimRead ==
    ASSUME ~HugeReads, RamInv, NEW f \in File, NEW count \in Counts, Fread(f, count)
    PROVE  Abstract!Read(f, count)
<1>. DEFINE want == IF Long(fpos[f] + count) > st_size[f] THEN st_size[f] - fpos[f] ELSE count
            n == IF want < 0 THEN 0 ELSE want
<1>1. refcnt[f] > 0 /\ fpos[f] + count <= LMAX
  BY DEF Fread
<1>2. /\ n \in Nat /\ fpos[f] + n <= st_size[f] /\ Long(fpos[f] + n) = fpos[f] + n
      /\ n = IF count < 0 THEN 0
             ELSE IF count < st_size[f] - fpos[f] THEN count ELSE st_size[f] - fpos[f]
  BY <1>1, ReadCount
<1>3. CASE ~Readable(f)
  <2>1. Abstract!Refused({"EACCDN"})
    BY <1>3, SimRefused DEF Fread
  <2>. QED BY <1>1, <1>3, <2>1 DEF Readable, Abstract!Read, Abstract!CanRead
<1>4. CASE Readable(f)
  <2>1. /\ reply' = Reply("E_OK", n, [i \in 1..n |-> ByteAt(f, fpos[f], i - 1)])
        /\ fpos' = [fpos EXCEPT ![f] = Long(fpos[f] + n)]
        /\ UNCHANGED << files, refcnt, mode >>
    BY <1>4 DEF Fread
  <2>2. UNCHANGED << Contents, Existing, Capacity >>
    BY <2>1, SameFiles
  <2>. HIDE DEF n
  <2>3. PICK k \in Nat : k = n
    BY <1>2
  <2>4. fpos' = [fpos EXCEPT ![f] = fpos[f] + k]
    BY ONLY <1>2, <2>1, <2>3, Zenon
  <2>5. reply' = Abstract!Reply("E_OK", k, SubSeq(Contents[f], fpos[f] + 1, fpos[f] + k))
    <3>1. SubSeq(Contents[f], fpos[f] + 1, fpos[f] + k) = [i \in 1..k |-> ByteAt(f, fpos[f], i - 1)]
      BY <1>2, <2>3, CopiedBytes
    <3>. QED BY <2>1, <2>3, <3>1 DEF Reply, Abstract!Reply
  <2>6. k = IF count < 0 THEN 0 ELSE Abstract!Smaller(count, Len(Contents[f]) - fpos[f])
    BY <1>2, <2>3, ContentsOK DEF Abstract!Smaller
  <2>. QED BY <1>1, <1>4, <2>1, <2>2, <2>4, <2>5, <2>6 DEF Readable, Abstract!Read, Abstract!CanRead
<1>. QED BY <1>3, <1>4

\* What SubSeq gives, and three sequences in a row
LEMMA Prefix ==
    ASSUME NEW S, NEW s \in Seq(S), NEW n \in 0..Len(s)
    PROVE  /\ SubSeq(s, 1, n) \in Seq(S) /\ Len(SubSeq(s, 1, n)) = n
           /\ \A i \in 1..n : SubSeq(s, 1, n)[i] = s[i]
OBVIOUS

\* Length and elements of what is behind the first m elements of a sequence.
LEMMA Suffix ==
    ASSUME NEW S, NEW s \in Seq(S), NEW m \in Nat
    PROVE  /\ SubSeq(s, m + 1, Len(s)) \in Seq(S)
           /\ Len(SubSeq(s, m + 1, Len(s))) = IF m < Len(s) THEN Len(s) - m ELSE 0
           /\ \A i \in 1..(Len(s) - m) : SubSeq(s, m + 1, Len(s))[i] = s[m + i]
<1>1. CASE m < Len(s)
  BY <1>1
<1>2. CASE ~(m < Len(s))
  <2>1. SubSeq(s, m + 1, Len(s)) = << >>
    BY <1>2, SubSeqEmpty
  <2>. QED BY <1>2, <2>1
<1>. QED BY <1>1, <1>2

\* Length and elements of three sequences in a row.
LEMMA ThreeParts ==
    ASSUME NEW S, NEW a \in Seq(S), NEW b \in Seq(S), NEW c \in Seq(S)
    PROVE  /\ a \o b \o c \in Seq(S) /\ Len(a \o b \o c) = Len(a) + Len(b) + Len(c)
           /\ \A i \in 1..(Len(a) + Len(b) + Len(c)) : (a \o b \o c)[i] =
                 IF i <= Len(a) THEN a[i] ELSE IF i <= Len(a) + Len(b) THEN b[i - Len(a)]
                 ELSE c[i - (Len(a) + Len(b))]
OBVIOUS

\* t is s with the first n elements of w written over it behind the first p.
Overwritten(t, s, p, w, n) ==
    /\ Len(t) = IF p + n > Len(s) THEN p + n ELSE Len(s)
    /\ \A i \in 1..Len(t) : t[i] = IF p < i /\ i <= p + n THEN w[i - p] ELSE s[i]

\* A sequence written over is its front, what was written, and its rest.
LEMMA Overwrite ==
    ASSUME NEW S, NEW s \in Seq(S), NEW w \in Seq(S), NEW p \in 0..Len(s), NEW n \in 0..Len(w),
           NEW t \in Seq(S), Overwritten(t, s, p, w, n)
    PROVE  t = SubSeq(s, 1, p) \o SubSeq(w, 1, n) \o SubSeq(s, p + n + 1, Len(s))
<1>0. /\ Len(s) \in Nat /\ Len(w) \in Nat /\ Len(t) \in Nat /\ p \in Nat /\ n \in Nat
      /\ Len(t) = (IF p + n > Len(s) THEN p + n ELSE Len(s))
  BY DEF Overwritten
<1>1. PICK a, b, c : a = SubSeq(s, 1, p) /\ b = SubSeq(w, 1, n) /\ c = SubSeq(s, p + n + 1, Len(s))
  OBVIOUS
<1>2. a \in Seq(S) /\ Len(a) = p /\ \A i \in 1..p : a[i] = s[i]
  BY <1>1, Prefix
<1>3. b \in Seq(S) /\ Len(b) = n /\ \A i \in 1..n : b[i] = w[i]
  BY <1>1, Prefix
<1>4. c \in Seq(S) /\ Len(c) = Len(t) - (p + n) /\ \A i \in 1..Len(c) : c[i] = s[p + n + i]
  <2>1. PICK m \in Nat : m = p + n
    BY <1>0
  <2>2. /\ c \in Seq(S) /\ Len(c) = (IF m < Len(s) THEN Len(s) - m ELSE 0)
        /\ \A i \in 1..(Len(s) - m) : c[i] = s[m + i]
    BY <1>1, <2>1, Suffix
  <2>3. Len(c) = Len(t) - m
    BY ONLY <1>0, <2>1, <2>2
  <2>4. \A i \in 1..Len(c) : i \in 1..(Len(s) - m)
    BY <1>0, <2>1, <2>2
  <2>. QED BY <2>1, <2>2, <2>3, <2>4
<1>5. Len(a) + Len(b) + Len(c) = Len(t) /\ Len(a) = p /\ Len(a) + Len(b) = p + n
  <2>1. Len(a) = p /\ Len(b) = n /\ Len(c) = Len(t) - (p + n)
    BY <1>2, <1>3, <1>4, Zenon
  <2>2. \A x, y, z \in Nat : x + y + (z - (x + y)) = z
    OBVIOUS
  <2>3. p + n + (Len(t) - (p + n)) = Len(t)
    BY <1>0, <2>2, ZenonT(40)
  <2>. QED BY ONLY <2>1, <2>3, Zenon
<1>6. /\ a \o b \o c \in Seq(S) /\ Len(a \o b \o c) = Len(t)
      /\ \A i \in 1..Len(t) : (a \o b \o c)[i] =
            IF i <= p THEN a[i] ELSE IF i <= p + n THEN b[i - p] ELSE c[i - (p + n)]
  <2>1. /\ a \o b \o c \in Seq(S) /\ Len(a \o b \o c) = Len(a) + Len(b) + Len(c)
        /\ \A i \in 1..(Len(a) + Len(b) + Len(c)) : (a \o b \o c)[i] =
              IF i <= Len(a) THEN a[i] ELSE IF i <= Len(a) + Len(b) THEN b[i - Len(a)]
              ELSE c[i - (Len(a) + Len(b))]
    <3>1. a \in Seq(S) /\ b \in Seq(S) /\ c \in Seq(S)
      BY <1>2, <1>3, <1>4, Zenon
    <3>. QED BY ONLY <3>1, ThreeParts
  <2>. QED BY <1>5, <2>1, Zenon
<1>7. ASSUME NEW i \in 1..Len(t) PROVE t[i] = (a \o b \o c)[i]
  <2>1. CASE i <= p
    <3>1. i \in 1..p
      BY <1>0, <2>1
    <3>2. t[i] = s[i] /\ (a \o b \o c)[i] = a[i]
      BY <1>0, <1>6, <2>1, SMTT(30) DEF Overwritten
    <3>. QED BY <1>2, <3>1, <3>2
  <2>2. CASE ~(i <= p) /\ i <= p + n
    <3>1. i - p \in 1..n /\ p < i
      BY <1>0, <2>2
    <3>. QED BY <1>3, <1>6, <2>2, <3>1 DEF Overwritten
  <2>3. CASE ~(i <= p + n)
    <3>1. i - (p + n) \in 1..Len(c) /\ p + n + (i - (p + n)) = i /\ ~(i <= p)
      BY <1>0, <1>4, <2>3
    <3>2. t[i] = s[i] /\ (a \o b \o c)[i] = c[i - (p + n)]
      BY <1>6, <2>3, <3>1 DEF Overwritten
    <3>. QED BY <1>4, <3>1, <3>2
  <2>. QED BY <2>1, <2>2, <2>3
<1>8. t = a \o b \o c
  BY <1>6, <1>7, SeqEqual
<1>. QED BY <1>1, <1>8

\* The file that is written: its bytes are overwritten from the position on.
LEMMA WrittenFile ==
    ASSUME RamInv, NEW f \in File, NEW buf \in Seq(Byte), NEW c \in Seq(Blk),
           Distinct(c),
           Prolongs(f, c),
           NEW p \in 0..st_size[f], NEW n \in 0..Len(buf), p + n <= Len(c) * BS,
           st_size[f] <= Len(c) * BS, chain'[f] = c, data' = Written(c, p, buf, n),
           st_size'[f] = IF p + n > st_size[f] THEN p + n ELSE st_size[f]
    PROVE  Contents'[f] = SubSeq(Contents[f], 1, p) \o SubSeq(buf, 1, n)
                          \o SubSeq(Contents[f], p + n + 1, Len(Contents[f]))
<1>0. st_size[f] \in Nat /\ p \in Nat /\ n \in Nat /\ Len(c) * BS \in Nat
  BY RamFileAssumption DEF RamInv, RamTypeOK
<1>1. PICK s, S : s = Contents[f] /\ S = Byte \cup {Junk}
  OBVIOUS
<1>2. /\ s \in Seq(S) /\ Len(s) = st_size[f]
      /\ \A i \in 1..st_size[f] : s[i] = data[chain[f][Nth(i - 1)]][Off(i - 1)]
  BY <1>1, ContentsOK
<1>3. buf \in Seq(S)
  BY <1>1
<1>4. PICK z \in Nat : z = st_size'[f] /\ z = (IF p + n > st_size[f] THEN p + n ELSE st_size[f]) /\ z <= Len(c) * BS
  BY <1>0
<1>5. ASSUME NEW i \in 1..z
      PROVE  data'[c[Nth(i - 1)]][Off(i - 1)] = IF p < i /\ i <= p + n THEN buf[i - p] ELSE s[i]
  <2>1. PICK q \in Nat : q = i - 1
    BY <1>4
  <2>2. q < Len(c) * BS
    BY <1>0, <1>4, <2>1
  <2>3. data'[c[Nth(q)]][Off(q)] = IF p <= q /\ q < p + n THEN buf[q - p + 1] ELSE data[c[Nth(q)]][Off(q)]
    <3>1. PutInto(data', c, p, buf, n)
      BY <1>0, WrittenOK
    <3>. QED BY <2>2, <3>1 DEF PutInto
  <2>4. CASE p < i /\ i <= p + n
    <3>1. p <= q /\ q < p + n /\ q - p + 1 = i - p
      BY <1>0, <2>1, <2>4
    <3>. QED BY <2>1, <2>3, <2>4, <3>1
  <2>5. CASE ~(p < i /\ i <= p + n)
    <3>1. ~(p <= q /\ q < p + n) /\ q < st_size[f] /\ i \in 1..st_size[f]
      BY <1>0, <1>4, <2>1, <2>5
    <3>2. Nth(q) \in DOMAIN chain[f]
      BY <3>1, InBlocks
    <3>3. data'[c[Nth(q)]][Off(q)] = data[chain[f][Nth(q)]][Off(q)]
      BY <2>3, <3>1, <3>2 DEF Prolongs
    <3>4. s[i] = data[chain[f][Nth(q)]][Off(q)]
      BY <1>2, <2>1, <3>1
    <3>. QED BY <2>1, <2>5, <3>3, <3>4
  <2>. QED BY <2>4, <2>5
<1>6. PICK t : t = Contents'[f]
  OBVIOUS
<1>7. t = [i \in 1..z |-> data'[c[Nth(i - 1)]][Off(i - 1)]]
  <2>1. Contents'[f] = [i \in 1..st_size'[f] |-> ContentByte(f, i - 1)']
    BY DEF Contents
  <2>2. ASSUME NEW i PROVE ContentByte(f, i - 1)' = data'[c[Nth(i - 1)]][Off(i - 1)]
    BY DEF ContentByte, Nth, Off
  <2>. QED BY <1>4, <1>6, <2>1, <2>2
<1>8. \A i \in 1..z : t[i] = IF p < i /\ i <= p + n THEN buf[i - p] ELSE s[i]
  BY <1>5, <1>7
<1>9. t \in Seq(S) /\ Len(t) = z
  <2>1. ASSUME NEW i \in 1..z PROVE t[i] \in S
    <3>1. CASE p < i /\ i <= p + n
      <4>1. i - p \in 1..Len(buf)
        BY <1>0, <3>1
      <4>. QED BY <1>3, <1>8, <3>1, <4>1
    <3>2. CASE ~(p < i /\ i <= p + n)
      <4>1. i \in 1..Len(s)
        BY <1>0, <1>2, <1>4, <3>2
      <4>2. s[i] \in S
        BY ONLY <1>2, <4>1, ElementOfSeq
      <4>3. t[i] = s[i]
        BY <1>8, <3>2
      <4>. QED BY <4>2, <4>3
    <3>. QED BY <3>1, <3>2
  <2>2. t \in [1..z -> S]
    BY <1>7, <2>1
  <2>3. z \in Nat
    BY <1>4
  <2>. QED BY ONLY <2>2, <2>3
<1>10. t = SubSeq(s, 1, p) \o SubSeq(buf, 1, n) \o SubSeq(s, p + n + 1, Len(s))
  <2>1. Overwritten(t, s, p, buf, n)
    BY <1>2, <1>4, <1>8, <1>9 DEF Overwritten
  <2>2. s \in Seq(S) /\ buf \in Seq(S) /\ t \in Seq(S) /\ p \in 0..Len(s) /\ n \in 0..Len(buf)
    BY <1>2, <1>3, <1>9
  <2>. QED BY ONLY <2>1, <2>2, Overwrite
<1>. QED BY <1>1, <1>6, <1>10

\* Fwrite is Write of FileSpec: block by block it writes over a piece of the contents.
LEMMA SimWrite ==
    ASSUME RamInv, NEW f \in File, NEW buf \in Buffers[f], Fwrite(f, buf)
    PROVE  Abstract!Write(f, buf)
<1>0. buf \in Seq(Byte) /\ refcnt[f] > 0 /\ BS \in Nat \ {0} /\ chain[f] \in Seq(Blk)
  BY RamFileAssumption DEF Fwrite, RamInv, RamTypeOK
<1>1. CASE ~Writeable(f)
  <2>1. Abstract!Refused({"EACCDN"})
    BY <1>1, SimRefused DEF Fwrite
  <2>. QED BY <1>0, <1>1, <2>1 DEF Writeable, Abstract!Write, Abstract!CanWrite
<1>2. CASE Writeable(f)
  <2>1. PICK k \in Nat : \E x \in News(k) : WriteBlocks(f, buf, x)
    <3>1. NewBlocks(f, Len(buf)) \in Int
      BY WriteAsks
    <3>. QED BY <1>2, <3>1 DEF Fwrite
  <2>0. PICK new \in News(k) : WriteBlocks(f, buf, new)
    BY <2>1
  <2>2. PICK c, max, n :
             /\ c = chain[f] \o new
             /\ max = (st_blocks[f] + Len(new)) * BS
             /\ n = (IF fpos[f] + Len(buf) > max THEN max - fpos[f] ELSE Len(buf))
    OBVIOUS
  <2>3. /\ chain' = [chain EXCEPT ![f] = c]
        /\ fpos' = [fpos EXCEPT ![f] = fpos[f] + n]
        /\ st_size' = [st_size EXCEPT ![f] = IF fpos[f] + n > st_size[f] THEN fpos[f] + n ELSE st_size[f]]
        /\ data' = Written(c, fpos[f], buf, n)
        /\ reply' = Reply("E_OK", n, << >>)
        /\ UNCHANGED << refcnt, mode >>
    BY <2>0, <2>2 DEF WriteBlocks
  <2>4. /\ c \in Seq(Blk) /\ Len(c) = st_blocks[f] + Len(new) /\ Distinct(c)
        /\ Prolongs(f, c) /\ FromPool(f, c)
    BY <2>2, LongerChain
  <2>5. new \in Seq(Blk) /\ max = Len(c) * BS
    BY <2>2, <2>4, NewsOK
  <2>6. /\ max \in Nat /\ n \in 0..Len(buf) /\ fpos[f] + n <= max /\ st_size[f] <= max
        /\ st_size[f] \in Nat /\ fpos[f] \in Nat /\ fpos[f] <= st_size[f]
    BY <1>0, <2>2, <2>5, WriteCount
  <2>7. Contents'[f] = SubSeq(Contents[f], 1, fpos[f]) \o SubSeq(buf, 1, n)
                       \o SubSeq(Contents[f], fpos[f] + n + 1, Len(Contents[f]))
    <3>1. /\ chain'[f] = c
          /\ st_size'[f] = IF fpos[f] + n > st_size[f] THEN fpos[f] + n ELSE st_size[f]
      BY <2>3 DEF RamInv, RamTypeOK
    <3>2. fpos[f] \in 0..st_size[f] /\ fpos[f] + n <= Len(c) * BS /\ st_size[f] <= Len(c) * BS
      BY <2>5, <2>6
    <3>3. n \in 0..Len(buf) /\ data' = Written(c, fpos[f], buf, n)
      BY <2>3, <2>6
    <3>4. PICK x : x = fpos[f]
      OBVIOUS
    <3>5. /\ x \in 0..st_size[f] /\ x + n <= Len(c) * BS /\ data' = Written(c, x, buf, n)
          /\ st_size'[f] = IF x + n > st_size[f] THEN x + n ELSE st_size[f]
      BY <3>1, <3>2, <3>3, <3>4, Zenon
    <3>6. Contents'[f] = SubSeq(Contents[f], 1, x) \o SubSeq(buf, 1, n)
                         \o SubSeq(Contents[f], x + n + 1, Len(Contents[f]))
      BY <1>0, <2>4, <3>1, <3>2, <3>3, <3>5, WrittenFile, ZenonT(40)
    <3>. QED BY <3>4, <3>6, Zenon
  <2>8. ASSUME NEW g \in File, g # f PROVE Contents'[g] = Contents[g] /\ Capacity'[g] = Capacity[g]
    <3>1. chain'[g] = chain[g] /\ st_size'[g] = st_size[g]
      BY <2>3, <2>8 DEF RamInv, RamTypeOK
    <3>2. PutInto(data', c, fpos[f], buf, n)
      <4>1. n \in Nat /\ fpos[f] \in Nat /\ fpos[f] + n <= Len(c) * BS
        BY <2>5, <2>6
      <4>. QED BY <2>3, <2>4, <4>1, WrittenOK
    <3>3. ASSUME NEW b \in BlocksOf(g) PROVE b \in Blk /\ \A i \in DOMAIN c : c[i] # b
      <4>1. b \in Blk /\ b \notin BlocksOf(f)
        BY <2>8 DEF BlocksOf, RamInv, RamTypeOK, BlocksOwned
      <4>2. b \notin Free
        BY DEF Free
      <4>. QED BY <2>4, <4>1, <4>2 DEF FromPool
    <3>4. \A b \in BlocksOf(g) : \A o \in 0..(BS - 1) : data'[b][o] = data[b][o]
      BY <3>2, <3>3 DEF PutInto
    <3>. QED BY <3>1, <3>4, OtherFiles
  <2>9. /\ Contents' = [Contents EXCEPT ![f] = SubSeq(@, 1, fpos[f]) \o SubSeq(buf, 1, n)
                                               \o SubSeq(Contents[f], fpos[f] + n + 1, Len(Contents[f]))]
        /\ Capacity' = [Capacity EXCEPT ![f] = Capacity'[f]]
    <3>1. /\ Contents = [g \in File |-> Contents[g]] /\ Contents' = [g \in File |-> Contents'[g]]
          /\ Capacity = [g \in File |-> Capacity[g]] /\ Capacity' = [g \in File |-> Capacity'[g]]
      BY DEF Contents, Capacity
    <3>. QED BY <2>7, <2>8, <3>1
  <2>10. Existing' = Existing
    <3>1. chain[f] # << >>
      BY <1>0 DEF RamInv, SizeFits
    <3>2. c # << >>
      BY <1>0, <2>2, <2>5, <3>1
    <3>. QED BY <2>3, <3>1, <3>2 DEF Existing, RamInv, RamTypeOK
  <2>11. Capacity'[f] = max /\ Capacity'[f] >= Capacity[f]
    <3>1. chain'[f] = c
      BY <2>3 DEF RamInv, RamTypeOK
    <3>2. Capacity'[f] = max /\ Capacity[f] = Len(chain[f]) * BS
      BY <2>5, <3>1 DEF Capacity
    <3>3. Len(chain[f]) <= Len(c) /\ Len(chain[f]) \in Int /\ Len(c) \in Int
      BY <1>0, <2>2, <2>5
    <3>4. Len(chain[f]) * BS <= Len(c) * BS
      BY <1>0, <3>3, TimesMonotone
    <3>. QED BY <1>0, <2>5, <2>6, <3>2, <3>3, <3>4
  <2>12. n = Abstract!Smaller(Len(buf), Capacity'[f] - fpos[f])
    <3>1. Len(buf) \in Nat
      BY <1>0
    <3>2. n = IF Len(buf) < max - fpos[f] THEN Len(buf) ELSE max - fpos[f]
      BY ONLY <2>2, <2>6, <3>1
    <3>. QED BY <2>11, <3>2 DEF Abstract!Smaller
  <2>13. reply' = Abstract!Reply("E_OK", n, << >>) /\ Abstract!CanWrite(mode[f])
    BY <1>2, <2>3 DEF Reply, Abstract!Reply, Writeable, Abstract!CanWrite
  <2>. QED BY <1>0, <2>3, <2>9, <2>10, <2>11, <2>12, <2>13 DEF Abstract!Write
<1>. QED BY <1>1, <1>2

\* How FileSpec finds the end of a line, n elements behind the start of a text
LineEnds(text, size, n) ==
    /\ \A j \in 1..n : text[j] \notin {CR, LF}
    /\ n \in {size, Len(text)} \/ text[n + 1] \in {CR, LF}

\* There is only one such end.
LEMMA LineEndsOnce ==
    ASSUME NEW S, NEW text \in Seq(S), NEW size \in Nat, NEW n \in Nat,
           n <= size, n <= Len(text), LineEnds(text, size, n)
    PROVE  Abstract!LineLen(text, size) = n
<1>0. Len(text) \in Nat
  OBVIOUS
<1>1. PICK top \in Nat : top = Abstract!Smaller(size, Len(text)) /\ top <= size /\ top <= Len(text)
                         /\ (n <= top)
  BY <1>0 DEF Abstract!Smaller
<1>2. ASSUME NEW a \in 0..top, NEW b \in 0..top, a < b, LineEnds(text, size, a), LineEnds(text, size, b)
      PROVE  FALSE
  <2>1. a # size /\ a # Len(text) /\ a + 1 \in 1..b
    BY <1>0, <1>1, <1>2
  <2>. QED BY <1>2, <2>1 DEF LineEnds
<1>3. \A a, b \in 0..top : LineEnds(text, size, a) /\ LineEnds(text, size, b) => a = b
  BY <1>1, <1>2
<1>4. Abstract!LineLen(text, size) = CHOOSE i \in 0..top : LineEnds(text, size, i)
  BY <1>1 DEF Abstract!LineLen, LineEnds
<1>5. n \in 0..top
  BY <1>1
<1>. QED BY <1>3, <1>4, <1>5

\* getline sees the same text as FileSpec's.
LEMMA TextOK ==
    ASSUME RamInv, NEW f \in File, refcnt[f] > 0, NEW text, text = Abstract!Text(f)
    PROVE  /\ text \in Seq(Byte \cup {Junk})
           /\ Readable(f) => Len(text) = st_size[f] - fpos[f]
           /\ ~Readable(f) => Len(text) = 0
           /\ \A j \in Nat : AtEnd(f, fpos[f] + j) <=> j >= Len(text)
           /\ \A j \in Nat : j < Len(text) => Getc(f, fpos[f] + j) = text[j + 1]
<1>1. fpos[f] \in Nat /\ st_size[f] \in Nat /\ fpos[f] <= st_size[f]
  BY RamFileAssumption DEF RamInv, RamTypeOK, SizeFits
<1>2. CASE ~Readable(f)
  <2>1. text = << >>
    BY <1>2 DEF Readable, Abstract!Text, Abstract!CanRead
  <2>. QED BY <1>2, <2>1 DEF AtEnd
<1>3. CASE Readable(f)
  <2>1. PICK s, S : s = Contents[f] /\ S = Byte \cup {Junk}
    OBVIOUS
  <2>2. s \in Seq(S) /\ Len(s) = st_size[f]
    BY <2>1, ContentsOK
  <2>3. text = SubSeq(s, fpos[f] + 1, Len(s))
    BY <1>3, <2>1 DEF Readable, Abstract!Text, Abstract!CanRead
  <2>4. /\ text \in Seq(S) /\ Len(text) = (IF fpos[f] < Len(s) THEN Len(s) - fpos[f] ELSE 0)
        /\ \A i \in 1..(Len(s) - fpos[f]) : text[i] = s[fpos[f] + i]
    <3>1. PICK m \in Nat : m = fpos[f]
      BY <1>1
    <3>2. /\ SubSeq(s, m + 1, Len(s)) \in Seq(S)
          /\ Len(SubSeq(s, m + 1, Len(s))) = IF m < Len(s) THEN Len(s) - m ELSE 0
          /\ \A i \in 1..(Len(s) - m) : SubSeq(s, m + 1, Len(s))[i] = s[m + i]
      BY ONLY <2>2, m \in Nat, Suffix
    <3>. QED BY <2>3, <3>1, <3>2, Zenon
  <2>5. Len(text) = st_size[f] - fpos[f]
    BY <1>1, <2>2, <2>4
  <2>6. \A j \in Nat : AtEnd(f, fpos[f] + j) <=> j >= Len(text)
    BY <1>1, <1>3, <2>5 DEF AtEnd
  <2>7. ASSUME NEW j \in Nat, j < Len(text) PROVE Getc(f, fpos[f] + j) = text[j + 1]
    <3>0. j < st_size[f] - fpos[f] /\ j + 1 \in 1..(Len(s) - fpos[f])
      <4>1. Len(s) = st_size[f]
        BY <2>2
      <4>. QED BY <1>1, <2>5, <2>7, <4>1
    <3>1. PICK p \in Nat : p = fpos[f] + j /\ p + 0 < st_size[f] /\ p + 0 + 1 = fpos[f] + (j + 1)
      BY <1>1, <3>0, SMTT(30)
    <3>2. ByteAt(f, p, 0) = Contents[f][p + 0 + 1]
      BY <3>1, ByteAtOK
    <3>3. text[j + 1] = s[fpos[f] + (j + 1)]
      BY <2>4, <3>0
    <3>. QED BY <2>1, <3>1, <3>2, <3>3 DEF Getc
  <2>. QED BY <1>3, <2>1, <2>4, <2>5, <2>6, <2>7
<1>. QED BY <1>2, <1>3

\* Getline is Getline of FileSpec.
LEMMA SimGetline ==
    ASSUME RamInv, NEW f \in File, NEW size \in Nat, Getline(f, size)
    PROVE  Abstract!Getline(f, size)
<1>1. PICK n, text : n = LineLen(f, size) /\ text = Abstract!Text(f)
  OBVIOUS
<1>2. /\ refcnt[f] > 0
      /\ reply' = Reply("E_OK", n, [i \in 1..n |-> Getc(f, fpos[f] + i - 1)])
      /\ fpos' = [fpos EXCEPT ![f] = fpos[f] + n + Eol(f, size, n)]
      /\ UNCHANGED << files, refcnt, mode >>
  BY <1>1 DEF Getline
<1>3. UNCHANGED << Contents, Existing, Capacity >>
  BY <1>2, SameFiles
<1>4. /\ text \in Seq(Byte \cup {Junk}) /\ Len(text) \in Nat
      /\ \A j \in Nat : AtEnd(f, fpos[f] + j) <=> j >= Len(text)
      /\ \A j \in Nat : j < Len(text) => Getc(f, fpos[f] + j) = text[j + 1]
  <2>1. /\ text \in Seq(Byte \cup {Junk})
        /\ \A j \in Nat : AtEnd(f, fpos[f] + j) <=> j >= Len(text)
        /\ \A j \in Nat : j < Len(text) => Getc(f, fpos[f] + j) = text[j + 1]
    BY <1>1, <1>2, TextOK
  <2>. QED BY <2>1
<1>5. Len(text) \in Nat
  BY <1>4
<1>6. ASSUME NEW j \in Nat PROVE AtEnd(f, fpos[f] + j) <=> j >= Len(text)
  BY <1>4
<1>7. n \in 0..size /\ Stops(f, size, n) /\ \A j \in 0..(n - 1) : ~Stops(f, size, j)
  BY <1>1, LineLenOK
<1>8. n \in Nat /\ n <= size /\ fpos[f] \in Nat
  BY <1>7, RamFileAssumption DEF RamInv, RamTypeOK
<1>9. n <= Len(text)
  <2>1. CASE n = 0
    BY <1>4, <2>1
  <2>2. CASE n # 0
    <3>1. n - 1 \in 0..(n - 1) /\ n - 1 \in Nat
      BY <1>8, <2>2
    <3>2. ~AtEnd(f, fpos[f] + (n - 1))
      BY <1>7, <3>1 DEF Stops
    <3>. QED BY <1>4, <1>8, <3>1, <3>2
  <2>. QED BY <2>1, <2>2
<1>10. LineEnds(text, size, n)
  <2>1. ASSUME NEW j \in 1..n PROVE text[j] \notin {CR, LF}
    <3>1. PICK i \in 0..(n - 1) : i = j - 1 /\ i \in Nat /\ i < Len(text) /\ i + 1 = j
      BY <1>4, <1>8, <1>9
    <3>2. Getc(f, fpos[f] + i) \notin {CR, LF}
      BY <1>7, <3>1 DEF Stops
    <3>. QED BY <1>4, <3>1, <3>2
  <2>2. ASSUME n # size, n # Len(text) PROVE text[n + 1] \in {CR, LF}
    <3>1. n < Len(text)
      BY <1>8, <1>9, <1>5, <2>2
    <3>2. ~AtEnd(f, fpos[f] + n) /\ Getc(f, fpos[f] + n) = text[n + 1]
      BY <1>4, <1>8, <1>5, <3>1
    <3>. QED BY <1>7, <2>2, <3>2 DEF Stops
  <2>. QED BY <2>1, <2>2 DEF LineEnds
<1>11. Abstract!LineLen(text, size) = n
  BY <1>4, <1>8, <1>9, <1>10, LineEndsOnce
<1>12. Eol(f, size, n) = Abstract!Eol(text, size, n)
  <2>1. AtEnd(f, fpos[f] + n) <=> n = Len(text)
    <3>1. n >= Len(text) <=> n = Len(text)
      BY <1>8, <1>9, <1>5
    <3>. QED BY <1>8, <1>6, <3>1
  <2>2. fpos[f] + n + 1 = fpos[f] + (n + 1) /\ n + 1 \in Nat
    BY <1>8
  <2>3. AtEnd(f, fpos[f] + n + 1) <=> n + 1 >= Len(text)
    BY <1>4, <2>2
  <2>4. n # Len(text) => Getc(f, fpos[f] + n) = text[n + 1]
    BY <1>4, <1>8, <1>9
  <2>5. ~(n + 1 >= Len(text)) <=> n + 1 < Len(text)
    BY <1>8, <1>5
  <2>. QED BY <2>1, <2>3, <2>4, <2>5 DEF Eol, Abstract!Eol
<1>13. [i \in 1..n |-> Getc(f, fpos[f] + i - 1)] = SubSeq(text, 1, n)
  <2>1. SubSeq(text, 1, n) = [i \in 1..n |-> text[i]]
    <3>1. n \in 0..Len(text)
      BY <1>4, <1>8, <1>9
    <3>. QED BY ONLY <1>4, <3>1
  <2>2. ASSUME NEW i \in 1..n PROVE Getc(f, fpos[f] + i - 1) = text[i]
    <3>1. PICK j \in Nat : j = i - 1 /\ fpos[f] + i - 1 = fpos[f] + j /\ j < Len(text) /\ j + 1 = i
      BY <1>8, <1>9, <1>5
    <3>. QED BY <1>4, <3>1
  <2>. QED BY <2>1, <2>2
<1>14. reply' = Abstract!Reply("E_OK", n, SubSeq(text, 1, n))
  BY <1>2, <1>13 DEF Reply, Abstract!Reply
<1>. QED BY <1>1, <1>2, <1>3, <1>11, <1>12, <1>14 DEF Abstract!Getline

\* Every call is a call of FileSpec.
LEMMA SimNext ==
    ASSUME ~HugeReads, RamInv, [Next]_vars
    PROVE  [Abstract!FileNext]_(Abstract!fvars)
<1>1. CASE UNCHANGED vars
  <2>1. UNCHANGED << Contents, Existing, Capacity >>
    BY <1>1, SameFiles DEF vars, files
  <2>. QED BY <1>1, <2>1 DEF vars, Abstract!fvars
<1>2. ASSUME NEW f \in File, NEW o \in OpenModes, Fopen(f, o.m, o.creat, o.trunc, o.excl)
      PROVE  Abstract!FileNext
  <2>1. o.m \in Modes /\ o.creat \in BOOLEAN /\ o.trunc \in BOOLEAN /\ o.excl \in BOOLEAN
    BY RamFileAssumption DEF Modes
  <2>2. Abstract!Open(f, o.m, o.creat, o.trunc, o.excl)
    BY <1>2, <2>1, SimOpen
  <2>. QED BY <2>2 DEF Abstract!FileNext
<1>3. ASSUME NEW f \in File, Fdup(f) \/ Fclose(f) \/ Fdelete(f) PROVE Abstract!FileNext
  BY <1>3, SimDup, SimClose, SimDelete DEF Abstract!FileNext
<1>4. ASSUME NEW f \in File, NEW count \in Counts, Fread(f, count) \/ (count >= 0 /\ Getline(f, count))
      PROVE  Abstract!FileNext
  <2>1. count >= 0 => count \in Nat
    BY RamFileAssumption
  <2>2. Abstract!Read(f, count) \/ (count >= 0 /\ Abstract!Getline(f, count))
    BY <1>4, <2>1, SimRead, SimGetline
  <2>. QED BY <2>2 DEF Abstract!FileNext
<1>5. ASSUME NEW f \in File, NEW buf \in Buffers[f], Fwrite(f, buf) PROVE Abstract!FileNext
  BY <1>5, SimWrite DEF Abstract!FileNext
<1>6. ASSUME NEW f \in File, NEW s \in Seeks, Fseek(f, s[1], s[2]) PROVE Abstract!FileNext
  BY <1>6, SimSeek DEF Abstract!FileNext
<1>7. ASSUME NEW f \in File, Fionread(f) \/ Fionwrite(f) PROVE Abstract!FileNext
  BY <1>7, SimAvail DEF Abstract!FileNext
<1>. QED BY <1>1, <1>2, <1>3, <1>4, <1>5, <1>6, <1>7 DEF Next

\* A RAM disk without files is one for FileSpec too.
LEMMA SimInit == Init => Abstract!FileInit
<1>. SUFFICES ASSUME Init PROVE Abstract!FileInit
  OBVIOUS
<1>1. Contents = [f \in File |-> << >>]
  <2>1. ASSUME NEW f \in File PROVE [i \in 1..st_size[f] |-> ContentByte(f, i - 1)] = << >>
    BY DEF Init
  <2>. QED BY <2>1 DEF Contents
<1>2. Existing = {}
  BY DEF Init, Existing
<1>3. Capacity = [f \in File |-> 0]
  BY RamFileAssumption DEF Init, Capacity
<1>. QED BY <1>1, <1>2, <1>3 DEF Init, Abstract!FileInit, Refuse, Reply, Abstract!Refuse, Abstract!Reply

\* The RAM disk implements FileSpec for any files, memory, block size and
\* calls, as long as no read reaches behind a LONG: however a call is cut at
\* the FILEBLOCKs, whatever blocks Kmalloc gives and wherever it fails, the
\* files are sequences of bytes with a position and a capacity.
THEOREM FilesImplementFileSpec ==
    ASSUME ~HugeReads PROVE Spec => ImplementsFileSpec
<1>1. RamInv /\ [Next]_vars => [Abstract!FileNext]_(Abstract!fvars)
  BY SimNext
<1>. QED BY <1>1, SimInit, RamInvAlways, PTL DEF Spec, ImplementsFileSpec, Abstract!FileSpecification

-----------------------------------------------------------------------------
(* No read passes the end of a file *)

\* FileSpec's files hold bytes that were written, and so does every answer.
OnlyBytes ==
    /\ \A f \in File : Contents[f] \in Seq(Byte)
    /\ \A i \in DOMAIN reply.buf : reply.buf[i] \in Byte

\* Answers without bytes
LEMMA NoBytes ==
    ASSUME OnlyBytes, UNCHANGED Contents, NEW err, NEW val, reply' = Reply(err, val, << >>)
    PROVE  OnlyBytes'
BY DEF OnlyBytes, Reply

\* Answers with bytes of the file f
LEMMA BytesOfFile ==
    ASSUME RamInv, OnlyBytes, NEW f \in File, NEW n \in Nat, fpos[f] + n <= st_size[f],
           UNCHANGED files, reply' = Reply("E_OK", n, [i \in 1..n |-> ByteAt(f, fpos[f], i - 1)])
    PROVE  OnlyBytes'
<1>1. fpos[f] \in Nat /\ st_size[f] \in Nat
  BY RamFileAssumption DEF RamInv, RamTypeOK
<1>2. Contents[f] \in Seq(Byte) /\ Len(Contents[f]) = st_size[f] /\ UNCHANGED Contents
  BY ContentsOK, SameFiles DEF OnlyBytes
<1>3. ASSUME NEW i \in 1..n PROVE ByteAt(f, fpos[f], i - 1) \in Byte
  <2>1. i - 1 \in Nat /\ fpos[f] + (i - 1) < st_size[f] /\ fpos[f] + (i - 1) + 1 \in 1..st_size[f]
    BY <1>1
  <2>2. ByteAt(f, fpos[f], i - 1) = Contents[f][fpos[f] + (i - 1) + 1]
    BY <1>1, <2>1, ByteAtOK
  <2>. QED BY <1>2, <2>1, <2>2
<1>4. DOMAIN reply'.buf = 1..n /\ \A i \in 1..n : reply'.buf[i] = ByteAt(f, fpos[f], i - 1)
  BY DEF Reply
<1>. QED BY <1>2, <1>3, <1>4 DEF OnlyBytes

\* Fwrite puts only bytes into files.
LEMMA WriteBytes ==
    ASSUME RamInv, OnlyBytes, NEW f \in File, NEW buf \in Buffers[f], Fwrite(f, buf)
    PROVE  OnlyBytes'
<1>0. buf \in Seq(Byte) /\ Contents[f] \in Seq(Byte) /\ fpos[f] \in Nat
      /\ Len(Contents[f]) = st_size[f] /\ refcnt[f] > 0
  BY RamFileAssumption, ContentsOK DEF OnlyBytes, RamInv, RamTypeOK, Fwrite
<1>1. fpos[f] \in 0..Len(Contents[f])
  BY <1>0, RamFileAssumption DEF RamInv, RamTypeOK, SizeFits
<1>2. CASE ~Writeable(f)
  BY <1>2, SameFiles, NoBytes DEF Fwrite, Answer, Refuse
<1>3. CASE Writeable(f)
  <2>0. Abstract!Write(f, buf) /\ Abstract!CanWrite(mode[f])
    BY <1>3, SimWrite DEF Writeable, Abstract!CanWrite
  <2>1. PICK n : /\ n = Abstract!Smaller(Len(buf), Capacity'[f] - fpos[f])
                 /\ reply' = Abstract!Reply("E_OK", n, << >>)
                 /\ Contents' = [Contents EXCEPT ![f] = SubSeq(@, 1, fpos[f]) \o SubSeq(buf, 1, n)
                                    \o SubSeq(Contents[f], fpos[f] + n + 1, Len(Contents[f]))]
    BY <2>0, Zenon DEF Abstract!Write
  <2>2. n \in Int /\ n <= Len(buf) /\ 0 <= n
    <3>1. Capacity'[f] \in Int /\ fpos[f] <= Capacity'[f]
      <4>1. Capacity'[f] >= Capacity[f] /\ Capacity'[f] = Len(chain'[f]) * BS
        BY <1>3, SimWrite DEF Abstract!Write, Writeable, Abstract!CanWrite, Capacity
      <4>2. chain'[f] \in Seq(Blk) /\ BS \in Nat
        BY FwriteInv, RamFileAssumption DEF RamInv, RamTypeOK
      <4>3. Capacity'[f] \in Int
        BY <4>1, <4>2
      <4>4. Capacity[f] \in Int /\ st_size[f] \in Nat /\ st_size[f] <= Capacity[f]
        <5>1. /\ Capacity[f] = Len(chain[f]) * BS /\ st_blocks[f] = Len(chain[f])
              /\ st_size[f] <= st_blocks[f] * BS /\ st_blocks[f] \in Nat /\ BS \in Nat /\ st_size[f] \in Nat
          BY RamFileAssumption DEF Capacity, RamInv, RamTypeOK, SizeFits, BlocksOwned
        <5>. QED BY <5>1
      <4>. QED BY <1>0, <1>1, <4>1, <4>3, <4>4
    <3>. QED BY <1>0, <2>1, <3>1 DEF Abstract!Smaller
  <2>3. /\ SubSeq(Contents[f], 1, fpos[f]) \in Seq(Byte) /\ SubSeq(buf, 1, n) \in Seq(Byte)
    BY <1>0, <1>1, <2>2, Prefix
  <2>4. SubSeq(Contents[f], fpos[f] + n + 1, Len(Contents[f])) \in Seq(Byte)
    <3>1. PICK m \in Nat : m = fpos[f] + n
      BY <1>0, <2>2
    <3>. QED BY <1>0, <3>1, Suffix
  <2>5. Contents'[f] \in Seq(Byte)
    <3>1. f \in DOMAIN Contents
      BY DEF Contents
    <3>. QED BY <2>1, <2>3, <2>4, <3>1
  <2>6. \A g \in File \ {f} : Contents'[g] = Contents[g]
    <3>1. \A g \in File : g \in DOMAIN Contents
      BY DEF Contents
    <3>. QED BY <2>1, <3>1
  <2>7. DOMAIN reply'.buf = {}
    BY <2>1 DEF Abstract!Reply
  <2>. QED BY <2>5, <2>6, <2>7 DEF OnlyBytes
<1>. QED BY <1>2, <1>3

\* Every step keeps only bytes in files and in answers.
LEMMA NextOnlyBytes ==
    ASSUME ~HugeReads, RamInv, OnlyBytes, [Next]_vars PROVE OnlyBytes'
<1>1. CASE UNCHANGED vars
  BY <1>1, SameFiles DEF vars, files, OnlyBytes
<1>2. ASSUME NEW f \in File, NEW o \in OpenModes, Fopen(f, o.m, o.creat, o.trunc, o.excl)
      PROVE  OnlyBytes'
  <2>1. o.m \in Modes /\ o.creat \in BOOLEAN /\ o.trunc \in BOOLEAN /\ o.excl \in BOOLEAN
    BY RamFileAssumption DEF Modes
  <2>2. Contents' = Contents \/ Contents' = [Contents EXCEPT ![f] = << >>]
    BY <1>2, <2>1, SimOpen DEF Abstract!Open, Abstract!Refused
  <2>3. \A g \in File : Contents'[g] \in Seq(Byte)
    <3>1. << >> \in Seq(Byte) /\ \A g \in File : g \in DOMAIN Contents
      BY DEF Contents
    <3>2. \A g \in File : Contents'[g] = Contents[g] \/ Contents'[g] = << >>
      BY <2>2, <3>1
    <3>. QED BY <3>1, <3>2 DEF OnlyBytes
  <2>4. reply'.buf = << >>
    BY <1>2, <2>1, SimOpen DEF Abstract!Open, Abstract!Refused, Abstract!Refuse, Abstract!Reply
  <2>. QED BY <2>3, <2>4 DEF OnlyBytes
<1>3. ASSUME NEW f \in File, Fdup(f) \/ Fclose(f) PROVE OnlyBytes'
  BY <1>3, SameFiles, NoBytes DEF Fdup, Fclose, Refuse
<1>4. ASSUME NEW f \in File, Fdelete(f) PROVE OnlyBytes'
  <2>1. Contents' = Contents \/ Contents' = [Contents EXCEPT ![f] = << >>]
    BY <1>4, SimDelete DEF Abstract!Delete, Abstract!Refused
  <2>2. \A g \in File : Contents'[g] \in Seq(Byte)
    <3>1. << >> \in Seq(Byte) /\ \A g \in File : g \in DOMAIN Contents
      BY DEF Contents
    <3>2. \A g \in File : Contents'[g] = Contents[g] \/ Contents'[g] = << >>
      BY <2>1, <3>1
    <3>. QED BY <3>1, <3>2 DEF OnlyBytes
  <2>3. reply'.buf = << >>
    BY <1>4, SimDelete DEF Abstract!Delete, Abstract!Refused, Abstract!Refuse, Abstract!Reply
  <2>. QED BY <2>2, <2>3 DEF OnlyBytes
<1>5. ASSUME NEW f \in File, NEW count \in Counts, Fread(f, count) PROVE OnlyBytes'
  <2>. DEFINE want == IF Long(fpos[f] + count) > st_size[f] THEN st_size[f] - fpos[f] ELSE count
              n == IF want < 0 THEN 0 ELSE want
  <2>1. n \in Nat /\ fpos[f] + n <= st_size[f]
    <3>1. refcnt[f] > 0 /\ fpos[f] + count <= LMAX
      BY <1>5 DEF Fread
    <3>. QED BY <3>1, ReadCount
  <2>2. CASE ~Readable(f)
    BY <1>5, <2>2, SameFiles, NoBytes DEF Fread, Answer, Refuse
  <2>3. CASE Readable(f)
    <3>1. UNCHANGED files /\ reply' = Reply("E_OK", n, [i \in 1..n |-> ByteAt(f, fpos[f], i - 1)])
      BY <1>5, <2>3 DEF Fread
    <3>. HIDE DEF n
    <3>. QED BY <2>1, <3>1, BytesOfFile
  <2>. QED BY <2>2, <2>3
<1>6. ASSUME NEW f \in File, NEW count \in Counts, count >= 0, Getline(f, count) PROVE OnlyBytes'
  <2>1. PICK n : n = LineLen(f, count)
    OBVIOUS
  <2>2. /\ refcnt[f] > 0 /\ UNCHANGED files
        /\ reply' = Reply("E_OK", n, [i \in 1..n |-> Getc(f, fpos[f] + i - 1)])
    BY <1>6, <2>1 DEF Getline
  <2>3. count \in Nat /\ fpos[f] \in Nat /\ st_size[f] \in Nat
    BY <1>6, RamFileAssumption DEF RamInv, RamTypeOK
  <2>4. n \in Nat /\ \A j \in 0..(n - 1) : ~AtEnd(f, fpos[f] + j)
    BY <2>1, <2>2, <2>3, LineInside
  <2>5. ASSUME NEW i \in 1..n PROVE Getc(f, fpos[f] + i - 1) \in Byte
    <3>1. PICK p \in Nat : p = fpos[f] + i - 1 /\ p = fpos[f] + (i - 1) /\ i - 1 \in 0..(n - 1)
      BY <2>3, <2>4
    <3>2. p + 0 < st_size[f] /\ p + 0 + 1 \in 1..st_size[f]
      BY <2>3, <2>4, <3>1 DEF AtEnd
    <3>3. ByteAt(f, p, 0) = Contents[f][p + 0 + 1]
      BY <3>2, ByteAtOK
    <3>4. Contents[f] \in Seq(Byte) /\ Len(Contents[f]) = st_size[f]
      BY ContentsOK DEF OnlyBytes
    <3>. QED BY <3>1, <3>2, <3>3, <3>4 DEF Getc
  <2>6. DOMAIN reply'.buf = 1..n /\ \A i \in 1..n : reply'.buf[i] = Getc(f, fpos[f] + i - 1)
    BY <2>2 DEF Reply
  <2>. QED BY <2>2, <2>5, <2>6, SameFiles DEF OnlyBytes
<1>7. ASSUME NEW f \in File, NEW buf \in Buffers[f], Fwrite(f, buf) PROVE OnlyBytes'
  BY <1>7, WriteBytes
<1>8. ASSUME NEW f \in File, NEW s \in Seeks, Fseek(f, s[1], s[2]) PROVE OnlyBytes'
  BY <1>8, SameFiles, NoBytes DEF Fseek, Answer, Refuse
<1>9. ASSUME NEW f \in File, Fionread(f) \/ Fionwrite(f) PROVE OnlyBytes'
  BY <1>9, SameFiles, NoBytes DEF Fionread, Fionwrite, Answer, Refuse
<1>. QED BY <1>1, <1>2, <1>3, <1>4, <1>5, <1>6, <1>7, <1>8, <1>9 DEF Next

\* A read gives bytes of the file only, never what memory held before, as long
\* as its end is a LONG. Without that hypothesis the code breaks the promise.
THEOREM ReadsInside ==
    ASSUME ~HugeReads PROVE Spec => []EndRespected
<1>1. Init => OnlyBytes
  <2>1. ASSUME Init PROVE OnlyBytes
    <3>1. \A f \in File : Contents[f] = << >>
      BY <2>1, SimInit DEF Abstract!FileInit
    <3>2. reply.buf = << >>
      BY <2>1 DEF Init, Refuse, Reply
    <3>3. << >> \in Seq(Byte) /\ DOMAIN << >> = {}
      OBVIOUS
    <3>. QED BY <3>1, <3>2, <3>3 DEF OnlyBytes
  <2>. QED BY <2>1
<1>2. RamInv /\ OnlyBytes /\ [Next]_vars => OnlyBytes'
  BY NextOnlyBytes
<1>3. OnlyBytes => EndRespected
  BY RamFileAssumption DEF OnlyBytes, EndRespected
<1>. QED BY <1>1, <1>2, <1>3, RamInvAlways, PTL DEF Spec
=============================================================================
