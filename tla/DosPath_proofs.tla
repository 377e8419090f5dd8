--------------------------- MODULE DosPath_proofs ---------------------------
(***************************************************************************)
(* Proofs for module DosPath: whatever the processes do to the RAM disk    *)
(* and to their default paths, the types, the tree of directories, the DDs *)
(* and the files that are open stay as they should; and the counters are   *)
(* those of the users.                                                     *)
(*                                                                         *)
(* The invariant DosInv says of the disk (DiskOK) what the file system     *)
(* alone is to keep, with the descriptors of open files as a parameter,    *)
(* and of the kernel what it counts. The lemmas follow the calls from the  *)
(* inside out: chains of DDs, blocks and entries, locking and unlocking,   *)
(* path2DD and the lookup with its links, the XFS functions, the GEMDOS    *)
(* calls, the steps of processes.                                          *)
(***************************************************************************)
EXTENDS DosPath, FiniteSetTheorems, NaturalsInduction, SequenceTheorems, WellFoundedInduction, TLAPS


-----------------------------------------------------------------------------
(* The inductive invariant *)

EntryType == [name : Name \cup {NULL}, kind : Kinds \cup {NULL}, faddr : Addr \cup {NULL}]
BlockType == [kind : Kinds \cup {NULL}, up : Blocks \cup {NULL}, ent : Seq(EntryType), to : Path]
FdType == [file : (Blocks \X Nat) \cup {NULL}, refcnt : Nat, is_parent : Nat, parent : FDs \cup {NULL}]
HeapType == [Blocks -> BlockType]
DiskType == [heap : HeapType, fd : FdTable,
             dhd : [DHDs -> [dir : Blocks \cup {NULL}, owner : Proc \cup {NULL}]]]

\* Entry k of block a; whether it is in use
Ent(h, a, k) == h[a].ent[k]
LiveAt(h, a, k) == a \in Blocks /\ k \in DOMAIN h[a].ent /\ Ent(h, a, k).faddr # NULL
Dirs(h) == {a \in Blocks : h[a].kind = "dir"}

\* Where the entry of descriptor i is
At(fd, i) == fd[i].file[1]
Nr(fd, i) == fd[i].file[2]

\* Only directories have entries; an entry in use has a name and leads to a block of
\* its kind, a directory's ".." back to where its entry is
EntriesOK(h) ==
    /\ h[Root].kind = "dir"
    /\ \A a \in Blocks : h[a].kind # "dir" => h[a].ent = << >>
    /\ \A a \in Blocks : \A k \in DOMAIN h[a].ent : LiveAt(h, a, k) =>
          /\ Ent(h, a, k).name \in Name
          /\ Ent(h, a, k).kind = h[Ent(h, a, k).faddr].kind
          /\ Ent(h, a, k).kind \in Kinds
          /\ Ent(h, a, k).kind = "dir" => h[Ent(h, a, k).faddr].up = a

\* A block has one entry, a name stands for one entry of a directory
OneEntry(h) ==
    \A a, b \in Blocks : \A k \in DOMAIN h[a].ent, l \in DOMAIN h[b].ent :
       LiveAt(h, a, k) /\ LiveAt(h, b, l) /\ Ent(h, a, k).faddr = Ent(h, b, l).faddr => a = b /\ k = l
NoneLost(h) ==
    \A c \in Addr : h[c].kind # NULL =>
       \E a \in Blocks : \E k \in DOMAIN h[a].ent : LiveAt(h, a, k) /\ Ent(h, a, k).faddr = c
OneName(h) ==
    \A a \in Blocks : \A k, l \in DOMAIN h[a].ent :
       LiveAt(h, a, k) /\ LiveAt(h, a, l) /\ Ent(h, a, k).name = Ent(h, a, l).name => k = l

\* ".." leads to the root
ToRoot(h) ==
    \A S \in SUBSET Dirs(h) : S # {} /\ (\A a \in S \ {Root} : h[a].up \in S) => Root \in S

HeapOK(h) ==
    h \in HeapType /\ EntriesOK(h) /\ OneEntry(h) /\ NoneLost(h) /\ OneName(h) /\ ToRoot(h)

\* DD i lies where fd_parent says; so do those above it. F are descriptors of files
GoodDD(d, F, i) ==
    /\ i \in FDs \ F
    /\ i # ROOT =>
          /\ d.fd[i].file # NULL /\ d.fd[i].parent \in FDs
          /\ At(d.fd, i) = DirOf(d, d.fd[i].parent)
          /\ LiveAt(d.heap, At(d.fd, i), Nr(d.fd, i))
          /\ Entry(d, d.fd[i].file).kind = "dir"
Rooted(d, F, i) == i \in FDs /\ \A j \in Chain(d.fd, i) : GoodDD(d, F, j)

RootOK(d, F) ==
    ROOT \notin F /\ d.fd[ROOT].file = root_de /\ d.fd[ROOT].refcnt > 0 /\ d.fd[ROOT].parent = NULL

\* A descriptor that is free is empty, another one has a DD above it
FreeOK(d) ==
    \A i \in FDs \ {ROOT} : IF d.fd[i].file = NULL THEN d.fd[i] = FreeFd
                            ELSE d.fd[i].parent \in FDs /\ d.fd[i].file # root_de

\* Files that are open exist
FilesOK(d, F) ==
    /\ F \subseteq FDs
    /\ \A i \in F :
          /\ d.fd[i].file # NULL /\ d.fd[i].refcnt > 0 /\ d.fd[i].is_parent = 0
          /\ LiveAt(d.heap, At(d.fd, i), Nr(d.fd, i))
          /\ Entry(d, d.fd[i].file).kind = "file"
    /\ \A i, j \in F : d.fd[i].file = d.fd[j].file => i = j

\* An entry has one DD
OneDD(d, F) ==
    \A i, j \in FDs \ F : d.fd[i].file # NULL /\ d.fd[i].file = d.fd[j].file => i = j

LockedOK(d, F) == \A i \in FDs \ F : d.fd[i].refcnt > 0 => Rooted(d, F, i)

\* The DDs that somebody uses below DD i
Below(fd, F, i) == {j \in FDs \ F : fd[j].refcnt > 0 /\ i \in Ancestors(fd, j)}
ParentsOK(d, F) == \A i \in FDs : d.fd[i].is_parent = Cardinality(Below(d.fd, F, i))

FdOK(d, F) ==
    RootOK(d, F) /\ FreeOK(d) /\ FilesOK(d, F) /\ OneDD(d, F) /\ LockedOK(d, F) /\ ParentsOK(d, F)

OpenDirsOK(d) == \A i \in DHDs : d.dhd[i].dir # NULL => d.heap[d.dhd[i].dir].kind = "dir"

DiskOK(d, F) == d \in DiskType /\ HeapOK(d.heap) /\ FdOK(d, F) /\ OpenDirsOK(d)

\* The processes whose default path is DD i, and the handles of descriptor i
CwdOf(i) == {p \in alive : drvx[p] > 0 /\ pathx[drvx[p]] = i}
HandlesOf(i) == {q \in Proc \X (1..NHDL) : hdl[q[1]][q[2]] = i}
Uses(i) == (IF i = ROOT THEN 1 ELSE 0) + Cardinality(CwdOf(i)) + Cardinality(HandlesOf(i))

KernelType ==
    /\ pathx \in [Handle -> FDs \cup {NULL}]
    /\ pathcntx \in [Handle -> Nat]
    /\ drvx \in [Proc -> {0} \cup Handle]
    /\ hdl \in [Proc -> [1..NHDL -> FDs \cup {NULL}]]
    /\ alive \subseteq Proc

PathsOK ==
    /\ \A h \in Handle : pathcntx[h] = Cardinality({p \in alive : drvx[p] = h})
    /\ \A h \in Handle : pathx[h] # NULL <=> pathcntx[h] > 0
    /\ \A h \in Handle : pathx[h] # NULL => pathx[h] \notin FileFDs \cup {ROOT}
    /\ \A g, h \in Handle : pathx[g] # NULL /\ pathx[g] = pathx[h] => g = h
    /\ \A p \in Proc \ alive : drvx[p] = 0 /\ \A n \in 1..NHDL : hdl[p][n] = NULL

CountsOK ==
    \A i \in FDs : /\ ram.fd[i].refcnt >= Uses(i)
                   /\ i \in FileFDs => ram.fd[i].refcnt = Uses(i)

DosInv == DiskOK(ram, FileFDs) /\ KernelType /\ PathsOK /\ CountsOK

\* Nothing is locked that is not used
Exact == \A i \in FDs : ram.fd[i].refcnt = Uses(i)
ChainsEnd ==
    \A p \in alive, o \in Opens : fop_path(ram, DefaultDD(p), o[1], o[2], Domain[p]).err # "ELINK"

\* A set of numbers that is not empty has a least one.
LEMMA LeastOf ==
    ASSUME NEW T \in SUBSET Nat, T # {}
    PROVE  \E n \in T : \A m \in T : n <= m
<1>1. PICK n \in T : \A m \in T : ~(<< m, n >> \in OpToRel(<, Nat))
  BY WFMin, NatLessThanWellFounded
<1>2. \A m \in T : ~(m < n)
  BY <1>1 DEF OpToRel
<1>. QED BY <1>2

\* Min of a set of numbers is its least element.
LEMMA MinOf ==
    ASSUME NEW T \in SUBSET Nat, T # {}
    PROVE  Min(T) \in T /\ \A m \in T : Min(T) <= m
BY LeastOf DEF Min

\* The constants, as the proofs use them.
LEMMA Constants ==
    /\ FDs \subseteq Nat /\ ROOT \in FDs /\ NULL \notin FDs /\ IsFiniteSet(FDs)
    /\ NULL \notin Blocks /\ Root \in Blocks /\ Addr \subseteq Blocks /\ Root \notin Addr
    /\ NULL \notin Kinds /\ NULL \notin Name /\ NULL \notin Path /\ NULL \notin Component
    /\ NULL \notin Blocks \X Nat
<1>1. MAX_FD \in Nat /\ MAX_FD > 0 /\ NULL \notin Int
  BY RamAssumption
<1>2. FDs \subseteq Nat /\ ROOT \in FDs /\ NULL \notin FDs
  BY <1>1 DEF FDs, ROOT
<1>3. IsFiniteSet(FDs)
  BY <1>1, FS_Interval DEF FDs
<1>4. NULL \notin Blocks /\ Root \in Blocks /\ Addr \subseteq Blocks /\ Root \notin Addr
  BY RamAssumption DEF Blocks
<1>5. NULL \notin Kinds /\ NULL \notin Name /\ NULL \notin Path /\ NULL \notin Component
  BY RamAssumption DEF Component
<1>6. NULL \notin Blocks \X Nat
  BY RamAssumption
<1>. QED BY <1>2, <1>3, <1>4, <1>5, <1>6

-----------------------------------------------------------------------------
(* Chains of DDs *)

\* A chain holds its DD and leads up as far as fd_parent does.
LEMMA ChainClosed ==
    ASSUME NEW fd \in FdTable, NEW i \in FDs
    PROVE  /\ Chain(fd, i) \subseteq FDs /\ i \in Chain(fd, i)
           /\ \A j \in Chain(fd, i) : fd[j].parent \in Chain(fd, i) \cup {NULL}
<1>1. \A j \in FDs : fd[j].parent \in FDs \cup {NULL}
  BY DEF FdTable
<1>. QED BY <1>1 DEF Chain

\* A chain is the least such set.
LEMMA ChainLeast ==
    ASSUME NEW fd, NEW i, NEW S \in SUBSET FDs, i \in S,
           \A j \in S : fd[j].parent \in S \cup {NULL}
    PROVE  Chain(fd, i) \subseteq S
<1>1. SUFFICES ASSUME NEW j \in Chain(fd, i), j \notin S PROVE FALSE
  OBVIOUS
<1>2. j \in FDs \ {i} /\ \A T \in SUBSET (FDs \ {i, j}) :
         \E k \in T \cup {i} : fd[k].parent # NULL /\ fd[k].parent \notin T \cup {i}
  BY <1>1 DEF Chain
<1>3. S \ {i} \in SUBSET (FDs \ {i, j}) /\ (S \ {i}) \cup {i} = S
  BY <1>1
<1>4. PICK k \in S : fd[k].parent # NULL /\ fd[k].parent \notin S
  BY <1>2, <1>3
<1>. QED BY <1>4

\* The chain of a DD on a chain is part of it.
LEMMA ChainMono ==
    ASSUME NEW fd \in FdTable, NEW i \in FDs, NEW j \in Chain(fd, i)
    PROVE  Chain(fd, j) \subseteq Chain(fd, i)
BY ChainClosed, ChainLeast

\* Above a DD is the chain of its parent.
LEMMA ChainStep ==
    ASSUME NEW fd \in FdTable, NEW i \in FDs, fd[i].parent # NULL
    PROVE  fd[i].parent \in FDs /\ Chain(fd, i) = {i} \cup Chain(fd, fd[i].parent)
<1>. DEFINE p == fd[i].parent
<1>1. p \in FDs
  BY DEF FdTable
<1>2. Chain(fd, i) \subseteq {i} \cup Chain(fd, p)
  <2>. DEFINE S == {i} \cup Chain(fd, p)
  <2>1. S \in SUBSET FDs /\ i \in S
    BY <1>1, ChainClosed
  <2>2. \A j \in S : fd[j].parent \in S \cup {NULL}
    BY <1>1, ChainClosed
  <2>. HIDE DEF S
  <2>3. Chain(fd, i) \subseteq S
    BY <2>1, <2>2, ChainLeast
  <2>. QED BY <2>3 DEF S
<1>3. Chain(fd, p) \subseteq Chain(fd, i)
  <2>1. p \in Chain(fd, i)
    BY ChainClosed
  <2>. QED BY <2>1, ChainMono
<1>. QED BY <1>1, <1>2, <1>3, ChainClosed

\* The chain of a DD without a parent is the DD alone.
LEMMA ChainEnd ==
    ASSUME NEW fd \in FdTable, NEW i \in FDs, fd[i].parent = NULL
    PROVE  Chain(fd, i) = {i}
<1>. DEFINE S == {i}
<1>1. S \in SUBSET FDs /\ i \in S /\ \A j \in S : fd[j].parent \in S \cup {NULL}
  OBVIOUS
<1>. HIDE DEF S
<1>2. Chain(fd, i) \subseteq S
  BY <1>1, ChainLeast
<1>. QED BY <1>2, ChainClosed DEF S

\* A chain depends on the parents along it only.
LEMMA ChainSame ==
    ASSUME NEW fd \in FdTable, NEW gd \in FdTable, NEW i \in FDs,
           \A j \in Chain(fd, i) : gd[j].parent = fd[j].parent
    PROVE  Chain(gd, i) = Chain(fd, i)
<1>1. Chain(gd, i) \subseteq Chain(fd, i)
  <2>1. \A j \in Chain(fd, i) : gd[j].parent \in Chain(fd, i) \cup {NULL}
    BY ChainClosed
  <2>. QED BY <2>1, ChainClosed, ChainLeast
<1>2. Chain(fd, i) \subseteq Chain(gd, i)
  <2>1. \A j \in Chain(gd, i) : fd[j].parent \in Chain(gd, i) \cup {NULL}
    BY <1>1, ChainClosed
  <2>. QED BY <2>1, ChainClosed, ChainLeast
<1>. QED BY <1>1, <1>2

-----------------------------------------------------------------------------
(* Blocks and entries *)

\* What an entry in use is.
LEMMA LiveFacts ==
    ASSUME NEW h \in HeapType, NEW a, NEW i, LiveAt(h, a, i)
    PROVE  /\ a \in Blocks /\ i \in Nat /\ i > 0 /\ i \in 1..Len(h[a].ent) /\ << a, i >> # root_de
           /\ h[a] \in BlockType /\ Ent(h, a, i) \in EntryType
           /\ Ent(h, a, i).faddr \in Addr
<1>1. a \in Blocks /\ h[a] \in BlockType /\ i \in DOMAIN h[a].ent /\ Ent(h, a, i).faddr # NULL
  BY DEF LiveAt, HeapType
<1>2. h[a].ent \in Seq(EntryType)
  BY <1>1 DEF BlockType
<1>3. i \in Nat /\ i > 0 /\ i \in 1..Len(h[a].ent) /\ Ent(h, a, i) \in EntryType
  BY <1>1, <1>2 DEF Ent
<1>4. Ent(h, a, i).faddr \in Addr
  BY <1>1, <1>3 DEF EntryType
<1>5. << a, i >> # root_de
  BY <1>3 DEF root_de
<1>. QED BY <1>1, <1>3, <1>4, <1>5

\* The entry at a place that is in use.
LEMMA EntryAt ==
    ASSUME NEW d, d.heap \in HeapType, NEW a, NEW i, LiveAt(d.heap, a, i)
    PROVE  Entry(d, << a, i >>) = Ent(d.heap, a, i)
<1>1. << a, i >> # root_de
  BY LiveFacts
<1>2. << a, i >>[1] = a /\ << a, i >>[2] = i
  OBVIOUS
<1>. QED BY <1>1, <1>2 DEF Entry, Ent

\* Only directories have entries.
LEMMA LiveInDir ==
    ASSUME NEW h \in HeapType, EntriesOK(h), NEW a, NEW i, LiveAt(h, a, i)
    PROVE  h[a].kind = "dir"
<1>1. a \in Blocks /\ i \in DOMAIN h[a].ent
  BY DEF LiveAt
<1>2. h[a].ent # << >>
  BY <1>1, LiveFacts
<1>. QED BY <1>1, <1>2 DEF EntriesOK

\* A disk's parts.
LEMMA DiskParts ==
    ASSUME NEW d \in DiskType
    PROVE  /\ d.heap \in HeapType /\ d.fd \in FdTable
           /\ d = [heap |-> d.heap, fd |-> d.fd, dhd |-> d.dhd]
           /\ d.dhd \in [DHDs -> [dir : Blocks \cup {NULL}, owner : Proc \cup {NULL}]]
BY DEF DiskType

\* What a descriptor is.
LEMMA FdParts ==
    ASSUME NEW fd \in FdTable, NEW i \in FDs
    PROVE  /\ fd[i].file \in (Blocks \X Nat) \cup {NULL} /\ fd[i].parent \in FDs \cup {NULL}
           /\ fd[i].refcnt \in Nat /\ fd[i].is_parent \in Nat
           /\ fd[i] = [file |-> fd[i].file, refcnt |-> fd[i].refcnt,
                       is_parent |-> fd[i].is_parent, parent |-> fd[i].parent]
BY DEF FdTable

\* What addresses an entry.
LEMMA FilePair ==
    ASSUME NEW fd \in FdTable, NEW i \in FDs, fd[i].file # NULL
    PROVE  fd[i].file = << At(fd, i), Nr(fd, i) >> /\ At(fd, i) \in Blocks /\ Nr(fd, i) \in Nat
BY DEF FdTable, At, Nr

-----------------------------------------------------------------------------
(* DDs that lie where they should *)

\* The directory of a DD, and the one above it.
LEMMA GoodFacts ==
    ASSUME NEW d \in DiskType, NEW F, HeapOK(d.heap), NEW i, GoodDD(d, F, i), i # ROOT
    PROVE  /\ i \in FDs \ F /\ d.fd[i].parent \in FDs
           /\ LiveAt(d.heap, At(d.fd, i), Nr(d.fd, i))
           /\ d.fd[i].file # NULL /\ d.fd[i].file # root_de
           /\ DirOf(d, i) = Ent(d.heap, At(d.fd, i), Nr(d.fd, i)).faddr
           /\ Entry(d, d.fd[i].file) = Ent(d.heap, At(d.fd, i), Nr(d.fd, i))
           /\ DirOf(d, i) \in Addr /\ d.heap[DirOf(d, i)].kind = "dir"
           /\ d.heap[DirOf(d, i)].up = At(d.fd, i)
           /\ At(d.fd, i) = DirOf(d, d.fd[i].parent)
<1>. DEFINE a == At(d.fd, i)
            k == Nr(d.fd, i)
<1>1. i \in FDs \ F /\ d.fd[i].parent \in FDs /\ d.fd[i].file # NULL /\ LiveAt(d.heap, a, k)
      /\ a = DirOf(d, d.fd[i].parent) /\ Entry(d, d.fd[i].file).kind = "dir"
  BY DEF GoodDD
<1>2. d.heap \in HeapType /\ d.fd \in FdTable /\ EntriesOK(d.heap)
  BY DiskParts DEF HeapOK
<1>3. d.fd[i].file = << a, k >>
  BY <1>1, <1>2, FilePair
<1>. HIDE DEF a, k
<1>4. d.fd[i].file # root_de /\ Ent(d.heap, a, k).faddr \in Addr
  BY <1>1, <1>2, <1>3, LiveFacts
<1>5. Entry(d, d.fd[i].file) = Ent(d.heap, a, k)
  BY <1>1, <1>2, <1>3, EntryAt
<1>6. DirOf(d, i) = Ent(d.heap, a, k).faddr
  BY <1>5 DEF DirOf
<1>7. Ent(d.heap, a, k).kind = "dir"
  BY <1>1, <1>5
<1>8. a \in Blocks /\ k \in DOMAIN d.heap[a].ent
  BY <1>1 DEF LiveAt
<1>9. d.heap[Ent(d.heap, a, k).faddr].kind = "dir" /\ d.heap[Ent(d.heap, a, k).faddr].up = a
  BY <1>1, <1>2, <1>7, <1>8 DEF EntriesOK
<1>. QED BY <1>1, <1>4, <1>5, <1>6, <1>9 DEF a, k

\* The root.
LEMMA RootFacts ==
    ASSUME NEW d \in DiskType, NEW F, HeapOK(d.heap), RootOK(d, F)
    PROVE  /\ DirOf(d, ROOT) = Root /\ d.heap[Root].kind = "dir"
           /\ Chain(d.fd, ROOT) = {ROOT} /\ GoodDD(d, F, ROOT) /\ Rooted(d, F, ROOT)
<1>1. d.fd \in FdTable /\ d.heap \in HeapType
  BY DiskParts
<1>2. DirOf(d, ROOT) = Root
  BY DEF DirOf, RootOK, Entry
<1>3. Chain(d.fd, ROOT) = {ROOT}
  BY <1>1, Constants, ChainEnd DEF RootOK
<1>. QED BY <1>2, <1>3, Constants DEF RootOK, GoodDD, Rooted, HeapOK, EntriesOK

\* The directory of a DD exists.
LEMMA GoodDir ==
    ASSUME NEW d \in DiskType, NEW F, HeapOK(d.heap), RootOK(d, F), NEW i, GoodDD(d, F, i)
    PROVE  DirOf(d, i) \in Blocks /\ DirOf(d, i) \in Dirs(d.heap) /\ (DirOf(d, i) = Root <=> i = ROOT)
<1>1. CASE i = ROOT
  BY <1>1, RootFacts, Constants DEF Dirs
<1>2. CASE i # ROOT
  <2>1. DirOf(d, i) \in Addr /\ d.heap[DirOf(d, i)].kind = "dir"
    BY <1>2, GoodFacts
  <2>. QED BY <1>2, <2>1, Constants DEF Dirs
<1>. QED BY <1>1, <1>2

\* A set of DDs that fd_parent does not leave holds the root, since that of the
\* directories above a directory does.
LEMMA ClosedHasRoot ==
    ASSUME NEW d \in DiskType, NEW F, HeapOK(d.heap), RootOK(d, F), NEW S, S # {},
           \A j \in S : GoodDD(d, F, j), \A j \in S \ {ROOT} : d.fd[j].parent \in S
    PROVE  ROOT \in S
<1>. SUFFICES ASSUME ROOT \notin S PROVE FALSE
  OBVIOUS
<1>. DEFINE T == {DirOf(d, j) : j \in S}
<1>1. T \in SUBSET Dirs(d.heap) /\ T # {}
  BY GoodDir
<1>2. ASSUME NEW a \in T \ {Root} PROVE d.heap[a].up \in T
  <2>1. PICK j \in S : a = DirOf(d, j)
    OBVIOUS
  <2>2. d.heap[a].up = DirOf(d, d.fd[j].parent) /\ d.fd[j].parent \in S
    BY <2>1, GoodFacts
  <2>. QED BY <2>2
<1>3. Root \in T
  <2>. HIDE DEF T
  <2>. QED BY <1>1, <1>2 DEF HeapOK, ToRoot
<1>4. PICK j \in S : Root = DirOf(d, j)
  BY <1>3
<1>. QED BY <1>4, GoodDir

\* Every DD on the chain of one has a chain like it.
LEMMA RootedChain ==
    ASSUME NEW d \in DiskType, NEW F, NEW i, Rooted(d, F, i), NEW j \in Chain(d.fd, i)
    PROVE  Rooted(d, F, j) /\ GoodDD(d, F, j) /\ j \in FDs \ F
<1>1. d.fd \in FdTable
  BY DiskParts
<1>2. i \in FDs /\ GoodDD(d, F, j) /\ j \in FDs \ F
  BY DEF Rooted, GoodDD
<1>3. Chain(d.fd, j) \subseteq Chain(d.fd, i)
  BY <1>1, <1>2, ChainMono
<1>. QED BY <1>2, <1>3 DEF Rooted

\* A chain ends at the root.
LEMMA RootedToRoot ==
    ASSUME NEW d \in DiskType, NEW F, HeapOK(d.heap), RootOK(d, F), NEW i, Rooted(d, F, i)
    PROVE  ROOT \in Chain(d.fd, i)
<1>1. d.fd \in FdTable /\ i \in FDs
  BY DiskParts DEF Rooted
<1>2. i \in Chain(d.fd, i) /\ \A j \in Chain(d.fd, i) : d.fd[j].parent \in Chain(d.fd, i) \cup {NULL}
  BY <1>1, ChainClosed
<1>3. \A j \in Chain(d.fd, i) : GoodDD(d, F, j)
  BY DEF Rooted
<1>4. \A j \in Chain(d.fd, i) \ {ROOT} : d.fd[j].parent \in Chain(d.fd, i)
  BY <1>2, <1>3, GoodFacts, Constants
<1>. QED BY <1>2, <1>3, <1>4, ClosedHasRoot

\* The chain of a DD does not come back to it.
LEMMA RootedStep ==
    ASSUME NEW d \in DiskType, NEW F, HeapOK(d.heap), RootOK(d, F), NEW i, Rooted(d, F, i), i # ROOT
    PROVE  /\ i \in FDs \ F /\ d.fd[i].parent \in FDs \ F /\ Rooted(d, F, d.fd[i].parent)
           /\ Chain(d.fd, i) = {i} \cup Chain(d.fd, d.fd[i].parent)
           /\ i \notin Chain(d.fd, d.fd[i].parent)
           /\ Ancestors(d.fd, i) = Chain(d.fd, d.fd[i].parent)
<1>. DEFINE p == d.fd[i].parent
<1>1. d.fd \in FdTable /\ i \in FDs
  BY DiskParts DEF Rooted
<1>2. i \in Chain(d.fd, i) /\ GoodDD(d, F, i) /\ i \in FDs \ F
  BY <1>1, ChainClosed DEF Rooted, GoodDD
<1>3. p \in FDs /\ p # NULL
  BY <1>2, GoodFacts, Constants
<1>4. Chain(d.fd, i) = {i} \cup Chain(d.fd, p)
  BY <1>1, <1>3, ChainStep
<1>5. p \in Chain(d.fd, i)
  BY <1>1, <1>3, <1>4, ChainClosed
<1>6. Rooted(d, F, p) /\ p \in FDs \ F
  BY <1>5, RootedChain
<1>7. ASSUME i \in Chain(d.fd, p) PROVE FALSE
  <2>. DEFINE S == {j \in Chain(d.fd, i) : i \in Chain(d.fd, j)}
  <2>1. S # {} /\ \A j \in S : GoodDD(d, F, j)
    BY <1>2, <1>4 DEF Rooted
  <2>2. ASSUME NEW j \in S \ {ROOT} PROVE d.fd[j].parent \in S
    <3>1. GoodDD(d, F, j) /\ j \in FDs
      BY <2>1 DEF GoodDD
    <3>2. d.fd[j].parent \in FDs /\ d.fd[j].parent # NULL
      BY <3>1, GoodFacts, Constants
    <3>3. Chain(d.fd, j) = {j} \cup Chain(d.fd, d.fd[j].parent)
      BY <1>1, <3>1, <3>2, ChainStep
    <3>4. d.fd[j].parent \in Chain(d.fd, i)
      BY <1>1, <3>2, ChainClosed
    <3>5. i \in Chain(d.fd, d.fd[j].parent)
      BY <1>7, <3>3
    <3>. QED BY <3>4, <3>5
  <2>. HIDE DEF S
  <2>3. ROOT \in S
    BY <2>1, <2>2, ClosedHasRoot
  <2>4. i \in Chain(d.fd, ROOT)
    BY <2>3 DEF S
  <2>. QED BY <2>4, RootFacts
<1>8. Ancestors(d.fd, i) = Chain(d.fd, p)
  BY <1>4, <1>7 DEF Ancestors
<1>. QED BY <1>2, <1>3, <1>4, <1>6, <1>7, <1>8

\* Two DDs have two directories.
LEMMA OneDir ==
    ASSUME NEW d \in DiskType, NEW F, HeapOK(d.heap), RootOK(d, F), OneDD(d, F),
           NEW i, NEW j, GoodDD(d, F, i), GoodDD(d, F, j), DirOf(d, i) = DirOf(d, j)
    PROVE  i = j
<1>1. CASE i = ROOT \/ j = ROOT
  BY <1>1, GoodDir
<1>2. CASE i # ROOT /\ j # ROOT
  <2>. DEFINE a == At(d.fd, i)
              k == Nr(d.fd, i)
              b == At(d.fd, j)
              l == Nr(d.fd, j)
  <2>1. LiveAt(d.heap, a, k) /\ d.fd[i].file # NULL
        /\ DirOf(d, i) = Ent(d.heap, a, k).faddr /\ i \in FDs \ F
    BY <1>2, GoodFacts
  <2>2. LiveAt(d.heap, b, l) /\ d.fd[j].file # NULL
        /\ DirOf(d, j) = Ent(d.heap, b, l).faddr /\ j \in FDs \ F
    BY <1>2, GoodFacts
  <2>4. d.fd[i].file = << a, k >> /\ d.fd[j].file = << b, l >>
    BY <2>1, <2>2, DiskParts, FilePair
  <2>. HIDE DEF a, b, k, l
  <2>3. a = b /\ k = l
    <3>1. a \in Blocks /\ b \in Blocks /\ k \in DOMAIN d.heap[a].ent /\ l \in DOMAIN d.heap[b].ent
      BY <2>1, <2>2 DEF LiveAt
    <3>. QED BY <2>1, <2>2, <3>1 DEF HeapOK, OneEntry
  <2>. QED BY <2>1, <2>2, <2>3, <2>4 DEF OneDD
<1>. QED BY <1>1, <1>2

-----------------------------------------------------------------------------
(* Locking and unlocking DDs *)

\* Descriptor j means the same in two tables
SameDD(fd, gd, j) == gd[j].file = fd[j].file /\ gd[j].parent = fd[j].parent

\* From d to e nothing happens but that DD x gets locked once more (none if x is NULL)
Keeps(d, e) ==
    e.heap = d.heap /\ e.dhd = d.dhd /\ \A i \in FDs : d.fd[i].refcnt > 0 => SameDD(d.fd, e.fd, i)
Locks(d, e, F, x) ==
    /\ DiskOK(e, F) /\ Keeps(d, e)
    /\ \A i \in FDs : e.fd[i].refcnt = d.fd[i].refcnt + (IF i = x THEN 1 ELSE 0)

\* The parts of a disk that is all right.
LEMMA DiskOKParts ==
    ASSUME NEW d, NEW F, DiskOK(d, F)
    PROVE  /\ d \in DiskType /\ HeapOK(d.heap) /\ d.heap \in HeapType /\ d.fd \in FdTable
           /\ RootOK(d, F) /\ FreeOK(d) /\ FilesOK(d, F) /\ OneDD(d, F)
           /\ LockedOK(d, F) /\ ParentsOK(d, F) /\ OpenDirsOK(d) /\ F \subseteq FDs
BY DiskParts DEF DiskOK, FdOK, FilesOK

\* A disk with another table of descriptors.
LEMMA DiskOfFd ==
    ASSUME NEW d \in DiskType, NEW gd \in FdTable
    PROVE  LET e == [d EXCEPT !.fd = gd]
           IN  e \in DiskType /\ e.heap = d.heap /\ e.dhd = d.dhd /\ e.fd = gd
BY DEF DiskType

\* The entry of a descriptor depends on the blocks alone.
LEMMA SameEntry ==
    ASSUME NEW d, NEW e, e.heap = d.heap, NEW f
    PROVE  Entry(e, f) = Entry(d, f)
BY DEF Entry

\* A DD is where it was if neither it nor its parent changes.
LEMMA SameGood ==
    ASSUME NEW d, NEW e, e.heap = d.heap, NEW F, NEW j, GoodDD(d, F, j),
           SameDD(d.fd, e.fd, j), j # ROOT => SameDD(d.fd, e.fd, d.fd[j].parent)
    PROVE  GoodDD(e, F, j)
<1>1. Entry(e, e.fd[j].file) = Entry(d, d.fd[j].file)
  BY SameEntry DEF SameDD
<1>2. At(e.fd, j) = At(d.fd, j) /\ Nr(e.fd, j) = Nr(d.fd, j)
  BY DEF SameDD, At, Nr
<1>3. ASSUME j # ROOT PROVE DirOf(e, e.fd[j].parent) = DirOf(d, d.fd[j].parent)
  <2>1. e.fd[j].parent = d.fd[j].parent /\ e.fd[d.fd[j].parent].file = d.fd[d.fd[j].parent].file
    BY <1>3 DEF SameDD
  <2>. QED BY <2>1, SameEntry DEF DirOf
<1>. QED BY <1>1, <1>2, <1>3 DEF GoodDD, SameDD

\* A chain is where it was if nothing on it changes.
LEMMA SameRooted ==
    ASSUME NEW d \in DiskType, NEW e \in DiskType, e.heap = d.heap, NEW F, NEW i, Rooted(d, F, i),
           \A j \in Chain(d.fd, i) : SameDD(d.fd, e.fd, j)
    PROVE  Rooted(e, F, i) /\ Chain(e.fd, i) = Chain(d.fd, i)
<1>1. d.fd \in FdTable /\ e.fd \in FdTable /\ i \in FDs
  BY DiskParts DEF Rooted
<1>2. Chain(e.fd, i) = Chain(d.fd, i)
  BY <1>1, ChainSame DEF SameDD
<1>3. ASSUME NEW j \in Chain(d.fd, i) PROVE GoodDD(e, F, j)
  <2>1. GoodDD(d, F, j)
    BY DEF Rooted
  <2>2. d.fd[j].parent \in Chain(d.fd, i) \cup {NULL}
    BY <1>1, ChainClosed
  <2>3. j # ROOT => d.fd[j].parent # NULL
    BY <2>1, Constants DEF GoodDD
  <2>. QED BY <2>1, <2>2, <2>3, SameGood
<1>. QED BY <1>1, <1>2, <1>3 DEF Rooted

\* With the same DDs locked and the same chains, fd_is_parent stays right.
LEMMA SameBelow ==
    ASSUME NEW d, NEW e, NEW F, DiskOK(d, F), e \in DiskType, e.heap = d.heap,
           \A i \in FDs : e.fd[i].is_parent = d.fd[i].is_parent,
           \A i \in FDs \ F : e.fd[i].refcnt > 0 <=> d.fd[i].refcnt > 0,
           \A i \in FDs \ F : d.fd[i].refcnt > 0 => \A j \in Chain(d.fd, i) : SameDD(d.fd, e.fd, j)
    PROVE  LockedOK(e, F) /\ ParentsOK(e, F)
<1>1. d \in DiskType /\ LockedOK(d, F) /\ ParentsOK(d, F)
  BY DiskOKParts
<1>2. ASSUME NEW i \in FDs \ F, d.fd[i].refcnt > 0
      PROVE  Rooted(e, F, i) /\ Chain(e.fd, i) = Chain(d.fd, i)
  <2>1. Rooted(d, F, i)
    BY <1>1, <1>2 DEF LockedOK
  <2>. QED BY <1>1, <1>2, <2>1, SameRooted
<1>3. LockedOK(e, F)
  BY <1>2 DEF LockedOK
<1>4. ASSUME NEW i \in FDs PROVE Below(e.fd, F, i) = Below(d.fd, F, i)
  BY <1>2 DEF Below, Ancestors
<1>5. ParentsOK(e, F)
  BY <1>1, <1>4 DEF ParentsOK
<1>. QED BY <1>3, <1>5

\* What findfd answers for an entry.
LEMMA FindFd ==
    ASSUME NEW d, d.fd \in FdTable, NEW e, e # NULL, findfd(d, e) # NULL
    PROVE  /\ findfd(d, e) \in FDs
           /\ \/ d.fd[findfd(d, e)].file = e
              \/ (d.fd[findfd(d, e)].file = NULL /\ \A i \in FDs : d.fd[i].file # e)
<1>. DEFINE used == {i \in FDs : d.fd[i].file = e /\ e # NULL}
            free == {i \in FDs : d.fd[i].file = NULL}
<1>1. used \in SUBSET Nat /\ free \in SUBSET Nat
  BY Constants
<1>2. findfd(d, e) = IF used # {} THEN Min(used) ELSE IF free # {} THEN Min(free) ELSE NULL
  BY DEF findfd
<1>3. CASE used # {}
  <2>1. Min(used) \in used
    <3>. HIDE DEF used
    <3>. QED BY <1>1, <1>3, MinOf
  <2>. QED BY <1>2, <1>3, <2>1
<1>4. CASE used = {} /\ free # {}
  <2>1. Min(free) \in free
    <3>. HIDE DEF free
    <3>. QED BY <1>1, <1>4, MinOf
  <2>. QED BY <1>2, <1>4, <2>1
<1>5. CASE used = {} /\ free = {}
  BY <1>2, <1>5
<1>. QED BY <1>3, <1>4, <1>5

\* A table with one descriptor replaced.
LEMMA PutFdIs ==
    ASSUME NEW d \in DiskType, NEW i \in FDs, NEW f \in FdType, NEW e, e = PutFd(d, i, f)
    PROVE  /\ e \in DiskType /\ e.heap = d.heap /\ e.dhd = d.dhd
           /\ e.fd[i] = f /\ \A j \in FDs \ {i} : e.fd[j] = d.fd[j]
<1>. DEFINE gd == [j \in FDs |-> IF j = i THEN f ELSE d.fd[j]]
<1>1. d.fd \in FdTable
  BY DiskParts
<1>2. gd \in FdTable
  BY <1>1 DEF FdTable, FdType
<1>3. PutFd(d, i, f) = [d EXCEPT !.fd = gd]
  BY DEF PutFd
<1>4. gd[i] = f /\ \A j \in FDs \ {i} : gd[j] = d.fd[j]
  OBVIOUS
<1>. HIDE DEF gd
<1>. QED BY <1>2, <1>3, <1>4, DiskOfFd

\* path2DD goes down into a directory: the DD it finds or makes lies below dd.
LEMMA Enter ==
    ASSUME NEW d, NEW F, DiskOK(d, F), NEW dd, Rooted(d, F, dd), NEW k,
           LiveAt(d.heap, DirOf(d, dd), k), Ent(d.heap, DirOf(d, dd), k).kind = "dir",
           NEW new, new = findfd(d, << DirOf(d, dd), k >>), new # NULL,
           NEW e, e = PutFd(d, new, [d.fd[new] EXCEPT !.file = << DirOf(d, dd), k >>, !.parent = dd])
    PROVE  Locks(d, e, F, NULL) /\ Rooted(e, F, new)
<1>. DEFINE a == DirOf(d, dd)
            f == << DirOf(d, dd), k >>
<1>1. /\ d \in DiskType /\ HeapOK(d.heap) /\ d.heap \in HeapType /\ d.fd \in FdTable /\ RootOK(d, F)
      /\ FreeOK(d) /\ FilesOK(d, F) /\ OneDD(d, F) /\ LockedOK(d, F) /\ F \subseteq FDs
  BY DiskOKParts
<1>2. a \in Blocks /\ k \in Nat /\ f # root_de /\ f \in Blocks \X Nat /\ f # NULL
  <2>1. a \in Blocks /\ k \in Nat /\ f # root_de
    BY <1>1, LiveFacts
  <2>2. f \in Blocks \X Nat
    BY <2>1
  <2>. QED BY <2>1, <2>2, Constants
<1>3. Entry(d, f).kind = "dir"
  BY <1>1, EntryAt
<1>4. new \in FDs /\ (d.fd[new].file = f \/ (d.fd[new].file = NULL /\ \A i \in FDs : d.fd[i].file # f))
  <2>. HIDE DEF f
  <2>. QED BY <1>1, <1>2, FindFd DEF f
<1>5. dd \in FDs \ F /\ dd \in Chain(d.fd, dd) /\ GoodDD(d, F, dd)
  BY <1>1, ChainClosed DEF Rooted, GoodDD
<1>6. new # ROOT /\ new \notin F
  <2>1. new # ROOT
    <3>. HIDE DEF f
    <3>1. root_de # NULL
      BY Constants DEF root_de
    <3>. QED BY <1>1, <1>2, <1>4, <3>1 DEF RootOK
  <2>2. ASSUME new \in F PROVE FALSE
    <3>1. d.fd[new].file # NULL /\ Entry(d, d.fd[new].file).kind = "file"
      BY <1>1, <2>2 DEF FilesOK
    <3>. HIDE DEF f
    <3>. QED BY <1>3, <1>4, <3>1
  <2>. QED BY <2>1, <2>2
<1>7. /\ e \in DiskType /\ e.heap = d.heap /\ e.dhd = d.dhd
      /\ e.fd[new].file = f /\ e.fd[new].parent = dd
      /\ e.fd[new].refcnt = d.fd[new].refcnt /\ e.fd[new].is_parent = d.fd[new].is_parent
      /\ \A j \in FDs \ {new} : e.fd[j] = d.fd[j]
  <2>. DEFINE g == [d.fd[new] EXCEPT !.file = f, !.parent = dd]
  <2>1. d.fd[new] \in FdType
    BY <1>1, <1>4 DEF FdTable, FdType
  <2>2. /\ g \in FdType
        /\ g.file = f /\ g.parent = dd /\ g.refcnt = d.fd[new].refcnt /\ g.is_parent = d.fd[new].is_parent
    <3>. HIDE DEF f
    <3>. QED BY <1>2, <1>5, <2>1 DEF FdType
  <2>3. e = PutFd(d, new, g)
    OBVIOUS
  <2>. HIDE DEF g, f
  <2>4. /\ e \in DiskType /\ e.heap = d.heap /\ e.dhd = d.dhd
        /\ e.fd[new] = g /\ \A j \in FDs \ {new} : e.fd[j] = d.fd[j]
    BY ONLY <1>1, <1>4, <2>2, <2>3, PutFdIs
  <2>. QED BY <2>2, <2>4
\* if new is on a chain already, it is below dd
<1>8. ASSUME Rooted(d, F, new) PROVE d.fd[new].file = f /\ d.fd[new].parent = dd
  <2>1. GoodDD(d, F, new)
    BY <1>1, <1>4, <1>8, ChainClosed DEF Rooted
  <2>2. d.fd[new].file # NULL /\ At(d.fd, new) = DirOf(d, d.fd[new].parent)
    BY <1>1, <1>6, <2>1, GoodFacts
  <2>3. d.fd[new].file = f
    <3>. HIDE DEF f
    <3>. QED BY <1>4, <2>2
  <2>4. At(d.fd, new) = a
    BY <2>3 DEF At
  <2>5. GoodDD(d, F, d.fd[new].parent)
    <3>1. d.fd[new].parent \in FDs /\ Rooted(d, F, d.fd[new].parent)
      BY <1>1, <1>6, <1>8, RootedStep
    <3>. QED BY <1>1, <3>1, ChainClosed DEF Rooted
  <2>. HIDE DEF f, a
  <2>6. DirOf(d, d.fd[new].parent) = DirOf(d, dd)
    BY <2>2, <2>4 DEF a
  <2>. QED BY <1>1, <1>5, <2>3, <2>5, <2>6, OneDir
<1>. HIDE DEF f, a
<1>9. new \notin Chain(d.fd, dd)
  <2>. SUFFICES ASSUME new \in Chain(d.fd, dd) PROVE FALSE
    OBVIOUS
  <2>1. Rooted(d, F, new)
    BY <1>1, RootedChain
  <2>. QED BY <1>1, <1>6, <1>8, <2>1, RootedStep
<1>10. ASSUME NEW i, Rooted(d, F, i), NEW j \in Chain(d.fd, i) PROVE SameDD(d.fd, e.fd, j)
  <2>1. Rooted(d, F, j) /\ j \in FDs
    BY <1>1, <1>10, RootedChain
  <2>. QED BY <1>7, <1>8, <2>1 DEF SameDD
<1>11. LockedOK(e, F) /\ ParentsOK(e, F)
  <2>1. \A i \in FDs : e.fd[i].is_parent = d.fd[i].is_parent /\ e.fd[i].refcnt = d.fd[i].refcnt
    BY <1>7
  <2>2. ASSUME NEW i \in FDs \ F, d.fd[i].refcnt > 0, NEW j \in Chain(d.fd, i) PROVE SameDD(d.fd, e.fd, j)
    BY <1>1, <1>10, <2>2 DEF LockedOK
  <2>. QED BY <1>7, <2>1, <2>2, SameBelow, SMTT(30)
<1>12. RootOK(e, F) /\ FreeOK(e) /\ OneDD(e, F)
  <2>1. RootOK(e, F)
    BY <1>1, <1>6, <1>7, Constants DEF RootOK
  <2>2. FreeOK(e)
    BY <1>1, <1>2, <1>5, <1>7 DEF FreeOK
  <2>3. OneDD(e, F)
    BY <1>1, <1>2, <1>4, <1>7 DEF OneDD
  <2>. QED BY <2>1, <2>2, <2>3
<1>13. FilesOK(e, F)
  <2>1. \A i \in F : e.fd[i] = d.fd[i] /\ At(e.fd, i) = At(d.fd, i) /\ Nr(e.fd, i) = Nr(d.fd, i)
                     /\ Entry(e, e.fd[i].file) = Entry(d, d.fd[i].file)
    BY <1>1, <1>6, <1>7, SameEntry DEF At, Nr
  <2>2. ASSUME NEW i \in F
        PROVE  /\ e.fd[i].file # NULL /\ e.fd[i].refcnt > 0 /\ e.fd[i].is_parent = 0
               /\ LiveAt(e.heap, At(e.fd, i), Nr(e.fd, i)) /\ Entry(e, e.fd[i].file).kind = "file"
    BY ONLY <1>1, <1>7, <2>1 DEF FilesOK
  <2>3. \A i, j \in F : e.fd[i].file = e.fd[j].file => i = j
    BY <1>1, <2>1 DEF FilesOK
  <2>. QED BY <1>1, <2>2, <2>3 DEF FilesOK
<1>14. DiskOK(e, F)
  <2>1. OpenDirsOK(d)
    BY DiskOKParts
  <2>2. OpenDirsOK(e)
    BY ONLY <1>7, <2>1 DEF OpenDirsOK
  <2>3. HeapOK(e.heap)
    BY <1>1, <1>7
  <2>. QED BY <1>7, <1>11, <1>12, <1>13, <2>2, <2>3 DEF DiskOK, FdOK
<1>15. Locks(d, e, F, NULL)
  <2>1. ASSUME NEW i \in FDs, d.fd[i].refcnt > 0 PROVE SameDD(d.fd, e.fd, i)
    <3>1. CASE i \in F
      BY <1>6, <1>7, <3>1 DEF SameDD
    <3>2. CASE i \notin F
      <4>1. Rooted(d, F, i) /\ i \in Chain(d.fd, i)
        BY <1>1, <2>1, <3>2, ChainClosed DEF LockedOK
      <4>. QED BY <1>10, <4>1
    <3>. QED BY <3>1, <3>2
  <2>2. \A i \in FDs : e.fd[i].refcnt = d.fd[i].refcnt + (IF i = NULL THEN 1 ELSE 0)
    <3>1. \A i \in FDs : e.fd[i].refcnt = d.fd[i].refcnt /\ d.fd[i].refcnt \in Nat /\ i # NULL
      BY <1>1, <1>7, FdParts, Constants
    <3>. QED BY <3>1
  <2>. QED BY <1>7, <1>14, <2>1, <2>2 DEF Locks, Keeps
<1>16. Rooted(e, F, dd) /\ Chain(e.fd, dd) = Chain(d.fd, dd)
  <2>1. \A j \in Chain(d.fd, dd) : SameDD(d.fd, e.fd, j)
    BY <1>10
  <2>. QED BY <1>1, <1>7, <2>1, SameRooted
<1>17. Rooted(e, F, new)
  <2>1. e.fd \in FdTable
    BY <1>7, DiskParts
  <2>2. Chain(e.fd, new) = {new} \cup Chain(e.fd, dd)
    BY <1>4, <1>5, <1>7, <2>1, ChainStep, Constants
  <2>3. GoodDD(e, F, new)
    <3>1. At(e.fd, new) = a /\ Nr(e.fd, new) = k
      BY ONLY <1>7 DEF At, Nr, f, a
    <3>2. DirOf(e, dd) = a
      <4>1. e.fd[dd].file = d.fd[dd].file
        BY <1>5, <1>7, <1>9
      <4>2. Entry(e, d.fd[dd].file) = Entry(d, d.fd[dd].file)
        BY <1>7, SameEntry
      <4>. QED BY <4>1, <4>2 DEF DirOf, a
    <3>3. Entry(e, e.fd[new].file).kind = "dir"
      BY <1>3, <1>7, SameEntry
    <3>4. LiveAt(e.heap, a, k)
      BY <1>7 DEF a
    <3>. QED BY <1>2, <1>4, <1>5, <1>6, <1>7, <3>1, <3>2, <3>3, <3>4 DEF GoodDD
  <2>. QED BY <1>4, <1>16, <2>2, <2>3 DEF Rooted
<1>. QED BY <1>15, <1>17

\* A set of DDs below one is finite.
LEMMA BelowFinite ==
    ASSUME NEW fd, NEW F, NEW i
    PROVE  IsFiniteSet(Below(fd, F, i)) /\ Cardinality(Below(fd, F, i)) \in Nat
<1>1. Below(fd, F, i) \in SUBSET FDs
  BY DEF Below
<1>2. IsFiniteSet(Below(fd, F, i))
  BY <1>1, FS_Subset, Constants
<1>. QED BY <1>2, FS_CardinalityType

\* When a table keeps the files and the DDs, the files stay as they are.
LEMMA SameFiles ==
    ASSUME NEW d, NEW e, NEW F, FilesOK(d, F), e.heap = d.heap, \A i \in F : e.fd[i] = d.fd[i]
    PROVE  FilesOK(e, F)
<1>1. \A i \in F : At(e.fd, i) = At(d.fd, i) /\ Nr(e.fd, i) = Nr(d.fd, i)
                   /\ Entry(e, e.fd[i].file) = Entry(d, d.fd[i].file)
  BY SameEntry DEF At, Nr
<1>2. ASSUME NEW i \in F
      PROVE  /\ e.fd[i].file # NULL /\ e.fd[i].refcnt > 0 /\ e.fd[i].is_parent = 0
             /\ LiveAt(e.heap, At(e.fd, i), Nr(e.fd, i)) /\ Entry(e, e.fd[i].file).kind = "file"
  BY <1>1 DEF FilesOK
<1>3. \A i, j \in F : e.fd[i].file = e.fd[j].file => i = j
  BY DEF FilesOK
<1>. QED BY <1>2, <1>3 DEF FilesOK

\* Open directories depend on the blocks and the handles.
LEMMA SameOpenDirs ==
    ASSUME NEW d, NEW e, OpenDirsOK(d), e.heap = d.heap, e.dhd = d.dhd
    PROVE  OpenDirsOK(e)
BY DEF OpenDirsOK

\* increase_refcnts locks a DD, and those above it get one more below them.
LEMMA Increase ==
    ASSUME NEW d, NEW F, DiskOK(d, F), NEW dd, Rooted(d, F, dd), NEW e, e = increase_refcnts(d, dd)
    PROVE  Locks(d, e, F, dd) /\ \A i \in FDs : SameDD(d.fd, e.fd, i)
<1>. DEFINE above == IF d.fd[dd].refcnt = 0 THEN Ancestors(d.fd, dd) ELSE {}
            gd == [j \in FDs |->
                     IF j = dd THEN [d.fd[j] EXCEPT !.refcnt = @ + 1]
                     ELSE IF j \in above THEN [d.fd[j] EXCEPT !.is_parent = @ + 1] ELSE d.fd[j]]
<1>1. /\ d \in DiskType /\ HeapOK(d.heap) /\ d.heap \in HeapType /\ d.fd \in FdTable /\ RootOK(d, F)
      /\ FreeOK(d) /\ FilesOK(d, F) /\ OneDD(d, F) /\ LockedOK(d, F) /\ ParentsOK(d, F)
      /\ OpenDirsOK(d) /\ F \subseteq FDs
  BY DiskOKParts
<1>2. dd \in FDs \ F /\ dd \in Chain(d.fd, dd) /\ GoodDD(d, F, dd)
  BY <1>1, ChainClosed DEF Rooted, GoodDD
<1>3. \A j \in FDs : d.fd[j] \in FdType
  BY <1>1 DEF FdTable, FdType
<1>4. ASSUME NEW j \in FDs
      PROVE  /\ gd[j] \in FdType /\ SameDD(d.fd, gd, j)
             /\ gd[j].refcnt = d.fd[j].refcnt + (IF j = dd THEN 1 ELSE 0)
             /\ gd[j].is_parent = d.fd[j].is_parent + (IF j \in above /\ j # dd THEN 1 ELSE 0)
             /\ j # dd /\ j \notin above => gd[j] = d.fd[j]
  <2>. HIDE DEF above
  <2>1. CASE j = dd
    BY <1>3, <2>1 DEF FdType, SameDD
  <2>2. CASE j # dd /\ j \in above
    BY <1>3, <2>2 DEF FdType, SameDD
  <2>3. CASE j # dd /\ j \notin above
    BY <1>3, <2>3 DEF FdType, SameDD
  <2>. QED BY <2>1, <2>2, <2>3
<1>5. gd \in FdTable
  <2>1. \A j \in FDs : gd[j] \in FdType
    BY <1>4
  <2>. QED BY <2>1 DEF FdTable, FdType
<1>6. e = [d EXCEPT !.fd = gd]
  BY DEF increase_refcnts
<1>7. above = IF d.fd[dd].refcnt = 0 THEN Ancestors(d.fd, dd) ELSE {}
  OBVIOUS
<1>. HIDE DEF gd, above
<1>8. e \in DiskType /\ e.heap = d.heap /\ e.dhd = d.dhd /\ e.fd = gd
  BY ONLY <1>1, <1>5, <1>6, DiskOfFd
<1>9. ASSUME NEW j \in FDs PROVE SameDD(d.fd, e.fd, j)
  BY <1>4, <1>8
<1>10. above \subseteq Chain(d.fd, dd) \ {dd} /\ above \cap F = {}
  <2>1. above \subseteq Chain(d.fd, dd) \ {dd}
    BY <1>7 DEF Ancestors
  <2>2. \A j \in Chain(d.fd, dd) : j \notin F
    BY <1>1, RootedChain
  <2>. QED BY <2>1, <2>2
<1>11. ASSUME NEW i, Rooted(d, F, i) PROVE Rooted(e, F, i) /\ Chain(e.fd, i) = Chain(d.fd, i)
  <2>1. Chain(d.fd, i) \subseteq FDs
    BY <1>1, <1>11, ChainClosed DEF Rooted
  <2>. QED BY <1>1, <1>8, <1>9, <1>11, <2>1, SameRooted
<1>12. \A i \in FDs : d.fd[i].refcnt \in Nat /\ d.fd[i].is_parent \in Nat
  BY <1>1, FdParts
<1>13. LockedOK(e, F)
  <2>1. ASSUME NEW i \in FDs \ F, e.fd[i].refcnt > 0 PROVE Rooted(e, F, i)
    <3>1. Rooted(d, F, i)
      BY <1>1, <1>4, <1>8, <1>12, <2>1 DEF LockedOK
    <3>. QED BY <1>11, <3>1
  <2>. QED BY <2>1 DEF LockedOK
<1>14. ASSUME NEW i \in FDs PROVE e.fd[i].is_parent = Cardinality(Below(e.fd, F, i))
  <2>1. ASSUME NEW j \in FDs \ F, d.fd[j].refcnt > 0 \/ j = dd PROVE Chain(e.fd, j) = Chain(d.fd, j)
    BY <1>1, <1>11, <2>1 DEF LockedOK
  <2>2. d.fd[i].is_parent = Cardinality(Below(d.fd, F, i))
    BY <1>1 DEF ParentsOK
  <2>3. CASE i \in above
    <3>1. Below(e.fd, F, i) = Below(d.fd, F, i) \cup {dd}
      BY <1>2, <1>4, <1>7, <1>8, <1>12, <2>1, <2>3 DEF Below, Ancestors
    <3>2. dd \notin Below(d.fd, F, i)
      BY <1>7, <2>3 DEF Below
    <3>3. Cardinality(Below(d.fd, F, i) \cup {dd}) = Cardinality(Below(d.fd, F, i)) + 1
      BY <3>2, BelowFinite, FS_AddElement
    <3>4. i # dd
      BY <1>10, <2>3
    <3>. QED BY <1>4, <1>8, <2>2, <2>3, <3>1, <3>3, <3>4
  <2>4. CASE i \notin above
    <3>1. Below(e.fd, F, i) = Below(d.fd, F, i)
      BY <1>2, <1>4, <1>7, <1>8, <1>12, <2>1, <2>4 DEF Below, Ancestors
    <3>. QED BY <1>4, <1>8, <1>12, <2>2, <2>4, <3>1
  <2>. QED BY <2>3, <2>4
<1>15. RootOK(e, F) /\ OneDD(e, F) /\ FilesOK(e, F)
  <2>1. RootOK(e, F)
    BY <1>1, <1>4, <1>8, <1>9, <1>12, Constants DEF RootOK, SameDD
  <2>2. OneDD(e, F)
    BY <1>1, <1>9 DEF OneDD, SameDD
  <2>3. \A i \in F : e.fd[i] = d.fd[i]
    BY <1>1, <1>2, <1>4, <1>8, <1>10
  <2>. QED BY <1>1, <1>8, <2>1, <2>2, <2>3, SameFiles
<1>16. FreeOK(e)
  <2>1. ASSUME NEW i \in FDs \ {ROOT}, d.fd[i].file = NULL PROVE e.fd[i] = d.fd[i]
    <3>1. ~ GoodDD(d, F, i)
      BY <2>1 DEF GoodDD
    <3>2. i \notin Chain(d.fd, dd)
      BY <1>1, <3>1, RootedChain
    <3>. QED BY <1>2, <1>4, <1>8, <1>10, <3>2
  <2>. QED BY <1>1, <1>9, <2>1 DEF FreeOK, SameDD
<1>17. DiskOK(e, F)
  BY <1>1, <1>8, <1>13, <1>14, <1>15, <1>16, SameOpenDirs DEF DiskOK, FdOK, ParentsOK
<1>18. \A i \in FDs : e.fd[i].refcnt = d.fd[i].refcnt + (IF i = dd THEN 1 ELSE 0)
  BY <1>4, <1>8
<1>. QED BY <1>8, <1>9, <1>17, <1>18 DEF Locks, Keeps

\* What of d is still locked in e means the same; only DD x is locked once less
Unlocks(d, e, F, x) ==
    /\ DiskOK(e, F) /\ e.heap = d.heap /\ e.dhd = d.dhd
    /\ \A i \in FDs : e.fd[i].refcnt > 0 => SameDD(d.fd, e.fd, i)
    /\ \A i \in FDs : e.fd[i].refcnt = d.fd[i].refcnt - (IF i = x THEN 1 ELSE 0)

\* unlock_dd of a DD that stays locked only counts.
LEMMA UnlockOne ==
    ASSUME NEW d, NEW F, DiskOK(d, F), NEW dd \in FDs \ F, d.fd[dd].refcnt > 1,
           NEW e, e = unlock_dd(d, dd)
    PROVE  Unlocks(d, e, F, dd)
<1>. DEFINE g == [d.fd[dd] EXCEPT !.refcnt = d.fd[dd].refcnt - 1]
            m == PutFd(d, dd, g)
<1>1. /\ d \in DiskType /\ HeapOK(d.heap) /\ d.heap \in HeapType /\ d.fd \in FdTable /\ RootOK(d, F)
      /\ FreeOK(d) /\ FilesOK(d, F) /\ OneDD(d, F) /\ LockedOK(d, F) /\ ParentsOK(d, F)
      /\ OpenDirsOK(d) /\ F \subseteq FDs
  BY DiskOKParts
<1>2. /\ g \in FdType /\ g.refcnt = d.fd[dd].refcnt - 1 /\ g.refcnt > 0
      /\ g.file = d.fd[dd].file /\ g.parent = d.fd[dd].parent /\ g.is_parent = d.fd[dd].is_parent
  <2>1. d.fd[dd] \in FdType
    BY <1>1 DEF FdTable, FdType
  <2>. QED BY <2>1 DEF FdType
<1>3. e = IF m.fd[dd].refcnt = 0 THEN freeDD(m, dd) ELSE m
  BY Zenon DEF unlock_dd
<1>. HIDE DEF g
<1>4. /\ m \in DiskType /\ m.heap = d.heap /\ m.dhd = d.dhd
      /\ m.fd[dd] = g /\ \A j \in FDs \ {dd} : m.fd[j] = d.fd[j]
  BY <1>1, <1>2, PutFdIs
<1>. HIDE DEF m
<1>5. e = m
  BY <1>2, <1>3, <1>4
<1>6. \A i \in FDs : SameDD(d.fd, e.fd, i)
  BY <1>2, <1>4, <1>5 DEF SameDD
<1>7. \A i \in FDs : e.fd[i].refcnt = d.fd[i].refcnt - (IF i = dd THEN 1 ELSE 0)
  <2>1. \A i \in FDs : d.fd[i].refcnt \in Nat
    BY <1>1, FdParts
  <2>. QED BY <1>2, <1>4, <1>5, <2>1
<1>8. LockedOK(e, F) /\ ParentsOK(e, F)
  <2>1. \A i \in FDs : e.fd[i].is_parent = d.fd[i].is_parent
    BY <1>2, <1>4, <1>5
  <2>2. ASSUME NEW i \in FDs \ F PROVE e.fd[i].refcnt > 0 <=> d.fd[i].refcnt > 0
    <3>1. CASE i = dd
      <4>1. e.fd[dd].refcnt > 0 /\ d.fd[dd].refcnt > 0
        <5>1. d.fd[dd].refcnt \in Nat
          BY <1>1, FdParts
        <5>2. e.fd[dd].refcnt > 0
          BY ONLY <1>2, <1>4, <1>5
        <5>. QED BY <5>1, <5>2
      <4>. QED BY <3>1, <4>1
    <3>2. CASE i # dd
      BY <1>4, <1>5, <3>2
    <3>. QED BY <3>1, <3>2
  <2>3. ASSUME NEW i \in FDs \ F, d.fd[i].refcnt > 0, NEW j \in Chain(d.fd, i) PROVE SameDD(d.fd, e.fd, j)
    BY <1>1, <1>6, ChainClosed
  <2>4. e \in DiskType /\ e.heap = d.heap
    BY <1>4, <1>5
  <2>. QED BY ONLY DiskOK(d, F), <2>1, <2>2, <2>3, <2>4, SameBelow
<1>9. RootOK(e, F) /\ FreeOK(e) /\ OneDD(e, F) /\ FilesOK(e, F)
  <2>1. RootOK(e, F)
    BY <1>1, <1>2, <1>4, <1>5, Constants DEF RootOK
  <2>2. FreeOK(e)
    <3>1. d.fd[dd].file # NULL \/ dd = ROOT
      BY <1>1 DEF FreeOK, FreeFd
    <3>2. ASSUME NEW i \in FDs \ {ROOT}, i = dd PROVE e.fd[i].file # NULL /\ e.fd[i].parent \in FDs /\ e.fd[i].file # root_de
      BY <1>1, <1>6, <3>1, <3>2 DEF FreeOK, SameDD
    <3>3. ASSUME NEW i \in FDs \ {ROOT}, i # dd PROVE e.fd[i] = d.fd[i]
      BY <1>4, <1>5, <3>3
    <3>. QED BY <1>1, <3>2, <3>3 DEF FreeOK
  <2>3. OneDD(e, F)
    BY <1>1, <1>6 DEF OneDD, SameDD
  <2>4. \A i \in F : e.fd[i] = d.fd[i]
    BY <1>1, <1>4, <1>5
  <2>. QED BY <1>1, <1>4, <1>5, <2>1, <2>2, <2>3, <2>4, SameFiles
<1>10. DiskOK(e, F)
  BY <1>1, <1>4, <1>5, <1>8, <1>9, SameOpenDirs DEF DiskOK, FdOK
<1>. QED BY <1>4, <1>5, <1>6, <1>7, <1>10 DEF Unlocks

\* The last unlock_dd of a DD frees it, and every DD above it that is not used.
LEMMA UnlockLast ==
    ASSUME NEW d, NEW F, DiskOK(d, F), NEW dd \in FDs \ F, d.fd[dd].refcnt = 1, dd # ROOT,
           NEW e, e = unlock_dd(d, dd)
    PROVE  Unlocks(d, e, F, dd) /\ Below(e.fd, F, dd) = Below(d.fd, F, dd)
<1>. DEFINE g == [d.fd[dd] EXCEPT !.refcnt = d.fd[dd].refcnt - 1]
            m == PutFd(d, dd, g)
            anc == Ancestors(m.fd, dd)
            counted == [j \in FDs |-> IF j \in anc /\ m.fd[j].is_parent > 0
                           THEN [m.fd[j] EXCEPT !.is_parent = m.fd[j].is_parent - 1] ELSE m.fd[j]]
            gd == [j \in FDs |-> IF counted[j].refcnt = 0 /\ counted[j].is_parent = 0
                                 THEN FreeFd ELSE counted[j]]
<1>1. /\ d \in DiskType /\ HeapOK(d.heap) /\ d.heap \in HeapType /\ d.fd \in FdTable /\ RootOK(d, F)
      /\ FreeOK(d) /\ FilesOK(d, F) /\ OneDD(d, F) /\ LockedOK(d, F) /\ ParentsOK(d, F)
      /\ OpenDirsOK(d) /\ F \subseteq FDs
  BY DiskOKParts
<1>2. /\ g \in FdType /\ g.refcnt = 0
      /\ g.file = d.fd[dd].file /\ g.parent = d.fd[dd].parent /\ g.is_parent = d.fd[dd].is_parent
  <2>1. d.fd[dd] \in FdType
    BY <1>1 DEF FdTable, FdType
  <2>. QED BY <2>1 DEF FdType
<1>3. e = IF m.fd[dd].refcnt = 0 THEN freeDD(m, dd) ELSE m
  BY Zenon DEF unlock_dd
<1>4. /\ m \in DiskType /\ m.heap = d.heap /\ m.dhd = d.dhd
      /\ m.fd[dd] = g /\ \A j \in FDs \ {dd} : m.fd[j] = d.fd[j]
  <2>. HIDE DEF g
  <2>. QED BY <1>1, <1>2, PutFdIs
<1>5. freeDD(m, dd) = IF m.fd[dd].refcnt # 0 THEN m ELSE [m EXCEPT !.fd = gd]
  BY Zenon DEF freeDD
<1>. HIDE DEF m, gd, counted, g
<1>6. e = [m EXCEPT !.fd = gd]
  BY <1>2, <1>3, <1>4, <1>5
<1>7. m.fd \in FdTable /\ \A j \in FDs : m.fd[j] \in FdType
  BY <1>4, DiskParts DEF FdTable, FdType
<1>8. anc = Ancestors(d.fd, dd)
  <2>1. \A j \in Chain(d.fd, dd) : m.fd[j].parent = d.fd[j].parent
    BY <1>1, <1>2, <1>4, ChainClosed
  <2>. QED BY <1>1, <1>7, <2>1, ChainSame DEF Ancestors
<1>. HIDE DEF anc
<1>9. \A j \in FDs : d.fd[j].refcnt \in Nat /\ d.fd[j].is_parent = Cardinality(Below(d.fd, F, j)) /\ d.fd[j].is_parent \in Nat
  BY <1>1, FdParts DEF ParentsOK
<1>10. Rooted(d, F, dd) /\ anc \cap F = {} /\ dd \notin anc
  <2>1. Rooted(d, F, dd)
    BY <1>1 DEF LockedOK
  <2>2. \A j \in Chain(d.fd, dd) : j \notin F
    BY <1>1, <2>1, RootedChain
  <2>. QED BY <1>8, <2>1, <2>2 DEF Ancestors
\* what is left below a DD
<1>. DEFINE left(j) == Below(d.fd, F, j) \ {dd}
<1>11. ASSUME NEW j \in FDs
       PROVE  /\ counted[j] \in FdType /\ counted[j].is_parent = Cardinality(left(j))
              /\ counted[j].refcnt = m.fd[j].refcnt
              /\ counted[j].file = d.fd[j].file /\ counted[j].parent = d.fd[j].parent
  <2>1. m.fd[j].is_parent = d.fd[j].is_parent /\ m.fd[j].file = d.fd[j].file /\ m.fd[j].parent = d.fd[j].parent
    BY <1>2, <1>4
  <2>2. IsFiniteSet(Below(d.fd, F, j)) /\ Cardinality(Below(d.fd, F, j)) \in Nat
    BY BelowFinite
  <2>3. Cardinality(left(j)) = IF dd \in Below(d.fd, F, j) THEN d.fd[j].is_parent - 1 ELSE d.fd[j].is_parent
    BY <1>9, <2>2, FS_RemoveElement
  <2>4. j \in anc <=> dd \in Below(d.fd, F, j)
    BY <1>8 DEF Below
  <2>5. j \in anc => d.fd[j].is_parent > 0
    <3>. SUFFICES ASSUME j \in anc, d.fd[j].is_parent = 0 PROVE FALSE
      BY <1>9
    <3>1. Below(d.fd, F, j) = {}
      BY <1>9, <2>2, FS_EmptySet
    <3>. QED BY <2>4, <3>1
  <2>. HIDE DEF left
  <2>6. CASE j \in anc
    <3>1. counted[j] = [m.fd[j] EXCEPT !.is_parent = m.fd[j].is_parent - 1]
      BY <2>1, <2>5, <2>6 DEF counted
    <3>2. /\ counted[j] \in FdType /\ counted[j].is_parent = m.fd[j].is_parent - 1
          /\ counted[j].refcnt = m.fd[j].refcnt
          /\ counted[j].file = m.fd[j].file /\ counted[j].parent = m.fd[j].parent
      BY <1>7, <1>9, <2>1, <2>5, <2>6, <3>1 DEF FdType
    <3>. QED BY <2>1, <2>3, <2>4, <2>6, <3>2
  <2>7. CASE j \notin anc
    <3>1. counted[j] = m.fd[j]
      BY <2>7 DEF counted
    <3>. QED BY <1>7, <2>1, <2>3, <2>4, <2>7, <3>1
  <2>. QED BY <2>6, <2>7
<1>. HIDE DEF left
<1>12. ASSUME NEW j \in FDs
       PROVE  /\ gd[j] \in FdType /\ gd[j].refcnt = m.fd[j].refcnt
              /\ gd[j].is_parent = Cardinality(left(j))
              /\ gd[j] = FreeFd \/ SameDD(d.fd, gd, j)
              /\ gd[j].refcnt > 0 \/ Cardinality(left(j)) # 0 => SameDD(d.fd, gd, j)
  <2>1. FreeFd \in FdType /\ FreeFd.refcnt = 0 /\ FreeFd.is_parent = 0
    BY DEF FreeFd, FdType
  <2>2. CASE counted[j].refcnt = 0 /\ counted[j].is_parent = 0
    <3>1. gd[j] = FreeFd
      BY <2>2 DEF gd
    <3>. QED BY <1>11, <2>1, <2>2, <3>1
  <2>3. CASE ~(counted[j].refcnt = 0 /\ counted[j].is_parent = 0)
    <3>1. gd[j] = counted[j]
      BY <2>3 DEF gd
    <3>. QED BY <1>11, <3>1 DEF SameDD
  <2>. QED BY <2>2, <2>3
<1>13. gd \in FdTable
  <2>1. \A j \in FDs : gd[j] \in FdType
    BY <1>12
  <2>2. gd = [j \in FDs |-> gd[j]]
    BY DEF gd
  <2>. QED BY <2>1, <2>2 DEF FdTable, FdType
<1>14. e \in DiskType /\ e.heap = d.heap /\ e.dhd = d.dhd /\ e.fd = gd
  BY ONLY <1>4, <1>6, <1>13, DiskOfFd
<1>15. ASSUME NEW i \in FDs
       PROVE  e.fd[i].refcnt = d.fd[i].refcnt - (IF i = dd THEN 1 ELSE 0)
  BY <1>2, <1>4, <1>9, <1>12, <1>14
<1>16. ASSUME NEW i \in FDs \ F, e.fd[i].refcnt > 0
       PROVE  /\ Rooted(d, F, i) /\ d.fd[i].refcnt > 0 /\ i # dd
              /\ \A j \in Chain(d.fd, i) : SameDD(d.fd, e.fd, j)
  <2>1. d.fd[i].refcnt > 0 /\ i # dd
    BY <1>9, <1>15, <1>16
  <2>2. Rooted(d, F, i)
    BY <1>1, <2>1 DEF LockedOK
  <2>3. ASSUME NEW j \in Chain(d.fd, i) PROVE SameDD(d.fd, e.fd, j)
    <3>1. j \in FDs
      BY <1>1, <2>3, ChainClosed
    <3>2. CASE j = i
      BY <1>12, <1>14, <1>16, <3>2
    <3>3. CASE j # i
      <4>1. i \in left(j)
        BY <2>1, <2>3, <3>3 DEF left, Below, Ancestors
      <4>2. IsFiniteSet(left(j))
        BY BelowFinite, FS_RemoveElement DEF left
      <4>3. Cardinality(left(j)) # 0
        BY <4>1, <4>2, FS_EmptySet
      <4>. QED BY <1>12, <1>14, <3>1, <4>3
    <3>. QED BY <3>2, <3>3
  <2>. QED BY <2>1, <2>2, <2>3
<1>17. ASSUME NEW i \in FDs \ F, e.fd[i].refcnt > 0
       PROVE  Rooted(e, F, i) /\ Chain(e.fd, i) = Chain(d.fd, i)
  BY <1>1, <1>14, <1>16, <1>17, SameRooted
<1>18. LockedOK(e, F)
  BY <1>17 DEF LockedOK
<1>19. ASSUME NEW j \in FDs PROVE Below(e.fd, F, j) = left(j)
  <2>1. ASSUME NEW i \in FDs \ F PROVE e.fd[i].refcnt > 0 <=> d.fd[i].refcnt > 0 /\ i # dd
    BY <1>9, <1>15
  <2>. QED BY <1>17, <2>1 DEF left, Below, Ancestors
<1>20. ParentsOK(e, F)
  BY <1>12, <1>14, <1>19 DEF ParentsOK
<1>21. RootOK(e, F)
  <2>1. e.fd[ROOT].refcnt = d.fd[ROOT].refcnt
    BY <1>15, Constants, <1>9
  <2>2. SameDD(d.fd, e.fd, ROOT)
    BY <1>1, <1>12, <1>14, <2>1, Constants DEF RootOK
  <2>. QED BY <1>1, <2>1, <2>2 DEF RootOK, SameDD
<1>22. FreeOK(e)
  <2>1. ASSUME NEW i \in FDs \ {ROOT}, e.fd[i] # FreeFd
        PROVE  e.fd[i].file # NULL /\ e.fd[i].parent \in FDs /\ e.fd[i].file # root_de
    <3>1. SameDD(d.fd, e.fd, i)
      BY <1>12, <1>14, <2>1
    <3>2. d.fd[i].file # NULL
      <4>1. SUFFICES ASSUME d.fd[i] = FreeFd PROVE FALSE
        BY <1>1 DEF FreeOK
      <4>2. i # dd /\ m.fd[i] = FreeFd
        BY <1>4, <4>1 DEF FreeFd
      <4>3. d.fd[i].is_parent = 0
        BY <4>1 DEF FreeFd
      <4>4. Below(d.fd, F, i) = {}
        BY <1>9, <4>3, BelowFinite, FS_EmptySet
      <4>5. Cardinality(left(i)) = 0
        BY <4>4, FS_EmptySet DEF left
      <4>6. counted[i].refcnt = 0 /\ counted[i].is_parent = 0
        BY <1>11, <4>2, <4>5 DEF FreeFd
      <4>. QED BY <1>14, <2>1, <4>6 DEF gd
    <3>. QED BY <1>1, <3>1, <3>2 DEF FreeOK, SameDD
  <2>2. FreeFd.file = NULL
    BY DEF FreeFd
  <2>. QED BY <2>1, <2>2 DEF FreeOK
<1>23. OneDD(e, F)
  <2>1. \A i \in FDs : e.fd[i].file # NULL => e.fd[i].file = d.fd[i].file
    BY <1>12, <1>14 DEF FreeFd, SameDD
  <2>. QED BY <1>1, <2>1 DEF OneDD
<1>24. FilesOK(e, F)
  <2>1. ASSUME NEW i \in F PROVE e.fd[i] = d.fd[i]
    <3>1. i \in FDs /\ i # dd /\ i \notin anc /\ d.fd[i].refcnt > 0
      BY <1>1, <1>10, <2>1 DEF FilesOK
    <3>2. counted[i] = m.fd[i]
      BY <3>1 DEF counted
    <3>. QED BY <1>4, <1>14, <3>1, <3>2 DEF gd
  <2>. QED BY <1>1, <1>14, <2>1, SameFiles
<1>25. DiskOK(e, F)
  BY <1>1, <1>14, <1>18, <1>20, <1>21, <1>22, <1>23, <1>24, SameOpenDirs DEF DiskOK, FdOK
<1>26. \A i \in FDs : e.fd[i].refcnt > 0 => SameDD(d.fd, e.fd, i)
  BY <1>12, <1>14
<1>27. Below(e.fd, F, dd) = Below(d.fd, F, dd)
  <2>1. dd \notin Below(d.fd, F, dd)
    BY DEF Below, Ancestors
  <2>. QED BY <1>19, <2>1 DEF left
<1>. QED BY <1>14, <1>15, <1>25, <1>26, <1>27 DEF Unlocks

\* unlock_dd.
LEMMA Unlock ==
    ASSUME NEW d, NEW F, DiskOK(d, F), NEW dd \in FDs \ F, d.fd[dd].refcnt > 0,
           dd = ROOT => d.fd[dd].refcnt > 1, NEW e, e = unlock_dd(d, dd)
    PROVE  Unlocks(d, e, F, dd)
<1>1. d.fd[dd].refcnt \in Nat
  BY DiskOKParts, FdParts
<1>. QED BY <1>1, UnlockOne, UnlockLast

-----------------------------------------------------------------------------
(* Finding names *)

PathSeq == Seq(Component \cup {"\\"})

\* The entries of a block that are in use.
LEMMA LiveIs ==
    ASSUME NEW d, d.heap \in HeapType, NEW a \in Blocks
    PROVE  /\ \A k : k \in Live(d, a) <=> LiveAt(d.heap, a, k)
           /\ Live(d, a) \in SUBSET (Nat \ {0})
           /\ \A k \in Live(d, a) : d.heap[a].ent[k] = Ent(d.heap, a, k)
<1>1. \A k : k \in Live(d, a) <=> LiveAt(d.heap, a, k)
  BY DEF Live, Slots, LiveAt, Ent
<1>2. ASSUME NEW k \in Live(d, a) PROVE k \in Nat \ {0}
  BY <1>1, LiveFacts
<1>. QED BY <1>1, <1>2 DEF Ent

\* The least number of a set, or 0 if it is empty.
LEMMA FirstOf ==
    ASSUME NEW S \in SUBSET (Nat \ {0}), NEW m, m = IF S = {} THEN 0 ELSE Min(S)
    PROVE  (m = 0 <=> S = {}) /\ (m # 0 => m \in S)
<1>1. CASE S = {}
  BY <1>1
<1>2. CASE S # {}
  BY <1>2, MinOf
<1>. QED BY <1>1, <1>2

\* findfile answers an entry in use; if there is none for a name, then the name
\* that a new entry gets is not there.
LEMMA FindFile ==
    ASSUME NEW d, d.heap \in HeapType, NEW a \in Blocks, NEW n, NEW s, NEW domain \in {"tos", "mint"},
           NEW m, m = findfile(d, a, n, s, domain)
    PROVE  /\ m # 0 => LiveAt(d.heap, a, m)
           /\ m = 0 /\ n \in Name =>
                 \A k : LiveAt(d.heap, a, k) => Ent(d.heap, a, k).name # NewName(n, domain)
<1>. DEFINE H(S) == {i \in Live(d, a) : d.heap[a].ent[i].name \in S}
            First(S) == IF S = {} THEN 0 ELSE Min(S)
            alike == {x \in Name : Tos[x] = Tos[n]}
<1>1. m = CASE n \notin Name -> 0
            [] n \in Name /\ domain = "mint" -> First(H({n}))
            [] n \in Name /\ domain = "tos" /\ s = "exist" -> First(H({Lower[n]}))
            [] OTHER -> IF H({n}) # {} THEN First(H({n}))
                        ELSE IF H({Lower[n]}) # {} THEN First(H({Lower[n]}))
                        ELSE First(H(alike))
  BY Zenon DEF findfile
<1>2. ASSUME NEW S
      PROVE  /\ H(S) \in SUBSET (Nat \ {0})
             /\ \A k \in H(S) : LiveAt(d.heap, a, k)
             /\ \A k : LiveAt(d.heap, a, k) /\ Ent(d.heap, a, k).name \in S => k \in H(S)
  BY LiveIs
<1>. HIDE DEF H
<1>3. ASSUME NEW S
      PROVE  (First(H(S)) = 0 <=> H(S) = {}) /\ (First(H(S)) # 0 => LiveAt(d.heap, a, First(H(S))))
  <2>1. (First(H(S)) = 0 <=> H(S) = {}) /\ (First(H(S)) # 0 => First(H(S)) \in H(S))
    BY <1>2, FirstOf
  <2>. QED BY <1>2, <2>1
<1>. HIDE DEF First
<1>4. CASE n \notin Name
  BY <1>1, <1>4
<1>5. CASE n \in Name /\ domain = "mint"
  <2>1. m = First(H({n}))
    BY <1>1, <1>5
  <2>2. NewName(n, domain) = n
    BY <1>5 DEF NewName
  <2>. QED BY <1>2, <1>3, <2>1, <2>2
<1>6. CASE n \in Name /\ domain = "tos"
  <2>1. m = 0 => H({Lower[n]}) = {}
    <3>1. CASE s = "exist"
      <4>1. m = First(H({Lower[n]}))
        BY <1>1, <1>6, <3>1
      <4>. QED BY <1>3, <4>1
    <3>2. CASE s # "exist"
      <4>1. m = IF H({n}) # {} THEN First(H({n}))
                ELSE IF H({Lower[n]}) # {} THEN First(H({Lower[n]})) ELSE First(H(alike))
        BY <1>1, <1>6, <3>2
      <4>. QED BY <1>3, <4>1
    <3>. QED BY <3>1, <3>2
  <2>2. NewName(n, domain) = Lower[n]
    BY <1>6 DEF NewName
  <2>3. m # 0 => LiveAt(d.heap, a, m)
    BY <1>1, <1>3, <1>6
  <2>. QED BY <1>2, <2>1, <2>2, <2>3
<1>. QED BY <1>4, <1>5, <1>6

-----------------------------------------------------------------------------
(* Walking along a path *)

\* What looking up a path answers, by its parts.
LEMMA Answers ==
    ASSUME NEW d, NEW x, NEW y, NEW z, NEW r
    PROVE  /\ r = Failed(d, x) => r.disk = d /\ r.err = x /\ r.dd = NULL /\ r.link = NULL /\ r.rest = << >>
           /\ r = Found(d, x, y) => r.disk = d /\ r.err = "E_OK" /\ r.dd = x /\ r.last = y
           /\ r = Link(d, x, y, z) =>
                 r.disk = d /\ r.err = "ELINK" /\ r.dd = x /\ r.link = y /\ r.rest = z
<1>1. ASSUME NEW v, NEW u, u = Failed(d, v)
      PROVE  u = [disk |-> d, err |-> v, dd |-> NULL, last |-> NULL, link |-> NULL, rest |-> << >>]
  BY <1>1 DEF Failed
<1>2. r = Failed(d, x) => r.disk = d /\ r.err = x /\ r.dd = NULL /\ r.link = NULL /\ r.rest = << >>
  BY <1>1
<1>3. ASSUME r = Found(d, x, y) PROVE r.disk = d /\ r.err = "E_OK" /\ r.dd = x /\ r.last = y
  <2>. DEFINE u == Failed(d, "E_OK")
  <2>1. u = [disk |-> d, err |-> "E_OK", dd |-> NULL, last |-> NULL, link |-> NULL, rest |-> << >>]
    BY <1>1
  <2>2. r = [u EXCEPT !.dd = x, !.last = y]
    BY <1>3 DEF Found
  <2>. HIDE DEF u
  <2>. QED BY <2>1, <2>2
<1>4. ASSUME r = Link(d, x, y, z)
      PROVE  r.disk = d /\ r.err = "ELINK" /\ r.dd = x /\ r.link = y /\ r.rest = z
  <2>. DEFINE u == Failed(d, "ELINK")
  <2>1. u = [disk |-> d, err |-> "ELINK", dd |-> NULL, last |-> NULL, link |-> NULL, rest |-> << >>]
    BY <1>1
  <2>2. r = [u EXCEPT !.dd = x, !.link = y, !.rest = z]
    BY <1>4 DEF Link
  <2>. HIDE DEF u
  <2>. QED BY <2>1, <2>2
<1>. QED BY <1>2, <1>3, <1>4

\* The first lock is none.
LEMMA LocksTrans ==
    ASSUME NEW d, d.fd \in FdTable, NEW F, NEW e, NEW f, NEW x, Locks(d, e, F, NULL), Locks(e, f, F, x)
    PROVE  Locks(d, f, F, x)
<1>1. \A i \in FDs : e.fd[i].refcnt = d.fd[i].refcnt /\ d.fd[i].refcnt \in Nat
  <2>. TAKE i \in FDs
  <2>1. d.fd[i].refcnt \in Nat /\ i # NULL
    BY FdParts, Constants
  <2>2. e.fd[i].refcnt = d.fd[i].refcnt + (IF i = NULL THEN 1 ELSE 0)
    BY DEF Locks
  <2>. QED BY <2>1, <2>2
<1>. QED BY <1>1 DEF Locks, Keeps, SameDD

\* Nothing has happened.
LEMMA LocksNone ==
    ASSUME NEW d, NEW F, DiskOK(d, F)
    PROVE  Locks(d, d, F, NULL)
<1>1. \A i \in FDs : d.fd[i].refcnt \in Nat /\ i # NULL
  BY DiskOKParts, FdParts, Constants
<1>. QED BY <1>1 DEF Locks, Keeps, SameDD

\* How far the walk has come: r is its answer, and what is left of a path that ends
\* with a link is shorter than n
WalkOK(d, F, r, n) ==
    /\ r.err = "E_OK" => Locks(d, r.disk, F, NULL) /\ Rooted(r.disk, F, r.dd)
    /\ r.err = "ELINK" /\ r.link # NULL =>
          r.dd \in FDs \ F /\ r.link \in Path /\ Locks(d, r.disk, F, r.dd)
    /\ r.err # "E_OK" /\ ~(r.err = "ELINK" /\ r.link # NULL) => Locks(d, r.disk, F, NULL)
    /\ r.err = "ELINK" => r.rest \in PathSeq /\ Len(r.rest) < n

\* One component further.
LEMMA ComponentStep ==
    ASSUME NEW d, NEW F, DiskOK(d, F), NEW n, NEW w, WalkOK(d, F, w, n), NEW c,
           NEW rest \in PathSeq, Len(rest) < n, NEW domain \in {"tos", "mint"},
           NEW r, r = Component2DD(w, c, rest, domain)
    PROVE  WalkOK(d, F, r, n)
<1>. DEFINE e == w.disk
            dd == w.dd
            a == DirOf(e, dd)
            i == findfile(e, a, c, "search", domain)
            kind == IF i = 0 THEN NULL ELSE Entry(e, << a, i >>).kind
            new == findfd(e, << a, i >>)
<1>1. r = IF w.err # "E_OK" \/ c = "." THEN w
          ELSE CASE c = ".." /\ dd = ROOT -> Link(e, dd, NULL, rest)
                 [] c = ".." /\ dd # ROOT -> Found(e, e.fd[dd].parent, NULL)
                 [] c # ".." /\ kind = "link" ->
                       Link(increase_refcnts(e, dd), dd, e.heap[Entry(e, << a, i >>).faddr].to, rest)
                 [] c # ".." /\ kind = "dir" /\ new # NULL ->
                       Found(PutFd(e, new, [e.fd[new] EXCEPT !.file = << a, i >>, !.parent = dd]), new, NULL)
                 [] c # ".." /\ kind = "dir" /\ new = NULL -> Failed(e, "ENSMEM")
                 [] OTHER -> Failed(e, "EPTHNF")
  BY Zenon DEF Component2DD
<1>2. CASE w.err # "E_OK" \/ c = "."
  BY <1>1, <1>2
<1>3. CASE w.err = "E_OK" /\ c # "."
  <2>1. Locks(d, e, F, NULL) /\ Rooted(e, F, dd) /\ DiskOK(e, F)
    BY <1>3 DEF WalkOK, Locks
  <2>2. e \in DiskType /\ e.heap \in HeapType /\ e.fd \in FdTable /\ HeapOK(e.heap) /\ RootOK(e, F) /\ d.fd \in FdTable
    BY <2>1, DiskOKParts
  <2>3. dd \in FDs \ F /\ a \in Blocks
    <3>1. dd \in Chain(e.fd, dd) /\ GoodDD(e, F, dd)
      BY <2>1, <2>2, ChainClosed DEF Rooted
    <3>. QED BY <2>2, <3>1, GoodDir DEF GoodDD
  <2>4. i # 0 => LiveAt(e.heap, a, i)
    BY <2>2, <2>3, FindFile
  <2>5. i # 0 => Entry(e, << a, i >>) = Ent(e.heap, a, i) /\ kind = Ent(e.heap, a, i).kind
    BY <2>2, <2>4, EntryAt
  <2>6. kind # NULL => i # 0
    OBVIOUS
  <2>. HIDE DEF e, dd, a, i, kind, new
  <2>7. CASE c = ".." /\ dd = ROOT
    <3>1. r = Link(e, dd, NULL, rest)
      BY <1>1, <1>3, <2>7
    <3>2. r.err = "ELINK" /\ r.link = NULL /\ r.disk = e /\ r.rest = rest
      BY <3>1, Answers
    <3>. QED BY <2>1, <3>2 DEF WalkOK
  <2>8. CASE c = ".." /\ dd # ROOT
    <3>1. r = Found(e, e.fd[dd].parent, NULL)
      BY <1>1, <1>3, <2>8
    <3>2. r.err = "E_OK" /\ r.disk = e /\ r.dd = e.fd[dd].parent
      BY <3>1, Answers
    <3>3. Rooted(e, F, e.fd[dd].parent)
      BY <2>1, <2>2, <2>8, RootedStep
    <3>. QED BY <2>1, <3>2, <3>3 DEF WalkOK
  <2>9. CASE c # ".." /\ kind = "link"
    <3>. DEFINE to == e.heap[Entry(e, << a, i >>).faddr].to
                g == increase_refcnts(e, dd)
    <3>1. r = Link(g, dd, to, rest)
      BY <1>1, <1>3, <2>9
    <3>2. Locks(d, g, F, dd)
      BY <2>1, <2>2, Increase, LocksTrans
    <3>3. to \in Path /\ to # NULL
      <4>1. i # 0 /\ NULL # "link"
        BY <2>6, <2>9, Constants DEF Kinds
      <4>2. Ent(e.heap, a, i).faddr \in Blocks
        BY <2>2, <2>4, <4>1, LiveFacts, Constants
      <4>3. e.heap[Ent(e.heap, a, i).faddr].to \in Path
        BY <2>2, <4>2 DEF HeapType, BlockType
      <4>. QED BY <2>5, <4>1, <4>3, Constants
    <3>. HIDE DEF to, g
    <3>4. r.err = "ELINK" /\ r.link = to /\ r.disk = g /\ r.rest = rest /\ r.dd = dd
      BY <3>1, Answers
    <3>. QED BY <2>3, <3>2, <3>3, <3>4 DEF WalkOK
  <2>10. CASE c # ".." /\ kind = "dir" /\ new # NULL
    <3>. DEFINE g == PutFd(e, new, [e.fd[new] EXCEPT !.file = << a, i >>, !.parent = dd])
    <3>1. r = Found(g, new, NULL)
      BY <1>1, <1>3, <2>10
    <3>2. Locks(e, g, F, NULL) /\ Rooted(g, F, new)
      <4>1. i # 0 /\ NULL # "dir"
        BY <2>6, <2>10, Constants DEF Kinds
      <4>2. LiveAt(e.heap, a, i) /\ Ent(e.heap, a, i).kind = "dir"
        BY <2>4, <2>5, <2>10, <4>1
      <4>. QED BY <2>1, <2>10, <4>2, Enter DEF a, new
    <3>. HIDE DEF g
    <3>3. r.err = "E_OK" /\ r.disk = g /\ r.dd = new
      BY <3>1, Answers
    <3>4. Locks(d, g, F, NULL)
      BY <2>1, <2>2, <3>2, LocksTrans
    <3>. QED BY <3>2, <3>3, <3>4 DEF WalkOK
  <2>11. CASE c # ".." /\ kind # "link" /\ ~(kind = "dir" /\ new # NULL)
    <3>1. r = Failed(e, "ENSMEM") \/ r = Failed(e, "EPTHNF")
      BY <1>1, <1>3, <2>11
    <3>2. r.err # "E_OK" /\ r.err # "ELINK" /\ r.disk = e
      BY <3>1, Answers
    <3>. QED BY <2>1, <3>2 DEF WalkOK
  <2>. QED BY <2>7, <2>8, <2>9, <2>10, <2>11
<1>. QED BY <1>2, <1>3

\* f is the walk along the first n components of cs
WalkStep(f, d, dd, cs, n, domain) ==
    f = [i \in 0..n |->
            IF i = 0 THEN Found(d, dd, NULL)
            ELSE Component2DD(f[i - 1], cs[i], SubSeq(cs, i + 1, Len(cs)), domain)]

\* There is such a walk.
LEMMA WalkExists ==
    ASSUME NEW d, NEW dd, NEW cs, NEW domain, NEW n \in Nat
    PROVE  \E f : WalkStep(f, d, dd, cs, n, domain)
<1>. DEFINE T == {m \in Nat : ~ \E f : WalkStep(f, d, dd, cs, m, domain)}
            Step(w, i) == Component2DD(w, cs[i], SubSeq(cs, i + 1, Len(cs)), domain)
<1>. SUFFICES ASSUME T # {} PROVE FALSE
  OBVIOUS
<1>1. PICK m \in T : \A k \in T : m <= k
  BY LeastOf
<1>2. m # 0
  <2>. DEFINE f == [i \in 0..0 |-> Found(d, dd, NULL)]
  <2>1. WalkStep(f, d, dd, cs, 0, domain)
    BY DEF WalkStep
  <2>. QED BY <1>1, <2>1
<1>3. PICK f : WalkStep(f, d, dd, cs, m - 1, domain)
  <2>1. m - 1 \in Nat /\ ~(m <= m - 1)
    BY <1>1, <1>2
  <2>2. m - 1 \notin T
    BY <1>1, <2>1
  <2>. QED BY <2>1, <2>2
<1>. DEFINE g == [i \in 0..m |-> IF i < m THEN f[i] ELSE Step(f[m - 1], m)]
<1>4. ASSUME NEW i \in 0..m PROVE g[i] = IF i = 0 THEN Found(d, dd, NULL) ELSE Step(g[i - 1], i)
  <2>. HIDE DEF Step
  <2>1. \A k \in 0..(m - 1) : f[k] = IF k = 0 THEN Found(d, dd, NULL) ELSE Step(f[k - 1], k)
    BY <1>3 DEF WalkStep, Step
  <2>2. CASE i = m
    BY <1>1, <1>2, <2>2
  <2>3. CASE i < m
    BY <1>1, <1>2, <2>1, <2>3
  <2>. QED BY <1>1, <2>2, <2>3
<1>5. WalkStep(g, d, dd, cs, m, domain)
  <2>1. g = [i \in 0..m |-> g[i]]
    OBVIOUS
  <2>. HIDE DEF g
  <2>. QED BY <1>4, <2>1 DEF WalkStep
<1>. QED BY <1>1, <1>5

\* What is left of a path behind component i.
LEMMA RestOf ==
    ASSUME NEW cs \in PathSeq, NEW i \in 1..Len(cs)
    PROVE  SubSeq(cs, i + 1, Len(cs)) \in PathSeq /\ Len(SubSeq(cs, i + 1, Len(cs))) = Len(cs) - i
<1>. DEFINE X == Component \cup {"\\"}
<1>1. cs \in Seq(X)
  BY DEF PathSeq
<1>. HIDE DEF X
<1>2. Len(cs) \in Nat
  BY <1>1
<1>3. SubSeq(cs, i + 1, Len(cs)) \in Seq(X) /\ Len(SubSeq(cs, i + 1, Len(cs))) = Len(cs) - i
  BY <1>1, <1>2
<1>. QED BY <1>3 DEF PathSeq, X

\* The walk stays all right.
LEMMA WalkInv ==
    ASSUME NEW d, NEW F, DiskOK(d, F), NEW dd, Rooted(d, F, dd), NEW cs \in PathSeq,
           NEW n \in 0..Len(cs), NEW domain \in {"tos", "mint"}, NEW f, WalkStep(f, d, dd, cs, n, domain)
    PROVE  WalkOK(d, F, f[n], Len(cs))
<1>. DEFINE T == {m \in 0..n : ~ WalkOK(d, F, f[m], Len(cs))}
<1>1. Len(cs) \in Nat /\ T \in SUBSET Nat
  BY DEF PathSeq
<1>. SUFFICES ASSUME T # {} PROVE FALSE
  BY <1>1
<1>2. PICK m \in T : \A k \in T : m <= k
  BY <1>1, LeastOf
<1>3. CASE m = 0
  <2>1. f[m] = Found(d, dd, NULL)
    BY <1>1, <1>3 DEF WalkStep
  <2>2. f[m].disk = d /\ f[m].err = "E_OK" /\ f[m].dd = dd
    BY <2>1, Answers
  <2>3. WalkOK(d, F, f[m], Len(cs))
    BY <2>2, LocksNone DEF WalkOK
  <2>. QED BY <1>2, <2>3
<1>4. CASE m # 0
  <2>. DEFINE rest == SubSeq(cs, m + 1, Len(cs))
  <2>1. m - 1 \in 0..n /\ m \in 1..Len(cs) /\ ~(m <= m - 1)
    BY <1>1, <1>2, <1>4
  <2>2. WalkOK(d, F, f[m - 1], Len(cs))
    BY <1>2, <2>1
  <2>3. rest \in PathSeq /\ Len(rest) < Len(cs)
    BY <1>1, <2>1, RestOf
  <2>. HIDE DEF rest
  <2>4. f[m] = Component2DD(f[m - 1], cs[m], rest, domain)
    BY <1>2, <1>4 DEF WalkStep, rest
  <2>5. WalkOK(d, F, f[m], Len(cs))
    BY <2>2, <2>3, <2>4, ComponentStep
  <2>. QED BY <1>2, <2>5
<1>. QED BY <1>3, <1>4

\* The DD that the answer of path2DD has locked
Arrived(r) == r.err = "E_OK" \/ (r.err = "ELINK" /\ r.link # NULL)
Target(r) == IF Arrived(r) THEN r.dd ELSE NULL

\* path2DD locks the DD it arrives at, and what is left of a path gets shorter.
LEMMA Path2DD ==
    ASSUME NEW d, NEW F, DiskOK(d, F), NEW dd, Rooted(d, F, dd), NEW cs \in PathSeq,
           NEW mode, NEW domain \in {"tos", "mint"}, NEW r, r = path2DD(d, dd, cs, mode, domain)
    PROVE  /\ Locks(d, r.disk, F, Target(r))
           /\ Arrived(r) => r.dd \in FDs \ F
           /\ r.err = "ELINK" /\ r.link # NULL => r.link \in Path
           /\ r.err = "ELINK" => r.rest \in PathSeq /\ Len(r.rest) < Len(cs)
<1>. DEFINE n == IF mode = 0 /\ cs # << >> THEN Len(cs) - 1 ELSE Len(cs)
            w == CHOOSE walk : walk = [i \in 0..n |->
                    IF i = 0 THEN Found(d, dd, NULL)
                    ELSE Component2DD(walk[i - 1], cs[i], SubSeq(cs, i + 1, Len(cs)), domain)]
            last == IF n < Len(cs) THEN cs[Len(cs)] ELSE NULL
<1>1. r = IF w[n].err # "E_OK" THEN w[n]
          ELSE Found(increase_refcnts(w[n].disk, w[n].dd), w[n].dd, last)
  BY Zenon DEF path2DD, path2DD_end
<1>2. n \in Nat /\ n \in 0..Len(cs)
  <2>1. Len(cs) \in Nat /\ (cs # << >> => Len(cs) > 0)
    BY DEF PathSeq
  <2>. QED BY <2>1
<1>. HIDE DEF n
<1>3. WalkStep(w, d, dd, cs, n, domain)
  <2>1. \E f : f = [i \in 0..n |->
            IF i = 0 THEN Found(d, dd, NULL)
            ELSE Component2DD(f[i - 1], cs[i], SubSeq(cs, i + 1, Len(cs)), domain)]
    <3>1. \E f : WalkStep(f, d, dd, cs, n, domain)
      BY <1>2, WalkExists
    <3>. QED BY <3>1, Zenon DEF WalkStep
  <2>2. w = [i \in 0..n |->
            IF i = 0 THEN Found(d, dd, NULL)
            ELSE Component2DD(w[i - 1], cs[i], SubSeq(cs, i + 1, Len(cs)), domain)]
    BY <2>1, Zenon
  <2>. QED BY <2>2, Zenon DEF WalkStep
<1>. HIDE DEF w, last
<1>4. WalkOK(d, F, w[n], Len(cs))
  BY <1>2, <1>3, WalkInv
<1>5. CASE w[n].err # "E_OK"
  <2>1. r = w[n]
    BY <1>1, <1>5
  <2>2. r.err = "ELINK" /\ r.link # NULL => r.dd \in FDs \ F /\ r.link \in Path /\ Locks(d, r.disk, F, r.dd)
    BY <1>4, <2>1 DEF WalkOK
  <2>3. ~(r.err = "ELINK" /\ r.link # NULL) => Locks(d, r.disk, F, NULL)
    BY <1>4, <1>5, <2>1 DEF WalkOK
  <2>4. r.err = "ELINK" => r.rest \in PathSeq /\ Len(r.rest) < Len(cs)
    BY <1>4, <2>1 DEF WalkOK
  <2>. QED BY <1>5, <2>1, <2>2, <2>3, <2>4 DEF Arrived, Target
<1>6. CASE w[n].err = "E_OK"
  <2>. DEFINE e == w[n].disk
              to == w[n].dd
              g == increase_refcnts(e, to)
  <2>1. r = Found(g, to, last)
    BY <1>1, <1>6
  <2>2. r.disk = g /\ r.err = "E_OK" /\ r.dd = to
    BY <2>1, Answers
  <2>3. Locks(d, e, F, NULL) /\ Rooted(e, F, to)
    BY <1>4, <1>6 DEF WalkOK
  <2>. HIDE DEF e, to
  <2>4. Locks(e, g, F, to)
    BY <2>3, Increase DEF Locks
  <2>5. Locks(d, g, F, to)
    BY <2>3, <2>4, LocksTrans, DiskOKParts
  <2>6. to \in FDs \ F
    <3>1. e.fd \in FdTable
      BY <2>3, DiskOKParts DEF Locks
    <3>. QED BY <2>3, <3>1, ChainClosed DEF Rooted, GoodDD
  <2>. QED BY <2>2, <2>5, <2>6 DEF Arrived, Target
<1>. QED BY <1>5, <1>6

-----------------------------------------------------------------------------
(* Following links *)

\* A DD that is locked is on a chain.
LEMMA LockedRooted ==
    ASSUME NEW d, NEW F, DiskOK(d, F), NEW i \in FDs \ F, d.fd[i].refcnt > 0
    PROVE  Rooted(d, F, i)
BY DiskOKParts DEF LockedOK

\* lock_dd of a DD that is locked counts.
LEMMA LockOne ==
    ASSUME NEW d, NEW F, DiskOK(d, F), NEW i \in FDs \ F, d.fd[i].refcnt > 0, NEW e, e = lock_dd(d, i)
    PROVE  Locks(d, e, F, i)
<1>1. e = increase_refcnts(d, i)
  <2>1. d.fd[i].refcnt # 0
    BY DiskOKParts, FdParts
  <2>2. [j \in FDs |-> IF j = i THEN [d.fd[i] EXCEPT !.refcnt = d.fd[i].refcnt + 1] ELSE d.fd[j]]
        = [j \in FDs |-> IF j = i THEN [d.fd[j] EXCEPT !.refcnt = d.fd[j].refcnt + 1]
                         ELSE IF j \in {} THEN [d.fd[j] EXCEPT !.is_parent = d.fd[j].is_parent + 1]
                         ELSE d.fd[j]]
    OBVIOUS
  <2>3. e = [d EXCEPT !.fd = [j \in FDs |-> IF j = i THEN [d.fd[i] EXCEPT !.refcnt = d.fd[i].refcnt + 1]
                                            ELSE d.fd[j]]]
    BY DEF lock_dd, PutFd
  <2>4. (IF d.fd[i].refcnt = 0 THEN Ancestors(d.fd, i) ELSE {}) = {}
    BY <2>1
  <2>5. increase_refcnts(d, i) = [d EXCEPT !.fd =
            [j \in FDs |-> IF j = i THEN [d.fd[j] EXCEPT !.refcnt = d.fd[j].refcnt + 1]
                           ELSE IF j \in {} THEN [d.fd[j] EXCEPT !.is_parent = d.fd[j].is_parent + 1]
                           ELSE d.fd[j]]]
    BY <2>4, Zenon DEF increase_refcnts
  <2>. QED BY <2>2, <2>3, <2>5, Zenon
<1>. QED BY <1>1, LockedRooted, Increase

\* A DD is locked, another one after it, and the first one is unlocked.
LEMMA LocksUnlock ==
    ASSUME NEW d, NEW F, DiskOK(d, F), NEW e, NEW f, NEW g, NEW x \in FDs \ F, NEW y,
           Locks(d, e, F, x), Locks(e, f, F, y), g = unlock_dd(f, x)
    PROVE  Locks(d, g, F, y)
<1>1. \A i \in FDs : d.fd[i].refcnt \in Nat
  BY DiskOKParts, FdParts
<1>2. \A i \in FDs : /\ e.fd[i].refcnt = d.fd[i].refcnt + (IF i = x THEN 1 ELSE 0)
                     /\ f.fd[i].refcnt = e.fd[i].refcnt + (IF i = y THEN 1 ELSE 0)
  BY DEF Locks
<1>3. f.fd[x].refcnt > 0 /\ (x = ROOT => f.fd[x].refcnt > 1)
  <2>1. d.fd[ROOT].refcnt > 0
    BY DiskOKParts DEF RootOK
  <2>. QED BY <1>1, <1>2, <2>1
<1>4. Unlocks(f, g, F, x)
  BY <1>3, Unlock DEF Locks
<1>5. \A i \in FDs : g.fd[i].refcnt = d.fd[i].refcnt + (IF i = y THEN 1 ELSE 0)
  <2>. TAKE i \in FDs
  <2>1. g.fd[i].refcnt = f.fd[i].refcnt - (IF i = x THEN 1 ELSE 0)
    BY <1>4 DEF Unlocks
  <2>. QED BY <1>1, <1>2, <2>1
<1>6. ASSUME NEW i \in FDs, d.fd[i].refcnt > 0 PROVE SameDD(d.fd, g.fd, i)
  <2>1. e.fd[i].refcnt > 0 /\ g.fd[i].refcnt > 0
    BY <1>1, <1>2, <1>5, <1>6
  <2>2. SameDD(d.fd, e.fd, i) /\ SameDD(e.fd, f.fd, i) /\ SameDD(f.fd, g.fd, i)
    BY <1>4, <1>6, <2>1 DEF Locks, Keeps, Unlocks
  <2>. QED BY <2>2 DEF SameDD
<1>. QED BY <1>4, <1>5, <1>6 DEF Locks, Keeps, Unlocks

\* What _path_to_DD answers: a DD that is locked, or an error
LookupOK(d, F, r) ==
    /\ r.err # "ELINK"
    /\ r.err = "E_OK" => r.dd \in FDs \ F
    /\ Locks(d, r.disk, F, IF r.err = "E_OK" THEN r.dd ELSE NULL)

\* links answers like that on the disk d with any descriptors
LinksOK(links, d, F) ==
    \A q \in Query :
       DiskOK([d EXCEPT !.fd = q.fd], F) /\ q.dd \notin F /\ q.fd[q.dd].refcnt > 0
       => LookupOK([d EXCEPT !.fd = q.fd], F, links[q])

\* How far the loop of _path_to_DD has come; n bounds what is left of the path
LoopOK(d, F, w, n) ==
    /\ w.err \in {"E_OK", "ELINK"} => w.dd \in FDs \ F
    /\ Locks(d, w.disk, F, IF w.err \in {"E_OK", "ELINK"} THEN w.dd ELSE NULL)
    /\ w.err = "ELINK" => w.rest \in PathSeq /\ Len(w.rest) <= n

\* A disk with the same blocks differs in its descriptors.
LEMMA SameButFd ==
    ASSUME NEW d \in DiskType, NEW e \in DiskType, e.heap = d.heap, e.dhd = d.dhd
    PROVE  [d EXCEPT !.fd = e.fd] = e
<1>1. d = [heap |-> d.heap, fd |-> d.fd, dhd |-> d.dhd] /\ e = [heap |-> e.heap, fd |-> e.fd, dhd |-> e.dhd]
  BY DiskParts
<1>2. [d EXCEPT !.fd = e.fd] = [heap |-> d.heap, fd |-> e.fd, dhd |-> d.dhd]
  BY <1>1
<1>. QED BY <1>1, <1>2

\* Once through the loop.
LEMMA LoopStep ==
    ASSUME NEW d, NEW F, DiskOK(d, F), NEW links, LinksOK(links, d, F), NEW n \in Nat,
           NEW w, LoopOK(d, F, w, n), NEW mode, NEW domain \in {"tos", "mint"},
           NEW v, v = pthdd_loop(w, mode, domain, links)
    PROVE  LoopOK(d, F, v, n - 1)
<1>. DEFINE r == path2DD(w.disk, w.dd, w.rest, mode, domain)
            e == unlock_dd(r.disk, w.dd)
            to == links[[fd |-> e.fd, dd |-> r.dd, path |-> r.link]]
            followed == unlock_dd(to.disk, r.dd)
<1>1. v = IF w.err # "ELINK" THEN w
          ELSE CASE r.err = "E_OK" -> Found(e, r.dd, r.last)
                 [] r.err = "ELINK" /\ r.link # NULL /\ to.err = "E_OK" -> Link(followed, to.dd, NULL, r.rest)
                 [] r.err = "ELINK" /\ r.link # NULL /\ to.err # "E_OK" -> Failed(followed, "EPTHNF")
                 [] r.err = "ELINK" /\ r.link = NULL -> Failed(e, "EPTHNF")
                 [] OTHER -> Failed(e, r.err)
  BY Zenon DEF pthdd_loop, pthdd_unlock, pthdd_nounlock, pthdd_link
<1>2. CASE w.err # "ELINK"
  BY <1>1, <1>2, Zenon DEF LoopOK
<1>3. CASE w.err = "ELINK"
  <2>1. w.dd \in FDs \ F /\ Locks(d, w.disk, F, w.dd) /\ w.rest \in PathSeq /\ Len(w.rest) <= n /\ DiskOK(w.disk, F)
    BY <1>3 DEF LoopOK, Locks
  <2>2. w.disk.fd[w.dd].refcnt > 0
    <3>1. w.disk.fd[w.dd].refcnt = d.fd[w.dd].refcnt + 1 /\ d.fd[w.dd].refcnt \in Nat
      BY <2>1, DiskOKParts, FdParts DEF Locks
    <3>. QED BY <3>1
  <2>3. Rooted(w.disk, F, w.dd)
    BY <2>1, <2>2, LockedRooted
  <2>4. /\ Locks(w.disk, r.disk, F, Target(r))
        /\ Arrived(r) => r.dd \in FDs \ F
        /\ r.err = "ELINK" /\ r.link # NULL => r.link \in Path
        /\ r.err = "ELINK" => r.rest \in PathSeq /\ Len(r.rest) < Len(w.rest)
    BY <2>1, <2>3, Path2DD
  <2>. HIDE DEF r
  <2>5. Locks(d, e, F, Target(r))
    BY <2>1, <2>4, LocksUnlock
  <2>. HIDE DEF e, to, followed
  <2>6. CASE r.err = "E_OK"
    <3>1. v = Found(e, r.dd, r.last)
      BY <1>1, <1>3, <2>6
    <3>2. v.disk = e /\ v.err = "E_OK" /\ v.dd = r.dd
      BY <3>1, Answers
    <3>. QED BY <2>4, <2>5, <2>6, <3>2 DEF LoopOK, Arrived, Target
  <2>7. CASE r.err = "ELINK" /\ r.link # NULL
    <3>1. Locks(d, e, F, r.dd) /\ r.dd \in FDs \ F /\ r.link \in Path
      BY <2>4, <2>5, <2>7 DEF Arrived, Target
    <3>2. DiskOK(e, F) /\ e \in DiskType /\ e.fd \in FdTable /\ d \in DiskType /\ e.heap = d.heap /\ e.dhd = d.dhd
      BY <3>1, DiskOKParts DEF Locks, Keeps
    <3>3. e.fd[r.dd].refcnt > 0
      <4>1. e.fd[r.dd].refcnt = d.fd[r.dd].refcnt + 1 /\ d.fd[r.dd].refcnt \in Nat
        BY <3>1, DiskOKParts, FdParts DEF Locks
      <4>. QED BY <4>1
    <3>4. LookupOK(e, F, to)
      <4>. DEFINE q == [fd |-> e.fd, dd |-> r.dd, path |-> r.link]
      <4>1. q \in Query /\ q.fd = e.fd /\ q.dd = r.dd
        BY <3>1, <3>2 DEF Query
      <4>2. to = links[q]
        BY DEF to
      <4>. HIDE DEF q
      <4>3. [d EXCEPT !.fd = q.fd] = e
        BY <3>2, <4>1, SameButFd
      <4>. QED BY <3>1, <3>2, <3>3, <4>1, <4>2, <4>3 DEF LinksOK
    <3>5. CASE to.err = "E_OK"
      <4>1. v = Link(followed, to.dd, NULL, r.rest)
        BY <1>1, <1>3, <2>7, <3>5
      <4>2. v.disk = followed /\ v.err = "ELINK" /\ v.dd = to.dd /\ v.rest = r.rest
        BY <4>1, Answers
      <4>3. to.dd \in FDs \ F /\ Locks(e, to.disk, F, to.dd)
        BY <3>4, <3>5 DEF LookupOK
      <4>4. Locks(d, followed, F, to.dd)
        BY <3>1, <4>3, LocksUnlock DEF followed
      <4>5. Len(r.rest) <= n - 1
        <5>1. Len(r.rest) \in Nat /\ Len(w.rest) \in Nat
          BY <2>1, <2>4, <2>7 DEF PathSeq
        <5>. QED BY <2>1, <2>4, <2>7, <5>1
      <4>. QED BY <2>4, <2>7, <4>2, <4>3, <4>4, <4>5 DEF LoopOK
    <3>6. CASE to.err # "E_OK"
      <4>1. v = Failed(followed, "EPTHNF")
        BY <1>1, <1>3, <2>7, <3>6
      <4>2. v.disk = followed /\ v.err = "EPTHNF"
        BY <4>1, Answers
      <4>3. Locks(e, to.disk, F, NULL)
        BY <3>4, <3>6 DEF LookupOK
      <4>4. Locks(d, followed, F, NULL)
        BY <3>1, <4>3, LocksUnlock DEF followed
      <4>. QED BY <4>2, <4>4 DEF LoopOK
    <3>. QED BY <3>5, <3>6
  <2>8. CASE ~ Arrived(r)
    <3>1. \E x : v = Failed(e, x) /\ x \notin {"E_OK", "ELINK"}
      BY <1>1, <1>3, <2>8 DEF Arrived
    <3>2. v.disk = e /\ v.err \notin {"E_OK", "ELINK"}
      BY <3>1, Answers
    <3>. QED BY <2>5, <2>8, <3>2 DEF LoopOK, Target
  <2>. QED BY <2>6, <2>7, <2>8 DEF Arrived
<1>. QED BY <1>2, <1>3

\* f is the loop of _path_to_DD, n times
LoopIs(f, w, n, mode, domain, links) ==
    f = [k \in 0..n |-> IF k = 0 THEN w ELSE pthdd_loop(f[k - 1], mode, domain, links)]

\* There is such a loop.
LEMMA LoopExists ==
    ASSUME NEW w, NEW n \in Nat, NEW mode, NEW domain, NEW links
    PROVE  \E f : LoopIs(f, w, n, mode, domain, links)
<1>. DEFINE T == {m \in Nat : ~ \E f : LoopIs(f, w, m, mode, domain, links)}
            Step(v) == pthdd_loop(v, mode, domain, links)
<1>. SUFFICES ASSUME T # {} PROVE FALSE
  OBVIOUS
<1>1. PICK m \in T : \A k \in T : m <= k
  BY LeastOf
<1>2. m # 0
  <2>. DEFINE f == [k \in 0..0 |-> w]
  <2>1. LoopIs(f, w, 0, mode, domain, links)
    BY DEF LoopIs
  <2>. QED BY <1>1, <2>1
<1>3. PICK f : LoopIs(f, w, m - 1, mode, domain, links)
  <2>1. m - 1 \in Nat /\ ~(m <= m - 1)
    BY <1>1, <1>2
  <2>2. m - 1 \notin T
    BY <1>1, <2>1
  <2>. QED BY <2>1, <2>2
<1>. DEFINE g == [k \in 0..m |-> IF k < m THEN f[k] ELSE Step(f[m - 1])]
<1>4. ASSUME NEW k \in 0..m PROVE g[k] = IF k = 0 THEN w ELSE Step(g[k - 1])
  <2>. HIDE DEF Step
  <2>1. \A j \in 0..(m - 1) : f[j] = IF j = 0 THEN w ELSE Step(f[j - 1])
    BY <1>3 DEF LoopIs, Step
  <2>2. CASE k = m
    BY <1>1, <1>2, <2>2
  <2>3. CASE k < m
    BY <1>1, <1>2, <2>1, <2>3
  <2>. QED BY <1>1, <2>2, <2>3
<1>5. LoopIs(g, w, m, mode, domain, links)
  <2>1. g = [k \in 0..m |-> g[k]]
    OBVIOUS
  <2>. HIDE DEF g
  <2>. QED BY <1>4, <2>1 DEF LoopIs
<1>. QED BY <1>1, <1>5

\* _path_to_DD, when links answers for links.
LEMMA Follow ==
    ASSUME NEW d, NEW F, DiskOK(d, F), NEW reldir, reldir # NULL => reldir \in FDs \ F /\ d.fd[reldir].refcnt > 0,
           NEW path \in PathSeq, NEW mode, NEW domain \in {"tos", "mint"}, NEW links, LinksOK(links, d, F),
           NEW r, r = follow(d, reldir, path, mode, domain, links)
    PROVE  LookupOK(d, F, r)
<1>. DEFINE start == IF IsAbs(path) THEN ROOT ELSE reldir
            cs == IF IsAbs(path) THEN Tail(path) ELSE path
            n == Len(cs) + 1
            w == Link(lock_dd(d, start), start, NULL, cs)
            f == CHOOSE loop : loop = [k \in 0..n |->
                    IF k = 0 THEN w ELSE pthdd_loop(loop[k - 1], mode, domain, links)]
<1>1. r = IF start = NULL THEN Failed(d, "EPTHNF") ELSE f[n]
  BY Zenon DEF follow
<1>2. cs \in PathSeq /\ Len(cs) \in Nat
  <2>1. ASSUME IsAbs(path) PROVE Tail(path) \in PathSeq
    BY <2>1 DEF PathSeq, IsAbs
  <2>2. cs \in PathSeq
    BY <2>1
  <2>. QED BY <2>2 DEF PathSeq
<1>3. start # NULL => start \in FDs \ F /\ d.fd[start].refcnt > 0
  BY DiskOKParts, Constants DEF RootOK
<1>. HIDE DEF start, cs, w
<1>4. CASE start = NULL
  <2>1. r.disk = d /\ r.err = "EPTHNF"
    BY <1>1, <1>4, Answers
  <2>. QED BY <2>1, LocksNone DEF LookupOK
<1>5. CASE start # NULL
  <2>1. LoopIs(f, w, n, mode, domain, links)
    <3>1. \E g : LoopIs(g, w, n, mode, domain, links)
      <4>1. n \in Nat
        BY <1>2
      <4>. HIDE DEF n
      <4>. QED BY <4>1, LoopExists
    <3>2. \E g : g = [k \in 0..n |-> IF k = 0 THEN w ELSE pthdd_loop(g[k - 1], mode, domain, links)]
      BY <3>1, Zenon DEF LoopIs
    <3>3. f = [k \in 0..n |-> IF k = 0 THEN w ELSE pthdd_loop(f[k - 1], mode, domain, links)]
      BY <3>2, Zenon
    <3>. QED BY <3>3, Zenon DEF LoopIs
  <2>2. r = f[n]
    BY <1>1, <1>5
  <2>. HIDE DEF f
  <2>3. LoopOK(d, F, w, Len(cs))
    <3>1. w.disk = lock_dd(d, start) /\ w.err = "ELINK" /\ w.dd = start /\ w.rest = cs
      BY Answers DEF w
    <3>2. Locks(d, w.disk, F, start)
      BY <1>3, <1>5, <3>1, LockOne
    <3>. QED BY <1>2, <1>3, <1>5, <3>1, <3>2 DEF LoopOK
  <2>. DEFINE T == {k \in 0..n : ~ LoopOK(d, F, f[k], Len(cs) - k)}
  <2>4. T = {}
    <3>. SUFFICES ASSUME T # {} PROVE FALSE
      OBVIOUS
    <3>0. T \in SUBSET Nat
      BY <1>2
    <3>1. PICK m \in T : \A k \in T : m <= k
      <4>. HIDE DEF T
      <4>. QED BY <3>0, LeastOf
    <3>2. CASE m = 0
      <4>1. f[m] = w
        BY <1>2, <2>1, <3>2 DEF LoopIs
      <4>2. Len(cs) - m = Len(cs)
        BY <1>2, <3>2
      <4>. QED BY <2>3, <3>1, <4>1, <4>2
    <3>3. CASE m # 0
      <4>1. m - 1 \in 0..n /\ ~(m <= m - 1) /\ Len(cs) - (m - 1) \in Nat
        BY <1>2, <3>1, <3>3
      <4>2. LoopOK(d, F, f[m - 1], Len(cs) - (m - 1))
        BY <3>1, <4>1
      <4>3. f[m] = pthdd_loop(f[m - 1], mode, domain, links)
        BY <2>1, <3>1, <3>3 DEF LoopIs
      <4>4. LoopOK(d, F, f[m], Len(cs) - (m - 1) - 1)
        BY <4>1, <4>2, <4>3, LoopStep
      <4>5. Len(cs) - (m - 1) - 1 = Len(cs) - m
        BY <1>2, <3>1
      <4>. QED BY <3>1, <4>4, <4>5
    <3>. QED BY <3>2, <3>3
  <2>5. LoopOK(d, F, r, 0 - 1)
    <3>1. n \in 0..n /\ Len(cs) - n = 0 - 1
      BY <1>2
    <3>. QED BY <2>2, <2>4, <3>1
  <2>6. r.err # "ELINK"
    <3>. SUFFICES ASSUME r.err = "ELINK" PROVE FALSE
      OBVIOUS
    <3>1. r.rest \in PathSeq /\ Len(r.rest) <= 0 - 1
      BY <2>5 DEF LoopOK
    <3>. QED BY <3>1 DEF PathSeq
  <2>. QED BY <2>5, <2>6 DEF LoopOK, LookupOK
<1>. QED BY <1>4, <1>5

\* f[k] answers for links k levels deep
LinksAre(f, d, domain, n) ==
    f = [k \in 0..n |->
            [q \in Query |->
                IF k = 0 THEN Failed([d EXCEPT !.fd = q.fd], "ELOOP")
                ELSE follow([d EXCEPT !.fd = q.fd], q.dd, q.path, 1, domain, f[k - 1])]]

\* There are such functions.
LEMMA LinksExist ==
    ASSUME NEW d, NEW domain, NEW n \in Nat
    PROVE  \E f : LinksAre(f, d, domain, n)
<1>. DEFINE T == {m \in Nat : ~ \E f : LinksAre(f, d, domain, m)}
            None == [q \in Query |-> Failed([d EXCEPT !.fd = q.fd], "ELOOP")]
            Step(l) == [q \in Query |-> follow([d EXCEPT !.fd = q.fd], q.dd, q.path, 1, domain, l)]
<1>0. ASSUME NEW f, NEW m \in Nat
      PROVE  LinksAre(f, d, domain, m) <=> f = [k \in 0..m |-> IF k = 0 THEN None ELSE Step(f[k - 1])]
  <2>1. ASSUME NEW k \in 0..m
        PROVE  [q \in Query |->
                  IF k = 0 THEN Failed([d EXCEPT !.fd = q.fd], "ELOOP")
                  ELSE follow([d EXCEPT !.fd = q.fd], q.dd, q.path, 1, domain, f[k - 1])]
               = IF k = 0 THEN None ELSE Step(f[k - 1])
    <3>1. CASE k = 0
      BY <3>1, Zenon
    <3>2. CASE k # 0
      BY <3>2, Zenon
    <3>. QED BY <3>1, <3>2
  <2>. QED BY <2>1, Zenon DEF LinksAre
<1>. SUFFICES ASSUME T # {} PROVE FALSE
  OBVIOUS
<1>. HIDE DEF None, Step
<1>1. PICK m \in T : \A k \in T : m <= k
  BY LeastOf
<1>2. m # 0
  <2>. DEFINE f == [k \in 0..0 |-> None]
  <2>1. f = [k \in 0..0 |-> IF k = 0 THEN None ELSE Step(f[k - 1])]
    OBVIOUS
  <2>. HIDE DEF f
  <2>2. LinksAre(f, d, domain, 0)
    BY <1>0, <2>1
  <2>. QED BY <1>1, <2>2
<1>3. PICK f : LinksAre(f, d, domain, m - 1)
  <2>1. m - 1 \in Nat /\ ~(m <= m - 1)
    BY <1>1, <1>2
  <2>2. m - 1 \notin T
    BY <1>1, <2>1
  <2>. QED BY <2>1, <2>2
<1>. DEFINE g == [k \in 0..m |-> IF k < m THEN f[k] ELSE Step(f[m - 1])]
<1>4. ASSUME NEW k \in 0..m PROVE g[k] = IF k = 0 THEN None ELSE Step(g[k - 1])
  <2>1. \A j \in 0..(m - 1) : f[j] = IF j = 0 THEN None ELSE Step(f[j - 1])
    <3>1. m - 1 \in Nat
      BY <1>1, <1>2
    <3>. HIDE DEF T
    <3>2. f = [j \in 0..(m - 1) |-> IF j = 0 THEN None ELSE Step(f[j - 1])]
      BY <1>0, <1>3, <3>1
    <3>. QED BY <3>2
  <2>2. CASE k = m
    BY <1>1, <1>2, <2>2
  <2>3. CASE k < m
    BY <1>1, <1>2, <2>1, <2>3
  <2>. QED BY <1>1, <2>2, <2>3
<1>5. LinksAre(g, d, domain, m)
  <2>1. g = [k \in 0..m |-> g[k]]
    OBVIOUS
  <2>. HIDE DEF g
  <2>2. g = [k \in 0..m |-> IF k = 0 THEN None ELSE Step(g[k - 1])]
    BY <1>4, <2>1
  <2>. QED BY <1>0, <1>1, <2>2
<1>. QED BY <1>1, <1>5

\* _path_to_DD.
LEMMA PathToDD ==
    ASSUME NEW d, NEW F, DiskOK(d, F), NEW reldir, reldir # NULL => reldir \in FDs \ F /\ d.fd[reldir].refcnt > 0,
           NEW path \in PathSeq, NEW mode, NEW domain \in {"tos", "mint"},
           NEW r, r = path_to_DD(d, reldir, path, mode, domain)
    PROVE  LookupOK(d, F, r)
<1>. DEFINE n == MAXDEPTH - 1
            f == CHOOSE links : links = [k \in 0..n |->
                    [q \in Query |->
                        IF k = 0 THEN Failed([d EXCEPT !.fd = q.fd], "ELOOP")
                        ELSE follow([d EXCEPT !.fd = q.fd], q.dd, q.path, 1, domain, links[k - 1])]]
<1>1. r = follow(d, reldir, path, mode, domain, f[n])
  BY Zenon DEF path_to_DD
<1>2. n \in Nat
  BY DEF MAXDEPTH
<1>. HIDE DEF n
<1>3. LinksAre(f, d, domain, n)
  <2>1. \E g : LinksAre(g, d, domain, n)
    BY <1>2, LinksExist
  <2>2. \E g : g = [k \in 0..n |->
            [q \in Query |->
                IF k = 0 THEN Failed([d EXCEPT !.fd = q.fd], "ELOOP")
                ELSE follow([d EXCEPT !.fd = q.fd], q.dd, q.path, 1, domain, g[k - 1])]]
    BY <2>1, Zenon DEF LinksAre
  <2>3. f = [k \in 0..n |->
            [q \in Query |->
                IF k = 0 THEN Failed([d EXCEPT !.fd = q.fd], "ELOOP")
                ELSE follow([d EXCEPT !.fd = q.fd], q.dd, q.path, 1, domain, f[k - 1])]]
    BY <2>2, Zenon
  <2>. QED BY <2>3, Zenon DEF LinksAre
<1>. HIDE DEF f
<1>. DEFINE T == {k \in 0..n : ~ LinksOK(f[k], d, F)}
<1>4. T = {}
  <2>. SUFFICES ASSUME T # {} PROVE FALSE
    OBVIOUS
  <2>0. T \in SUBSET Nat
    BY <1>2
  <2>1. PICK m \in T : \A k \in T : m <= k
    <3>. HIDE DEF T
    <3>. QED BY <2>0, LeastOf
  <2>2. f[m] = [q \in Query |->
                  IF m = 0 THEN Failed([d EXCEPT !.fd = q.fd], "ELOOP")
                  ELSE follow([d EXCEPT !.fd = q.fd], q.dd, q.path, 1, domain, f[m - 1])]
    BY <1>3, <2>1, Zenon DEF LinksAre
  <2>3. ASSUME NEW q \in Query, NEW e, e = [d EXCEPT !.fd = q.fd],
               DiskOK(e, F), q.dd \notin F, q.fd[q.dd].refcnt > 0
        PROVE  LookupOK(e, F, f[m][q])
    <3>1. q.dd \in FDs /\ q.path \in PathSeq /\ q.fd \in FdTable
      BY DEF Query, Path, PathSeq
    <3>2. d \in DiskType
      BY DiskOKParts
    <3>3. e.heap = d.heap /\ e.dhd = d.dhd /\ e.fd = q.fd /\ e \in DiskType
      BY <2>3, <3>1, <3>2, DiskOfFd
    <3>4. CASE m = 0
      <4>1. f[m][q] = Failed(e, "ELOOP")
        BY <2>2, <2>3, <3>4, Zenon
      <4>2. f[m][q].disk = e /\ f[m][q].err = "ELOOP"
        BY <4>1, Answers
      <4>. QED BY <2>3, <4>2, LocksNone DEF LookupOK
    <3>5. CASE m # 0
      <4>1. f[m][q] = follow(e, q.dd, q.path, 1, domain, f[m - 1])
        BY <2>2, <2>3, <3>5, Zenon
      <4>2. m - 1 \in 0..n /\ ~(m <= m - 1)
        BY <1>2, <2>1, <3>5
      <4>3. LinksOK(f[m - 1], d, F)
        BY <2>1, <4>2
      <4>4. LinksOK(f[m - 1], e, F)
        <5>1. ASSUME NEW p \in Query PROVE [e EXCEPT !.fd = p.fd] = [d EXCEPT !.fd = p.fd]
          BY <2>3
        <5>. QED BY <4>3, <5>1 DEF LinksOK
      <4>. QED BY <2>3, <3>1, <3>3, <4>1, <4>4, Follow
    <3>. QED BY <3>4, <3>5
  <2>4. LinksOK(f[m], d, F)
    BY <2>3 DEF LinksOK
  <2>. QED BY <2>1, <2>4
<1>5. LinksOK(f[n], d, F)
  <2>1. n \in 0..n
    BY <1>2
  <2>. QED BY <1>4, <2>1
<1>. HIDE DEF T
<1>. QED BY <1>1, <1>5, Follow

\* The DD of a lookup.
LEMMA LookedUp ==
    ASSUME NEW d, NEW F, DiskOK(d, F), NEW r, LookupOK(d, F, r), r.err = "E_OK"
    PROVE  /\ r.dd \in FDs \ F /\ Locks(d, r.disk, F, r.dd) /\ DiskOK(r.disk, F)
           /\ r.disk.fd[r.dd].refcnt > 0 /\ (r.dd = ROOT => r.disk.fd[r.dd].refcnt > 1)
           /\ Rooted(r.disk, F, r.dd) /\ GoodDD(r.disk, F, r.dd)
           /\ DirOf(r.disk, r.dd) \in Dirs(r.disk.heap)
<1>1. r.dd \in FDs \ F /\ Locks(d, r.disk, F, r.dd) /\ DiskOK(r.disk, F)
  BY DEF LookupOK, Locks
<1>2. r.disk.fd[r.dd].refcnt = d.fd[r.dd].refcnt + 1 /\ d.fd[r.dd].refcnt \in Nat /\ d.fd[ROOT].refcnt > 0
  BY <1>1, DiskOKParts, FdParts DEF Locks, RootOK
<1>3. r.disk.fd[r.dd].refcnt > 0 /\ (r.dd = ROOT => r.disk.fd[r.dd].refcnt > 1)
  BY <1>2
<1>4. Rooted(r.disk, F, r.dd)
  BY <1>1, <1>3, LockedRooted
<1>5. GoodDD(r.disk, F, r.dd)
  BY <1>1, <1>4, DiskOKParts, ChainClosed DEF Rooted
<1>6. DirOf(r.disk, r.dd) \in Dirs(r.disk.heap)
  BY <1>1, <1>5, DiskOKParts, GoodDir
<1>. QED BY <1>1, <1>3, <1>4, <1>5, <1>6

\* How far Fopen's loop over links has come
FopOK(d, F, w, omode, domain) ==
    /\ w.err \in {"E_OK", "ELINK"} => w.dd \in FDs \ F
    /\ Locks(d, w.disk, F, IF w.err \in {"E_OK", "ELINK"} THEN w.dd ELSE NULL)
    /\ w.err = "ELINK" => w.rest \in PathSeq
    /\ w.err = "E_OK" => ~ is_link(w.disk, fopen_entry(w.disk, w.dd, w.last, omode, domain))

\* What fopen_entry finds exists.
LEMMA FopenEntry ==
    ASSUME NEW d, d.heap \in HeapType, NEW dd, DirOf(d, dd) \in Blocks, NEW n, NEW omode,
           NEW domain \in {"tos", "mint"}, NEW e, e = fopen_entry(d, dd, n, omode, domain)
    PROVE  /\ e # NULL => \E k : /\ e = << DirOf(d, dd), k >> /\ LiveAt(d.heap, DirOf(d, dd), k)
                                 /\ Entry(d, e) = Ent(d.heap, DirOf(d, dd), k)
           /\ e = NULL /\ n \in Name =>
                 \A k : LiveAt(d.heap, DirOf(d, dd), k) => Ent(d.heap, DirOf(d, dd), k).name # NewName(n, domain)
<1>. DEFINE s == IF omode = "trunc" THEN "exist" ELSE "search"
            a == DirOf(d, dd)
            i == findfile(d, a, n, s, domain)
<1>1. e = IF i = 0 THEN NULL ELSE << a, i >>
  BY Zenon DEF fopen_entry
<1>. HIDE DEF s
<1>2. /\ i # 0 => LiveAt(d.heap, a, i)
      /\ i = 0 /\ n \in Name => \A k : LiveAt(d.heap, a, k) => Ent(d.heap, a, k).name # NewName(n, domain)
  BY FindFile
<1>3. i # 0 => << a, i >> # NULL
  <2>. SUFFICES ASSUME i # 0 PROVE << a, i >> # NULL
    OBVIOUS
  <2>1. i \in Nat /\ a \in Blocks
    BY <1>2, LiveFacts
  <2>. HIDE DEF a, i
  <2>. QED BY <2>1, Constants
<1>4. i # 0 => Entry(d, << a, i >>) = Ent(d.heap, a, i)
  BY <1>2, EntryAt
<1>. HIDE DEF i, a
<1>5. CASE i = 0
  BY <1>1, <1>2, <1>5 DEF a
<1>6. CASE i # 0
  <2>1. e = << a, i >> /\ e # NULL
    BY <1>1, <1>3, <1>6
  <2>. QED BY <1>2, <1>4, <1>6, <2>1 DEF a
<1>. QED BY <1>5, <1>6

\* Once through that loop: the first time from an unlocked DD, then from a locked one.
LEMMA FopStep ==
    ASSUME NEW d, NEW F, DiskOK(d, F), NEW w, NEW locked \in BOOLEAN, NEW omode, NEW domain \in {"tos", "mint"},
           IF locked THEN FopOK(d, F, w, omode, domain)
           ELSE /\ w.err = "ELINK" /\ w.disk = d /\ w.rest \in PathSeq
                /\ w.dd # NULL => w.dd \in FDs \ F /\ d.fd[w.dd].refcnt > 0,
           NEW v, v = fop_again(w, locked, omode, domain)
    PROVE  FopOK(d, F, v, omode, domain)
<1>. DEFINE r == path_to_DD(w.disk, w.dd, w.rest, 0, domain)
            g == IF locked THEN unlock_dd(r.disk, w.dd) ELSE r.disk
            e == fopen_entry(g, r.dd, r.last, omode, domain)
<1>1. v = IF w.err # "ELINK" THEN w
          ELSE CASE r.err # "E_OK" -> Failed(g, r.err)
                 [] r.err = "E_OK" /\ is_link(g, e) -> Link(g, r.dd, NULL, g.heap[Entry(g, e).faddr].to)
                 [] OTHER -> Found(g, r.dd, r.last)
  BY Zenon DEF fop_again, fop_unlock, fop_nounlock, fop_link
<1>2. CASE w.err # "ELINK"
  BY <1>1, <1>2
<1>3. CASE w.err = "ELINK"
  <2>1. /\ DiskOK(w.disk, F) /\ w.rest \in PathSeq
        /\ w.dd # NULL => w.dd \in FDs \ F /\ w.disk.fd[w.dd].refcnt > 0
        /\ locked => w.dd \in FDs \ F /\ Locks(d, w.disk, F, w.dd)
        /\ ~locked => w.disk = d
    <3>1. CASE ~locked
      BY <1>3, <3>1
    <3>2. CASE locked
      <4>1. w.dd \in FDs \ F /\ Locks(d, w.disk, F, w.dd) /\ w.rest \in PathSeq
        BY <1>3, <3>2 DEF FopOK
      <4>2. w.disk.fd[w.dd].refcnt = d.fd[w.dd].refcnt + 1 /\ d.fd[w.dd].refcnt \in Nat
        BY <4>1, DiskOKParts, FdParts DEF Locks
      <4>. QED BY <3>2, <4>1, <4>2 DEF Locks
    <3>. QED BY <3>1, <3>2
  <2>2. LookupOK(w.disk, F, r)
    BY <2>1, PathToDD
  <2>. HIDE DEF r
  <2>3. Locks(d, g, F, IF r.err = "E_OK" THEN r.dd ELSE NULL) /\ (r.err = "E_OK" => r.dd \in FDs \ F)
        /\ r.err # "ELINK"
    <3>1. CASE ~locked
      BY <2>1, <2>2, <3>1 DEF LookupOK
    <3>2. CASE locked
      BY <2>1, <2>2, <3>2, LocksUnlock DEF LookupOK
    <3>. QED BY <3>1, <3>2
  <2>. HIDE DEF g
  <2>4. CASE r.err # "E_OK"
    <3>1. v = Failed(g, r.err)
      BY <1>1, <1>3, <2>4
    <3>2. v.disk = g /\ v.err = r.err
      BY <3>1, Answers
    <3>. QED BY <2>3, <2>4, <3>2 DEF FopOK
  <2>5. CASE r.err = "E_OK" /\ is_link(g, e)
    <3>. DEFINE to == g.heap[Entry(g, e).faddr].to
    <3>1. v = Link(g, r.dd, NULL, to)
      BY <1>1, <1>3, <2>5
    <3>2. to \in PathSeq
      <4>1. DiskOK(g, F) /\ g \in DiskType /\ g.heap \in HeapType
        BY <2>3, DiskOKParts DEF Locks
      <4>2. DirOf(g, r.dd) \in Blocks
        <5>1. g.fd[r.dd].refcnt = d.fd[r.dd].refcnt + 1 /\ d.fd[r.dd].refcnt \in Nat
          BY <2>3, <2>5, DiskOKParts, FdParts DEF Locks
        <5>2. Rooted(g, F, r.dd)
          BY <2>3, <2>5, <4>1, <5>1, LockedRooted
        <5>3. GoodDD(g, F, r.dd)
          BY <2>3, <2>5, <4>1, <5>2, DiskParts, ChainClosed DEF Rooted
        <5>. QED BY <4>1, <5>3, DiskOKParts, GoodDir
      <4>3. \E k : LiveAt(g.heap, DirOf(g, r.dd), k) /\ Entry(g, e) = Ent(g.heap, DirOf(g, r.dd), k)
        BY <2>5, <4>1, <4>2, FopenEntry DEF is_link
      <4>4. Entry(g, e).faddr \in Blocks
        BY <4>1, <4>3, LiveFacts, Constants
      <4>. QED BY <4>1, <4>4 DEF HeapType, BlockType, Path, PathSeq
    <3>. HIDE DEF to
    <3>3. v.disk = g /\ v.err = "ELINK" /\ v.dd = r.dd /\ v.rest = to
      BY <3>1, Answers
    <3>. QED BY <2>3, <2>5, <3>2, <3>3 DEF FopOK
  <2>6. CASE r.err = "E_OK" /\ ~is_link(g, e)
    <3>1. v = Found(g, r.dd, r.last)
      BY <1>1, <1>3, <2>6
    <3>2. v.disk = g /\ v.err = "E_OK" /\ v.dd = r.dd /\ v.last = r.last
      BY <3>1, Answers
    <3>. QED BY <2>3, <2>6, <3>2 DEF FopOK
  <2>. QED BY <2>4, <2>5, <2>6
<1>. QED BY <1>2, <1>3

\* f is Fopen's loop, n times
FopIs(f, w, n, omode, domain) ==
    f = [k \in 0..n |-> IF k = 0 THEN w ELSE fop_again(f[k - 1], k > 1, omode, domain)]

\* There is such a loop.
LEMMA FopExists ==
    ASSUME NEW w, NEW n \in Nat, NEW omode, NEW domain
    PROVE  \E f : FopIs(f, w, n, omode, domain)
<1>. DEFINE T == {m \in Nat : ~ \E f : FopIs(f, w, m, omode, domain)}
            Step(v, k) == fop_again(v, k > 1, omode, domain)
<1>. SUFFICES ASSUME T # {} PROVE FALSE
  OBVIOUS
<1>1. PICK m \in T : \A k \in T : m <= k
  BY LeastOf
<1>2. m # 0
  <2>. DEFINE f == [k \in 0..0 |-> w]
  <2>1. FopIs(f, w, 0, omode, domain)
    BY DEF FopIs
  <2>. QED BY <1>1, <2>1
<1>3. PICK f : FopIs(f, w, m - 1, omode, domain)
  <2>1. m - 1 \in Nat /\ ~(m <= m - 1)
    BY <1>1, <1>2
  <2>2. m - 1 \notin T
    BY <1>1, <2>1
  <2>. QED BY <2>1, <2>2
<1>. DEFINE g == [k \in 0..m |-> IF k < m THEN f[k] ELSE Step(f[m - 1], m)]
<1>4. ASSUME NEW k \in 0..m PROVE g[k] = IF k = 0 THEN w ELSE Step(g[k - 1], k)
  <2>1. \A j \in 0..(m - 1) : f[j] = IF j = 0 THEN w ELSE Step(f[j - 1], j)
    BY <1>3 DEF FopIs
  <2>. HIDE DEF Step
  <2>2. CASE k = m
    BY <1>1, <1>2, <2>2
  <2>3. CASE k < m
    BY <1>1, <1>2, <2>1, <2>3
  <2>. QED BY <1>1, <2>2, <2>3
<1>5. FopIs(g, w, m, omode, domain)
  <2>1. g = [k \in 0..m |-> g[k]]
    OBVIOUS
  <2>. HIDE DEF g
  <2>. QED BY <1>4, <2>1 DEF FopIs
<1>. QED BY <1>1, <1>5

\* Where Fopen arrives.
LEMMA FopPath ==
    ASSUME NEW d, NEW F, DiskOK(d, F), NEW reldir, reldir # NULL => reldir \in FDs \ F /\ d.fd[reldir].refcnt > 0,
           NEW path \in PathSeq, NEW omode, NEW domain \in {"tos", "mint"},
           NEW r, r = fop_path(d, reldir, path, omode, domain)
    PROVE  FopOK(d, F, r, omode, domain)
<1>. DEFINE n == MAXLINKS + 1
            w == Link(d, reldir, NULL, path)
            f == CHOOSE loop : loop = [k \in 0..n |->
                    IF k = 0 THEN w ELSE fop_again(loop[k - 1], k > 1, omode, domain)]
<1>1. r = f[n]
  BY Zenon DEF fop_path
<1>2. n \in Nat /\ n > 0
  BY DEF MAXLINKS
<1>3. w.disk = d /\ w.err = "ELINK" /\ w.dd = reldir /\ w.rest = path
  BY Answers
<1>. HIDE DEF n, w
<1>4. FopIs(f, w, n, omode, domain)
  <2>1. \E g : FopIs(g, w, n, omode, domain)
    BY <1>2, FopExists
  <2>2. \E g : g = [k \in 0..n |-> IF k = 0 THEN w ELSE fop_again(g[k - 1], k > 1, omode, domain)]
    BY <2>1, Zenon DEF FopIs
  <2>3. f = [k \in 0..n |-> IF k = 0 THEN w ELSE fop_again(f[k - 1], k > 1, omode, domain)]
    BY <2>2, Zenon
  <2>. QED BY <2>3, Zenon DEF FopIs
<1>. HIDE DEF f
<1>. DEFINE T == {k \in 1..n : ~ FopOK(d, F, f[k], omode, domain)}
<1>5. T = {}
  <2>. SUFFICES ASSUME T # {} PROVE FALSE
    OBVIOUS
  <2>0. T \in SUBSET Nat
    OBVIOUS
  <2>1. PICK m \in T : \A k \in T : m <= k
    <3>. HIDE DEF T
    <3>. QED BY <2>0, LeastOf
  <2>2. m \in 1..n /\ f[m] = fop_again(f[m - 1], m > 1, omode, domain)
    BY <1>2, <1>4, <2>1 DEF FopIs
  <2>3. CASE m = 1
    <3>1. f[0] = w
      BY <1>2, <1>4 DEF FopIs
    <3>2. f[1] = fop_again(w, FALSE, omode, domain)
      <4>1. f[1] = IF 1 = 0 THEN w ELSE fop_again(f[1 - 1], 1 > 1, omode, domain)
        <5>1. 1 \in 0..n
          BY <1>2
        <5>. QED BY <1>4, <5>1, Zenon DEF FopIs
      <4>2. 1 - 1 = 0 /\ (1 > 1) = FALSE /\ 1 # 0
        OBVIOUS
      <4>. QED BY <3>1, <4>1, <4>2
    <3>3. FopOK(d, F, f[1], omode, domain)
      BY <1>3, <3>2, FopStep
    <3>. QED BY <2>1, <2>3, <3>3
  <2>4. CASE m # 1
    <3>1. m - 1 \in 1..n /\ ~(m <= m - 1) /\ m > 1
      BY <1>2, <2>2, <2>4
    <3>2. FopOK(d, F, f[m - 1], omode, domain)
      BY <2>1, <3>1
    <3>3. f[m] = fop_again(f[m - 1], TRUE, omode, domain)
      BY <2>2, <3>1
    <3>4. FopOK(d, F, f[m], omode, domain)
      BY <3>2, <3>3, FopStep
    <3>. QED BY <2>1, <3>4
  <2>. QED BY <2>3, <2>4
<1>. QED BY <1>1, <1>2, <1>5

-----------------------------------------------------------------------------
(* Blocks that change *)

\* HeapOK without bounds
HeapParts(h) ==
    /\ h \in HeapType /\ h[Root].kind = "dir"
    /\ \A a \in Blocks : h[a].kind # "dir" => h[a].ent = << >>
    /\ \A a, k : LiveAt(h, a, k) =>
          /\ Ent(h, a, k).name \in Name
          /\ Ent(h, a, k).kind = h[Ent(h, a, k).faddr].kind
          /\ Ent(h, a, k).kind \in Kinds
          /\ Ent(h, a, k).kind = "dir" => h[Ent(h, a, k).faddr].up = a
    /\ \A a, k, b, l : LiveAt(h, a, k) /\ LiveAt(h, b, l) /\ Ent(h, a, k).faddr = Ent(h, b, l).faddr
                       => a = b /\ k = l
    /\ \A c \in Addr : h[c].kind # NULL => \E a, k : LiveAt(h, a, k) /\ Ent(h, a, k).faddr = c
    /\ \A a, k, l : LiveAt(h, a, k) /\ LiveAt(h, a, l) /\ Ent(h, a, k).name = Ent(h, a, l).name => k = l
    /\ ToRoot(h)

\* They say the same.
LEMMA HeapIs ==
    ASSUME NEW h
    PROVE  HeapOK(h) <=> HeapParts(h)
<1>1. \A a, k : LiveAt(h, a, k) => a \in Blocks /\ k \in DOMAIN h[a].ent
  BY DEF LiveAt
<1>2. (h[Root].kind = "dir" /\ (\A a \in Blocks : h[a].kind # "dir" => h[a].ent = << >>)
       /\ \A a, k : LiveAt(h, a, k) =>
            /\ Ent(h, a, k).name \in Name
            /\ Ent(h, a, k).kind = h[Ent(h, a, k).faddr].kind
            /\ Ent(h, a, k).kind \in Kinds
            /\ Ent(h, a, k).kind = "dir" => h[Ent(h, a, k).faddr].up = a)
      <=> EntriesOK(h)
  BY <1>1, Zenon DEF EntriesOK
<1>3. (\A a, k, b, l : LiveAt(h, a, k) /\ LiveAt(h, b, l) /\ Ent(h, a, k).faddr = Ent(h, b, l).faddr
                       => a = b /\ k = l) <=> OneEntry(h)
  BY <1>1, Zenon DEF OneEntry
<1>4. (\A c \in Addr : h[c].kind # NULL => \E a, k : LiveAt(h, a, k) /\ Ent(h, a, k).faddr = c) <=> NoneLost(h)
  BY <1>1, Zenon DEF NoneLost
<1>5. (\A a, k, l : LiveAt(h, a, k) /\ LiveAt(h, a, l) /\ Ent(h, a, k).name = Ent(h, a, l).name => k = l)
      <=> OneName(h)
  BY <1>1, Zenon DEF OneName
<1>. QED BY <1>2, <1>3, <1>4, <1>5, Zenon DEF HeapOK, HeapParts

\* A directory lies in another one, and not in itself.
LEMMA DirsAbove ==
    ASSUME NEW h, HeapParts(h), NEW c \in Dirs(h), c # Root
    PROVE  /\ c \in Addr /\ h[c].up \in Dirs(h) /\ h[c].up # c
           /\ \E k : LiveAt(h, h[c].up, k) /\ Ent(h, h[c].up, k).faddr = c /\ Ent(h, h[c].up, k).kind = "dir"
<1>1. c \in Addr /\ h[c].kind = "dir"
  BY DEF Dirs, Blocks
<1>2. PICK a, k : LiveAt(h, a, k) /\ Ent(h, a, k).faddr = c
  BY <1>1, Constants DEF HeapParts, Kinds
<1>3. Ent(h, a, k).kind = "dir" /\ h[c].up = a
  BY <1>1, <1>2 DEF HeapParts
<1>4. a \in Dirs(h)
  <2>1. EntriesOK(h) /\ h \in HeapType
    BY HeapIs DEF HeapOK, HeapParts
  <2>. QED BY <1>2, <2>1, LiveInDir, LiveFacts DEF Dirs
<1>5. a # c
  <2>. SUFFICES ASSUME a = c PROVE FALSE
    OBVIOUS
  <2>. DEFINE S == {c}
  <2>1. S \in SUBSET Dirs(h) /\ S # {} /\ \A x \in S \ {Root} : h[x].up \in S
    BY <1>3
  <2>2. Root \notin S
    OBVIOUS
  <2>. HIDE DEF S
  <2>. QED BY <2>1, <2>2 DEF HeapParts, ToRoot
<1>. QED BY <1>1, <1>2, <1>3, <1>4, <1>5

\* What an entry leads to is there.
LEMMA LeadsTo ==
    ASSUME NEW h, HeapParts(h), NEW a, NEW k, LiveAt(h, a, k)
    PROVE  /\ a \in Dirs(h) /\ a \in Blocks /\ k \in Nat \ {0} /\ k \in DOMAIN h[a].ent
           /\ Ent(h, a, k) \in EntryType /\ Ent(h, a, k).faddr \in Addr /\ Ent(h, a, k).faddr # a
           /\ h[Ent(h, a, k).faddr].kind = Ent(h, a, k).kind /\ Ent(h, a, k).kind \in Kinds
           /\ Ent(h, a, k).kind # NULL
           /\ Ent(h, a, k).kind = "dir" => Ent(h, a, k).faddr \in Dirs(h) /\ h[Ent(h, a, k).faddr].up = a
<1>1. EntriesOK(h) /\ h \in HeapType
  BY HeapIs DEF HeapOK, HeapParts
<1>2. a \in Dirs(h) /\ k \in Nat \ {0} /\ k \in DOMAIN h[a].ent /\ a \in Blocks
      /\ Ent(h, a, k) \in EntryType /\ Ent(h, a, k).faddr \in Addr
  BY <1>1, LiveInDir, LiveFacts DEF Dirs, LiveAt
<1>3. h[Ent(h, a, k).faddr].kind = Ent(h, a, k).kind /\ Ent(h, a, k).kind \in Kinds
      /\ (Ent(h, a, k).kind = "dir" => h[Ent(h, a, k).faddr].up = a)
  BY DEF HeapParts
<1>4. Ent(h, a, k).faddr # a
  <2>. SUFFICES ASSUME Ent(h, a, k).faddr = a PROVE FALSE
    OBVIOUS
  <2>1. h[a].up = a /\ a # Root
    BY <1>2, <1>3, Constants DEF Dirs
  <2>. QED BY <1>2, <2>1, DirsAbove
<1>. QED BY <1>2, <1>3, <1>4, Constants DEF Dirs

\* A disk with one block replaced.
LEMMA PutBlockIs ==
    ASSUME NEW d \in DiskType, NEW a \in Blocks, NEW b \in BlockType, NEW e, e = PutBlock(d, a, b)
    PROVE  /\ e \in DiskType /\ e.fd = d.fd /\ e.dhd = d.dhd
           /\ e.heap[a] = b /\ \A c \in Blocks \ {a} : e.heap[c] = d.heap[c]
<1>. DEFINE h == [c \in Blocks |-> IF c = a THEN b ELSE d.heap[c]]
<1>1. d.heap \in HeapType
  BY DiskParts
<1>2. h \in HeapType
  BY <1>1 DEF HeapType
<1>3. e = [d EXCEPT !.heap = h]
  BY DEF PutBlock
<1>4. h[a] = b /\ \A c \in Blocks \ {a} : h[c] = d.heap[c]
  OBVIOUS
<1>. HIDE DEF h
<1>5. e \in DiskType /\ e.fd = d.fd /\ e.dhd = d.dhd /\ e.heap = h
  BY <1>2, <1>3 DEF DiskType
<1>. QED BY <1>4, <1>5

\* A disk with one entry replaced.
LEMMA PutEntryIs ==
    ASSUME NEW d \in DiskType, NEW a \in Blocks, NEW k \in DOMAIN d.heap[a].ent, NEW v \in EntryType,
           NEW e, e = PutEntry(d, a, k, v)
    PROVE  /\ e \in DiskType /\ e.fd = d.fd /\ e.dhd = d.dhd
           /\ \A c \in Blocks \ {a} : e.heap[c] = d.heap[c]
           /\ e.heap[a].kind = d.heap[a].kind /\ e.heap[a].up = d.heap[a].up
           /\ DOMAIN e.heap[a].ent = DOMAIN d.heap[a].ent
           /\ Ent(e.heap, a, k) = v
           /\ \A l : l # k => Ent(e.heap, a, l) = Ent(d.heap, a, l) \/ l \notin DOMAIN d.heap[a].ent
<1>. DEFINE s == d.heap[a].ent
            t == [d.heap[a].ent EXCEPT ![k] = v]
            b == [d.heap[a] EXCEPT !.ent = t]
<1>1. d.heap[a] \in BlockType /\ s \in Seq(EntryType)
  BY DiskParts DEF HeapType, BlockType
<1>2. t \in Seq(EntryType) /\ DOMAIN t = DOMAIN s /\ t[k] = v /\ \A l \in DOMAIN s : l # k => t[l] = s[l]
  BY <1>1
<1>3. e = PutBlock(d, a, b)
  BY DEF PutEntry
<1>. HIDE DEF t
<1>4. b \in BlockType /\ b.ent = t /\ b.kind = d.heap[a].kind /\ b.up = d.heap[a].up
  BY <1>1, <1>2 DEF BlockType
<1>. HIDE DEF b
<1>5. /\ e \in DiskType /\ e.fd = d.fd /\ e.dhd = d.dhd
      /\ e.heap[a] = b /\ \A c \in Blocks \ {a} : e.heap[c] = d.heap[c]
  BY <1>3, <1>4, PutBlockIs
<1>. QED BY <1>2, <1>4, <1>5 DEF Ent

\* With the same descriptors, the DDs that are locked have to be where they were.
LEMMA HeapFrame ==
    ASSUME NEW d, NEW F, DiskOK(d, F), NEW e \in DiskType, e.fd = d.fd, HeapOK(e.heap), OpenDirsOK(e),
           \A i \in F : LiveAt(e.heap, At(d.fd, i), Nr(d.fd, i)) /\ Entry(e, d.fd[i].file).kind = "file",
           \A i \in FDs \ F : d.fd[i].refcnt > 0 => \A j \in Chain(d.fd, i) : GoodDD(e, F, j)
    PROVE  DiskOK(e, F)
<1>1. RootOK(d, F) /\ FreeOK(d) /\ FilesOK(d, F) /\ OneDD(d, F) /\ LockedOK(d, F) /\ ParentsOK(d, F)
  BY DiskOKParts
<1>2. RootOK(e, F) /\ FreeOK(e) /\ OneDD(e, F) /\ ParentsOK(e, F)
  BY <1>1 DEF RootOK, FreeOK, OneDD, ParentsOK
<1>3. FilesOK(e, F)
  BY <1>1 DEF FilesOK
<1>4. LockedOK(e, F)
  BY DEF LockedOK, Rooted
<1>. QED BY <1>2, <1>3, <1>4 DEF DiskOK, FdOK

\* A DD on the chain of a locked one counts as in use.
LEMMA ChainUsed ==
    ASSUME NEW d, NEW F, DiskOK(d, F), NEW i \in FDs \ F, d.fd[i].refcnt > 0, NEW j \in Chain(d.fd, i)
    PROVE  j \in FDs \ F /\ GoodDD(d, F, j) /\ (d.fd[j].refcnt > 0 \/ d.fd[j].is_parent > 0)
<1>1. Rooted(d, F, i) /\ d \in DiskType
  BY LockedRooted, DiskOKParts
<1>2. j \in FDs \ F /\ GoodDD(d, F, j)
  BY <1>1, RootedChain
<1>3. CASE j = i
  BY <1>2, <1>3
<1>4. CASE j # i
  <2>1. i \in Below(d.fd, F, j)
    BY <1>4 DEF Below, Ancestors
  <2>2. d.fd[j].is_parent = Cardinality(Below(d.fd, F, j))
    BY <1>2, DiskOKParts DEF ParentsOK
  <2>3. Cardinality(Below(d.fd, F, j)) # 0 /\ Cardinality(Below(d.fd, F, j)) \in Nat
    BY <2>1, BelowFinite, FS_EmptySet
  <2>. QED BY <1>2, <2>2, <2>3
<1>. QED BY <1>3, <1>4

\* The case that entries keep what they lead to, but entry k of block c, which
\* nobody uses.
LEMMA KeepEntries ==
    ASSUME NEW d, NEW F, DiskOK(d, F), NEW e \in DiskType, e.fd = d.fd, HeapOK(e.heap), OpenDirsOK(e),
           NEW c, NEW l,
           \A a, k : LiveAt(d.heap, a, k) /\ ~(a = c /\ k = l) =>
               /\ LiveAt(e.heap, a, k) /\ Ent(e.heap, a, k).faddr = Ent(d.heap, a, k).faddr
               /\ Ent(e.heap, a, k).kind = Ent(d.heap, a, k).kind,
           \A i \in F : ~(At(d.fd, i) = c /\ Nr(d.fd, i) = l),
           \A i \in FDs \ F : d.fd[i].refcnt > 0 =>
               \A j \in Chain(d.fd, i) \ {ROOT} : ~(At(d.fd, j) = c /\ Nr(d.fd, j) = l)
    PROVE  /\ DiskOK(e, F)
           /\ \A i \in FDs \ F : d.fd[i].refcnt > 0 => DirOf(e, i) = DirOf(d, i)
<1>1. d \in DiskType /\ HeapOK(d.heap) /\ d.heap \in HeapType /\ e.heap \in HeapType /\ RootOK(d, F)
      /\ FilesOK(d, F) /\ d.fd \in FdTable /\ F \subseteq FDs
  BY DiskOKParts, DiskParts
<1>2. ASSUME NEW i \in FDs, d.fd[i].file # NULL, LiveAt(d.heap, At(d.fd, i), Nr(d.fd, i)),
             ~(At(d.fd, i) = c /\ Nr(d.fd, i) = l)
      PROVE  /\ LiveAt(e.heap, At(d.fd, i), Nr(d.fd, i))
             /\ Entry(e, d.fd[i].file).kind = Entry(d, d.fd[i].file).kind
             /\ Entry(e, d.fd[i].file).faddr = Entry(d, d.fd[i].file).faddr
  <2>. DEFINE a == At(d.fd, i)
              k == Nr(d.fd, i)
  <2>1. d.fd[i].file = << a, k >>
    BY <1>1, <1>2, FilePair
  <2>. HIDE DEF a, k
  <2>2. LiveAt(d.heap, a, k) /\ ~(a = c /\ k = l)
    BY <1>2 DEF a, k
  <2>3. LiveAt(e.heap, a, k) /\ Ent(e.heap, a, k).faddr = Ent(d.heap, a, k).faddr
        /\ Ent(e.heap, a, k).kind = Ent(d.heap, a, k).kind
    BY <2>2
  <2>4. Entry(d, << a, k >>) = Ent(d.heap, a, k) /\ Entry(e, << a, k >>) = Ent(e.heap, a, k)
    BY <1>1, <2>2, <2>3, EntryAt
  <2>. QED BY <2>1, <2>3, <2>4 DEF a, k
<1>3. \A i \in F : LiveAt(e.heap, At(d.fd, i), Nr(d.fd, i)) /\ Entry(e, d.fd[i].file).kind = "file"
  BY <1>1, <1>2 DEF FilesOK
<1>4. ASSUME NEW i \in FDs \ F, d.fd[i].refcnt > 0, NEW j \in Chain(d.fd, i)
      PROVE  /\ j \in FDs \ F /\ GoodDD(d, F, j) /\ DirOf(e, j) = DirOf(d, j)
             /\ j # ROOT => LiveAt(e.heap, At(d.fd, j), Nr(d.fd, j)) /\ Entry(e, d.fd[j].file).kind = "dir"
  <2>1. j \in FDs \ F /\ GoodDD(d, F, j)
    BY <1>4, ChainUsed
  <2>2. CASE j = ROOT
    <3>1. e.fd[ROOT].file = root_de /\ d.fd[ROOT].file = root_de
      BY <1>1 DEF RootOK
    <3>. QED BY <2>1, <2>2, <3>1 DEF DirOf, Entry
  <2>3. CASE j # ROOT
    <3>1. d.fd[j].file # NULL /\ LiveAt(d.heap, At(d.fd, j), Nr(d.fd, j)) /\ Entry(d, d.fd[j].file).kind = "dir"
      BY <2>1, <2>3 DEF GoodDD
    <3>2. ~(At(d.fd, j) = c /\ Nr(d.fd, j) = l)
      BY <1>4, <2>3
    <3>3. /\ LiveAt(e.heap, At(d.fd, j), Nr(d.fd, j))
          /\ Entry(e, d.fd[j].file).kind = "dir"
          /\ Entry(e, d.fd[j].file).faddr = Entry(d, d.fd[j].file).faddr
      BY <1>2, <2>1, <3>1, <3>2
    <3>. QED BY <2>1, <3>3 DEF DirOf
  <2>. QED BY <2>2, <2>3
<1>5. ASSUME NEW i \in FDs \ F, d.fd[i].refcnt > 0, NEW j \in Chain(d.fd, i)
      PROVE  GoodDD(e, F, j)
  <2>1. j \in FDs \ F /\ GoodDD(d, F, j)
    BY <1>4, <1>5
  <2>2. ASSUME j # ROOT PROVE d.fd[j].parent \in Chain(d.fd, i)
    <3>1. d.fd[j].parent \in Chain(d.fd, i) \cup {NULL}
      BY <1>1, <1>5, ChainClosed
    <3>. QED BY <2>1, <2>2, <3>1, Constants DEF GoodDD
  <2>3. j # ROOT => DirOf(e, d.fd[j].parent) = DirOf(d, d.fd[j].parent)
    BY <1>4, <1>5, <2>2
  <2>. QED BY <1>4, <1>5, <2>1, <2>3 DEF GoodDD
<1>6. DiskOK(e, F)
  BY <1>3, <1>5, HeapFrame
<1>7. \A i \in FDs \ F : d.fd[i].refcnt > 0 => DirOf(e, i) = DirOf(d, i)
  BY <1>1, <1>4, ChainClosed
<1>. QED BY <1>6, <1>7

\* A new entry, for a new block.
LEMMA PutNew ==
    ASSUME NEW d, NEW F, DiskOK(d, F), NEW a \in Dirs(d.heap), NEW f \in DOMAIN d.heap[a].ent,
           ~ LiveAt(d.heap, a, f), NEW b \in Addr, d.heap[b].kind = NULL, NEW blk \in BlockType,
           blk.kind \in Kinds, blk.kind = "dir" => blk.up = a, blk.kind # "dir" => blk.ent = << >>,
           \A k \in DOMAIN blk.ent : blk.ent[k].faddr = NULL,
           NEW n \in Name, \A k : LiveAt(d.heap, a, k) => Ent(d.heap, a, k).name # n,
           NEW e, e = PutEntry(PutBlock(d, b, blk), a, f, [name |-> n, kind |-> blk.kind, faddr |-> b])
    PROVE  /\ DiskOK(e, F) /\ e.fd = d.fd /\ e.dhd = d.dhd
           /\ LiveAt(e.heap, a, f) /\ Ent(e.heap, a, f).kind = blk.kind
           /\ \A i \in FDs \ F : d.fd[i].refcnt > 0 => DirOf(e, i) = DirOf(d, i)
<1>. DEFINE m == PutBlock(d, b, blk)
            v == [name |-> n, kind |-> blk.kind, faddr |-> b]
            h == d.heap
            g == e.heap
<1>1. d \in DiskType /\ HeapParts(h) /\ h \in HeapType /\ OpenDirsOK(d)
  BY DiskOKParts, HeapIs
<1>2. a \in Blocks /\ h[a].kind = "dir" /\ a # b /\ b \in Blocks /\ b # Root
  BY <1>1, Constants DEF Dirs, Kinds, HeapParts
<1>3. /\ m \in DiskType /\ m.fd = d.fd /\ m.dhd = d.dhd
      /\ m.heap[b] = blk /\ \A c \in Blocks \ {b} : m.heap[c] = h[c]
  BY <1>1, <1>2, PutBlockIs
<1>. HIDE DEF m
<1>4. v \in EntryType /\ v.name = n /\ v.kind = blk.kind /\ v.faddr = b
  BY DEF EntryType
<1>. HIDE DEF v
<1>5. /\ e \in DiskType /\ e.fd = d.fd /\ e.dhd = d.dhd
      /\ \A c \in Blocks \ {a} : g[c] = m.heap[c]
      /\ g[a].kind = h[a].kind /\ g[a].up = h[a].up /\ DOMAIN g[a].ent = DOMAIN h[a].ent
      /\ Ent(g, a, f) = v
      /\ \A l : l # f => Ent(g, a, l) = Ent(h, a, l) \/ l \notin DOMAIN h[a].ent
  <2>1. m.heap[a] = h[a] /\ f \in DOMAIN m.heap[a].ent /\ \A l : Ent(m.heap, a, l) = Ent(h, a, l)
    BY <1>2, <1>3 DEF Ent
  <2>2. e = PutEntry(m, a, f, v)
    BY DEF m, v
  <2>3. /\ e \in DiskType /\ e.fd = m.fd /\ e.dhd = m.dhd
        /\ \A c \in Blocks \ {a} : e.heap[c] = m.heap[c]
        /\ e.heap[a].kind = m.heap[a].kind /\ e.heap[a].up = m.heap[a].up
        /\ DOMAIN e.heap[a].ent = DOMAIN m.heap[a].ent /\ Ent(e.heap, a, f) = v
        /\ \A l : l # f => Ent(e.heap, a, l) = Ent(m.heap, a, l) \/ l \notin DOMAIN m.heap[a].ent
    BY ONLY <1>2, <1>3, <1>4, <2>1, <2>2, PutEntryIs, SMTT(30)
  <2>. QED BY <1>3, <2>1, <2>3
<1>. HIDE DEF h, g
<1>6. g \in HeapType
  BY <1>5, DiskParts DEF g
<1>7. g[b] = blk /\ \A c \in Blocks \ {a, b} : g[c] = h[c]
  BY <1>2, <1>3, <1>5
<1>8. \A c \in Blocks \ {b} : g[c].kind = h[c].kind /\ g[c].up = h[c].up
  BY <1>5, <1>7
\* the entries in use
<1>9. \A x, k : LiveAt(h, x, k) => x # b
  BY <1>1, LeadsTo, Constants DEF Dirs, Kinds, h
<1>10. \A x, k : LiveAt(g, x, k) <=> LiveAt(h, x, k) \/ (x = a /\ k = f)
  <2>1. ASSUME NEW x, NEW k, x = a PROVE LiveAt(g, x, k) <=> LiveAt(h, x, k) \/ (x = a /\ k = f)
    BY <1>2, <1>4, <1>5, <2>1, Constants DEF LiveAt, h
  <2>2. ASSUME NEW x, NEW k, x = b PROVE ~ LiveAt(g, x, k)
    BY <1>7, <2>2 DEF LiveAt, Ent
  <2>3. ASSUME NEW x, NEW k, x # a, x # b PROVE LiveAt(g, x, k) <=> LiveAt(h, x, k)
    BY <1>7, <2>3 DEF LiveAt, Ent
  <2>. QED BY <1>2, <1>9, <2>1, <2>2, <2>3
<1>11. ASSUME NEW x, NEW k, LiveAt(h, x, k) PROVE Ent(g, x, k) = Ent(h, x, k) /\ ~(x = a /\ k = f)
  <2>1. x \in Blocks /\ k \in DOMAIN h[x].ent /\ x # b /\ ~(x = a /\ k = f)
    BY <1>9, <1>11 DEF LiveAt, h
  <2>. QED BY <1>5, <1>7, <2>1 DEF Ent
<1>12. \A x, k : LiveAt(h, x, k) => Ent(h, x, k).faddr # b /\ Ent(h, x, k).faddr \in Blocks
  <2>. TAKE x, k
  <2>. HAVE LiveAt(h, x, k)
  <2>1. Ent(h, x, k).faddr \in Addr /\ h[Ent(h, x, k).faddr].kind # NULL
    BY <1>1, LeadsTo DEF h
  <2>. QED BY <2>1, Constants DEF h
<1>13. HeapParts(g)
  <2>1. g[Root].kind = "dir"
    BY <1>1, <1>2, <1>8, Constants DEF HeapParts
  <2>2. \A c \in Blocks : g[c].kind # "dir" => g[c].ent = << >>
    BY <1>1, <1>2, <1>5, <1>7 DEF HeapParts
  <2>3. ASSUME NEW x, NEW k, LiveAt(g, x, k)
        PROVE  /\ Ent(g, x, k).name \in Name
               /\ Ent(g, x, k).kind = g[Ent(g, x, k).faddr].kind
               /\ Ent(g, x, k).kind \in Kinds
               /\ Ent(g, x, k).kind = "dir" => g[Ent(g, x, k).faddr].up = x
    <3>1. CASE LiveAt(h, x, k)
      <4>1. Ent(g, x, k) = Ent(h, x, k)
        BY <1>11, <3>1
      <4>. QED BY <1>1, <1>8, <1>12, <3>1, <4>1 DEF HeapParts
    <3>2. CASE x = a /\ k = f
      BY <1>4, <1>5, <1>7, <3>2
    <3>. QED BY <1>10, <2>3, <3>1, <3>2
  <2>4. \A x, k, y, l : LiveAt(g, x, k) /\ LiveAt(g, y, l) /\ Ent(g, x, k).faddr = Ent(g, y, l).faddr
                        => x = y /\ k = l
    BY <1>1, <1>4, <1>5, <1>10, <1>11, <1>12 DEF HeapParts
  <2>5. ASSUME NEW c \in Addr, g[c].kind # NULL PROVE \E x, k : LiveAt(g, x, k) /\ Ent(g, x, k).faddr = c
    <3>1. CASE c = b
      BY <1>4, <1>5, <1>10, <3>1
    <3>2. CASE c # b
      <4>1. \E x, k : LiveAt(h, x, k) /\ Ent(h, x, k).faddr = c
        BY <1>1, <1>8, <2>5, <3>2, Constants DEF HeapParts
      <4>. QED BY <1>10, <1>11, <4>1
    <3>. QED BY <3>1, <3>2
  <2>6. \A x, k, l : LiveAt(g, x, k) /\ LiveAt(g, x, l) /\ Ent(g, x, k).name = Ent(g, x, l).name => k = l
    BY <1>1, <1>4, <1>5, <1>10, <1>11 DEF HeapParts, h
  <2>7. ToRoot(g)
    <3>. SUFFICES ASSUME NEW S \in SUBSET Dirs(g), S # {}, \A c \in S \ {Root} : g[c].up \in S PROVE Root \in S
      BY DEF ToRoot
    <3>. DEFINE S1 == S \ {b}
    <3>1. S1 \in SUBSET Dirs(h)
      BY <1>8 DEF Dirs
    <3>2. S1 # {}
      <4>. SUFFICES ASSUME b \in S PROVE a \in S
        BY <1>2
      <4>1. g[b].kind = "dir"
        BY DEF Dirs
      <4>. QED BY <1>2, <1>7, <4>1
    <3>3. \A c \in S1 \ {Root} : h[c].up \in S1
      <4>. TAKE c \in S1 \ {Root}
      <4>1. c \in Dirs(h) /\ c # Root /\ c \in Blocks \ {b}
        BY <3>1 DEF Dirs
      <4>2. g[c].up \in S /\ g[c].up = h[c].up
        BY <1>8, <4>1
      <4>3. h[c].up \in Dirs(h)
        BY <1>1, <4>1, DirsAbove
      <4>4. h[c].up # b
        BY <4>3, Constants DEF Dirs, Kinds, h
      <4>. QED BY <4>2, <4>4
    <3>. HIDE DEF S1
    <3>4. Root \in S1
      BY <1>1, <3>1, <3>2, <3>3 DEF HeapParts, ToRoot
    <3>. QED BY <3>4 DEF S1
  <2>. QED BY <1>6, <2>1, <2>2, <2>3, <2>4, <2>5, <2>6, <2>7 DEF HeapParts
<1>14. OpenDirsOK(e)
  <2>1. ASSUME NEW i \in DHDs, d.dhd[i].dir # NULL PROVE g[d.dhd[i].dir].kind = "dir"
    <3>1. h[d.dhd[i].dir].kind = "dir" /\ d.dhd[i].dir \in Blocks
      BY <1>1, <2>1, DiskParts DEF OpenDirsOK, h
    <3>2. d.dhd[i].dir # b
      BY <3>1, Constants DEF Kinds, h
    <3>. QED BY <1>8, <3>1, <3>2
  <2>. QED BY <1>5, <2>1 DEF OpenDirsOK, g
<1>15. DiskOK(e, F) /\ \A i \in FDs \ F : d.fd[i].refcnt > 0 => DirOf(e, i) = DirOf(d, i)
  <2>1. HeapOK(e.heap)
    BY <1>13, HeapIs DEF g
  <2>2. \A i \in FDs \ F : d.fd[i].refcnt > 0 =>
           \A j \in Chain(d.fd, i) \ {ROOT} : ~(At(d.fd, j) = a /\ Nr(d.fd, j) = f)
    <3>. TAKE i \in FDs \ F
    <3>. HAVE d.fd[i].refcnt > 0
    <3>. TAKE j \in Chain(d.fd, i) \ {ROOT}
    <3>1. GoodDD(d, F, j)
      BY ChainUsed
    <3>. QED BY <3>1 DEF GoodDD
  <2>3. \A i \in F : ~(At(d.fd, i) = a /\ Nr(d.fd, i) = f)
    BY DiskOKParts DEF FilesOK
  <2>4. \A x, k : LiveAt(d.heap, x, k) /\ ~(x = a /\ k = f) =>
               /\ LiveAt(e.heap, x, k) /\ Ent(e.heap, x, k).faddr = Ent(d.heap, x, k).faddr
               /\ Ent(e.heap, x, k).kind = Ent(d.heap, x, k).kind
    BY <1>10, <1>11 DEF h, g
  <2>. QED BY ONLY DiskOK(d, F), <1>5, <1>14, <2>1, <2>2, <2>3, <2>4, KeepEntries
<1>. QED BY <1>4, <1>5, <1>10, <1>15 DEF g

\* An entry gets another name.
LEMMA Renamed ==
    ASSUME NEW d, NEW F, DiskOK(d, F), NEW a, NEW i, LiveAt(d.heap, a, i),
           NEW n \in Name, \A k : LiveAt(d.heap, a, k) => Ent(d.heap, a, k).name # n,
           NEW e, e = PutEntry(d, a, i, [Ent(d.heap, a, i) EXCEPT !.name = n])
    PROVE  DiskOK(e, F) /\ e.fd = d.fd /\ e.dhd = d.dhd
<1>. DEFINE v == [Ent(d.heap, a, i) EXCEPT !.name = n]
            h == d.heap
            g == e.heap
<1>1. d \in DiskType /\ HeapParts(h) /\ h \in HeapType /\ OpenDirsOK(d)
  BY DiskOKParts, HeapIs
<1>2. a \in Blocks /\ i \in DOMAIN h[a].ent /\ Ent(h, a, i) \in EntryType /\ Ent(h, a, i).faddr # NULL
  BY <1>1, LeadsTo DEF LiveAt
<1>3. v \in EntryType /\ v.name = n /\ v.kind = Ent(h, a, i).kind /\ v.faddr = Ent(h, a, i).faddr
  BY <1>2 DEF EntryType
<1>. HIDE DEF v
<1>4. /\ e \in DiskType /\ e.fd = d.fd /\ e.dhd = d.dhd
      /\ \A c \in Blocks \ {a} : g[c] = h[c]
      /\ g[a].kind = h[a].kind /\ g[a].up = h[a].up /\ DOMAIN g[a].ent = DOMAIN h[a].ent
      /\ Ent(g, a, i) = v
      /\ \A l : l # i => Ent(g, a, l) = Ent(h, a, l) \/ l \notin DOMAIN h[a].ent
  <2>1. e = PutEntry(d, a, i, v)
    BY DEF v
  <2>. QED BY ONLY <1>1, <1>2, <1>3, <2>1, PutEntryIs
<1>5. \A k : LiveAt(h, a, k) => Ent(h, a, k).name # n
  BY DEF h
<1>. HIDE DEF h, g
<1>6. \A c \in Blocks : g[c].kind = h[c].kind /\ g[c].up = h[c].up /\ DOMAIN g[c].ent = DOMAIN h[c].ent
  BY <1>4
<1>7. ASSUME NEW x, NEW k
      PROVE  /\ LiveAt(g, x, k) <=> LiveAt(h, x, k)
             /\ LiveAt(h, x, k) =>
                   /\ Ent(g, x, k).faddr = Ent(h, x, k).faddr /\ Ent(g, x, k).kind = Ent(h, x, k).kind
                   /\ Ent(g, x, k).name = IF x = a /\ k = i THEN n ELSE Ent(h, x, k).name
  <2>1. CASE x = a
    BY <1>2, <1>3, <1>4, <2>1 DEF LiveAt
  <2>2. CASE x # a
    BY <1>4, <2>2 DEF LiveAt, Ent
  <2>. QED BY <2>1, <2>2
<1>8. HeapParts(g)
  <2>1. g \in HeapType /\ g[Root].kind = "dir"
    BY <1>1, <1>4, <1>6, DiskParts, Constants DEF HeapParts, g
  <2>2. \A c \in Blocks : g[c].kind # "dir" => g[c].ent = << >>
    <3>1. h[a].kind = "dir"
      BY <1>1, LeadsTo DEF Dirs, h
    <3>. QED BY <1>1, <1>4, <3>1 DEF HeapParts
  <2>3. \A x, k : LiveAt(g, x, k) =>
               /\ Ent(g, x, k).name \in Name
               /\ Ent(g, x, k).kind = g[Ent(g, x, k).faddr].kind
               /\ Ent(g, x, k).kind \in Kinds
               /\ Ent(g, x, k).kind = "dir" => g[Ent(g, x, k).faddr].up = x
    <3>. TAKE x, k
    <3>. HAVE LiveAt(g, x, k)
    <3>1. Ent(h, x, k).faddr \in Blocks /\ LiveAt(h, x, k)
      BY <1>1, <1>7, LeadsTo, Constants
    <3>. QED BY <1>1, <1>6, <1>7, <3>1 DEF HeapParts
  <2>4. \A x, k, y, l : LiveAt(g, x, k) /\ LiveAt(g, y, l) /\ Ent(g, x, k).faddr = Ent(g, y, l).faddr
                        => x = y /\ k = l
    BY <1>1, <1>7 DEF HeapParts
  <2>5. \A c \in Addr : g[c].kind # NULL => \E x, k : LiveAt(g, x, k) /\ Ent(g, x, k).faddr = c
    BY <1>1, <1>6, <1>7, Constants DEF HeapParts
  <2>6. \A x, k, l : LiveAt(g, x, k) /\ LiveAt(g, x, l) /\ Ent(g, x, k).name = Ent(g, x, l).name => k = l
    BY <1>1, <1>5, <1>7 DEF HeapParts
  <2>7. ToRoot(g)
    BY <1>1, <1>6 DEF HeapParts, ToRoot, Dirs
  <2>. QED BY <2>1, <2>2, <2>3, <2>4, <2>5, <2>6, <2>7 DEF HeapParts
<1>9. OpenDirsOK(e)
  BY <1>1, <1>4, <1>6, DiskParts DEF OpenDirsOK, g, h
<1>10. DiskOK(e, F)
  <2>1. HeapOK(e.heap)
    BY <1>8, HeapIs DEF g
  <2>2. \A x, k : LiveAt(d.heap, x, k) /\ ~(x = NULL /\ k = NULL) =>
               /\ LiveAt(e.heap, x, k) /\ Ent(e.heap, x, k).faddr = Ent(d.heap, x, k).faddr
               /\ Ent(e.heap, x, k).kind = Ent(d.heap, x, k).kind
    BY <1>7 DEF h, g
  <2>3. \A j \in F : At(d.fd, j) # NULL
    BY DiskOKParts, Constants DEF FilesOK, LiveAt
  <2>4. \A x \in FDs \ F : d.fd[x].refcnt > 0 =>
           \A j \in Chain(d.fd, x) \ {ROOT} : At(d.fd, j) # NULL
    <3>. TAKE x \in FDs \ F
    <3>. HAVE d.fd[x].refcnt > 0
    <3>. TAKE j \in Chain(d.fd, x) \ {ROOT}
    <3>1. GoodDD(d, F, j)
      BY ChainUsed
    <3>. QED BY <3>1, Constants DEF GoodDD, LiveAt
  <2>. QED BY ONLY DiskOK(d, F), <1>4, <1>9, <2>1, <2>2, <2>3, <2>4, KeepEntries
<1>. QED BY <1>4, <1>10

\* An entry is removed, and what it leads to, which holds no entries.
LEMMA Dropped ==
    ASSUME NEW d, NEW F, DiskOK(d, F), NEW a, NEW i, LiveAt(d.heap, a, i),
           \A k : ~ LiveAt(d.heap, Ent(d.heap, a, i).faddr, k),
           ~ dir_is_open(d, Ent(d.heap, a, i).faddr),
           \A j \in F : ~(At(d.fd, j) = a /\ Nr(d.fd, j) = i),
           \A x \in FDs \ F : d.fd[x].refcnt > 0 =>
               \A j \in Chain(d.fd, x) \ {ROOT} : ~(At(d.fd, j) = a /\ Nr(d.fd, j) = i),
           NEW e, e = Drop(d, << a, i >>)
    PROVE  DiskOK(e, F) /\ e.fd = d.fd /\ e.dhd = d.dhd
<1>. DEFINE h == d.heap
            g == e.heap
            b == Ent(h, a, i).faddr
            m == PutBlock(d, b, NoBlock)
<1>1. d \in DiskType /\ HeapParts(h) /\ h \in HeapType /\ OpenDirsOK(d)
  BY DiskOKParts, HeapIs
<1>2. a \in Blocks /\ i \in DOMAIN h[a].ent /\ b \in Addr /\ b # a /\ b \in Blocks /\ b # Root
  BY <1>1, LeadsTo, Constants
<1>3. e = PutEntry(m, a, i, FreeEntry)
  <2>1. Entry(d, << a, i >>) = Ent(h, a, i)
    BY <1>1, EntryAt
  <2>2. << a, i >>[1] = a /\ << a, i >>[2] = i
    OBVIOUS
  <2>. QED BY <2>1, <2>2 DEF Drop
<1>4. NoBlock \in BlockType /\ NoBlock.kind = NULL /\ NoBlock.ent = << >>
  BY DEF NoBlock, BlockType, Path
<1>5. FreeEntry \in EntryType /\ FreeEntry.faddr = NULL
  BY DEF FreeEntry, EntryType
<1>. HIDE DEF b
<1>6. /\ m \in DiskType /\ m.fd = d.fd /\ m.dhd = d.dhd
      /\ m.heap[b] = NoBlock /\ \A c \in Blocks \ {b} : m.heap[c] = h[c]
  BY <1>1, <1>2, <1>4, PutBlockIs
<1>. HIDE DEF m
<1>7. /\ e \in DiskType /\ e.fd = d.fd /\ e.dhd = d.dhd
      /\ \A c \in Blocks \ {a} : g[c] = m.heap[c]
      /\ g[a].kind = h[a].kind /\ g[a].up = h[a].up /\ DOMAIN g[a].ent = DOMAIN h[a].ent
      /\ Ent(g, a, i) = FreeEntry
      /\ \A l : l # i => Ent(g, a, l) = Ent(h, a, l) \/ l \notin DOMAIN h[a].ent
  <2>1. m.heap[a] = h[a] /\ i \in DOMAIN m.heap[a].ent /\ \A l : Ent(m.heap, a, l) = Ent(h, a, l)
    BY <1>2, <1>6 DEF Ent
  <2>2. /\ e \in DiskType /\ e.fd = m.fd /\ e.dhd = m.dhd
        /\ \A c \in Blocks \ {a} : e.heap[c] = m.heap[c]
        /\ e.heap[a].kind = m.heap[a].kind /\ e.heap[a].up = m.heap[a].up
        /\ DOMAIN e.heap[a].ent = DOMAIN m.heap[a].ent /\ Ent(e.heap, a, i) = FreeEntry
        /\ \A l : l # i => Ent(e.heap, a, l) = Ent(m.heap, a, l) \/ l \notin DOMAIN m.heap[a].ent
    BY ONLY <1>2, <1>3, <1>5, <1>6, <2>1, PutEntryIs
  <2>. QED BY <1>6, <2>1, <2>2
<1>8. LiveAt(h, a, i) /\ \A k : ~ LiveAt(h, b, k)
  BY DEF h, b
<1>. HIDE DEF h, g
<1>9. g[b] = NoBlock /\ \A c \in Blocks \ {b} : g[c].kind = h[c].kind /\ g[c].up = h[c].up
  BY <1>2, <1>6, <1>7
<1>10. \A x, k : LiveAt(g, x, k) <=> LiveAt(h, x, k) /\ ~(x = a /\ k = i)
  <2>1. ASSUME NEW x, NEW k, x = a PROVE LiveAt(g, x, k) <=> LiveAt(h, x, k) /\ ~(x = a /\ k = i)
    BY <1>2, <1>5, <1>7, <2>1 DEF LiveAt
  <2>2. ASSUME NEW x, NEW k, x = b PROVE ~ LiveAt(g, x, k)
    BY <1>4, <1>9, <2>2 DEF LiveAt
  <2>3. ASSUME NEW x, NEW k, x # a, x # b PROVE LiveAt(g, x, k) <=> LiveAt(h, x, k)
    BY <1>6, <1>7, <2>3 DEF LiveAt, Ent
  <2>. QED BY <1>8, <2>1, <2>2, <2>3
<1>11. \A x, k : LiveAt(g, x, k) => Ent(g, x, k) = Ent(h, x, k)
  <2>. TAKE x, k
  <2>. HAVE LiveAt(g, x, k)
  <2>1. LiveAt(h, x, k) /\ ~(x = a /\ k = i) /\ x \in Blocks /\ k \in DOMAIN h[x].ent /\ x # b
    BY <1>8, <1>10 DEF LiveAt
  <2>. QED BY <1>6, <1>7, <2>1 DEF Ent
<1>12. \A x, k : LiveAt(g, x, k) => Ent(g, x, k).faddr # b /\ Ent(g, x, k).faddr \in Blocks
  <2>. TAKE x, k
  <2>. HAVE LiveAt(g, x, k)
  <2>1. LiveAt(h, x, k) /\ ~(x = a /\ k = i) /\ Ent(g, x, k) = Ent(h, x, k)
    BY <1>10, <1>11
  <2>2. Ent(h, x, k).faddr # b
    BY <1>1, <1>8, <2>1 DEF HeapParts, b, h
  <2>3. Ent(h, x, k).faddr \in Blocks
    BY <1>1, <2>1, LeadsTo, Constants
  <2>. QED BY <2>1, <2>2, <2>3
<1>13. HeapParts(g)
  <2>1. g \in HeapType /\ g[Root].kind = "dir"
    BY <1>1, <1>2, <1>7, <1>9, DiskParts, Constants DEF HeapParts, g
  <2>2. \A c \in Blocks : g[c].kind # "dir" => g[c].ent = << >>
    <3>1. h[a].kind = "dir"
      BY <1>1, <1>8, LeadsTo DEF Dirs, h
    <3>. QED BY <1>1, <1>4, <1>6, <1>7, <1>9, <3>1 DEF HeapParts
  <2>3. \A x, k : LiveAt(g, x, k) =>
               /\ Ent(g, x, k).name \in Name
               /\ Ent(g, x, k).kind = g[Ent(g, x, k).faddr].kind
               /\ Ent(g, x, k).kind \in Kinds
               /\ Ent(g, x, k).kind = "dir" => g[Ent(g, x, k).faddr].up = x
    BY <1>1, <1>9, <1>10, <1>11, <1>12 DEF HeapParts
  <2>4. \A x, k, y, l : LiveAt(g, x, k) /\ LiveAt(g, y, l) /\ Ent(g, x, k).faddr = Ent(g, y, l).faddr
                        => x = y /\ k = l
    BY <1>1, <1>10, <1>11 DEF HeapParts
  <2>5. ASSUME NEW c \in Addr, g[c].kind # NULL PROVE \E x, k : LiveAt(g, x, k) /\ Ent(g, x, k).faddr = c
    <3>1. c # b
      BY <1>4, <1>9, <2>5
    <3>2. PICK x, k : LiveAt(h, x, k) /\ Ent(h, x, k).faddr = c
      BY <1>1, <1>9, <2>5, <3>1, Constants DEF HeapParts
    <3>3. LiveAt(g, x, k)
      BY <1>10, <3>1, <3>2 DEF b, h
    <3>. QED BY <1>11, <3>2, <3>3
  <2>6. \A x, k, l : LiveAt(g, x, k) /\ LiveAt(g, x, l) /\ Ent(g, x, k).name = Ent(g, x, l).name => k = l
    BY <1>1, <1>10, <1>11 DEF HeapParts
  <2>7. ToRoot(g)
    <3>. SUFFICES ASSUME NEW S \in SUBSET Dirs(g), S # {}, \A c \in S \ {Root} : g[c].up \in S PROVE Root \in S
      BY DEF ToRoot
    <3>1. b \notin S
      BY <1>4, <1>9, Constants DEF Dirs, Kinds
    <3>2. S \in SUBSET Dirs(h) /\ \A c \in S \ {Root} : h[c].up \in S
      BY <1>9, <3>1 DEF Dirs
    <3>. QED BY <1>1, <3>2 DEF HeapParts, ToRoot
  <2>. QED BY <2>1, <2>2, <2>3, <2>4, <2>5, <2>6, <2>7 DEF HeapParts
<1>14. OpenDirsOK(e)
  <2>1. ASSUME NEW j \in DHDs, d.dhd[j].dir # NULL PROVE g[d.dhd[j].dir].kind = "dir"
    <3>1. h[d.dhd[j].dir].kind = "dir" /\ d.dhd[j].dir \in Blocks
      BY <1>1, <2>1, DiskParts DEF OpenDirsOK, h
    <3>2. d.dhd[j].dir # b
      BY DEF dir_is_open, b, h
    <3>. QED BY <1>9, <3>1, <3>2
  <2>. QED BY <1>7, <2>1 DEF OpenDirsOK, g
<1>15. DiskOK(e, F)
  <2>1. HeapOK(e.heap)
    BY <1>13, HeapIs DEF g
  <2>2. \A x, k : LiveAt(d.heap, x, k) /\ ~(x = a /\ k = i) =>
               /\ LiveAt(e.heap, x, k) /\ Ent(e.heap, x, k).faddr = Ent(d.heap, x, k).faddr
               /\ Ent(e.heap, x, k).kind = Ent(d.heap, x, k).kind
    BY <1>10, <1>11 DEF h, g
  <2>3. \A j \in F : ~(At(d.fd, j) = a /\ Nr(d.fd, j) = i)
    OBVIOUS
  <2>4. \A x \in FDs \ F : d.fd[x].refcnt > 0 =>
           \A j \in Chain(d.fd, x) \ {ROOT} : ~(At(d.fd, j) = a /\ Nr(d.fd, j) = i)
    OBVIOUS
  <2>. QED BY ONLY DiskOK(d, F), <1>7, <1>14, <2>1, <2>2, <2>3, <2>4, KeepEntries
<1>. QED BY <1>7, <1>15

\* An entry moves to another directory, which does not lie below it.
LEMMA MovedOK ==
    ASSUME NEW d, NEW F, DiskOK(d, F), NEW a, NEW i, LiveAt(d.heap, a, i),
           NEW b \in Dirs(d.heap), a # b, NEW f \in DOMAIN d.heap[b].ent, ~ LiveAt(d.heap, b, f),
           f = FirstFree(d, b),
           NEW n \in Name, \A k : LiveAt(d.heap, b, k) => Ent(d.heap, b, k).name # n,
           NEW T \in SUBSET Dirs(d.heap), b \in T, \A c \in T \ {Root} : d.heap[c].up \in T,
           Ent(d.heap, a, i).kind = "dir" => Ent(d.heap, a, i).faddr \notin T,
           \A j \in F : ~(At(d.fd, j) = a /\ Nr(d.fd, j) = i),
           \A x \in FDs \ F : d.fd[x].refcnt > 0 =>
               \A j \in Chain(d.fd, x) \ {ROOT} : ~(At(d.fd, j) = a /\ Nr(d.fd, j) = i),
           NEW e, e = Moved(d, a, i, b, n)
    PROVE  DiskOK(e, F) /\ e.fd = d.fd /\ e.dhd = d.dhd
<1>. DEFINE h == d.heap
            g == e.heap
            u == Ent(h, a, i)
            x == u.faddr
            v == [u EXCEPT !.name = n]
            m == PutEntry(d, b, f, v)
            w == PutEntry(m, a, i, FreeEntry)
<1>1. d \in DiskType /\ HeapParts(h) /\ h \in HeapType /\ OpenDirsOK(d)
  BY DiskOKParts, HeapIs
<1>2. /\ a \in Blocks /\ i \in DOMAIN h[a].ent /\ x \in Addr /\ x # a /\ x \in Blocks /\ x # Root
      /\ u \in EntryType /\ u.faddr # NULL /\ b \in Blocks /\ h[a].kind = "dir" /\ h[b].kind = "dir"
      /\ u.kind = h[x].kind /\ u.kind # NULL
  BY <1>1, LeadsTo, Constants DEF Dirs
<1>3. x # b
  <2>. SUFFICES ASSUME x = b PROVE FALSE
    OBVIOUS
  <2>. QED BY <1>2
<1>4. v \in EntryType /\ v.name = n /\ v.kind = u.kind /\ v.faddr = x
  <2>. HIDE DEF u
  <2>. QED BY <1>2 DEF EntryType
<1>5. FreeEntry \in EntryType /\ FreeEntry.faddr = NULL
  BY DEF FreeEntry, EntryType
<1>6. e = IF u.kind = "dir" THEN PutBlock(w, x, [w.heap[x] EXCEPT !.up = b]) ELSE w
  <2>1. Entry(d, << a, i >>) = u
    BY <1>1, EntryAt
  <2>. HIDE DEF u
  <2>2. e = IF Entry(d, << a, i >>).kind = "dir"
            THEN PutBlock(w, Entry(d, << a, i >>).faddr, [w.heap[Entry(d, << a, i >>).faddr] EXCEPT !.up = b])
            ELSE w
    BY <2>1, Zenon DEF Moved
  <2>. HIDE DEF w
  <2>. QED BY <2>1, <2>2
<1>. HIDE DEF u, v
<1>7. /\ m \in DiskType /\ m.fd = d.fd /\ m.dhd = d.dhd
      /\ \A c \in Blocks \ {b} : m.heap[c] = h[c]
      /\ m.heap[b].kind = h[b].kind /\ m.heap[b].up = h[b].up
      /\ DOMAIN m.heap[b].ent = DOMAIN h[b].ent /\ Ent(m.heap, b, f) = v
      /\ \A l : l # f => Ent(m.heap, b, l) = Ent(h, b, l) \/ l \notin DOMAIN h[b].ent
  <2>1. m = PutEntry(d, b, f, v)
    OBVIOUS
  <2>. HIDE DEF m
  <2>2. f \in DOMAIN d.heap[b].ent
    OBVIOUS
  <2>. QED BY ONLY <1>1, <1>2, <1>4, <2>1, <2>2, PutEntryIs
<1>8. /\ w \in DiskType /\ w.fd = d.fd /\ w.dhd = d.dhd
      /\ \A c \in Blocks \ {a} : w.heap[c] = m.heap[c]
      /\ w.heap[a].kind = h[a].kind /\ w.heap[a].up = h[a].up
      /\ DOMAIN w.heap[a].ent = DOMAIN h[a].ent /\ Ent(w.heap, a, i) = FreeEntry
      /\ \A l : l # i => Ent(w.heap, a, l) = Ent(h, a, l) \/ l \notin DOMAIN h[a].ent
  <2>1. w = PutEntry(m, a, i, FreeEntry)
    OBVIOUS
  <2>. HIDE DEF w, m
  <2>2. m.heap[a] = h[a] /\ i \in DOMAIN m.heap[a].ent /\ \A l : Ent(m.heap, a, l) = Ent(h, a, l)
    BY <1>2, <1>7 DEF Ent
  <2>3. /\ w \in DiskType /\ w.fd = m.fd /\ w.dhd = m.dhd
        /\ \A c \in Blocks \ {a} : w.heap[c] = m.heap[c]
        /\ w.heap[a].kind = m.heap[a].kind /\ w.heap[a].up = m.heap[a].up
        /\ DOMAIN w.heap[a].ent = DOMAIN m.heap[a].ent /\ Ent(w.heap, a, i) = FreeEntry
        /\ \A l : l # i => Ent(w.heap, a, l) = Ent(m.heap, a, l) \/ l \notin DOMAIN m.heap[a].ent
    BY ONLY <1>2, <1>5, <1>7, <2>1, <2>2, PutEntryIs, SMTT(30)
  <2>. QED BY <1>7, <2>2, <2>3
<1>9. /\ e \in DiskType /\ e.fd = d.fd /\ e.dhd = d.dhd
      /\ \A c \in Blocks \ {x} : g[c] = w.heap[c]
      /\ g[x].kind = h[x].kind /\ g[x].ent = h[x].ent
      /\ g[x].up = IF u.kind = "dir" THEN b ELSE h[x].up
  <2>1. w.heap[x] = h[x]
    BY <1>2, <1>3, <1>7, <1>8
  <2>2. CASE u.kind # "dir"
    BY <1>6, <1>8, <2>1, <2>2
  <2>3. CASE u.kind = "dir"
    <3>. DEFINE y == [w.heap[x] EXCEPT !.up = b]
    <3>. HIDE DEF x, w, m
    <3>1. w.heap[x] \in BlockType
      BY <1>2, <1>8, DiskParts DEF HeapType
    <3>2. y \in BlockType /\ y.kind = h[x].kind /\ y.ent = h[x].ent /\ y.up = b
      BY <1>2, <2>1, <3>1 DEF BlockType
    <3>3. e = PutBlock(w, x, y)
      BY <1>6, <2>3
    <3>. HIDE DEF y
    <3>4. /\ e \in DiskType /\ e.fd = w.fd /\ e.dhd = w.dhd
          /\ e.heap[x] = y /\ \A c \in Blocks \ {x} : e.heap[c] = w.heap[c]
      BY ONLY <1>2, <1>8, <3>2, <3>3, PutBlockIs
    <3>. QED BY <1>8, <2>3, <3>2, <3>4
  <2>. QED BY <2>2, <2>3
<1>10. LiveAt(h, a, i) /\ ~ LiveAt(h, b, f) /\ (\A k : LiveAt(h, b, k) => Ent(h, b, k).name # n)
       /\ a # b /\ f \in DOMAIN h[b].ent
       /\ T \in SUBSET Dirs(h) /\ b \in T /\ (\A c \in T \ {Root} : h[c].up \in T)
       /\ (u.kind = "dir" => x \notin T)
  BY DEF u, h
<1>. HIDE DEF h, g, x, w, m
<1>11. /\ \A c \in Blocks : g[c].kind = h[c].kind /\ DOMAIN g[c].ent = DOMAIN h[c].ent
       /\ \A c \in Blocks : c # x \/ u.kind # "dir" => g[c].up = h[c].up
       /\ u.kind = "dir" => g[x].up = b
  <2>1. ASSUME NEW c \in Blocks
        PROVE  g[c].kind = h[c].kind /\ DOMAIN g[c].ent = DOMAIN h[c].ent
               /\ (c # x \/ u.kind # "dir" => g[c].up = h[c].up)
    <3>1. CASE c = x
      BY <1>9, <3>1
    <3>2. CASE c # x /\ c = a
      BY <1>2, <1>8, <1>9, <3>2
    <3>3. CASE c # x /\ c # a
      BY <1>2, <1>7, <1>8, <1>9, <3>3
    <3>. QED BY <3>1, <3>2, <3>3
  <2>. QED BY <1>9, <2>1
\* the entries in use
<1>12. ASSUME NEW y, NEW k
       PROVE  /\ LiveAt(g, y, k) <=> (LiveAt(h, y, k) /\ ~(y = a /\ k = i)) \/ (y = b /\ k = f)
              /\ LiveAt(g, y, k) => Ent(g, y, k) = IF y = b /\ k = f THEN v ELSE Ent(h, y, k)
  <2>1. CASE y = a
    <3>1. g[a] = w.heap[a]
      BY <1>2, <1>9
    <3>2. Ent(g, a, i) = FreeEntry /\ DOMAIN g[a].ent = DOMAIN h[a].ent
          /\ \A l : l # i => Ent(g, a, l) = Ent(h, a, l) \/ l \notin DOMAIN h[a].ent
      BY <1>8, <3>1 DEF Ent
    <3>3. CASE k = i
      BY <1>5, <1>10, <2>1, <3>2, <3>3 DEF LiveAt
    <3>4. CASE k # i
      BY <1>10, <2>1, <3>2, <3>4 DEF LiveAt
    <3>. QED BY <3>3, <3>4
  <2>2. CASE y = b
    <3>1. g[b] = m.heap[b]
      BY <1>2, <1>3, <1>8, <1>9, <1>10
    <3>2. Ent(g, b, f) = v /\ DOMAIN g[b].ent = DOMAIN h[b].ent
          /\ \A l : l # f => Ent(g, b, l) = Ent(h, b, l) \/ l \notin DOMAIN h[b].ent
      BY <1>7, <3>1 DEF Ent
    <3>3. CASE k = f
      <4>1. x # NULL
        BY <1>2 DEF x
      <4>. QED BY <1>2, <1>4, <1>10, <2>2, <3>2, <3>3, <4>1 DEF LiveAt
    <3>4. CASE k # f
      BY <1>10, <2>2, <3>2, <3>4 DEF LiveAt
    <3>. QED BY <3>3, <3>4
  <2>3. CASE y # a /\ y # b
    <3>1. y \in Blocks => g[y].ent = h[y].ent
      BY <1>7, <1>8, <1>9, <2>3
    <3>. QED BY <2>3, <3>1 DEF LiveAt, Ent
  <2>. QED BY <2>1, <2>2, <2>3
<1>13. ASSUME NEW y, NEW k, LiveAt(h, y, k), Ent(h, y, k).faddr = x PROVE y = a /\ k = i
  BY <1>1, <1>10, <1>13 DEF HeapParts, x, u, h
<1>14. HeapParts(g)
  <2>1. g \in HeapType /\ g[Root].kind = "dir"
    BY <1>1, <1>9, <1>11, DiskParts, Constants DEF HeapParts, g
  <2>2. \A c \in Blocks : g[c].kind # "dir" => g[c].ent = << >>
    <3>1. ASSUME NEW c \in Blocks, g[c].kind # "dir" PROVE g[c].ent = << >>
      <4>1. h[c].kind # "dir" /\ h[c].ent = << >> /\ c # a /\ c # b
        BY <1>1, <1>2, <1>11, <3>1 DEF HeapParts
      <4>. QED BY <1>7, <1>8, <1>9, <4>1
    <3>. QED BY <3>1
  <2>3. ASSUME NEW y, NEW k, LiveAt(g, y, k)
        PROVE  /\ Ent(g, y, k).name \in Name
               /\ Ent(g, y, k).kind = g[Ent(g, y, k).faddr].kind
               /\ Ent(g, y, k).kind \in Kinds
               /\ Ent(g, y, k).kind = "dir" => g[Ent(g, y, k).faddr].up = y
    <3>1. CASE y = b /\ k = f
      <4>1. Ent(g, y, k) = v
        BY <1>12, <2>3, <3>1
      <4>2. u.kind \in Kinds
        BY <1>1, <1>10, LeadsTo DEF u, h
      <4>. QED BY <1>2, <1>4, <1>11, <3>1, <4>1, <4>2
    <3>2. CASE ~(y = b /\ k = f)
      <4>1. LiveAt(h, y, k) /\ ~(y = a /\ k = i) /\ Ent(g, y, k) = Ent(h, y, k)
        BY <1>12, <2>3, <3>2
      <4>2. Ent(h, y, k).faddr # x /\ Ent(h, y, k).faddr \in Blocks
        BY <1>1, <1>13, <4>1, LeadsTo, Constants
      <4>. QED BY <1>1, <1>11, <4>1, <4>2 DEF HeapParts
    <3>. QED BY <3>1, <3>2
  <2>4. ASSUME NEW y, NEW k, NEW z, NEW l, LiveAt(g, y, k), LiveAt(g, z, l), Ent(g, y, k).faddr = Ent(g, z, l).faddr
        PROVE  y = z /\ k = l
    <3>1. LiveAt(g, y, k) => (y = b /\ k = f /\ Ent(g, y, k).faddr = x)
                             \/ (LiveAt(h, y, k) /\ ~(y = a /\ k = i) /\ Ent(g, y, k).faddr = Ent(h, y, k).faddr
                                 /\ Ent(h, y, k).faddr # x)
      BY <1>4, <1>10, <1>12, <1>13
    <3>2. LiveAt(g, z, l) => (z = b /\ l = f /\ Ent(g, z, l).faddr = x)
                             \/ (LiveAt(h, z, l) /\ ~(z = a /\ l = i) /\ Ent(g, z, l).faddr = Ent(h, z, l).faddr
                                 /\ Ent(h, z, l).faddr # x)
      BY <1>4, <1>10, <1>12, <1>13
    <3>. QED BY <1>1, <2>4, <3>1, <3>2 DEF HeapParts
  <2>5. ASSUME NEW c \in Addr, g[c].kind # NULL PROVE \E y, k : LiveAt(g, y, k) /\ Ent(g, y, k).faddr = c
    <3>1. CASE c = x
      BY <1>4, <1>12, <3>1
    <3>2. CASE c # x
      <4>1. PICK y, k : LiveAt(h, y, k) /\ Ent(h, y, k).faddr = c
        BY <1>1, <1>11, <2>5, Constants DEF HeapParts
      <4>2. ~(y = a /\ k = i) /\ ~(y = b /\ k = f)
        BY <1>10, <3>2, <4>1 DEF x, u, h
      <4>. QED BY <1>12, <4>1, <4>2
    <3>. QED BY <3>1, <3>2
  <2>6. ASSUME NEW y, NEW k, NEW l, LiveAt(g, y, k), LiveAt(g, y, l), Ent(g, y, k).name = Ent(g, y, l).name
        PROVE  k = l
    <3>1. CASE y = b
      <4>1. k # f => LiveAt(h, b, k) /\ Ent(g, y, k) = Ent(h, b, k)
        BY <1>12, <2>6, <3>1
      <4>2. l # f => LiveAt(h, b, l) /\ Ent(g, y, l) = Ent(h, b, l)
        BY <1>12, <2>6, <3>1
      <4>3. k = f => Ent(g, y, k).name = n
        BY <1>4, <1>12, <2>6, <3>1
      <4>4. l = f => Ent(g, y, l).name = n
        BY <1>4, <1>12, <2>6, <3>1
      <4>. QED BY <1>1, <1>10, <2>6, <4>1, <4>2, <4>3, <4>4 DEF HeapParts
    <3>2. CASE y # b
      BY <1>1, <1>12, <2>6, <3>2 DEF HeapParts
    <3>. QED BY <3>1, <3>2
  <2>7. ToRoot(g)
    <3>. SUFFICES ASSUME NEW S \in SUBSET Dirs(g), S # {}, \A c \in S \ {Root} : g[c].up \in S PROVE Root \in S
      BY DEF ToRoot
    <3>0. S \in SUBSET Dirs(h) /\ Dirs(h) \subseteq Blocks
      BY <1>11 DEF Dirs
    <3>1. CASE u.kind = "dir" /\ x \in S
      <4>. DEFINE S1 == S \cap T
      <4>1. b \in S1
        <5>1. g[x].up \in S
          BY <1>2, <3>1 DEF x
        <5>. QED BY <1>10, <1>11, <3>1, <5>1
      <4>2. \A c \in S1 \ {Root} : h[c].up \in S1
        <5>. TAKE c \in S1 \ {Root}
        <5>1. c # x /\ c \in Blocks /\ h[c].up \in T /\ g[c].up \in S
          BY <1>10, <3>0, <3>1
        <5>. QED BY <1>11, <5>1
      <4>3. S1 \in SUBSET Dirs(h)
        BY <3>0
      <4>. HIDE DEF S1
      <4>4. Root \in S1
        BY <1>1, <4>1, <4>2, <4>3 DEF HeapParts, ToRoot
      <4>. QED BY <4>4 DEF S1
    <3>2. CASE ~(u.kind = "dir" /\ x \in S)
      <4>1. \A c \in S \ {Root} : h[c].up \in S
        BY <1>11, <3>0, <3>2
      <4>. QED BY <1>1, <3>0, <4>1 DEF HeapParts, ToRoot
    <3>. QED BY <3>1, <3>2
  <2>. QED BY <2>1, <2>2, <2>3, <2>4, <2>5, <2>6, <2>7 DEF HeapParts
<1>15. OpenDirsOK(e)
  BY <1>1, <1>9, <1>11, DiskParts DEF OpenDirsOK, g, h
<1>16. DiskOK(e, F)
  <2>1. HeapOK(e.heap)
    BY <1>14, HeapIs DEF g
  <2>2. \A y, k : LiveAt(d.heap, y, k) /\ ~(y = a /\ k = i) =>
               /\ LiveAt(e.heap, y, k) /\ Ent(e.heap, y, k).faddr = Ent(d.heap, y, k).faddr
               /\ Ent(e.heap, y, k).kind = Ent(d.heap, y, k).kind
    BY <1>10, <1>12 DEF h, g
  <2>3. \A j \in F : ~(At(d.fd, j) = a /\ Nr(d.fd, j) = i)
    OBVIOUS
  <2>4. \A y \in FDs \ F : d.fd[y].refcnt > 0 =>
           \A j \in Chain(d.fd, y) \ {ROOT} : ~(At(d.fd, j) = a /\ Nr(d.fd, j) = i)
    OBVIOUS
  <2>5. e \in DiskType /\ e.fd = d.fd
    BY <1>9
  <2>. QED BY ONLY DiskOK(d, F), <1>15, <2>1, <2>2, <2>3, <2>4, <2>5, KeepEntries, ZenonT(40)
<1>. QED BY <1>9, <1>16

\* Disk e is d, but for the block of DD dd, which has moved to a longer one at b
GrownTo(d, F, dd, b, e) ==
    /\ DiskOK(e, F) /\ e.fd = d.fd /\ e.dhd = d.dhd /\ DirOf(e, dd) = b
    /\ \A k : LiveAt(e.heap, b, k) <=> LiveAt(d.heap, DirOf(d, dd), k)
    /\ \A k : LiveAt(e.heap, b, k) => Ent(e.heap, b, k) = Ent(d.heap, DirOf(d, dd), k)
    /\ DOMAIN e.heap[b].ent = 1..(Len(d.heap[DirOf(d, dd)].ent) + DEFAULTDIR)
    /\ \A x, k : LiveAt(d.heap, x, k) /\ x # DirOf(d, dd) /\ ~(x = At(d.fd, dd) /\ k = Nr(d.fd, dd))
                 => LiveAt(e.heap, x, k) /\ Ent(e.heap, x, k) = Ent(d.heap, x, k)
    /\ \A i \in FDs \ F : d.fd[i].refcnt > 0 /\ i # dd => DirOf(e, i) = DirOf(d, i)

\* A directory that nothing but its own entry leads to moves to a longer block.
LEMMA Grown ==
    ASSUME NEW d, NEW F, DiskOK(d, F), NEW dd \in FDs \ F, d.fd[dd].refcnt > 0,
           ~ BlockInUse(d, DirOf(d, dd)), NEW b \in Kmalloc(d), NEW e, e = Grow(d, dd, b)
    PROVE  GrownTo(d, F, dd, b, e)
<1>. DEFINE h == d.heap
            g == e.heap
            a == DirOf(d, dd)
            p == At(d.fd, dd)
            q == Nr(d.fd, dd)
            n == Len(h[a].ent)
            s == [k \in 1..(n + DEFAULTDIR) |-> IF k <= n THEN h[a].ent[k] ELSE FreeEntry]
            longer == [h[a] EXCEPT !.ent = s]
            u == Ent(h, p, q)
            v == [u EXCEPT !.faddr = b]
            m == PutBlock(d, b, longer)
            w == PutBlock(m, a, NoBlock)
<1>1. d \in DiskType /\ HeapOK(h) /\ HeapParts(h) /\ h \in HeapType /\ OpenDirsOK(d) /\ RootOK(d, F)
      /\ d.fd \in FdTable /\ F \subseteq FDs /\ FilesOK(d, F) /\ OneDD(d, F)
  BY DiskOKParts, HeapIs
<1>2. /\ a # Root /\ ~ dir_is_open(d, a)
      /\ \A i \in FDs \ {ROOT} : d.fd[i].file # NULL => At(d.fd, i) # a
      /\ \A k \in Live(d, a) : d.heap[a].ent[k].kind # "dir"
  BY Zenon DEF BlockInUse, At
<1>3. Rooted(d, F, dd) /\ GoodDD(d, F, dd)
  BY <1>1, LockedRooted, ChainClosed DEF Rooted
<1>4. dd # ROOT
  BY <1>1, <1>2, RootFacts
<1>5. /\ LiveAt(h, p, q) /\ d.fd[dd].file # NULL /\ Entry(d, d.fd[dd].file) = u /\ a = u.faddr
      /\ u.kind = "dir" /\ d.fd[dd].file = << p, q >>
  <2>. HIDE DEF u, a, p, q
  <2>1. LiveAt(h, p, q) /\ d.fd[dd].file # NULL /\ Entry(d, d.fd[dd].file) = u /\ a = u.faddr
        /\ Entry(d, d.fd[dd].file).kind = "dir"
    BY <1>1, <1>3, <1>4, GoodFacts DEF u, a, p, q, GoodDD
  <2>2. d.fd[dd].file = << p, q >>
    BY <1>1, <2>1, FilePair DEF p, q
  <2>. QED BY <2>1, <2>2
<1>6. b \in Addr /\ h[b].kind = NULL /\ b \in Blocks /\ b # Root
  BY Constants DEF Kmalloc, FreeAddr
<1>. HIDE DEF a, p, q, u
<1>7. /\ p \in Blocks /\ q \in DOMAIN h[p].ent /\ a \in Addr /\ a # p /\ a \in Blocks
      /\ u \in EntryType /\ h[p].kind = "dir" /\ h[a].kind = "dir" /\ h[a].up = p /\ p # b /\ a # b
  <2>1. /\ p \in Dirs(h) /\ p \in Blocks /\ q \in DOMAIN h[p].ent /\ u \in EntryType /\ u.faddr \in Addr
        /\ u.faddr # p /\ u.faddr \in Dirs(h) /\ h[u.faddr].up = p
    BY <1>1, <1>5, LeadsTo DEF u
  <2>. QED BY <1>5, <1>6, <2>1, Constants DEF Dirs, Kinds
<1>8. /\ h[a] \in BlockType /\ n \in Nat /\ s \in Seq(EntryType) /\ DOMAIN s = 1..(n + DEFAULTDIR)
      /\ \A k \in DOMAIN s : s[k] = IF k <= n THEN Ent(h, a, k) ELSE FreeEntry
      /\ DOMAIN h[a].ent = 1..n
  <2>1. h[a] \in BlockType /\ h[a].ent \in Seq(EntryType)
    BY <1>1, <1>7 DEF HeapType, BlockType
  <2>2. FreeEntry \in EntryType
    BY DEF FreeEntry, EntryType
  <2>3. n \in Nat /\ DOMAIN h[a].ent = 1..n /\ \A k \in 1..n : h[a].ent[k] \in EntryType
    BY <2>1
  <2>4. DEFAULTDIR \in Nat
    BY RamAssumption
  <2>. HIDE DEF n, h
  <2>5. \A k \in 1..(n + DEFAULTDIR) : s[k] \in EntryType
    BY <2>2, <2>3, <2>4
  <2>6. n + DEFAULTDIR \in Nat
    BY <2>3, <2>4
  <2>7. s \in [1..(n + DEFAULTDIR) -> EntryType]
    BY <2>5
  <2>8. s \in Seq(EntryType)
    BY <2>6, <2>7
  <2>. QED BY <2>1, <2>3, <2>8 DEF Ent
<1>9. /\ longer \in BlockType /\ longer.kind = "dir" /\ longer.up = p /\ longer.ent = s
  <2>. HIDE DEF s, h
  <2>. QED BY <1>7, <1>8 DEF BlockType
<1>10. v \in EntryType /\ v.name = u.name /\ v.kind = "dir" /\ v.faddr = b
  BY <1>5, <1>6, <1>7 DEF EntryType
<1>11. NoBlock \in BlockType /\ NoBlock.kind = NULL /\ NoBlock.ent = << >>
  BY DEF NoBlock, BlockType, Path
<1>12. e = PutEntry(w, p, q, v)
  <2>1. e = PutEntry(w, d.fd[dd].file[1], d.fd[dd].file[2], [Entry(d, d.fd[dd].file) EXCEPT !.faddr = b])
    BY Zenon DEF Grow, a
  <2>. HIDE DEF w
  <2>. QED BY <1>5, <2>1
<1>. HIDE DEF v, s, n, longer
<1>13. /\ m \in DiskType /\ m.fd = d.fd /\ m.dhd = d.dhd
       /\ m.heap[b] = longer /\ \A c \in Blocks \ {b} : m.heap[c] = h[c]
  <2>1. m = PutBlock(d, b, longer)
    OBVIOUS
  <2>. HIDE DEF m
  <2>. QED BY ONLY <1>1, <1>6, <1>9, <2>1, PutBlockIs
<1>14. /\ w \in DiskType /\ w.fd = d.fd /\ w.dhd = d.dhd
       /\ w.heap[a] = NoBlock /\ w.heap[b] = longer /\ \A c \in Blocks \ {a, b} : w.heap[c] = h[c]
  <2>1. w = PutBlock(m, a, NoBlock)
    OBVIOUS
  <2>. HIDE DEF w, m
  <2>2. /\ w \in DiskType /\ w.fd = m.fd /\ w.dhd = m.dhd
        /\ w.heap[a] = NoBlock /\ \A c \in Blocks \ {a} : w.heap[c] = m.heap[c]
    BY ONLY <1>7, <1>11, <1>13, <2>1, PutBlockIs
  <2>. QED BY <1>6, <1>7, <1>13, <2>2
<1>15. /\ e \in DiskType /\ e.fd = d.fd /\ e.dhd = d.dhd
       /\ g[a] = NoBlock /\ g[b] = longer /\ \A c \in Blocks \ {a, b, p} : g[c] = h[c]
       /\ g[p].kind = h[p].kind /\ g[p].up = h[p].up
       /\ DOMAIN g[p].ent = DOMAIN h[p].ent /\ Ent(g, p, q) = v
       /\ \A l : l # q => Ent(g, p, l) = Ent(h, p, l) \/ l \notin DOMAIN h[p].ent
  <2>1. w.heap[p] = h[p] /\ q \in DOMAIN w.heap[p].ent /\ \A l : Ent(w.heap, p, l) = Ent(h, p, l)
    BY <1>7, <1>14 DEF Ent
  <2>. HIDE DEF w, m
  <2>2. /\ e \in DiskType /\ e.fd = w.fd /\ e.dhd = w.dhd
        /\ \A c \in Blocks \ {p} : e.heap[c] = w.heap[c]
        /\ e.heap[p].kind = w.heap[p].kind /\ e.heap[p].up = w.heap[p].up
        /\ DOMAIN e.heap[p].ent = DOMAIN w.heap[p].ent /\ Ent(e.heap, p, q) = v
        /\ \A l : l # q => Ent(e.heap, p, l) = Ent(w.heap, p, l) \/ l \notin DOMAIN w.heap[p].ent
    BY ONLY <1>7, <1>10, <1>12, <1>14, <2>1, PutEntryIs, SMTT(30)
  <2>. QED BY <1>6, <1>7, <1>14, <2>1, <2>2
<1>. HIDE DEF h, g, m, w
<1>16. \A k : LiveAt(h, a, k) => Ent(h, a, k).kind # "dir"
  BY <1>2, <1>1, <1>7, LiveIs DEF h, Ent
<1>17. \A x, k : LiveAt(h, x, k) => x # b /\ Ent(h, x, k).faddr # b /\ Ent(h, x, k).faddr \in Blocks
                                    /\ (Ent(h, x, k).faddr = a => x = p /\ k = q)
  <2>. TAKE x, k
  <2>. HAVE LiveAt(h, x, k)
  <2>1. h[x].kind = "dir" /\ Ent(h, x, k).faddr \in Addr /\ h[Ent(h, x, k).faddr].kind # NULL
    BY <1>1, LeadsTo DEF Dirs
  <2>2. Ent(h, x, k).faddr = a => x = p /\ k = q
    BY <1>1, <1>5 DEF HeapParts, u, h
  <2>. QED BY <1>6, <2>1, <2>2, Constants DEF Kinds
\* the entries in use
<1>18. ASSUME NEW k
       PROVE  /\ ~ LiveAt(g, a, k)
              /\ LiveAt(g, b, k) <=> LiveAt(h, a, k)
              /\ LiveAt(g, b, k) => Ent(g, b, k) = Ent(h, a, k)
  <2>1. ~ LiveAt(g, a, k)
    BY <1>11, <1>15 DEF LiveAt
  <2>2. g[b].ent = s
    BY <1>9, <1>15
  <2>3. FreeEntry.faddr = NULL
    BY DEF FreeEntry
  <2>4. DEFAULTDIR \in Nat
    BY RamAssumption
  <2>5. LiveAt(g, b, k) <=> k \in DOMAIN s /\ s[k].faddr # NULL
    BY <1>6, <2>2 DEF LiveAt, Ent
  <2>6. LiveAt(h, a, k) <=> k \in 1..n /\ Ent(h, a, k).faddr # NULL
    BY <1>7, <1>8 DEF LiveAt
  <2>7. k \in DOMAIN s /\ s[k].faddr # NULL => k \in 1..n /\ s[k] = Ent(h, a, k)
    BY <1>8, <2>3
  <2>8. k \in 1..n => k \in DOMAIN s /\ s[k] = Ent(h, a, k)
    BY <1>8, <2>4
  <2>9. Ent(g, b, k) = s[k]
    BY <2>2 DEF Ent
  <2>. QED BY <2>1, <2>5, <2>6, <2>7, <2>8, <2>9
<1>19. ASSUME NEW x, NEW k, x # a, x # b
       PROVE  /\ LiveAt(g, x, k) <=> LiveAt(h, x, k)
              /\ LiveAt(g, x, k) => Ent(g, x, k) = IF x = p /\ k = q THEN v ELSE Ent(h, x, k)
  <2>1. CASE x = p
    <3>1. v.faddr # NULL
      BY <1>6, <1>10, Constants
    <3>. QED BY <1>5, <1>10, <1>15, <2>1, <3>1 DEF LiveAt
  <2>2. CASE x # p
    BY <1>15, <1>19, <2>2 DEF LiveAt, Ent
  <2>. QED BY <2>1, <2>2
\* an entry in use, and the one it was
<1>20. ASSUME NEW x, NEW k, LiveAt(g, x, k)
       PROVE  \/ x = b /\ LiveAt(h, a, k) /\ Ent(g, x, k) = Ent(h, a, k) /\ Ent(g, x, k).kind # "dir"
                 /\ Ent(g, x, k).faddr # a /\ Ent(g, x, k).faddr # b
              \/ x = p /\ k = q /\ Ent(g, x, k) = v
              \/ x # a /\ x # b /\ LiveAt(h, x, k) /\ ~(x = p /\ k = q) /\ Ent(g, x, k) = Ent(h, x, k)
                 /\ Ent(g, x, k).faddr # a /\ Ent(g, x, k).faddr # b
  <2>1. x # a
    BY <1>18, <1>20
  <2>2. CASE x = b
    BY <1>7, <1>16, <1>17, <1>18, <1>20, <2>2
  <2>3. CASE x # b
    BY <1>17, <1>19, <1>20, <2>1, <2>3
  <2>. QED BY <2>2, <2>3
<1>21. \A c \in Blocks \ {a, b} : g[c].kind = h[c].kind /\ g[c].up = h[c].up
  BY <1>15
<1>22. HeapParts(g)
  <2>1. g \in HeapType /\ g[Root].kind = "dir"
    BY <1>1, <1>2, <1>6, <1>15, <1>21, DiskParts, Constants DEF HeapParts, g
  <2>2. ASSUME NEW c \in Blocks, g[c].kind # "dir" PROVE g[c].ent = << >>
    <3>1. CASE c = a
      BY <1>11, <1>15, <3>1
    <3>2. CASE c # a
      <4>1. c # b /\ c # p
        BY <1>7, <1>9, <1>15, <2>2
      <4>. QED BY <1>1, <1>15, <2>2, <3>2, <4>1 DEF HeapParts
    <3>. QED BY <3>1, <3>2
  <2>3. ASSUME NEW x, NEW k, LiveAt(g, x, k)
        PROVE  /\ Ent(g, x, k).name \in Name
               /\ Ent(g, x, k).kind = g[Ent(g, x, k).faddr].kind
               /\ Ent(g, x, k).kind \in Kinds
               /\ Ent(g, x, k).kind = "dir" => g[Ent(g, x, k).faddr].up = x
    <3>1. CASE x = b /\ LiveAt(h, a, k) /\ Ent(g, x, k) = Ent(h, a, k) /\ Ent(g, x, k).kind # "dir"
               /\ Ent(g, x, k).faddr # a /\ Ent(g, x, k).faddr # b
      <4>1. Ent(h, a, k).faddr \in Blocks
        BY <1>17, <3>1
      <4>. QED BY <1>1, <1>21, <3>1, <4>1 DEF HeapParts
    <3>2. CASE x = p /\ k = q /\ Ent(g, x, k) = v
      <4>1. u.name \in Name /\ "dir" \in Kinds
        BY <1>1, <1>5 DEF HeapParts, u, h, Kinds
      <4>. QED BY <1>9, <1>10, <1>15, <3>2, <4>1
    <3>3. CASE x # a /\ x # b /\ LiveAt(h, x, k) /\ ~(x = p /\ k = q) /\ Ent(g, x, k) = Ent(h, x, k)
               /\ Ent(g, x, k).faddr # a /\ Ent(g, x, k).faddr # b
      <4>1. Ent(h, x, k).faddr \in Blocks
        BY <1>17, <3>3
      <4>. QED BY <1>1, <1>21, <3>3, <4>1 DEF HeapParts
    <3>. QED BY <1>20, <2>3, <3>1, <3>2, <3>3
  <2>4. ASSUME NEW x, NEW k, NEW y, NEW l, LiveAt(g, x, k), LiveAt(g, y, l), Ent(g, x, k).faddr = Ent(g, y, l).faddr
        PROVE  x = y /\ k = l
    <3>1. \A i, j, c : LiveAt(h, i, j) /\ LiveAt(h, c, l) /\ Ent(h, i, j).faddr = Ent(h, c, l).faddr => i = c /\ j = l
      BY <1>1 DEF HeapParts
    <3>. QED BY <1>10, <1>20, <2>4, <3>1
  <2>5. ASSUME NEW c \in Addr, g[c].kind # NULL PROVE \E x, k : LiveAt(g, x, k) /\ Ent(g, x, k).faddr = c
    <3>1. CASE c = b
      <4>1. LiveAt(h, p, q)
        BY <1>5 DEF h
      <4>2. p # a /\ p # b
        BY <1>7
      <4>3. LiveAt(g, p, q) /\ Ent(g, p, q).faddr = b
        BY <1>10, <1>15, <1>19, <4>1, <4>2
      <4>. QED BY <3>1, <4>3
    <3>2. CASE c # b
      <4>1. c # a
        BY <1>11, <1>15, <2>5
      <4>2. PICK x, k : LiveAt(h, x, k) /\ Ent(h, x, k).faddr = c
        BY <1>1, <1>21, <2>5, <3>2, <4>1, Constants DEF HeapParts
      <4>3. ~(x = p /\ k = q) /\ x # b
        BY <1>5, <1>17, <4>1, <4>2 DEF u, h
      <4>4. CASE x = a
        BY <1>18, <4>2, <4>4
      <4>5. CASE x # a
        BY <1>19, <4>2, <4>3, <4>5
      <4>. QED BY <4>4, <4>5
    <3>. QED BY <3>1, <3>2
  <2>6. ASSUME NEW x, NEW k, NEW l, LiveAt(g, x, k), LiveAt(g, x, l), Ent(g, x, k).name = Ent(g, x, l).name
        PROVE  k = l
    <3>1. \A i, j, o : LiveAt(h, i, j) /\ LiveAt(h, i, o) /\ Ent(h, i, j).name = Ent(h, i, o).name => j = o
      BY <1>1 DEF HeapParts
    <3>2. CASE x = b
      BY <1>7, <1>20, <2>6, <3>1, <3>2
    <3>3. CASE x # b
      <4>1. x # a
        BY <1>18, <2>6
      <4>2. LiveAt(h, x, k) /\ LiveAt(h, x, l)
        BY <1>19, <2>6, <3>3, <4>1
      <4>3. Ent(g, x, k).name = Ent(h, x, k).name /\ Ent(g, x, l).name = Ent(h, x, l).name
        BY <1>10, <1>19, <2>6, <3>3, <4>1 DEF u
      <4>. QED BY <2>6, <3>1, <4>2, <4>3
    <3>. QED BY <3>2, <3>3
  <2>7. ToRoot(g)
    <3>. SUFFICES ASSUME NEW S \in SUBSET Dirs(g), S # {}, \A c \in S \ {Root} : g[c].up \in S PROVE Root \in S
      BY DEF ToRoot
    <3>. DEFINE S1 == S \ {b}
    <3>1. S1 \in SUBSET Dirs(h) /\ a \notin S
      <4>1. a \notin Dirs(g)
        BY <1>11, <1>15, Constants DEF Dirs, Kinds
      <4>. QED BY <1>21, <4>1 DEF Dirs
    <3>2. S1 # {}
      <4>. SUFFICES ASSUME b \in S PROVE p \in S1
        BY <1>6
      <4>. QED BY <1>6, <1>7, <1>9, <1>15
    <3>3. \A c \in S1 \ {Root} : h[c].up \in S1
      <4>. TAKE c \in S1 \ {Root}
      <4>1. c \in Dirs(h) /\ c # Root /\ c \in Blocks \ {a, b}
        BY <3>1 DEF Dirs
      <4>2. g[c].up \in S /\ g[c].up = h[c].up
        BY <1>21, <4>1
      <4>3. h[c].up \in Dirs(h)
        BY <1>1, <4>1, DirsAbove
      <4>4. h[c].up # b
        BY <1>6, <4>3, Constants DEF Dirs, Kinds
      <4>. QED BY <4>2, <4>4
    <3>. HIDE DEF S1
    <3>4. Root \in S1
      BY <1>1, <3>1, <3>2, <3>3 DEF HeapParts, ToRoot
    <3>. QED BY <3>4 DEF S1
  <2>. QED BY <2>1, <2>2, <2>3, <2>4, <2>5, <2>6, <2>7 DEF HeapParts
<1>23. OpenDirsOK(e)
  <2>1. ASSUME NEW j \in DHDs, d.dhd[j].dir # NULL PROVE g[d.dhd[j].dir].kind = "dir"
    <3>1. h[d.dhd[j].dir].kind = "dir" /\ d.dhd[j].dir \in Blocks
      BY <1>1, <2>1, DiskParts DEF OpenDirsOK, h
    <3>2. d.dhd[j].dir # a /\ d.dhd[j].dir # b
      BY <1>2, <1>6, <3>1, Constants DEF dir_is_open, Kinds
    <3>. QED BY <1>21, <3>1, <3>2
  <2>. QED BY <1>15, <2>1 DEF OpenDirsOK, g
\* what the descriptors lead to
<1>24. ASSUME NEW i \in FDs, i # ROOT, d.fd[i].file # NULL, LiveAt(d.heap, At(d.fd, i), Nr(d.fd, i)),
              i # dd, i \in F \/ GoodDD(d, F, i)
       PROVE  LiveAt(e.heap, At(d.fd, i), Nr(d.fd, i)) /\ Entry(e, d.fd[i].file) = Entry(d, d.fd[i].file)
  <2>. DEFINE x == At(d.fd, i)
              k == Nr(d.fd, i)
  <2>1. d.fd[i].file = << x, k >> /\ x # a
    BY <1>1, <1>2, <1>24, FilePair
  <2>2. ASSUME x = p, k = q PROVE FALSE
    <3>1. d.fd[i].file = d.fd[dd].file
      BY <1>5, <2>1, <2>2
    <3>2. CASE i \in F
      <4>1. Entry(d, d.fd[i].file).kind = "file"
        BY <1>1, <3>2 DEF FilesOK
      <4>. QED BY <1>5, <3>1, <4>1
    <3>3. CASE i \notin F
      BY <1>1, <1>24, <3>1, <3>3 DEF OneDD
    <3>. QED BY <3>2, <3>3
  <2>3. LiveAt(h, x, k)
    BY <1>24 DEF h
  <2>. HIDE DEF x, k
  <2>4. LiveAt(g, x, k) /\ Ent(g, x, k) = Ent(h, x, k)
    <3>1. x # b
      BY <1>17, <2>3
    <3>. QED BY <1>19, <2>1, <2>2, <2>3, <3>1
  <2>5. Entry(d, << x, k >>) = Ent(h, x, k)
    BY <1>1, <2>3, EntryAt DEF h
  <2>6. Entry(e, << x, k >>) = Ent(g, x, k)
    BY <1>22, <2>4, EntryAt DEF HeapParts, g
  <2>. QED BY <2>1, <2>4, <2>5, <2>6 DEF x, k, g
<1>25. LiveAt(e.heap, p, q) /\ Entry(e, d.fd[dd].file) = v /\ DirOf(e, dd) = b
  <2>1. LiveAt(g, p, q) /\ Ent(g, p, q) = v
    <3>1. LiveAt(h, p, q) /\ p # a /\ p # b
      BY <1>5, <1>7 DEF h
    <3>. QED BY <1>15, <1>19, <3>1
  <2>2. Entry(e, << p, q >>) = Ent(g, p, q)
    BY <1>22, <2>1, EntryAt DEF HeapParts, g
  <2>. QED BY <1>5, <1>10, <1>15, <2>1, <2>2 DEF DirOf, g
<1>26. ASSUME NEW i \in FDs \ F, d.fd[i].refcnt > 0, NEW j \in Chain(d.fd, i)
       PROVE  /\ j \in FDs \ F /\ GoodDD(d, F, j) /\ (j # dd => DirOf(e, j) = DirOf(d, j))
              /\ j # ROOT => LiveAt(e.heap, At(d.fd, j), Nr(d.fd, j)) /\ Entry(e, d.fd[j].file).kind = "dir"
  <2>1. j \in FDs \ F /\ GoodDD(d, F, j)
    BY <1>26, ChainUsed
  <2>2. CASE j = ROOT
    <3>1. e.fd[ROOT].file = root_de /\ d.fd[ROOT].file = root_de
      BY <1>1, <1>15 DEF RootOK
    <3>. QED BY <2>1, <2>2, <3>1 DEF DirOf, Entry
  <2>3. CASE j = dd
    BY <1>10, <1>25, <2>1, <2>3 DEF p, q
  <2>4. CASE j # ROOT /\ j # dd
    <3>1. d.fd[j].file # NULL /\ LiveAt(d.heap, At(d.fd, j), Nr(d.fd, j)) /\ Entry(d, d.fd[j].file).kind = "dir"
      BY <2>1, <2>4 DEF GoodDD
    <3>. QED BY <1>15, <1>24, <2>1, <2>4, <3>1 DEF DirOf
  <2>. QED BY <2>2, <2>3, <2>4
<1>27. ASSUME NEW i \in FDs \ F, d.fd[i].refcnt > 0, NEW j \in Chain(d.fd, i)
       PROVE  GoodDD(e, F, j)
  <2>1. j \in FDs \ F /\ GoodDD(d, F, j)
    BY <1>26, <1>27
  <2>2. ASSUME j # ROOT PROVE DirOf(e, d.fd[j].parent) = At(d.fd, j)
    <3>1. d.fd[j].parent \in Chain(d.fd, i) \cup {NULL}
      BY <1>1, <1>27, ChainClosed
    <3>2. d.fd[j].parent \in Chain(d.fd, i) /\ At(d.fd, j) = DirOf(d, d.fd[j].parent) /\ d.fd[j].file # NULL
      BY <2>1, <2>2, <3>1, Constants DEF GoodDD
    <3>3. d.fd[j].parent # dd
      BY <1>2, <2>1, <2>2, <3>2 DEF a
    <3>. QED BY <1>26, <1>27, <3>2, <3>3
  <2>. QED BY <1>15, <1>26, <1>27, <2>1, <2>2 DEF GoodDD, At, Nr
<1>28. DiskOK(e, F)
  <2>1. \A i \in F : LiveAt(e.heap, At(d.fd, i), Nr(d.fd, i)) /\ Entry(e, d.fd[i].file).kind = "file"
    <3>. TAKE i \in F
    <3>1. d.fd[i].file # NULL /\ LiveAt(d.heap, At(d.fd, i), Nr(d.fd, i)) /\ Entry(d, d.fd[i].file).kind = "file"
      BY <1>1 DEF FilesOK
    <3>2. i \in FDs /\ i # ROOT /\ i # dd
      BY <1>1 DEF RootOK
    <3>. QED BY <1>24, <3>1, <3>2
  <2>2. HeapOK(e.heap)
    BY <1>22, HeapIs DEF g
  <2>3. e \in DiskType /\ e.fd = d.fd
    BY <1>15
  <2>. QED BY <1>23, <1>27, <2>1, <2>2, <2>3, HeapFrame
<1>29. DOMAIN g[b].ent = 1..(n + DEFAULTDIR)
  BY <1>8, <1>9, <1>15
<1>30. \A x, k : LiveAt(h, x, k) /\ x # a /\ ~(x = p /\ k = q) => LiveAt(g, x, k) /\ Ent(g, x, k) = Ent(h, x, k)
  BY <1>17, <1>19
<1>31. \A i \in FDs \ F : d.fd[i].refcnt > 0 /\ i # dd => DirOf(e, i) = DirOf(d, i)
  BY <1>1, <1>26, ChainClosed
<1>. QED BY <1>15, <1>18, <1>25, <1>28, <1>29, <1>30, <1>31 DEF g, h, a, n, p, q, GrownTo

-----------------------------------------------------------------------------
(* XFS functions *)

\* The first free entry of a block.
LEMMA FirstFreeIs ==
    ASSUME NEW d, d.heap \in HeapType, NEW a \in Blocks, NEW f, f = FirstFree(d, a)
    PROVE  /\ d.heap[a].ent \in Seq(EntryType) /\ DOMAIN d.heap[a].ent = 1..Len(d.heap[a].ent)
           /\ f \in 1..(Len(d.heap[a].ent) + 1) /\ ~ LiveAt(d.heap, a, f)
           /\ Full(d, a) <=> f \notin DOMAIN d.heap[a].ent
           /\ \A k \in 1..(Len(d.heap[a].ent) + 1) : ~ LiveAt(d.heap, a, k) => f <= k
<1>. DEFINE n == Len(d.heap[a].ent)
            S == (1..(n + 1)) \ Live(d, a)
<1>1. d.heap[a].ent \in Seq(EntryType) /\ n \in Nat /\ DOMAIN d.heap[a].ent = 1..n
  BY DEF HeapType, BlockType
<1>2. \A k : k \in Live(d, a) <=> LiveAt(d.heap, a, k)
  BY LiveIs
<1>3. n + 1 \notin Live(d, a)
  <2>1. ~ LiveAt(d.heap, a, n + 1)
    <3>1. DOMAIN d.heap[a].ent = 1..n /\ n \in Nat
      BY <1>1
    <3>. HIDE DEF n
    <3>. QED BY <3>1 DEF LiveAt
  <2>. HIDE DEF n
  <2>. QED BY <1>2, <2>1
<1>4. f = Min(S)
  BY DEF FirstFree
<1>5. S \in SUBSET Nat /\ S # {} /\ \A k : k \in S <=> k \in 1..(n + 1) /\ ~ LiveAt(d.heap, a, k)
  BY <1>1, <1>2, <1>3
<1>. HIDE DEF S
<1>6. f \in S /\ \A m \in S : f <= m
  BY <1>4, <1>5, MinOf
<1>7. Full(d, a) <=> f \notin DOMAIN d.heap[a].ent
  BY DEF Full, Slots
<1>. QED BY <1>1, <1>5, <1>6, <1>7

\* After new_file there is room for an entry where the first free one was, or
\* would have been.
LEMMA Room ==
    ASSUME NEW d, NEW F, DiskOK(d, F), NEW dd \in FDs \ F, d.fd[dd].refcnt > 0,
           MayGrow(d, dd), NEW g \in new_file(d, dd),
           NEW a, a = DirOf(d, dd), NEW b, b = DirOf(g, dd)
    PROVE  /\ DiskOK(g, F) /\ g.fd = d.fd /\ g.dhd = d.dhd /\ a \in Blocks /\ b \in Dirs(g.heap)
           /\ FirstFree(g, b) = FirstFree(d, a)
           /\ FirstFree(g, b) \in DOMAIN g.heap[b].ent /\ ~ LiveAt(g.heap, b, FirstFree(g, b))
           /\ \A k : LiveAt(g.heap, b, k) <=> LiveAt(d.heap, a, k)
           /\ \A k : LiveAt(g.heap, b, k) => Ent(g.heap, b, k) = Ent(d.heap, a, k)
           /\ \A x, k : LiveAt(d.heap, x, k) /\ x # a /\ ~(x = At(d.fd, dd) /\ k = Nr(d.fd, dd))
                        => LiveAt(g.heap, x, k) /\ Ent(g.heap, x, k) = Ent(d.heap, x, k)
           /\ \A i \in FDs \ F : d.fd[i].refcnt > 0 /\ i # dd => DirOf(g, i) = DirOf(d, i)
<1>1. /\ d \in DiskType /\ HeapOK(d.heap) /\ d.heap \in HeapType /\ RootOK(d, F) /\ GoodDD(d, F, dd)
  BY DiskOKParts, LockedRooted, ChainClosed DEF Rooted
<1>2. a \in Dirs(d.heap) /\ a \in Blocks
  BY <1>1, GoodDir
<1>3. CASE ~ Full(d, a)
  <2>1. g = d
    BY <1>3 DEF new_file
  <2>2. FirstFree(d, a) \in DOMAIN d.heap[a].ent /\ ~ LiveAt(d.heap, a, FirstFree(d, a))
    BY <1>1, <1>2, <1>3, FirstFreeIs
  <2>. QED BY <1>2, <2>1, <2>2
<1>4. CASE Full(d, a)
  <2>1. PICK c \in Kmalloc(d) : g = Grow(d, dd, c)
    BY <1>4 DEF new_file
  <2>2. c \in Kmalloc(d) /\ ~ BlockInUse(d, DirOf(d, dd))
    BY <1>4 DEF MayGrow
  <2>3. /\ DiskOK(g, F) /\ g.fd = d.fd /\ g.dhd = d.dhd /\ DirOf(g, dd) = c
        /\ \A k : LiveAt(g.heap, c, k) <=> LiveAt(d.heap, DirOf(d, dd), k)
        /\ \A k : LiveAt(g.heap, c, k) => Ent(g.heap, c, k) = Ent(d.heap, DirOf(d, dd), k)
        /\ DOMAIN g.heap[c].ent = 1..(Len(d.heap[DirOf(d, dd)].ent) + DEFAULTDIR)
        /\ \A x, k : LiveAt(d.heap, x, k) /\ x # DirOf(d, dd) /\ ~(x = At(d.fd, dd) /\ k = Nr(d.fd, dd))
                     => LiveAt(g.heap, x, k) /\ Ent(g.heap, x, k) = Ent(d.heap, x, k)
        /\ \A i \in FDs \ F : d.fd[i].refcnt > 0 /\ i # dd => DirOf(g, i) = DirOf(d, i)
    <3>1. GrownTo(d, F, dd, c, g)
      BY ONLY DiskOK(d, F), dd \in FDs \ F, d.fd[dd].refcnt > 0, <2>1, <2>2, Grown
    <3>. QED BY <3>1 DEF GrownTo
  <2>4. /\ g \in DiskType /\ HeapOK(g.heap) /\ g.heap \in HeapType /\ RootOK(g, F) /\ GoodDD(g, F, dd)
    BY <2>3, DiskOKParts, LockedRooted, ChainClosed DEF Rooted
  <2>5. b = c /\ b \in Dirs(g.heap) /\ b \in Blocks
    BY <2>3, <2>4, GoodDir
  <2>. DEFINE n == Len(d.heap[a].ent)
              f == FirstFree(d, a)
  <2>6. /\ n \in Nat /\ DOMAIN d.heap[a].ent = 1..n
        /\ f \in 1..(n + 1) /\ ~ LiveAt(d.heap, a, f) /\ f \notin DOMAIN d.heap[a].ent
        /\ \A k \in 1..(n + 1) : ~ LiveAt(d.heap, a, k) => f <= k
    <3>1. d.heap[a].ent \in Seq(EntryType)
      BY <1>1, <1>2, FirstFreeIs
    <3>. QED BY <1>1, <1>2, <1>4, <3>1, FirstFreeIs
  <2>. HIDE DEF f, n
  <2>7. f = n + 1
    BY <2>6
  <2>8. DEFAULTDIR \in Nat \ {0}
    BY RamAssumption
  <2>9. DOMAIN g.heap[b].ent = 1..(n + DEFAULTDIR) /\ DOMAIN g.heap[b].ent = 1..Len(g.heap[b].ent)
        /\ g.heap[b].ent \in Seq(EntryType)
    BY <2>3, <2>4, <2>5, FirstFreeIs DEF n
  <2>10. f \in DOMAIN g.heap[b].ent /\ ~ LiveAt(g.heap, b, f)
    BY <2>3, <2>5, <2>6, <2>7, <2>8, <2>9
  <2>11. FirstFree(g, b) = f
    <3>. DEFINE e == FirstFree(g, b)
                l == Len(g.heap[b].ent)
    <3>1. /\ e \in 1..(l + 1) /\ ~ LiveAt(g.heap, b, e)
          /\ \A k \in 1..(l + 1) : ~ LiveAt(g.heap, b, k) => e <= k
      BY <2>4, <2>5, FirstFreeIs
    <3>2. l \in Nat
      BY <2>9
    <3>. HIDE DEF e, l
    <3>3. e <= f
      BY <2>9, <2>10, <3>1, <3>2 DEF l
    <3>4. ~ LiveAt(d.heap, a, e)
      BY <2>3, <2>5, <3>1
    <3>5. e \in 1..(n + 1)
      BY <2>6, <2>7, <3>1, <3>2, <3>3
    <3>. QED BY <2>6, <2>7, <3>1, <3>2, <3>3, <3>4, <3>5 DEF e
  <2>. QED BY <1>2, <2>3, <2>5, <2>10, <2>11 DEF f
<1>. QED BY <1>3, <1>4

\* The same without names for the two blocks.
LEMMA RoomHere ==
    ASSUME NEW d, NEW F, DiskOK(d, F), NEW dd \in FDs \ F, d.fd[dd].refcnt > 0,
           MayGrow(d, dd), NEW g \in new_file(d, dd)
    PROVE  LET a == DirOf(d, dd)
               b == DirOf(g, dd)
           IN  /\ DiskOK(g, F) /\ g.fd = d.fd /\ g.dhd = d.dhd /\ a \in Blocks /\ b \in Dirs(g.heap)
               /\ FirstFree(g, b) = FirstFree(d, a)
               /\ FirstFree(g, b) \in DOMAIN g.heap[b].ent /\ ~ LiveAt(g.heap, b, FirstFree(g, b))
               /\ \A k : LiveAt(g.heap, b, k) <=> LiveAt(d.heap, a, k)
               /\ \A k : LiveAt(g.heap, b, k) => Ent(g.heap, b, k) = Ent(d.heap, a, k)
               /\ \A x, k : LiveAt(d.heap, x, k) /\ x # a /\ ~(x = At(d.fd, dd) /\ k = Nr(d.fd, dd))
                            => LiveAt(g.heap, x, k) /\ Ent(g.heap, x, k) = Ent(d.heap, x, k)
               /\ \A i \in FDs \ F : d.fd[i].refcnt > 0 /\ i # dd => DirOf(g, i) = DirOf(d, i)
<1>1. PICK a : a = DirOf(d, dd)
  OBVIOUS
<1>2. PICK b : b = DirOf(g, dd)
  OBVIOUS
<1>3. /\ DiskOK(g, F) /\ g.fd = d.fd /\ g.dhd = d.dhd /\ a \in Blocks /\ b \in Dirs(g.heap)
      /\ FirstFree(g, b) = FirstFree(d, a)
      /\ FirstFree(g, b) \in DOMAIN g.heap[b].ent /\ ~ LiveAt(g.heap, b, FirstFree(g, b))
      /\ \A k : LiveAt(g.heap, b, k) <=> LiveAt(d.heap, a, k)
      /\ \A k : LiveAt(g.heap, b, k) => Ent(g.heap, b, k) = Ent(d.heap, a, k)
  BY <1>1, <1>2, Room
<1>4. \A x, k : LiveAt(d.heap, x, k) /\ x # a /\ ~(x = At(d.fd, dd) /\ k = Nr(d.fd, dd))
                => LiveAt(g.heap, x, k) /\ Ent(g.heap, x, k) = Ent(d.heap, x, k)
  BY <1>1, <1>2, Room
<1>5. \A i \in FDs \ F : d.fd[i].refcnt > 0 /\ i # dd => DirOf(g, i) = DirOf(d, i)
  BY <1>1, <1>2, Room
<1>. QED BY <1>1, <1>2, <1>3, <1>4, <1>5

\* A new object.
LEMMA Made ==
    ASSUME NEW d, NEW F, DiskOK(d, F), NEW dd \in FDs \ F, d.fd[dd].refcnt > 0,
           MayGrow(d, dd), NEW n, NEW domain, NEW ob \in BlockType, ob.kind \in Kinds,
           ob.kind # "dir" => ob.ent = << >>, \A k \in DOMAIN ob.ent : ob.ent[k].faddr = NULL,
           n \in Name => \A k : LiveAt(d.heap, DirOf(d, dd), k) => Ent(d.heap, DirOf(d, dd), k).name # NewName(n, domain),
           NEW r \in Make(d, dd, n, ob, domain)
    PROVE  /\ DiskOK(r.disk, F) /\ r.disk.fd = d.fd /\ r.disk.dhd = d.dhd
           /\ r.err # "E_OK" =>  r.err \in {"EACCDN", "ENSMEM"}
           /\ r.err = "E_OK" =>
                 LET b == DirOf(r.disk, dd)
                     f == FirstFree(d, DirOf(d, dd))
                 IN  /\ LiveAt(r.disk.heap, b, f) /\ Ent(r.disk.heap, b, f).kind = ob.kind
                     /\ \A i \in F : d.fd[i].file # << b, f >>
<1>1. CASE r \in EACCDN(d)
  <2>1. r.disk = d /\ r.err = "EACCDN"
    BY <1>1 DEF EACCDN, Answer
  <2>. QED BY <2>1
<1>2. CASE r \notin EACCDN(d)
  <2>. DEFINE new(g, b) == [name |-> NewName(n, domain), kind |-> ob.kind, faddr |-> b]
              block(g) == IF ob.kind = "dir" THEN [ob EXCEPT !.up = DirOf(g, dd)] ELSE ob
              Put(g) == {OK(PutEntry(PutBlock(g, b, block(g)), DirOf(g, dd), FirstFree(g, DirOf(g, dd)), new(g, b))) :
                            b \in Kmalloc(g)} \cup ENSMEM(g)
  <2>1. n \in Name /\ r \in UNION {Put(g) : g \in new_file(d, dd)}
    BY <1>2, Zenon DEF Make
  <2>2. PICK g \in new_file(d, dd) : r \in Put(g)
    BY <2>1
  <2>. DEFINE a == DirOf(d, dd)
              b == DirOf(g, dd)
              f == FirstFree(g, b)
  <2>3. /\ DiskOK(g, F) /\ g.fd = d.fd /\ g.dhd = d.dhd /\ a \in Blocks /\ b \in Dirs(g.heap)
        /\ FirstFree(g, b) = FirstFree(d, a)
        /\ FirstFree(g, b) \in DOMAIN g.heap[b].ent /\ ~ LiveAt(g.heap, b, FirstFree(g, b))
        /\ \A k : LiveAt(g.heap, b, k) <=> LiveAt(d.heap, a, k)
        /\ \A k : LiveAt(g.heap, b, k) => Ent(g.heap, b, k) = Ent(d.heap, a, k)
    BY ONLY DiskOK(d, F), dd \in FDs \ F, d.fd[dd].refcnt > 0, MayGrow(d, dd), g \in new_file(d, dd), RoomHere
  <2>4. CASE r \in ENSMEM(g)
    <3>1. r.disk = g /\ r.err = "ENSMEM"
      BY <2>4 DEF ENSMEM, Answer
    <3>. QED BY <2>3, <3>1
  <2>5. CASE r \notin ENSMEM(g)
    <3>1. PICK c \in Kmalloc(g) : r = OK(PutEntry(PutBlock(g, c, block(g)), b, f, new(g, c)))
      BY <2>2, <2>5
    <3>2. r.disk = PutEntry(PutBlock(g, c, block(g)), b, f, new(g, c)) /\ r.err = "E_OK"
      BY <3>1 DEF OK, Answer
    <3>3. c \in Addr /\ g.heap[c].kind = NULL
      BY DEF Kmalloc, FreeAddr
    <3>. DEFINE blk == block(g)
    <3>4. /\ blk \in BlockType /\ blk.kind = ob.kind /\ blk.ent = ob.ent
          /\ blk.kind = "dir" => blk.up = b
      <4>1. b \in Blocks
        BY <2>3 DEF Dirs
      <4>. HIDE DEF b
      <4>2. CASE ob.kind = "dir"
        <5>1. blk = [ob EXCEPT !.up = b]
          BY <4>2 DEF b
        <5>. HIDE DEF blk
        <5>. QED BY <4>1, <4>2, <5>1 DEF BlockType
      <4>3. CASE ob.kind # "dir"
        BY <4>3
      <4>. QED BY <4>2, <4>3
    <3>5. NewName(n, domain) \in Name
      <4>1. Lower[n] \in Name
        BY <2>1, RamAssumption
      <4>. QED BY <2>1, <4>1 DEF NewName
    <3>6. r.disk = PutEntry(PutBlock(g, c, blk), b, f, [name |-> NewName(n, domain), kind |-> blk.kind, faddr |-> c])
      BY <3>2, <3>4
    <3>7. \A k : LiveAt(g.heap, b, k) => Ent(g.heap, b, k).name # NewName(n, domain)
      BY <2>1, <2>3
    <3>. HIDE DEF blk, b
    <3>8. f \in DOMAIN g.heap[b].ent /\ ~ LiveAt(g.heap, b, f) /\ b \in Dirs(g.heap)
      BY <2>3 DEF b
    <3>9. blk.kind \in Kinds /\ (blk.kind # "dir" => blk.ent = << >>) /\ \A k \in DOMAIN blk.ent : blk.ent[k].faddr = NULL
      BY <3>4
    <3>. HIDE DEF f
    <3>10. /\ DiskOK(r.disk, F) /\ r.disk.fd = g.fd /\ r.disk.dhd = g.dhd
           /\ LiveAt(r.disk.heap, b, f) /\ Ent(r.disk.heap, b, f).kind = blk.kind
           /\ \A i \in FDs \ F : g.fd[i].refcnt > 0 => DirOf(r.disk, i) = DirOf(g, i)
      BY ONLY <2>3, <3>3, <3>4, <3>5, <3>6, <3>7, <3>8, <3>9, PutNew
    <3>11. DirOf(r.disk, dd) = b
      BY <2>3, <3>10 DEF b
    <3>12. f = FirstFree(d, DirOf(d, dd))
      BY <2>3 DEF f, b
    <3>13. \A i \in F : d.fd[i].file # << b, f >>
      <4>1. FilesOK(g, F)
        BY <2>3, DiskOKParts
      <4>2. \A i \in F : LiveAt(g.heap, At(g.fd, i), Nr(g.fd, i))
        BY <4>1 DEF FilesOK
      <4>. TAKE i \in F
      <4>3. d.fd[i].file = << b, f >> => At(d.fd, i) = b /\ Nr(d.fd, i) = f
        BY DEF At, Nr
      <4>. QED BY <2>3, <3>8, <4>2, <4>3
    <3>. QED BY <2>3, <3>2, <3>4, <3>10, <3>11, <3>12, <3>13
  <2>. QED BY <2>4, <2>5
<1>. QED BY <1>1, <1>2

\* An answer that leaves the descriptors as they are
Answered(d, F, r) == DiskOK(r.disk, F) /\ r.disk.fd = d.fd

\* Answers that are errors.
LEMMA Errors ==
    ASSUME NEW d, NEW r, r \in EFILNF(d) \cup EACCDN(d) \cup ENSMEM(d)
    PROVE  r.disk = d /\ r.err # "E_OK"
BY DEF EFILNF, EACCDN, ENSMEM, Answer

\* The blocks of new objects.
LEMMA NewBlocks ==
    /\ LET b == Directory(DEFAULTDIR, NULL)
       IN  b \in BlockType /\ b.kind = "dir" /\ \A k \in DOMAIN b.ent : b.ent[k].faddr = NULL
    /\ \A to \in Path : LinkBlock(to) \in BlockType /\ LinkBlock(to).kind = "link" /\ LinkBlock(to).ent = << >>
    /\ FileBlock \in BlockType /\ FileBlock.kind = "file" /\ FileBlock.ent = << >>
<1>1. /\ NoBlock \in BlockType /\ NoBlock.ent = << >>
      /\ NoBlock = [kind |-> NULL, up |-> NULL, ent |-> << >>, to |-> << >>] /\ << >> \in Path
  BY DEF NoBlock, BlockType, Path
<1>2. FileBlock \in BlockType /\ FileBlock.kind = "file" /\ FileBlock.ent = << >>
  BY <1>1 DEF FileBlock, BlockType, Kinds
<1>3. ASSUME NEW to \in Path
      PROVE  LinkBlock(to) \in BlockType /\ LinkBlock(to).kind = "link" /\ LinkBlock(to).ent = << >>
  <2>1. LinkBlock(to) = [kind |-> "link", up |-> NULL, ent |-> << >>, to |-> to]
    <3>1. LinkBlock(to) = [NoBlock EXCEPT !.kind = "link", !.to = to]
      BY Zenon DEF LinkBlock
    <3>. QED BY <1>1, <3>1
  <2>2. << >> \in Seq(EntryType) /\ NULL \in Blocks \cup {NULL} /\ "link" \in Kinds
    BY DEF Kinds
  <2>. QED BY <2>1, <2>2 DEF BlockType
<1>4. LET b == Directory(DEFAULTDIR, NULL)
      IN  b \in BlockType /\ b.kind = "dir" /\ \A k \in DOMAIN b.ent : b.ent[k].faddr = NULL
  <2>. DEFINE s == [i \in 1..DEFAULTDIR |-> FreeEntry]
  <2>1. s \in Seq(EntryType) /\ \A k \in DOMAIN s : s[k].faddr = NULL
    <3>1. DEFAULTDIR \in Nat
      BY RamAssumption
    <3>2. FreeEntry \in EntryType /\ FreeEntry.faddr = NULL
      BY DEF FreeEntry, EntryType
    <3>3. s \in [1..DEFAULTDIR -> EntryType]
      BY <3>2
    <3>. QED BY <3>1, <3>2, <3>3
  <2>2. Directory(DEFAULTDIR, NULL) = [NoBlock EXCEPT !.kind = "dir", !.up = NULL, !.ent = s]
    BY Zenon DEF Directory
  <2>. HIDE DEF s
  <2>3. Directory(DEFAULTDIR, NULL) = [kind |-> "dir", up |-> NULL, ent |-> s, to |-> << >>]
    BY <1>1, <2>2
  <2>. QED BY <1>1, <2>1, <2>3 DEF BlockType, Kinds
<1>. QED BY <1>2, <1>3, <1>4

\* ramdisk_dcreate and ramdisk_symlink.
LEMMA DcreateOK ==
    ASSUME NEW d, NEW F, DiskOK(d, F), NEW dd \in FDs \ F, d.fd[dd].refcnt > 0,
           MayGrow(d, dd), NEW n, NEW domain \in {"tos", "mint"},
           NEW r \in dcreate(d, dd, n, domain)
    PROVE  Answered(d, F, r)
<1>. DEFINE m == findfile(d, DirOf(d, dd), n, "exist", domain)
            ob == Directory(DEFAULTDIR, NULL)
<1>1. DirOf(d, dd) \in Blocks /\ d.heap \in HeapType
  BY DiskOKParts, LockedRooted, ChainClosed, GoodDir DEF Rooted
<1>2. CASE m # 0
  BY <1>2, Errors DEF dcreate, Answered
<1>3. CASE m = 0
  <2>1. r \in Make(d, dd, n, ob, domain)
    BY <1>3 DEF dcreate
  <2>2. n \in Name => \A k : LiveAt(d.heap, DirOf(d, dd), k) => Ent(d.heap, DirOf(d, dd), k).name # NewName(n, domain)
    BY <1>1, <1>3, FindFile
  <2>3. /\ ob \in BlockType /\ ob.kind \in Kinds /\ (ob.kind # "dir" => ob.ent = << >>)
        /\ \A k \in DOMAIN ob.ent : ob.ent[k].faddr = NULL
    BY NewBlocks DEF Kinds
  <2>. HIDE DEF ob, m
  <2>4. DiskOK(r.disk, F) /\ r.disk.fd = d.fd
    BY <2>1, <2>2, <2>3, Made
  <2>. QED BY <2>4 DEF Answered
<1>. QED BY <1>2, <1>3

\* ramdisk_symlink.
LEMMA SymlinkOK ==
    ASSUME NEW d, NEW F, DiskOK(d, F), NEW dd \in FDs \ F, d.fd[dd].refcnt > 0,
           MayGrow(d, dd), NEW n, NEW domain \in {"tos", "mint"}, NEW to \in Path,
           NEW r \in symlink(d, dd, n, to, domain)
    PROVE  Answered(d, F, r)
<1>. DEFINE m == findfile(d, DirOf(d, dd), n, "exist", domain)
            ob == LinkBlock(to)
<1>1. DirOf(d, dd) \in Blocks /\ d.heap \in HeapType
  BY DiskOKParts, LockedRooted, ChainClosed, GoodDir DEF Rooted
<1>2. CASE m # 0
  BY <1>2, Errors DEF symlink, Answered
<1>3. CASE m = 0
  <2>1. r \in Make(d, dd, n, ob, domain)
    BY <1>3 DEF symlink
  <2>2. n \in Name => \A k : LiveAt(d.heap, DirOf(d, dd), k) => Ent(d.heap, DirOf(d, dd), k).name # NewName(n, domain)
    BY <1>1, <1>3, FindFile
  <2>3. /\ ob \in BlockType /\ ob.kind \in Kinds /\ (ob.kind # "dir" => ob.ent = << >>)
        /\ \A k \in DOMAIN ob.ent : ob.ent[k].faddr = NULL
    <3>1. ob \in BlockType /\ ob.kind = "link" /\ ob.ent = << >>
      BY NewBlocks
    <3>2. DOMAIN << >> = {} /\ "link" \in Kinds
      BY DEF Kinds
    <3>. QED BY <3>1, <3>2
  <2>. HIDE DEF ob, m
  <2>4. DiskOK(r.disk, F) /\ r.disk.fd = d.fd
    BY <2>1, <2>2, <2>3, Made
  <2>. QED BY <2>4 DEF Answered
<1>. QED BY <1>2, <1>3

\* ramdisk_fdelete: nobody has the file open that it deletes.
LEMMA FdeleteOK ==
    ASSUME NEW d, NEW F, DiskOK(d, F), NEW dd \in FDs \ F, d.fd[dd].refcnt > 0,
           NEW n, NEW domain \in {"tos", "mint"}, NEW r \in fdelete(d, dd, n, domain)
    PROVE  Answered(d, F, r)
<1>. DEFINE a == DirOf(d, dd)
            i == findfile(d, a, n, "search", domain)
            fd == findfd(d, << a, i >>)
<1>1. /\ a \in Blocks /\ d.heap \in HeapType /\ HeapParts(d.heap) /\ d.fd \in FdTable /\ d \in DiskType
      /\ F \subseteq FDs /\ RootOK(d, F) /\ FreeOK(d) /\ OpenDirsOK(d)
  BY DiskOKParts, LockedRooted, ChainClosed, GoodDir, HeapIs DEF Rooted
<1>2. CASE r \in EFILNF(d) \cup EACCDN(d)
  BY <1>2, Errors DEF Answered
<1>3. CASE r \notin EFILNF(d) \cup EACCDN(d)
  <2>1. /\ i # 0 /\ Entry(d, << a, i >>).kind # "dir"
        /\ ~(fd # NULL /\ d.fd[fd].parent # NULL) /\ r = OK(Drop(d, << a, i >>))
    BY <1>3, Zenon DEF fdelete
  <2>2. LiveAt(d.heap, a, i)
    BY <1>1, <2>1, FindFile
  <2>. HIDE DEF i, a
  <2>3. /\ Entry(d, << a, i >>) = Ent(d.heap, a, i) /\ << a, i >> # root_de /\ << a, i >> # NULL
    <3>1. << a, i >> \in Blocks \X Nat
      BY <1>1, <2>2, LiveFacts
    <3>. QED BY <1>1, <2>2, <3>1, EntryAt, LiveFacts, Constants
  <2>4. \A j \in FDs : d.fd[j].file # << a, i >>
    <3>. SUFFICES ASSUME NEW j \in FDs, d.fd[j].file = << a, i >> PROVE FALSE
      OBVIOUS
    <3>1. fd # NULL
      <4>. DEFINE used == {k \in FDs : d.fd[k].file = << a, i >> /\ << a, i >> # NULL}
      <4>1. used # {} /\ used \in SUBSET Nat
        BY <2>3, Constants
      <4>2. fd = Min(used)
        BY <4>1 DEF findfd
      <4>. HIDE DEF used
      <4>3. Min(used) \in used
        BY <4>1, MinOf
      <4>. QED BY <4>2, <4>3, Constants DEF used
    <3>. HIDE DEF fd
    <3>2. fd = findfd(d, << a, i >>)
      BY DEF fd
    <3>3. fd \in FDs /\ d.fd[fd].file = << a, i >>
      BY <1>1, <2>3, <3>1, <3>2, FindFd
    <3>4. fd # ROOT
      BY <1>1, <2>3, <3>3 DEF RootOK
    <3>5. d.fd[fd].parent \in FDs
      BY <1>1, <2>3, <3>3, <3>4 DEF FreeOK
    <3>. QED BY <2>1, <3>1, <3>5, Constants
  <2>5. \A j \in FDs : d.fd[j].file # NULL => ~(At(d.fd, j) = a /\ Nr(d.fd, j) = i)
    BY <1>1, <2>4, FilePair
  <2>6. \A j \in F : ~(At(d.fd, j) = a /\ Nr(d.fd, j) = i)
    <3>1. FilesOK(d, F)
      BY DiskOKParts
    <3>. QED BY <1>1, <2>5, <3>1 DEF FilesOK
  <2>7. \A x \in FDs \ F : d.fd[x].refcnt > 0 =>
            \A j \in Chain(d.fd, x) \ {ROOT} : ~(At(d.fd, j) = a /\ Nr(d.fd, j) = i)
    BY <2>5, ChainUsed DEF GoodDD
  <2>8. /\ d.heap[Ent(d.heap, a, i).faddr].kind # "dir" /\ Ent(d.heap, a, i).faddr \in Addr
    BY <1>1, <2>1, <2>2, <2>3, LeadsTo
  <2>9. /\ \A k : ~ LiveAt(d.heap, Ent(d.heap, a, i).faddr, k)
        /\ ~ dir_is_open(d, Ent(d.heap, a, i).faddr)
    <3>1. \A k : ~ LiveAt(d.heap, Ent(d.heap, a, i).faddr, k)
      BY <1>1, <2>8, LeadsTo DEF Dirs
    <3>2. Ent(d.heap, a, i).faddr # NULL
      BY <2>2 DEF LiveAt
    <3>. QED BY <1>1, <2>8, <3>1, <3>2 DEF OpenDirsOK, dir_is_open
  <2>10. r.disk = Drop(d, << a, i >>)
    BY <2>1 DEF OK, Answer
  <2>11. DiskOK(r.disk, F) /\ r.disk.fd = d.fd
    BY <2>2, <2>6, <2>7, <2>9, <2>10, Dropped
  <2>. QED BY <2>11 DEF Answered
<1>. QED BY <1>2, <1>3

\* ramdisk_link.
LEMMA LinkOK ==
    ASSUME NEW d, NEW F, DiskOK(d, F), NEW old \in FDs \ F, d.fd[old].refcnt > 0,
           NEW new \in FDs \ F, d.fd[new].refcnt > 0, NEW oldname, NEW newname,
           NEW domain \in {"tos", "mint"}, MayMove(d, old, new, oldname, domain),
           old = new \/ MayGrow(d, new),
           NEW r \in link(d, old, new, oldname, newname, domain)
    PROVE  Answered(d, F, r)
<1>. DEFINE a == DirOf(d, old)
            c == DirOf(d, new)
            i == findfile(d, a, oldname, "search", domain)
            name == NewName(newname, domain)
            u == Ent(d.heap, a, i)
            below == \E j \in {new} \cup Ancestors(d.fd, new) : d.fd[j].file = << a, i >>
<1>1. /\ d.heap \in HeapType /\ HeapParts(d.heap) /\ HeapOK(d.heap) /\ d.fd \in FdTable /\ d \in DiskType
      /\ F \subseteq FDs /\ RootOK(d, F) /\ FilesOK(d, F) /\ OneDD(d, F)
  BY DiskOKParts, HeapIs
<1>2. /\ Rooted(d, F, old) /\ Rooted(d, F, new) /\ GoodDD(d, F, old) /\ GoodDD(d, F, new)
      /\ a \in Blocks /\ c \in Blocks
  BY <1>1, LockedRooted, ChainClosed, GoodDir DEF Rooted
<1>3. CASE r \in EFILNF(d) \cup EACCDN(d)
  BY <1>3, Errors DEF Answered
<1>4. CASE r \notin EFILNF(d) \cup EACCDN(d)
  <2>1. /\ newname \in Name /\ i # 0 /\ findfile(d, c, name, "exist", domain) = 0
        /\ ~(Entry(d, << a, i >>).kind = "dir" /\ below)
        /\ IF old = new THEN r = OK(PutEntry(d, a, i, [Entry(d, << a, i >>) EXCEPT !.name = name]))
           ELSE \E g \in new_file(d, new) : r = OK(Moved(g, a, i, DirOf(g, new), name))
    <3>1. r \notin EFILNF(d) /\ r \notin EACCDN(d)
      BY <1>4
    <3>. DEFINE kind == Entry(d, << a, i >>).kind
                taken == findfile(d, c, name, "exist", domain)
                renamed == {OK(PutEntry(d, a, i, [Entry(d, << a, i >>) EXCEPT !.name = name]))}
                moved == {OK(Moved(g, a, i, DirOf(g, new), name)) : g \in new_file(d, new)}
    <3>2. r \in CASE newname \notin Name -> EACCDN(d)
                  [] i = 0 -> EFILNF(d)
                  [] taken # 0 -> EACCDN(d)
                  [] kind = "dir" /\ below -> EACCDN(d)
                  [] OTHER -> IF old = new THEN renamed ELSE moved \cup EACCDN(d)
      BY Zenon DEF link
    <3>. HIDE DEF i, kind, taken, below, renamed, moved
    <3>3. /\ newname \in Name /\ i # 0 /\ taken = 0 /\ ~(kind = "dir" /\ below)
          /\ r \in IF old = new THEN renamed ELSE moved \cup EACCDN(d)
      BY <3>1, <3>2
    <3>4. IF old = new THEN r \in renamed ELSE r \in moved
      BY <3>1, <3>3
    <3>. QED BY <3>3, <3>4 DEF kind, taken, renamed, moved, below
  <2>2. LiveAt(d.heap, a, i) /\ Entry(d, << a, i >>) = u
    BY <1>1, <1>2, <2>1, FindFile, EntryAt
  <2>3. name \in Name /\ \A k : LiveAt(d.heap, c, k) => Ent(d.heap, c, k).name # name
    <3>1. name \in Name /\ NewName(name, domain) = name
      BY <2>1, RamAssumption DEF NewName
    <3>. HIDE DEF name, c
    <3>. QED BY <1>1, <1>2, <2>1, <3>1, FindFile
  <2>4. CASE old = new
    <3>1. r.disk = PutEntry(d, a, i, [u EXCEPT !.name = name])
      BY <2>1, <2>2, <2>4 DEF OK, Answer
    <3>. HIDE DEF a, i, name
    <3>2. DiskOK(r.disk, F) /\ r.disk.fd = d.fd
      BY <2>2, <2>3, <2>4, <3>1, Renamed DEF a
    <3>. QED BY <3>2 DEF Answered
  <2>5. CASE old # new
    <3>1. PICK g \in new_file(d, new) : r = OK(Moved(g, a, i, DirOf(g, new), name))
      BY <2>1, <2>5
    <3>2. MayGrow(d, new)
      BY <2>5
    <3>. DEFINE b == DirOf(g, new)
                f == FirstFree(g, b)
                T == {DirOf(g, j) : j \in Chain(d.fd, new)}
    <3>3. /\ DiskOK(g, F) /\ g.fd = d.fd /\ b \in Dirs(g.heap)
          /\ f \in DOMAIN g.heap[b].ent /\ ~ LiveAt(g.heap, b, f)
          /\ \A k : LiveAt(g.heap, b, k) <=> LiveAt(d.heap, c, k)
          /\ \A k : LiveAt(g.heap, b, k) => Ent(g.heap, b, k) = Ent(d.heap, c, k)
          /\ \A x, k : LiveAt(d.heap, x, k) /\ x # c /\ ~(x = At(d.fd, new) /\ k = Nr(d.fd, new))
                       => LiveAt(g.heap, x, k) /\ Ent(g.heap, x, k) = Ent(d.heap, x, k)
          /\ \A j \in FDs \ F : d.fd[j].refcnt > 0 /\ j # new => DirOf(g, j) = DirOf(d, j)
      BY ONLY DiskOK(d, F), new \in FDs \ F, d.fd[new].refcnt > 0, <3>2, g \in new_file(d, new), RoomHere
    <3>4. /\ g.heap \in HeapType /\ HeapParts(g.heap) /\ HeapOK(g.heap) /\ g \in DiskType /\ RootOK(g, F)
      BY <3>3, DiskOKParts, HeapIs
    <3>5. a # c
      BY <1>1, <1>2, <2>5, OneDir
    <3>6. \A x \in FDs : d.fd[x].file = << a, i >> => ~(d.fd[x].refcnt > 0 \/ d.fd[x].is_parent > 0)
      BY <2>5 DEF MayMove, EntryInUse
    <3>. HIDE DEF a, i, c, name
    <3>7. \A x \in FDs : d.fd[x].file # NULL /\ At(d.fd, x) = a /\ Nr(d.fd, x) = i
                         => ~(d.fd[x].refcnt > 0 \/ d.fd[x].is_parent > 0)
      BY <1>1, <3>6, FilePair
    <3>8. \A j \in F : ~(At(d.fd, j) = a /\ Nr(d.fd, j) = i)
      BY <1>1, <3>7 DEF FilesOK
    <3>9. \A x \in FDs \ F : d.fd[x].refcnt > 0 =>
              \A j \in Chain(d.fd, x) \ {ROOT} : ~(At(d.fd, j) = a /\ Nr(d.fd, j) = i)
      <4>. TAKE x \in FDs \ F
      <4>. HAVE d.fd[x].refcnt > 0
      <4>. TAKE j \in Chain(d.fd, x) \ {ROOT}
      <4>1. j \in FDs \ F /\ GoodDD(d, F, j) /\ (d.fd[j].refcnt > 0 \/ d.fd[j].is_parent > 0)
        BY ChainUsed
      <4>2. d.fd[j].file # NULL
        BY <4>1 DEF GoodDD
      <4>. QED BY <3>7, <4>1, <4>2
    <3>10. new \in Chain(d.fd, new) /\ new # ROOT => ~(At(d.fd, new) = a /\ Nr(d.fd, new) = i)
      BY <3>9
    <3>11. new \in Chain(d.fd, new) /\ Chain(d.fd, new) \subseteq FDs
      BY <1>1, ChainClosed
    <3>12. new = ROOT => ~(At(d.fd, new) = a /\ Nr(d.fd, new) = i)
      <4>1. i # 0
        BY <2>1
      <4>. QED BY <1>1, <4>1 DEF RootOK, At, Nr, root_de
    <3>13. LiveAt(g.heap, a, i) /\ Ent(g.heap, a, i) = u
      BY <2>2, <3>3, <3>5, <3>10, <3>11, <3>12 DEF u
    <3>14. a # b
      <4>1. DirOf(g, old) = a
        BY <2>5, <3>3 DEF a
      <4>2. GoodDD(g, F, old) /\ GoodDD(g, F, new) /\ OneDD(g, F)
        BY <3>3, LockedRooted, ChainClosed, DiskOKParts DEF Rooted
      <4>. QED BY <2>5, <3>4, <4>1, <4>2, OneDir
    <3>15. Rooted(g, F, new) /\ \A j \in Chain(d.fd, new) : GoodDD(g, F, j)
      BY <3>3, LockedRooted DEF Rooted
    <3>16. T \in SUBSET Dirs(g.heap) /\ b \in T
      BY <3>3, <3>4, <3>11, <3>15, GoodDir
    <3>17. ASSUME NEW t \in T \ {Root}
           PROVE  g.heap[t].up \in T
      <4>1. PICK j \in Chain(d.fd, new) : t = DirOf(g, j)
        OBVIOUS
      <4>2. j # ROOT /\ GoodDD(g, F, j)
        BY <3>4, <3>15, <3>17, <4>1, RootFacts
      <4>3. g.heap[t].up = DirOf(g, d.fd[j].parent) /\ d.fd[j].parent \in FDs
        BY <3>3, <3>4, <4>1, <4>2, GoodFacts
      <4>4. d.fd[j].parent \in Chain(d.fd, new)
        BY <1>1, <4>1, <4>3, ChainClosed, Constants
      <4>. QED BY <4>3, <4>4
    <3>18. ASSUME u.kind = "dir" PROVE u.faddr \notin T
      <4>1. SUFFICES ASSUME NEW j \in Chain(d.fd, new), u.faddr = DirOf(g, j) PROVE FALSE
        OBVIOUS
      <4>2. u.faddr \in Addr
        BY <3>4, <3>13, LeadsTo
      <4>3. j # ROOT /\ GoodDD(g, F, j)
        BY <3>4, <3>15, <4>1, <4>2, RootFacts, Constants
      <4>4. LiveAt(g.heap, At(d.fd, j), Nr(d.fd, j)) /\ Ent(g.heap, At(d.fd, j), Nr(d.fd, j)).faddr = u.faddr
            /\ d.fd[j].file # NULL
        BY <3>3, <3>4, <4>1, <4>3, GoodFacts
      <4>5. At(d.fd, j) = a /\ Nr(d.fd, j) = i
        BY <3>4, <3>13, <4>4 DEF HeapParts
      <4>6. d.fd[j].file = << a, i >>
        BY <1>1, <3>11, <4>4, <4>5, FilePair
      <4>7. j \in {new} \cup Ancestors(d.fd, new)
        BY DEF Ancestors
      <4>. QED BY <2>1, <2>2, <3>18, <4>6, <4>7
    <3>19. \A k : LiveAt(g.heap, b, k) => Ent(g.heap, b, k).name # name
      BY <2>3, <3>3
    <3>20. r.disk = Moved(g, a, i, b, name)
      BY <3>1 DEF OK, Answer
    <3>. HIDE DEF T, b
    <3>21. f = FirstFree(g, b)
      BY DEF f
    <3>. HIDE DEF f, u
    <3>22. DiskOK(r.disk, F) /\ r.disk.fd = g.fd
      <4>1. \A t \in T \ {Root} : g.heap[t].up \in T
        BY <3>17
      <4>2. /\ Ent(g.heap, a, i).kind = "dir" => Ent(g.heap, a, i).faddr \notin T
            /\ \A j \in F : ~(At(g.fd, j) = a /\ Nr(g.fd, j) = i)
            /\ \A x \in FDs \ F : g.fd[x].refcnt > 0 =>
                  \A j \in Chain(g.fd, x) \ {ROOT} : ~(At(g.fd, j) = a /\ Nr(g.fd, j) = i)
        BY <3>3, <3>8, <3>9, <3>13, <3>18
      <4>3. DiskOK(g, F) /\ b \in Dirs(g.heap) /\ f \in DOMAIN g.heap[b].ent /\ ~ LiveAt(g.heap, b, f)
        BY <3>3
      <4>4. name \in Name
        BY <2>3
      <4>. QED BY ONLY <3>13, <3>14, <3>16, <3>19, <3>20, <3>21, <4>1, <4>2, <4>3, <4>4, MovedOK
    <3>. QED BY <3>3, <3>22 DEF Answered
  <2>. QED BY <2>4, <2>5
<1>. QED BY <1>3, <1>4

\* unlock_dd leaves a descriptor where it was, or frees it.
LEMMA UnlockKeeps ==
    ASSUME NEW d \in DiskType, NEW m \in DiskType, m.fd = d.fd, NEW dd \in FDs, d.fd[dd].refcnt > 0
    PROVE  /\ \A j \in FDs : unlock_dd(d, dd).fd[j] = FreeFd \/ SameDD(d.fd, unlock_dd(d, dd).fd, j)
           /\ unlock_dd(m, dd) = [heap |-> m.heap, fd |-> unlock_dd(d, dd).fd, dhd |-> m.dhd]
<1>. DEFINE f == [d.fd[dd] EXCEPT !.refcnt = d.fd[dd].refcnt - 1]
            gd == [j \in FDs |-> IF j = dd THEN f ELSE d.fd[j]]
            anc == Ancestors(gd, dd)
            counted == [j \in FDs |-> IF j \in anc /\ gd[j].is_parent > 0
                                      THEN [gd[j] EXCEPT !.is_parent = gd[j].is_parent - 1] ELSE gd[j]]
            freed == [j \in FDs |-> IF counted[j].refcnt = 0 /\ counted[j].is_parent = 0 THEN FreeFd ELSE counted[j]]
            res == IF gd[dd].refcnt = 0 THEN freed ELSE gd
<1>1. /\ d.fd \in FdTable /\ d = [heap |-> d.heap, fd |-> d.fd, dhd |-> d.dhd]
      /\ m = [heap |-> m.heap, fd |-> d.fd, dhd |-> m.dhd]
  BY DiskParts
<1>2. ASSUME NEW x, x = [heap |-> x.heap, fd |-> d.fd, dhd |-> x.dhd]
      PROVE  unlock_dd(x, dd) = [heap |-> x.heap, fd |-> res, dhd |-> x.dhd]
  <2>. DEFINE y == PutFd(x, dd, f)
              z == [heap |-> x.heap, fd |-> gd, dhd |-> x.dhd]
  <2>1. unlock_dd(x, dd) = IF y.fd[dd].refcnt = 0 THEN freeDD(y, dd) ELSE y
    <3>1. x.fd = d.fd
      BY <1>2
    <3>2. unlock_dd(x, dd) =
             LET w == PutFd(x, dd, [x.fd[dd] EXCEPT !.refcnt = x.fd[dd].refcnt - 1])
             IN  IF w.fd[dd].refcnt = 0 THEN freeDD(w, dd) ELSE w
      BY Zenon DEF unlock_dd
    <3>. QED BY <3>1, <3>2
  <2>2. y = z
    <3>1. y = [x EXCEPT !.fd = [j \in FDs |-> IF j = dd THEN f ELSE x.fd[j]]]
      BY Zenon DEF PutFd
    <3>2. x.fd = d.fd
      BY <1>2
    <3>3. y = [x EXCEPT !.fd = gd]
      BY <3>1, <3>2
    <3>. HIDE DEF gd, y, z
    <3>4. y = [heap |-> x.heap, fd |-> gd, dhd |-> x.dhd]
      BY <1>2, <3>3
    <3>. QED BY <3>4 DEF z
  <2>3. z.fd = gd
    OBVIOUS
  <2>4. CASE gd[dd].refcnt # 0
    <3>. HIDE DEF gd, z, y
    <3>. QED BY <2>1, <2>2, <2>3, <2>4 DEF z
  <2>5. CASE gd[dd].refcnt = 0
    <3>1. unlock_dd(x, dd) = freeDD(z, dd)
      <4>. HIDE DEF gd, z, y
      <4>. QED BY <2>1, <2>2, <2>3, <2>5
    <3>. HIDE DEF gd
    <3>2. freeDD(z, dd) = [z EXCEPT !.fd = freed]
      <4>1. z.fd = gd
        OBVIOUS
      <4>. HIDE DEF z
      <4>2. freeDD(z, dd) =
              LET a == Ancestors(z.fd, dd)
                  c == [j \in FDs |-> IF j \in a /\ z.fd[j].is_parent > 0
                                      THEN [z.fd[j] EXCEPT !.is_parent = z.fd[j].is_parent - 1] ELSE z.fd[j]]
              IN  IF z.fd[dd].refcnt # 0 THEN z
                  ELSE [z EXCEPT !.fd = [j \in FDs |->
                            IF c[j].refcnt = 0 /\ c[j].is_parent = 0 THEN FreeFd ELSE c[j]]]
        BY Zenon DEF freeDD
      <4>. QED BY <2>5, <4>1, <4>2
    <3>. HIDE DEF freed
    <3>. QED BY <2>5, <3>1, <3>2
  <2>. QED BY <2>4, <2>5
<1>3. \A j \in FDs : res[j] = FreeFd \/ SameDD(d.fd, res, j)
  <2>. TAKE j \in FDs
  <2>0. d.fd[j] \in FdType /\ d.fd[dd] \in FdType
    BY <1>1 DEF FdTable, FdType
  <2>1. /\ SameDD(d.fd, gd, j)
        /\ gd[j] \in [file : (Blocks \X Nat) \cup {NULL}, refcnt : Int, is_parent : Nat, parent : FDs \cup {NULL}]
    <3>1. f.file = d.fd[dd].file /\ f.parent = d.fd[dd].parent
          /\ f \in [file : (Blocks \X Nat) \cup {NULL}, refcnt : Int, is_parent : Nat, parent : FDs \cup {NULL}]
      BY <2>0 DEF FdType
    <3>2. d.fd[j] \in [file : (Blocks \X Nat) \cup {NULL}, refcnt : Int, is_parent : Nat, parent : FDs \cup {NULL}]
      BY <2>0 DEF FdType
    <3>. HIDE DEF f
    <3>. QED BY <3>1, <3>2 DEF SameDD
  <2>. HIDE DEF gd, anc
  <2>2. SameDD(d.fd, counted, j)
    <3>1. CASE j \in anc /\ gd[j].is_parent > 0
      <4>1. counted[j] = [gd[j] EXCEPT !.is_parent = gd[j].is_parent - 1]
        BY <3>1
      <4>. HIDE DEF counted
      <4>. QED BY <2>1, <4>1 DEF SameDD
    <3>2. CASE ~(j \in anc /\ gd[j].is_parent > 0)
      <4>1. counted[j] = gd[j]
        BY <3>2
      <4>. QED BY <2>1, <4>1 DEF SameDD
    <3>. QED BY <3>1, <3>2
  <2>. HIDE DEF counted
  <2>3. freed[j] = FreeFd \/ freed[j] = counted[j]
    OBVIOUS
  <2>. HIDE DEF freed
  <2>. QED BY <2>1, <2>2, <2>3 DEF SameDD
<1>. HIDE DEF res
<1>4. unlock_dd(d, dd) = [heap |-> d.heap, fd |-> res, dhd |-> d.dhd]
  BY <1>1, <1>2
<1>5. unlock_dd(m, dd) = [heap |-> m.heap, fd |-> res, dhd |-> m.dhd]
  BY <1>1, <1>2
<1>6. unlock_dd(d, dd).fd = res
  BY <1>4
<1>. QED BY <1>3, <1>5, <1>6

\* Drop changes the blocks, and looks at nothing else.
LEMMA DropHeap ==
    ASSUME NEW d \in DiskType, NEW g \in DiskType, g.heap = d.heap, NEW e
    PROVE  Drop(g, e) = [heap |-> Drop(d, e).heap, fd |-> g.fd, dhd |-> g.dhd]
<1>. DEFINE x == Entry(d, e).faddr
            p(h) == [c \in Blocks |-> IF c = x THEN NoBlock ELSE h[c]]
            q(h) == [c \in Blocks |-> IF c = e[1] THEN [p(h)[e[1]] EXCEPT !.ent = [p(h)[e[1]].ent EXCEPT ![e[2]] = FreeEntry]]
                                      ELSE p(h)[c]]
<1>1. ASSUME NEW y \in DiskType, y.heap = d.heap
      PROVE  Drop(y, e) = [heap |-> q(d.heap), fd |-> y.fd, dhd |-> y.dhd]
  <2>1. Entry(y, e) = Entry(d, e)
    BY <1>1, SameEntry
  <2>2. y = [heap |-> d.heap, fd |-> y.fd, dhd |-> y.dhd]
    BY <1>1, DiskParts
  <2>. DEFINE m == PutBlock(y, x, NoBlock)
              ph == p(d.heap)
              qh == q(d.heap)
  <2>3. m = [heap |-> ph, fd |-> y.fd, dhd |-> y.dhd]
    <3>1. m = [y EXCEPT !.heap = [c \in Blocks |-> IF c = x THEN NoBlock ELSE y.heap[c]]]
      BY Zenon DEF PutBlock
    <3>2. m = [y EXCEPT !.heap = ph]
      BY <1>1, <3>1
    <3>. HIDE DEF ph, m
    <3>. QED BY <2>2, <3>2
  <2>4. Drop(y, e) = PutEntry(m, e[1], e[2], FreeEntry)
    <3>1. Drop(y, e) = PutEntry(PutBlock(y, Entry(y, e).faddr, NoBlock), e[1], e[2], FreeEntry)
      BY Zenon DEF Drop
    <3>. QED BY <2>1, <3>1
  <2>5. Drop(y, e) = [m EXCEPT !.heap = [c \in Blocks |->
                         IF c = e[1] THEN [m.heap[e[1]] EXCEPT !.ent = [m.heap[e[1]].ent EXCEPT ![e[2]] = FreeEntry]]
                         ELSE m.heap[c]]]
    <3>. HIDE DEF m
    <3>. QED BY <2>4, Zenon DEF PutEntry, PutBlock
  <2>6. m.heap = ph
    <3>. HIDE DEF ph, m
    <3>. QED BY <2>3
  <2>7. Drop(y, e) = [m EXCEPT !.heap = qh]
    <3>. HIDE DEF m, x
    <3>. QED BY <2>5, <2>6
  <2>. HIDE DEF m, ph, qh
  <2>8. Drop(y, e) = [heap |-> qh, fd |-> y.fd, dhd |-> y.dhd]
    BY <2>3, <2>7
  <2>. QED BY <2>8 DEF qh
<1>. HIDE DEF q
<1>2. Drop(d, e).heap = q(d.heap)
  BY <1>1
<1>3. Drop(g, e) = [heap |-> q(d.heap), fd |-> g.fd, dhd |-> g.dhd]
  BY <1>1
<1>. QED BY <1>2, <1>3

\* A DD above a locked one is the parent of a DD on its chain.
LEMMA ChildOf ==
    ASSUME NEW fd \in FdTable, NEW x \in FDs, NEW dd \in Ancestors(fd, x)
    PROVE  \E c \in Chain(fd, x) : fd[c].parent = dd
<1>. SUFFICES ASSUME \A c \in Chain(fd, x) : fd[c].parent # dd PROVE FALSE
  OBVIOUS
<1>. DEFINE S == Chain(fd, x) \ {dd}
<1>1. Chain(fd, x) \subseteq FDs /\ x \in Chain(fd, x) /\ \A j \in Chain(fd, x) : fd[j].parent \in Chain(fd, x) \cup {NULL}
  BY ChainClosed
<1>2. dd \in Chain(fd, x) /\ dd # x
  BY DEF Ancestors
<1>3. S \in SUBSET FDs /\ x \in S /\ \A j \in S : fd[j].parent \in S \cup {NULL}
  BY <1>1, <1>2
<1>. HIDE DEF S
<1>4. Chain(fd, x) \subseteq S
  BY <1>3, ChainLeast
<1>. QED BY <1>2, <1>4 DEF S

\* ramdisk_ddelete of a directory whose DD is locked once, which is unlocked after it.
LEMMA DdeleteOK ==
    ASSUME NEW d, NEW F, DiskOK(d, F), NEW dd \in FDs \ F, d.fd[dd].refcnt = 1, dd # ROOT,
           ddelete(d, dd).err = "E_OK", NEW g, g = unlock_dd(d, dd),
           NEW e, e = unlock_dd(ddelete(d, dd).disk, dd)
    PROVE  DiskOK(e, F) /\ e.fd = g.fd
<1>. DEFINE a == At(d.fd, dd)
            i == Nr(d.fd, dd)
            x == DirOf(d, dd)
<1>1. /\ d \in DiskType /\ HeapOK(d.heap) /\ d.heap \in HeapType /\ d.fd \in FdTable /\ RootOK(d, F)
      /\ F \subseteq FDs /\ FilesOK(d, F) /\ OneDD(d, F) /\ HeapParts(d.heap)
  BY DiskOKParts, HeapIs
<1>2. Rooted(d, F, dd) /\ GoodDD(d, F, dd)
  BY <1>1, LockedRooted, ChainClosed DEF Rooted
<1>3. /\ LiveAt(d.heap, a, i) /\ d.fd[dd].file # NULL /\ x = Ent(d.heap, a, i).faddr
      /\ Entry(d, d.fd[dd].file).kind = "dir" /\ x \in Addr
  BY <1>1, <1>2, GoodFacts DEF GoodDD
<1>4. d.fd[dd].file = << a, i >>
  BY <1>1, <1>3, FilePair
<1>5. /\ ~ dir_is_open(d, x) /\ Live(d, x) = {} /\ ddelete(d, dd).disk = Drop(d, << a, i >>)
  BY <1>4 DEF ddelete, Answer, OK
<1>6. \A k : ~ LiveAt(d.heap, x, k)
  <2>1. x \in Blocks
    BY <1>3, Constants
  <2>. QED BY <1>1, <1>5, <2>1, LiveIs
<1>7. /\ DiskOK(g, F) /\ g.heap = d.heap /\ g.dhd = d.dhd
      /\ \A j \in FDs : g.fd[j].refcnt > 0 => SameDD(d.fd, g.fd, j)
      /\ \A j \in FDs : g.fd[j].refcnt = d.fd[j].refcnt - (IF j = dd THEN 1 ELSE 0)
      /\ Below(g.fd, F, dd) = Below(d.fd, F, dd)
  BY UnlockLast DEF Unlocks
<1>8. g \in DiskType /\ FilesOK(g, F) /\ g.fd \in FdTable /\ HeapOK(g.heap)
  BY <1>7, DiskOKParts
<1>. HIDE DEF a, i, x
<1>9. \A j \in FDs : g.fd[j] = FreeFd \/ SameDD(d.fd, g.fd, j)
  BY <1>1, UnlockKeeps
<1>10. \A j \in F : ~(At(g.fd, j) = a /\ Nr(g.fd, j) = i)
  <2>. SUFFICES ASSUME NEW j \in F, At(g.fd, j) = a /\ Nr(g.fd, j) = i PROVE FALSE
    OBVIOUS
  <2>1. j \in FDs /\ g.fd[j].file # NULL /\ Entry(g, g.fd[j].file).kind = "file"
    BY <1>1, <1>8 DEF FilesOK
  <2>2. g.fd[j].file = << a, i >>
    BY <1>8, <2>1, FilePair
  <2>3. Entry(g, << a, i >>) = Entry(d, << a, i >>)
    BY <1>7, SameEntry
  <2>. QED BY <1>3, <1>4, <2>1, <2>2, <2>3
<1>11. \A y \in FDs \ F : g.fd[y].refcnt > 0 =>
          \A j \in Chain(g.fd, y) \ {ROOT} : ~(At(g.fd, j) = a /\ Nr(g.fd, j) = i)
  <2>. SUFFICES ASSUME NEW y \in FDs \ F, g.fd[y].refcnt > 0, NEW j \in Chain(g.fd, y) \ {ROOT},
                       At(g.fd, j) = a /\ Nr(g.fd, j) = i
                PROVE  FALSE
    OBVIOUS
  <2>1. j \in FDs \ F /\ g.fd[j].file # NULL
    BY <1>7, ChainUsed DEF GoodDD
  <2>2. g.fd[j].file = << a, i >>
    BY <1>8, <2>1, FilePair
  <2>3. d.fd[j].file = << a, i >>
    <3>1. FreeFd.file = NULL
      BY DEF FreeFd
    <3>2. j \in FDs /\ SameDD(d.fd, g.fd, j)
      BY <1>9, <2>1, <3>1
    <3>. QED BY <2>2, <3>2 DEF SameDD
  <2>4. j = dd
    BY <1>1, <1>3, <1>4, <2>1, <2>3 DEF OneDD
  <2>5. y # dd
    BY <1>7
  <2>6. y \in Below(d.fd, F, dd)
    <3>1. y \in Below(g.fd, F, dd)
      BY <2>4, <2>5 DEF Below, Ancestors
    <3>. QED BY <1>7, <3>1
  <2>7. dd \in Ancestors(d.fd, y) /\ d.fd[y].refcnt > 0
    BY <2>6 DEF Below
  <2>8. PICK c \in Chain(d.fd, y) : d.fd[c].parent = dd
    BY <1>1, <2>7, ChildOf
  <2>9. c \in FDs /\ GoodDD(d, F, c)
    BY <2>7, <2>8, ChainUsed
  <2>10. c # ROOT
    BY <1>1, <2>8, Constants DEF RootOK
  <2>11. LiveAt(d.heap, x, Nr(d.fd, c))
    BY <2>8, <2>9, <2>10 DEF GoodDD, x
  <2>. QED BY <1>6, <2>11
<1>12. LiveAt(g.heap, a, i) /\ ~ dir_is_open(g, x) /\ x = Ent(g.heap, a, i).faddr /\ \A k : ~ LiveAt(g.heap, x, k)
  BY <1>3, <1>5, <1>6, <1>7 DEF dir_is_open
<1>. DEFINE v == Drop(g, << a, i >>)
            w == Drop(d, << a, i >>)
<1>13. DiskOK(v, F) /\ v.fd = g.fd /\ v.dhd = g.dhd
  BY <1>7, <1>10, <1>11, <1>12, Dropped
<1>14. v = [heap |-> w.heap, fd |-> g.fd, dhd |-> g.dhd]
  BY <1>1, <1>7, <1>8, DropHeap
<1>15. w \in DiskType /\ w.fd = d.fd /\ w.dhd = d.dhd
  <2>1. w = [heap |-> w.heap, fd |-> d.fd, dhd |-> d.dhd]
    BY <1>1, DropHeap
  <2>2. v \in DiskType
    BY <1>13, DiskOKParts
  <2>. HIDE DEF v, w
  <2>3. w.heap \in HeapType
    BY <1>14, <2>2 DEF DiskType
  <2>. QED BY <1>1, <2>1, <2>3 DEF DiskType
<1>16. e = unlock_dd(w, dd)
  BY <1>5
<1>. HIDE DEF v, w
<1>17. e = [heap |-> w.heap, fd |-> g.fd, dhd |-> w.dhd]
  BY <1>1, <1>15, <1>16, UnlockKeeps
<1>18. e = v
  BY <1>7, <1>14, <1>15, <1>17
<1>. QED BY <1>13, <1>18

\* Descriptors get open or closed, and the DDs stay.
LEMMA Retable ==
    ASSUME NEW d, NEW F, DiskOK(d, F), NEW e \in DiskType, e.heap = d.heap, OpenDirsOK(e),
           NEW G, FilesOK(e, G), FreeOK(e), ROOT \notin G,
           \A i \in FDs : e.fd[i].is_parent = d.fd[i].is_parent,
           \A i \in FDs \ (F \cup G) : SameDD(d.fd, e.fd, i) /\ (e.fd[i].refcnt > 0 <=> d.fd[i].refcnt > 0),
           \A i \in F \ G : e.fd[i] = FreeFd,
           \A i \in G \ F : d.fd[i] = FreeFd
    PROVE  DiskOK(e, G)
<1>1. /\ d \in DiskType /\ HeapOK(d.heap) /\ d.fd \in FdTable /\ RootOK(d, F) /\ OneDD(d, F) /\ LockedOK(d, F)
      /\ ParentsOK(d, F) /\ F \subseteq FDs /\ e.fd \in FdTable
  BY DiskOKParts, DiskParts
<1>2. G \subseteq FDs /\ ROOT \in FDs \ (F \cup G)
  BY <1>1, Constants DEF FilesOK, RootOK
<1>3. FreeFd.file = NULL /\ FreeFd.refcnt = 0 /\ FreeFd.parent = NULL
  BY DEF FreeFd
<1>4. ASSUME NEW i \in FDs
      PROVE  i \notin G /\ e.fd[i].refcnt > 0 <=> i \notin F /\ d.fd[i].refcnt > 0
  BY <1>3
<1>5. ASSUME NEW i \in FDs \ F, d.fd[i].refcnt > 0, NEW j \in Chain(d.fd, i)
      PROVE  j \in FDs \ (F \cup G) /\ SameDD(d.fd, e.fd, j) /\ GoodDD(d, F, j)
  <2>1. j \in FDs \ F /\ GoodDD(d, F, j)
    BY <1>5, ChainUsed
  <2>2. j \notin G
    BY <1>2, <1>3, <2>1 DEF GoodDD
  <2>. QED BY <2>1, <2>2
<1>6. ASSUME NEW i \in FDs \ F, d.fd[i].refcnt > 0
      PROVE  Rooted(e, G, i) /\ Chain(e.fd, i) = Chain(d.fd, i)
  <2>1. \A j \in Chain(d.fd, i) : SameDD(d.fd, e.fd, j) /\ j \in FDs \ G
    BY <1>5, <1>6
  <2>2. Rooted(d, F, i)
    BY <1>1, <1>6 DEF LockedOK
  <2>3. Rooted(e, F, i) /\ Chain(e.fd, i) = Chain(d.fd, i)
    BY <1>1, <2>1, <2>2, SameRooted
  <2>4. \A j \in Chain(e.fd, i) : GoodDD(e, G, j)
    BY <2>1, <2>3 DEF Rooted, GoodDD
  <2>. QED BY <2>3, <2>4 DEF Rooted
<1>7. LockedOK(e, G)
  BY <1>4, <1>6 DEF LockedOK
<1>8. ParentsOK(e, G)
  <2>1. \A i \in FDs : Below(e.fd, G, i) = Below(d.fd, F, i)
    <3>. TAKE i \in FDs
    <3>1. ASSUME NEW j \in FDs PROVE j \in Below(e.fd, G, i) <=> j \in Below(d.fd, F, i)
      <4>1. CASE j \notin F /\ d.fd[j].refcnt > 0
        BY <1>4, <1>6, <4>1 DEF Below, Ancestors
      <4>2. CASE ~(j \notin F /\ d.fd[j].refcnt > 0)
        BY <1>4, <4>2 DEF Below
      <4>. QED BY <4>1, <4>2
    <3>2. Below(e.fd, G, i) \subseteq FDs /\ Below(d.fd, F, i) \subseteq FDs
      BY DEF Below
    <3>. QED BY <3>1, <3>2
  <2>. QED BY <1>1, <2>1 DEF ParentsOK
<1>9. OneDD(e, G)
  BY <1>1, <1>3 DEF OneDD, SameDD
<1>10. RootOK(e, G)
  BY <1>1, <1>2 DEF RootOK, SameDD
<1>. QED BY <1>1, <1>7, <1>8, <1>9, <1>10 DEF DiskOK, FdOK

\* Descriptor new gets open, nothing else changes
OpensFd(d, F, new, e) ==
    /\ DiskOK(e, F \cup {new}) /\ e.fd[new].refcnt = 1
    /\ \A j \in FDs \ {new} : e.fd[j] = d.fd[j]

\* A free descriptor becomes that of a file.
LEMMA OpenedOK ==
    ASSUME NEW d, NEW F, DiskOK(d, F), NEW new \in FDs \ F, new # ROOT, d.fd[new] = FreeFd,
           NEW dd \in FDs, NEW b, NEW k, LiveAt(d.heap, b, k), Ent(d.heap, b, k).kind = "file",
           \A j \in F : d.fd[j].file # << b, k >>,
           NEW f, f = [file |-> << b, k >>, refcnt |-> 1, is_parent |-> 0, parent |-> dd],
           NEW e, e = PutFd(d, new, f)
    PROVE  OpensFd(d, F, new, e)
<1>. DEFINE G == F \cup {new}
<1>1. /\ d \in DiskType /\ d.heap \in HeapType /\ d.fd \in FdTable /\ RootOK(d, F)
      /\ FilesOK(d, F) /\ F \subseteq FDs /\ OpenDirsOK(d) /\ FreeOK(d)
  BY DiskOKParts
<1>2. b \in Blocks /\ k \in Nat /\ << b, k >> # root_de /\ << b, k >> \in Blocks \X Nat /\ << b, k >> # NULL
  <2>1. b \in Blocks /\ k \in Nat /\ << b, k >> # root_de
    BY <1>1, LiveFacts
  <2>. QED BY <2>1, Constants
<1>3. f \in FdType
  BY <1>2 DEF FdType
<1>4. /\ e \in DiskType /\ e.heap = d.heap /\ e.dhd = d.dhd
      /\ e.fd[new] = f /\ \A j \in FDs \ {new} : e.fd[j] = d.fd[j]
  <2>1. e = PutFd(d, new, f)
    OBVIOUS
  <2>2. new \in FDs
    OBVIOUS
  <2>. QED BY ONLY <1>1, <1>3, <2>1, <2>2, PutFdIs
<1>5. e.fd[new].file = << b, k >> /\ e.fd[new].refcnt = 1 /\ e.fd[new].is_parent = 0 /\ e.fd[new].parent = dd
  BY <1>4
<1>6. Entry(e, << b, k >>) = Ent(d.heap, b, k)
  BY <1>1, <1>4, EntryAt, SameEntry
<1>7. FilesOK(e, G)
  <2>1. ASSUME NEW i \in G
        PROVE  /\ i \in FDs /\ e.fd[i].file # NULL /\ e.fd[i].refcnt > 0 /\ e.fd[i].is_parent = 0
               /\ LiveAt(e.heap, At(e.fd, i), Nr(e.fd, i)) /\ Entry(e, e.fd[i].file).kind = "file"
    <3>1. CASE i = new
      <4>1. At(e.fd, new) = b /\ Nr(e.fd, new) = k
        BY <1>5 DEF At, Nr
      <4>. QED BY <1>2, <1>4, <1>5, <1>6, <3>1, <4>1
    <3>2. CASE i # new
      <4>1. i \in F /\ i \in FDs /\ e.fd[i] = d.fd[i]
        BY <1>1, <1>4, <2>1, <3>2
      <4>2. At(e.fd, i) = At(d.fd, i) /\ Nr(e.fd, i) = Nr(d.fd, i)
        BY <4>1 DEF At, Nr
      <4>3. Entry(e, e.fd[i].file) = Entry(d, d.fd[i].file)
        BY <1>4, <4>1, SameEntry
      <4>. QED BY <1>1, <1>4, <4>1, <4>2, <4>3 DEF FilesOK
    <3>. QED BY <3>1, <3>2
  <2>2. \A i, j \in G : e.fd[i].file = e.fd[j].file => i = j
    BY <1>1, <1>4, <1>5 DEF FilesOK
  <2>. QED BY <2>1, <2>2 DEF FilesOK
<1>8. FreeOK(e)
  <2>. SUFFICES ASSUME NEW i \in FDs \ {ROOT}
                PROVE  IF e.fd[i].file = NULL THEN e.fd[i] = FreeFd
                       ELSE e.fd[i].parent \in FDs /\ e.fd[i].file # root_de
    BY DEF FreeOK
  <2>1. CASE i = new
    BY <1>2, <1>5, <2>1
  <2>2. CASE i # new
    BY <1>1, <1>4, <2>2 DEF FreeOK
  <2>. QED BY <2>1, <2>2
<1>9. FreeFd.is_parent = 0
  BY DEF FreeFd
<1>10. OpenDirsOK(e)
  BY <1>1, <1>4, SameOpenDirs
<1>11. ROOT \notin G
  BY <1>1 DEF RootOK
<1>12. /\ \A i \in FDs : e.fd[i].is_parent = d.fd[i].is_parent
       /\ \A i \in FDs \ (F \cup G) : SameDD(d.fd, e.fd, i) /\ (e.fd[i].refcnt > 0 <=> d.fd[i].refcnt > 0)
       /\ \A i \in F \ G : e.fd[i] = FreeFd
       /\ \A i \in G \ F : d.fd[i] = FreeFd
  BY <1>4, <1>5, <1>9 DEF SameDD
<1>. HIDE DEF G
<1>13. DiskOK(e, G)
  BY <1>4, <1>7, <1>8, <1>10, <1>11, <1>12, Retable
<1>. QED BY <1>4, <1>5, <1>13 DEF G, OpensFd

\* findfd without an entry answers a free descriptor.
LEMMA FindFree ==
    ASSUME NEW d, findfd(d, NULL) # NULL
    PROVE  findfd(d, NULL) \in FDs /\ d.fd[findfd(d, NULL)].file = NULL
<1>. DEFINE used == {i \in FDs : d.fd[i].file = NULL /\ NULL # NULL}
            free == {i \in FDs : d.fd[i].file = NULL}
<1>1. used = {}
  OBVIOUS
<1>2. free \in SUBSET Nat
  BY Constants
<1>3. findfd(d, NULL) = IF used # {} THEN Min(used) ELSE IF free # {} THEN Min(free) ELSE NULL
  BY Zenon DEF findfd
<1>. HIDE DEF used, free
<1>4. free # {} /\ findfd(d, NULL) = Min(free)
  BY <1>1, <1>3
<1>5. Min(free) \in free
  BY <1>2, <1>4, MinOf
<1>. QED BY <1>4, <1>5 DEF free

\* What ramdisk_fopen answers: an error, or a descriptor that was free
Fopened(d, F, r) ==
    /\ r.err # "E_OK" => Answered(d, F, r)
    /\ r.err = "E_OK" =>
          /\ r.fd \in FDs \ F /\ DiskOK(r.disk, F \cup {r.fd})
          /\ d.fd[r.fd].refcnt = 0 /\ r.disk.fd[r.fd].refcnt = 1
          /\ \A j \in FDs \ {r.fd} : r.disk.fd[j] = d.fd[j]

\* ramdisk_fopen, of an entry that is no link: a free descriptor becomes that of the file.
LEMMA FopenOK ==
    ASSUME NEW d, NEW F, DiskOK(d, F), NEW dd \in FDs \ F, d.fd[dd].refcnt > 0,
           NEW n, NEW omode, NEW domain \in {"tos", "mint"},
           ~ is_link(d, fopen_entry(d, dd, n, omode, domain)),
           omode = "open" \/ MayGrow(d, dd), NEW r \in fopen(d, dd, n, omode, domain)
    PROVE  Fopened(d, F, r)
<1>. SUFFICES /\ r.err # "E_OK" => Answered(d, F, r)
              /\ r.err = "E_OK" =>
                    /\ r.fd \in FDs \ F /\ DiskOK(r.disk, F \cup {r.fd})
                    /\ d.fd[r.fd].refcnt = 0 /\ r.disk.fd[r.fd].refcnt = 1
                    /\ \A j \in FDs \ {r.fd} : r.disk.fd[j] = d.fd[j]
  BY DEF Fopened
<1>. DEFINE e == fopen_entry(d, dd, n, omode, domain)
            new == findfd(d, e)
            a == DirOf(d, dd)
            Opened(g, f) ==
                [disk |-> PutFd(g, new, [file |-> f, refcnt |-> 1, is_parent |-> 0, parent |-> dd]),
                 err |-> "E_OK", fd |-> new]
            made == {IF q.err = "E_OK" THEN Opened(q.disk, << DirOf(q.disk, dd), FirstFree(d, a) >>)
                     ELSE q : q \in Make(d, dd, n, FileBlock, domain)}
<1>1. /\ d \in DiskType /\ d.heap \in HeapType /\ d.fd \in FdTable /\ RootOK(d, F) /\ HeapOK(d.heap) /\ HeapParts(d.heap)
      /\ FilesOK(d, F) /\ F \subseteq FDs /\ FreeOK(d) /\ GoodDD(d, F, dd) /\ a \in Blocks
  BY DiskOKParts, HeapIs, LockedRooted, ChainClosed, GoodDir DEF Rooted
<1>2. /\ e # NULL => \E k : /\ e = << a, k >> /\ LiveAt(d.heap, a, k) /\ Entry(d, e) = Ent(d.heap, a, k)
      /\ e = NULL /\ n \in Name => \A k : LiveAt(d.heap, a, k) => Ent(d.heap, a, k).name # NewName(n, domain)
  BY <1>1, FopenEntry
<1>3. CASE r \in EFILNF(d) \cup EACCDN(d) \cup ENSMEM(d)
  BY <1>3, Errors DEF Answered
<1>4. CASE r \notin EFILNF(d) \cup EACCDN(d) \cup ENSMEM(d)
  <2>1. /\ ~(e # NULL /\ Entry(d, e).kind = "dir") /\ new # NULL /\ d.fd[new].parent = NULL
        /\ ~(e = NULL /\ omode = "open")
        /\ IF e # NULL THEN r = Opened(d, e) ELSE r \in made
    <3>. DEFINE kind == Entry(d, e).kind
                parent == d.fd[new].parent
                opened == {Opened(d, e)}
    <3>1. r \in CASE e # NULL /\ kind = "dir" -> EFILNF(d)
                  [] e # NULL /\ omode = "excl" -> EACCDN(d)
                  [] new = NULL -> ENSMEM(d)
                  [] parent # NULL -> EACCDN(d)
                  [] e = NULL /\ omode = "open" -> EFILNF(d)
                  [] OTHER -> IF e # NULL THEN opened ELSE made
      BY Zenon DEF fopen
    <3>. HIDE DEF e, new, kind, parent, opened, made
    <3>2. /\ ~(e # NULL /\ kind = "dir") /\ new # NULL /\ parent = NULL /\ ~(e = NULL /\ omode = "open")
          /\ r \in IF e # NULL THEN opened ELSE made
      BY <1>4, <3>1
    <3>3. IF e # NULL THEN r \in opened ELSE r \in made
      BY <3>2
    <3>. QED BY <3>2, <3>3 DEF kind, parent, opened
  <2>2. /\ new \in FDs \ F /\ new # ROOT /\ d.fd[new] = FreeFd
    <3>1. ASSUME e # NULL PROVE e # root_de
      BY <1>1, <1>2, <3>1, LiveFacts
    <3>2. new \in FDs /\ (d.fd[new].file = NULL \/ (e # NULL /\ d.fd[new].file = e))
      <4>1. CASE e # NULL
        <5>. HIDE DEF e
        <5>. QED BY <1>1, <2>1, <4>1, FindFd
      <4>2. CASE e = NULL
        <5>. HIDE DEF e
        <5>. QED BY <2>1, <4>2, FindFree
      <4>. QED BY <4>1, <4>2
    <3>. HIDE DEF e, new
    <3>3. root_de # NULL
      <4>1. root_de \in Blocks \X Nat
        BY Constants DEF root_de
      <4>. QED BY <4>1, Constants
    <3>4. new # ROOT
      BY <1>1, <3>1, <3>2, <3>3 DEF RootOK
    <3>5. d.fd[new] = FreeFd
      BY <1>1, <2>1, <3>2, <3>4, Constants DEF FreeOK
    <3>6. new \notin F
      BY <1>1, <3>5 DEF FilesOK, FreeFd
    <3>. QED BY <3>2, <3>4, <3>5, <3>6
  <2>3. FreeFd.refcnt = 0 /\ FreeFd.file = NULL
    BY DEF FreeFd
  <2>4. ASSUME NEW g, DiskOK(g, F), g.fd = d.fd, NEW b, NEW k, LiveAt(g.heap, b, k), Ent(g.heap, b, k).kind = "file",
               \A j \in F : d.fd[j].file # << b, k >>, r = Opened(g, << b, k >>)
        PROVE  /\ r.err = "E_OK" /\ r.fd \in FDs \ F /\ DiskOK(r.disk, F \cup {r.fd})
               /\ d.fd[r.fd].refcnt = 0 /\ r.disk.fd[r.fd].refcnt = 1
               /\ \A j \in FDs \ {r.fd} : r.disk.fd[j] = d.fd[j]
    <3>. HIDE DEF e, new
    <3>1. r.err = "E_OK" /\ r.fd = new
          /\ r.disk = PutFd(g, new, [file |-> << b, k >>, refcnt |-> 1, is_parent |-> 0, parent |-> dd])
      BY <2>4
    <3>2. /\ DiskOK(r.disk, F \cup {new}) /\ r.disk.fd[new].refcnt = 1
          /\ \A j \in FDs \ {new} : r.disk.fd[j] = g.fd[j]
      <4>1. dd \in FDs /\ new \in FDs \ F /\ new # ROOT /\ g.fd[new] = FreeFd
        BY <2>2, <2>4
      <4>2. \A j \in F : g.fd[j].file # << b, k >>
        BY <2>4
      <4>3. DiskOK(g, F) /\ LiveAt(g.heap, b, k) /\ Ent(g.heap, b, k).kind = "file"
        BY <2>4
      <4>. DEFINE f == [file |-> << b, k >>, refcnt |-> 1, is_parent |-> 0, parent |-> dd]
      <4>4. r.disk = PutFd(g, new, f) /\ f = [file |-> << b, k >>, refcnt |-> 1, is_parent |-> 0, parent |-> dd]
        BY <3>1
      <4>. HIDE DEF f
      <4>. DEFINE z == r.disk
      <4>5. z = PutFd(g, new, f)
        BY <4>4
      <4>. HIDE DEF z
      <4>6. OpensFd(g, F, new, z)
        BY ONLY <4>1, <4>2, <4>3, <4>4, <4>5, OpenedOK, Zenon
      <4>. QED BY <4>6 DEF z, OpensFd
    <3>. QED BY <2>2, <2>3, <2>4, <3>1, <3>2
  <2>5. CASE e # NULL
    <3>1. PICK k : /\ e = << a, k >> /\ LiveAt(d.heap, a, k) /\ Entry(d, e) = Ent(d.heap, a, k)
      BY <1>2, <2>5
    <3>2. Entry(d, e).kind # "link" /\ Entry(d, e).kind # "dir"
      BY <2>1, <2>5 DEF is_link
    <3>3. r = Opened(d, e)
      BY <2>1, <2>5
    <3>. HIDE DEF e
    <3>4. Ent(d.heap, a, k).kind = "file"
      <4>1. Ent(d.heap, a, k).kind \in Kinds
        BY <1>1, <3>1, LeadsTo
      <4>. QED BY <3>1, <3>2, <4>1 DEF Kinds
    <3>5. \A j \in F : d.fd[j].file # << a, k >>
      <4>. SUFFICES ASSUME NEW j \in F, d.fd[j].file = << a, k >> PROVE FALSE
        OBVIOUS
      <4>1. j \in {i \in FDs : d.fd[i].file = e /\ e # NULL}
        BY <1>1, <2>5, <3>1
      <4>2. d.fd[new].file = NULL
        BY <2>2, <2>3
      <4>3. d.fd[new].file = e \/ (d.fd[new].file = NULL /\ \A i \in FDs : d.fd[i].file # e)
        <5>1. e # NULL /\ new # NULL
          BY <2>1, <2>5
        <5>. QED BY <1>1, <5>1, FindFd
      <4>. QED BY <2>5, <4>1, <4>2, <4>3
    <3>6. r = Opened(d, << a, k >>)
      BY <3>1, <3>3
    <3>. HIDE DEF a, new, Opened
    <3>. QED BY <2>4, <3>1, <3>4, <3>5, <3>6
  <2>6. CASE e = NULL
    <3>1. PICK q \in Make(d, dd, n, FileBlock, domain) :
             r = IF q.err = "E_OK" THEN Opened(q.disk, << DirOf(q.disk, dd), FirstFree(d, a) >>) ELSE q
      BY <2>1, <2>6
    <3>2. MayGrow(d, dd)
      BY <2>1, <2>6
    <3>3. n \in Name => \A k : LiveAt(d.heap, DirOf(d, dd), k) => Ent(d.heap, DirOf(d, dd), k).name # NewName(n, domain)
      BY <1>2, <2>6
    <3>4. /\ FileBlock \in BlockType /\ FileBlock.kind \in Kinds /\ FileBlock.kind = "file"
          /\ (FileBlock.kind # "dir" => FileBlock.ent = << >>)
          /\ \A k \in DOMAIN FileBlock.ent : FileBlock.ent[k].faddr = NULL
      <4>1. FileBlock \in BlockType /\ FileBlock.kind = "file" /\ FileBlock.ent = << >>
        BY NewBlocks
      <4>2. DOMAIN << >> = {} /\ "file" \in Kinds
        BY DEF Kinds
      <4>. QED BY <4>1, <4>2
    <3>. DEFINE b == DirOf(q.disk, dd)
                f == FirstFree(d, a)
    <3>5. /\ DiskOK(q.disk, F) /\ q.disk.fd = d.fd
          /\ q.err = "E_OK" => /\ LiveAt(q.disk.heap, b, f) /\ Ent(q.disk.heap, b, f).kind = "file"
                               /\ \A i \in F : d.fd[i].file # << b, f >>
      <4>1. q \in Make(d, dd, n, FileBlock, domain)
        BY <3>1
      <4>2. /\ DiskOK(q.disk, F) /\ q.disk.fd = d.fd
            /\ q.err = "E_OK" =>
                 LET x == DirOf(q.disk, dd)
                     y == FirstFree(d, DirOf(d, dd))
                 IN  /\ LiveAt(q.disk.heap, x, y) /\ Ent(q.disk.heap, x, y).kind = FileBlock.kind
                     /\ \A i \in F : d.fd[i].file # << x, y >>
        BY ONLY DiskOK(d, F), dd \in FDs \ F, d.fd[dd].refcnt > 0, <3>2, <3>3, <3>4, <4>1, Made
      <4>. QED BY <3>4, <4>2
    <3>6. CASE q.err = "E_OK"
      <4>1. r = Opened(q.disk, << b, f >>)
        BY <3>1, <3>6
      <4>2. /\ DiskOK(q.disk, F) /\ q.disk.fd = d.fd /\ LiveAt(q.disk.heap, b, f)
            /\ Ent(q.disk.heap, b, f).kind = "file" /\ \A i \in F : d.fd[i].file # << b, f >>
        BY <3>5, <3>6
      <4>. HIDE DEF a, new, b, f, e, Opened
      <4>. QED BY ONLY <2>4, <4>1, <4>2, ZenonT(40)
    <3>7. CASE q.err # "E_OK"
      <4>1. r = q
        BY <3>1, <3>7
      <4>. QED BY <3>5, <3>7, <4>1 DEF Answered
    <3>. QED BY <3>6, <3>7
  <2>. QED BY <2>5, <2>6
<1>. QED BY <1>3, <1>4

\* Only the handles of open directories change.
LEMMA Rehandle ==
    ASSUME NEW d, NEW F, DiskOK(d, F), NEW e \in DiskType, e.heap = d.heap, e.fd = d.fd, OpenDirsOK(e)
    PROVE  DiskOK(e, F)
<1>1. d \in DiskType /\ RootOK(d, F) /\ FilesOK(d, F) /\ FreeOK(d) /\ F \subseteq FDs
  BY DiskOKParts
<1>2. FilesOK(e, F) /\ FreeOK(e)
  BY <1>1, SameFiles DEF FreeOK
<1>3. ROOT \notin F
  BY <1>1 DEF RootOK
<1>4. \A i \in FDs \ (F \cup F) : SameDD(d.fd, e.fd, i) /\ (e.fd[i].refcnt > 0 <=> d.fd[i].refcnt > 0)
  BY DEF SameDD
<1>. QED BY <1>2, <1>3, <1>4, Retable

\* A disk with other handles.
LEMMA DiskOfDhd ==
    ASSUME NEW d \in DiskType, NEW x \in [DHDs -> [dir : Blocks \cup {NULL}, owner : Proc \cup {NULL}]],
           NEW e, e = [d EXCEPT !.dhd = x]
    PROVE  e \in DiskType /\ e.heap = d.heap /\ e.fd = d.fd /\ e.dhd = x
<1>1. d = [heap |-> d.heap, fd |-> d.fd, dhd |-> d.dhd]
  BY DiskParts
<1>2. e = [heap |-> d.heap, fd |-> d.fd, dhd |-> x]
  BY <1>1
<1>3. d.heap \in HeapType /\ d.fd \in FdTable
  BY DiskParts
<1>. QED BY <1>2, <1>3 DEF DiskType

\* ramdisk_dopendir.
LEMMA DopendirOK ==
    ASSUME NEW d, NEW F, DiskOK(d, F), NEW dd \in FDs \ F, d.fd[dd].refcnt > 0, NEW pd \in Proc,
           NEW r, r = dopendir(d, dd, pd)
    PROVE  Answered(d, F, r)
<1>. DEFINE free == {i \in DHDs : d.dhd[i].dir = NULL}
            x == [d.dhd EXCEPT ![Min(free)] = [dir |-> DirOf(d, dd), owner |-> pd]]
<1>1. /\ d \in DiskType /\ d.dhd \in [DHDs -> [dir : Blocks \cup {NULL}, owner : Proc \cup {NULL}]]
      /\ DirOf(d, dd) \in Dirs(d.heap) /\ OpenDirsOK(d)
  BY DiskOKParts, DiskParts, LockedRooted, ChainClosed, GoodDir DEF Rooted
<1>2. CASE free = {}
  <2>1. r.disk = d
    BY <1>2 DEF dopendir, Answer
  <2>. QED BY <2>1 DEF Answered
<1>3. CASE free # {}
  <2>1. r.disk = [d EXCEPT !.dhd = x]
    <3>1. r = IF free = {} THEN Answer(d, "ENHNDL")
              ELSE OK([d EXCEPT !.dhd[Min(free)] = [dir |-> DirOf(d, dd), owner |-> pd]])
      BY Zenon DEF dopendir
    <3>. HIDE DEF free
    <3>. QED BY <1>3, <3>1 DEF OK, Answer
  <2>2. Min(free) \in DHDs
    <3>1. free \in SUBSET Nat
      BY RamAssumption DEF DHDs
    <3>. HIDE DEF free
    <3>2. Min(free) \in free
      BY <1>3, <3>1, MinOf
    <3>. QED BY <3>2 DEF free
  <2>. HIDE DEF free
  <2>3. DirOf(d, dd) \in Blocks /\ d.heap[DirOf(d, dd)].kind = "dir"
    BY <1>1 DEF Dirs
  <2>4. /\ x \in [DHDs -> [dir : Blocks \cup {NULL}, owner : Proc \cup {NULL}]]
        /\ \A i \in DHDs : x[i] = d.dhd[i] \/ x[i].dir = DirOf(d, dd)
    BY <1>1, <2>2, <2>3
  <2>. HIDE DEF x
  <2>5. r.disk \in DiskType /\ r.disk.heap = d.heap /\ r.disk.fd = d.fd /\ r.disk.dhd = x
    BY <1>1, <2>1, <2>4, DiskOfDhd
  <2>6. OpenDirsOK(r.disk)
    BY <1>1, <2>3, <2>4, <2>5 DEF OpenDirsOK
  <2>7. DiskOK(r.disk, F)
    BY <2>5, <2>6, Rehandle
  <2>. QED BY <2>5, <2>7 DEF Answered
<1>. QED BY <1>2, <1>3

\* Handles that get free, as ramdisk_dclosedir and ramdisk_pterm free them.
LEMMA FreeHandles ==
    ASSUME NEW d, NEW F, DiskOK(d, F), NEW x, x \in [DHDs -> {FreeDhd} \cup {d.dhd[i] : i \in DHDs}],
           \A i \in DHDs : x[i] \in {FreeDhd, d.dhd[i]}, NEW e, e = [d EXCEPT !.dhd = x]
    PROVE  DiskOK(e, F) /\ e.fd = d.fd
<1>1. /\ d \in DiskType /\ d.dhd \in [DHDs -> [dir : Blocks \cup {NULL}, owner : Proc \cup {NULL}]] /\ OpenDirsOK(d)
  BY DiskOKParts, DiskParts
<1>2. FreeDhd \in [dir : Blocks \cup {NULL}, owner : Proc \cup {NULL}] /\ FreeDhd.dir = NULL
  BY DEF FreeDhd
<1>3. x \in [DHDs -> [dir : Blocks \cup {NULL}, owner : Proc \cup {NULL}]]
  BY <1>1, <1>2
<1>4. e \in DiskType /\ e.heap = d.heap /\ e.fd = d.fd /\ e.dhd = x
  BY <1>1, <1>3, DiskOfDhd
<1>5. OpenDirsOK(e)
  BY <1>1, <1>2, <1>4 DEF OpenDirsOK
<1>. QED BY <1>4, <1>5, Rehandle

\* ramdisk_dclosedir.
LEMMA DclosedirOK ==
    ASSUME NEW d, NEW F, DiskOK(d, F), NEW i \in DHDs, NEW e, e = dclosedir(d, i)
    PROVE  DiskOK(e, F) /\ e.fd = d.fd
<1>. DEFINE x == [d.dhd EXCEPT ![i] = FreeDhd]
<1>1. d.dhd \in [DHDs -> [dir : Blocks \cup {NULL}, owner : Proc \cup {NULL}]]
  BY DiskOKParts, DiskParts
<1>2. x \in [DHDs -> {FreeDhd} \cup {d.dhd[j] : j \in DHDs}] /\ \A j \in DHDs : x[j] \in {FreeDhd, d.dhd[j]}
  BY <1>1
<1>3. e = [d EXCEPT !.dhd = x]
  BY DEF dclosedir
<1>. HIDE DEF x
<1>. QED BY <1>2, <1>3, FreeHandles

\* ramdisk_pterm.
LEMMA PtermOK ==
    ASSUME NEW d, NEW F, DiskOK(d, F), NEW pd, NEW e, e = pterm(d, pd)
    PROVE  DiskOK(e, F) /\ e.fd = d.fd
<1>. DEFINE x == [i \in DHDs |-> IF d.dhd[i].owner = pd THEN FreeDhd ELSE d.dhd[i]]
<1>1. x \in [DHDs -> {FreeDhd} \cup {d.dhd[j] : j \in DHDs}] /\ \A j \in DHDs : x[j] \in {FreeDhd, d.dhd[j]}
  OBVIOUS
<1>2. e = [d EXCEPT !.dhd = x]
  BY DEF pterm
<1>. HIDE DEF x
<1>. QED BY <1>1, <1>2, FreeHandles

\* cnt users less of the files in F leave those in G open
Closed(d, F, cnt, G, e) ==
    /\ DiskOK(e, G) /\ \A i \in FDs : e.fd[i].refcnt = d.fd[i].refcnt - cnt[i]
    /\ \A i \in FDs \ F : e.fd[i] = d.fd[i]

\* ramdisk_close, cnt[i] times for the files that are open.
LEMMA CloseOK ==
    ASSUME NEW d, NEW F, DiskOK(d, F), NEW cnt \in [FDs -> Nat],
           \A i \in FDs : cnt[i] <= d.fd[i].refcnt /\ (cnt[i] > 0 => i \in F),
           NEW G, G = {i \in F : d.fd[i].refcnt > cnt[i]}, NEW e, e = close(d, cnt)
    PROVE  Closed(d, F, cnt, G, e)
<1>. DEFINE f(i) == IF cnt[i] = 0 THEN d.fd[i] ELSE IF d.fd[i].refcnt <= cnt[i] THEN FreeFd
                    ELSE [d.fd[i] EXCEPT !.refcnt = d.fd[i].refcnt - cnt[i]]
            gd == [i \in FDs |-> f(i)]
<1>1. /\ d \in DiskType /\ d.fd \in FdTable /\ RootOK(d, F) /\ FilesOK(d, F) /\ F \subseteq FDs /\ OpenDirsOK(d) /\ FreeOK(d)
  BY DiskOKParts
<1>2. FreeFd \in FdType /\ FreeFd.file = NULL /\ FreeFd.refcnt = 0 /\ FreeFd.is_parent = 0
  BY DEF FreeFd, FdType
<1>3. ASSUME NEW i \in FDs
      PROVE  /\ f(i) \in FdType /\ f(i).refcnt = d.fd[i].refcnt - cnt[i] /\ f(i).is_parent = d.fd[i].is_parent
             /\ i \notin F => f(i) = d.fd[i]
             /\ i \in F \ G => f(i) = FreeFd
             /\ i \in G => f(i).file = d.fd[i].file /\ f(i).parent = d.fd[i].parent /\ f(i).refcnt > 0
  <2>1. d.fd[i] \in FdType /\ d.fd[i].refcnt \in Nat /\ cnt[i] \in Nat /\ cnt[i] <= d.fd[i].refcnt
    BY <1>1 DEF FdTable, FdType
  <2>2. i \in F => d.fd[i].refcnt > 0 /\ d.fd[i].is_parent = 0
    BY <1>1 DEF FilesOK
  <2>3. CASE cnt[i] = 0
    BY <2>1, <2>2, <2>3
  <2>4. CASE cnt[i] # 0
    <3>1. i \in F
      BY <2>1, <2>4
    <3>2. CASE d.fd[i].refcnt <= cnt[i]
      <4>1. f(i) = FreeFd
        BY <2>4, <3>2
      <4>. HIDE DEF f
      <4>. QED BY <1>2, <2>1, <2>2, <3>1, <3>2, <4>1
    <3>3. CASE ~(d.fd[i].refcnt <= cnt[i])
      <4>. DEFINE n == d.fd[i].refcnt - cnt[i]
      <4>1. n \in Nat /\ n > 0 /\ d.fd[i].refcnt > cnt[i]
        BY <2>1, <3>3
      <4>2. f(i) = [d.fd[i] EXCEPT !.refcnt = n]
        BY <2>4, <3>3
      <4>. HIDE DEF f, n
      <4>3. /\ f(i) \in FdType /\ f(i).refcnt = n /\ f(i).is_parent = d.fd[i].is_parent
            /\ f(i).file = d.fd[i].file /\ f(i).parent = d.fd[i].parent
        BY <2>1, <4>1, <4>2 DEF FdType
      <4>. QED BY <3>1, <4>1, <4>3 DEF n
    <3>. QED BY <3>2, <3>3
  <2>. QED BY <2>3, <2>4
<1>4. e = [d EXCEPT !.fd = gd]
  BY Zenon DEF close
<1>. HIDE DEF f
<1>5. gd \in FdTable
  BY <1>3 DEF FdTable, FdType
<1>6. e \in DiskType /\ e.heap = d.heap /\ e.dhd = d.dhd /\ \A i \in FDs : e.fd[i] = f(i)
  <2>1. \A i \in FDs : gd[i] = f(i)
    OBVIOUS
  <2>. HIDE DEF gd
  <2>. QED BY <1>1, <1>4, <1>5, <2>1, DiskOfFd
<1>. HIDE DEF gd
<1>7. FilesOK(e, G)
  <2>1. ASSUME NEW i \in G
        PROVE  /\ i \in FDs /\ e.fd[i].file = d.fd[i].file /\ e.fd[i].file # NULL /\ e.fd[i].refcnt > 0 /\ e.fd[i].is_parent = 0
               /\ LiveAt(e.heap, At(e.fd, i), Nr(e.fd, i)) /\ Entry(e, e.fd[i].file).kind = "file"
    <3>1. i \in F /\ i \in FDs /\ e.fd[i].file = d.fd[i].file /\ e.fd[i].refcnt > 0 /\ e.fd[i].is_parent = d.fd[i].is_parent
      BY <1>1, <1>3, <1>6
    <3>2. At(e.fd, i) = At(d.fd, i) /\ Nr(e.fd, i) = Nr(d.fd, i) /\ Entry(e, e.fd[i].file) = Entry(d, d.fd[i].file)
      BY <1>6, <3>1, SameEntry DEF At, Nr
    <3>. QED BY <1>1, <1>6, <3>1, <3>2 DEF FilesOK
  <2>2. \A i, j \in G : e.fd[i].file = e.fd[j].file => i = j
    BY <1>1, <2>1 DEF FilesOK
  <2>. QED BY <2>1, <2>2 DEF FilesOK
<1>8. FreeOK(e)
  <2>. SUFFICES ASSUME NEW i \in FDs \ {ROOT}
                PROVE  IF e.fd[i].file = NULL THEN e.fd[i] = FreeFd
                       ELSE e.fd[i].parent \in FDs /\ e.fd[i].file # root_de
    BY DEF FreeOK
  <2>1. CASE i \notin F
    BY <1>1, <1>3, <1>6, <2>1 DEF FreeOK
  <2>2. CASE i \in F \ G
    BY <1>2, <1>3, <1>6, <2>2
  <2>3. CASE i \in G
    <3>1. d.fd[i].file # NULL
      BY <1>1, <2>3 DEF FilesOK
    <3>. QED BY <1>1, <1>3, <1>6, <2>3, <3>1 DEF FreeOK
  <2>. QED BY <2>1, <2>2, <2>3
<1>9. OpenDirsOK(e)
  BY <1>1, <1>6, SameOpenDirs
<1>10. ROOT \notin G
  BY <1>1 DEF RootOK
<1>11. /\ \A i \in FDs : e.fd[i].is_parent = d.fd[i].is_parent
       /\ \A i \in FDs \ (F \cup G) : SameDD(d.fd, e.fd, i) /\ (e.fd[i].refcnt > 0 <=> d.fd[i].refcnt > 0)
       /\ \A i \in F \ G : e.fd[i] = FreeFd
       /\ \A i \in G \ F : d.fd[i] = FreeFd
  BY <1>1, <1>3, <1>6 DEF SameDD
<1>12. DiskOK(e, G)
  BY <1>6, <1>7, <1>8, <1>9, <1>10, <1>11, Retable
<1>. QED BY <1>3, <1>6, <1>12 DEF Closed

\* n[i] users more of descriptor i
Recounted(d, n) == [d EXCEPT !.fd = [i \in FDs |-> [d.fd[i] EXCEPT !.refcnt = d.fd[i].refcnt + n[i]]]]

\* More users of what is in use.
LEMMA RecountOK ==
    ASSUME NEW d, NEW F, DiskOK(d, F), NEW n \in [FDs -> Nat], \A i \in FDs : n[i] > 0 => d.fd[i].refcnt > 0,
           NEW e, e = Recounted(d, n)
    PROVE  /\ DiskOK(e, F) /\ \A i \in FDs : e.fd[i].refcnt = d.fd[i].refcnt + n[i]
           /\ \A i \in FDs : SameDD(d.fd, e.fd, i)
<1>. DEFINE f(i) == [d.fd[i] EXCEPT !.refcnt = d.fd[i].refcnt + n[i]]
            gd == [i \in FDs |-> f(i)]
<1>1. /\ d \in DiskType /\ d.fd \in FdTable /\ RootOK(d, F) /\ FilesOK(d, F) /\ F \subseteq FDs /\ OpenDirsOK(d) /\ FreeOK(d)
  BY DiskOKParts
<1>2. FreeFd.refcnt = 0
  BY DEF FreeFd
<1>3. ASSUME NEW i \in FDs
      PROVE  /\ f(i) \in FdType /\ f(i).refcnt = d.fd[i].refcnt + n[i] /\ f(i).is_parent = d.fd[i].is_parent
             /\ f(i).file = d.fd[i].file /\ f(i).parent = d.fd[i].parent
             /\ f(i).refcnt > 0 <=> d.fd[i].refcnt > 0
             /\ n[i] = 0 => f(i) = d.fd[i]
  <2>1. d.fd[i] \in FdType /\ d.fd[i].refcnt \in Nat /\ n[i] \in Nat /\ (n[i] > 0 => d.fd[i].refcnt > 0)
    BY <1>1 DEF FdTable, FdType
  <2>. DEFINE m == d.fd[i].refcnt + n[i]
  <2>2. m \in Nat /\ (m > 0 <=> d.fd[i].refcnt > 0) /\ (n[i] = 0 => m = d.fd[i].refcnt)
    BY <2>1
  <2>. HIDE DEF m
  <2>3. f(i) = [d.fd[i] EXCEPT !.refcnt = m]
    BY DEF m
  <2>. HIDE DEF f
  <2>. QED BY <2>1, <2>2, <2>3 DEF FdType, m
<1>. HIDE DEF f
<1>4. e = [d EXCEPT !.fd = gd]
  BY DEF f, Recounted
<1>5. gd \in FdTable
  BY <1>3 DEF FdTable, FdType
<1>6. e \in DiskType /\ e.heap = d.heap /\ e.dhd = d.dhd /\ \A i \in FDs : e.fd[i] = f(i)
  <2>1. \A i \in FDs : gd[i] = f(i)
    OBVIOUS
  <2>. HIDE DEF gd
  <2>. QED BY ONLY <1>1, <1>4, <1>5, <2>1, DiskOfFd
<1>. HIDE DEF gd
<1>7. FilesOK(e, F)
  <2>1. ASSUME NEW i \in F
        PROVE  /\ i \in FDs /\ e.fd[i].file = d.fd[i].file /\ e.fd[i].file # NULL /\ e.fd[i].refcnt > 0 /\ e.fd[i].is_parent = 0
               /\ LiveAt(e.heap, At(e.fd, i), Nr(e.fd, i)) /\ Entry(e, e.fd[i].file).kind = "file"
    <3>1. i \in FDs /\ e.fd[i].file = d.fd[i].file /\ (e.fd[i].refcnt > 0 <=> d.fd[i].refcnt > 0)
          /\ e.fd[i].is_parent = d.fd[i].is_parent
      BY <1>1, <1>3, <1>6
    <3>2. At(e.fd, i) = At(d.fd, i) /\ Nr(e.fd, i) = Nr(d.fd, i) /\ Entry(e, e.fd[i].file) = Entry(d, d.fd[i].file)
      BY ONLY <1>6, <3>1, SameEntry DEF At, Nr
    <3>. QED BY <1>1, <1>6, <3>1, <3>2 DEF FilesOK
  <2>2. \A i, j \in F : e.fd[i].file = e.fd[j].file => i = j
    BY <1>1, <2>1 DEF FilesOK
  <2>. QED BY <1>1, <2>1, <2>2 DEF FilesOK
<1>8. FreeOK(e)
  <2>. SUFFICES ASSUME NEW i \in FDs \ {ROOT}
                PROVE  IF e.fd[i].file = NULL THEN e.fd[i] = FreeFd
                       ELSE e.fd[i].parent \in FDs /\ e.fd[i].file # root_de
    BY DEF FreeOK
  <2>1. CASE d.fd[i].file = NULL
    <3>1. d.fd[i] = FreeFd
      BY <1>1, <2>1 DEF FreeOK
    <3>2. n[i] = 0
      BY <1>2, <3>1
    <3>. QED BY <1>3, <1>6, <2>1, <3>1, <3>2
  <2>2. CASE d.fd[i].file # NULL
    BY <1>1, <1>3, <1>6, <2>2 DEF FreeOK
  <2>. QED BY <2>1, <2>2
<1>9. OpenDirsOK(e)
  BY <1>1, <1>6, SameOpenDirs
<1>10. ROOT \notin F
  BY <1>1 DEF RootOK
<1>11. /\ \A i \in FDs : e.fd[i].is_parent = d.fd[i].is_parent
       /\ \A i \in FDs \ (F \cup F) : SameDD(d.fd, e.fd, i) /\ (e.fd[i].refcnt > 0 <=> d.fd[i].refcnt > 0)
  BY <1>1, <1>3, <1>6 DEF SameDD
<1>12. DiskOK(e, F)
  BY <1>6, <1>7, <1>8, <1>9, <1>10, <1>11, Retable
<1>. QED BY <1>3, <1>6, <1>12 DEF SameDD

-----------------------------------------------------------------------------
(* GEMDOS calls *)

\* From d to e every lock that is taken is given back, and what is locked stays
Balanced(d, e, F) ==
    /\ DiskOK(e, F) /\ \A i \in FDs : e.fd[i].refcnt = d.fd[i].refcnt
    /\ \A i \in FDs : d.fd[i].refcnt > 0 => SameDD(d.fd, e.fd, i)

\* An error, or an answer that leaves the descriptors as they are.
LEMMA BalancedFirst ==
    ASSUME NEW d, NEW F, NEW e, Locks(d, e, F, NULL) \/ (DiskOK(e, F) /\ e.fd = d.fd), d.fd \in FdTable
    PROVE  Balanced(d, e, F)
<1>1. CASE Locks(d, e, F, NULL)
  <2>1. \A i \in FDs : i # NULL /\ d.fd[i].refcnt \in Nat
    BY Constants, FdParts
  <2>. QED BY <1>1, <2>1 DEF Locks, Keeps, Balanced
<1>2. CASE DiskOK(e, F) /\ e.fd = d.fd
  BY <1>2 DEF Balanced, SameDD
<1>. QED BY <1>1, <1>2

\* One after the other.
LEMMA BalancedTrans ==
    ASSUME NEW d, NEW F, NEW m, NEW e, Balanced(d, m, F), Balanced(m, e, F)
    PROVE  Balanced(d, e, F)
BY DEF Balanced, SameDD

\* Between the lookup that locks a DD and the unlock_dd at the end of a call.
LEMMA CallEnd ==
    ASSUME NEW d, NEW F, DiskOK(d, F), NEW m, NEW dd \in FDs \ F, Locks(d, m, F, dd),
           NEW f, Balanced(m, f, F), NEW e, e = unlock_dd(f, dd)
    PROVE  Balanced(d, e, F)
<1>1. d.fd \in FdTable /\ RootOK(d, F) /\ \A i \in FDs : d.fd[i].refcnt \in Nat
  BY DiskOKParts, FdParts
<1>2. /\ \A i \in FDs : m.fd[i].refcnt = d.fd[i].refcnt + (IF i = dd THEN 1 ELSE 0)
      /\ \A i \in FDs : d.fd[i].refcnt > 0 => SameDD(d.fd, m.fd, i)
  BY DEF Locks, Keeps
<1>3. /\ DiskOK(f, F) /\ \A i \in FDs : f.fd[i].refcnt = m.fd[i].refcnt
      /\ \A i \in FDs : m.fd[i].refcnt > 0 => SameDD(m.fd, f.fd, i)
  BY DEF Balanced
<1>4. f.fd[dd].refcnt > 0 /\ (dd = ROOT => f.fd[dd].refcnt > 1)
  BY <1>1, <1>2, <1>3 DEF RootOK
<1>5. Unlocks(f, e, F, dd)
  BY <1>3, <1>4, Unlock
<1>6. /\ DiskOK(e, F) /\ \A i \in FDs : e.fd[i].refcnt > 0 => SameDD(f.fd, e.fd, i)
      /\ \A i \in FDs : e.fd[i].refcnt = f.fd[i].refcnt - (IF i = dd THEN 1 ELSE 0)
  BY <1>5 DEF Unlocks
<1>7. \A i \in FDs : e.fd[i].refcnt = d.fd[i].refcnt
  BY <1>1, <1>2, <1>3, <1>6
<1>8. ASSUME NEW i \in FDs, d.fd[i].refcnt > 0 PROVE SameDD(d.fd, e.fd, i)
  <2>1. m.fd[i].refcnt > 0 /\ e.fd[i].refcnt > 0
    BY <1>1, <1>2, <1>7, <1>8
  <2>. QED BY <1>2, <1>3, <1>6, <1>8, <2>1 DEF SameDD
<1>. QED BY <1>6, <1>7, <1>8 DEF Balanced

\* Fxfunct.
LEMMA FxCall ==
    ASSUME NEW F, DiskOK(ram, F), NEW r, LookupOK(ram, F, r), NEW answers,
           r.err = "E_OK" => \A a \in answers : Answered(r.disk, F, a),
           NEW ok, Fxfunct(r, ok, answers)
    PROVE  Balanced(ram, ram', F)
<1>1. ram.fd \in FdTable
  BY DiskOKParts
<1>2. CASE r.err = "E_OK"
  <2>1. PICK a \in answers : ram' = unlock_dd(a.disk, r.dd)
    BY <1>2 DEF Fxfunct
  <2>2. Locks(ram, r.disk, F, r.dd) /\ r.dd \in FDs \ F /\ DiskOK(r.disk, F)
    BY <1>2, LookedUp
  <2>3. r.disk.fd \in FdTable
    BY <2>2, DiskOKParts
  <2>4. Balanced(r.disk, a.disk, F)
    BY <1>2, <2>3, BalancedFirst DEF Answered
  <2>. QED BY <2>1, <2>2, <2>4, CallEnd
<1>3. CASE r.err # "E_OK"
  <2>1. ram' = r.disk
    BY <1>3 DEF Fxfunct
  <2>2. Locks(ram, ram', F, NULL)
    BY <1>3, <2>1 DEF LookupOK
  <2>. QED BY <1>1, <2>2, BalancedFirst
<1>. QED BY <1>2, <1>3

\* Paths are sequences, and the domains are two.
LEMMA Paths ==
    /\ Path \subseteq PathSeq
    /\ MakeDirs \cup DirPaths \cup ReadPaths \cup FilePaths \subseteq PathSeq
    /\ \A o \in Opens : o[1] \in PathSeq
    /\ \A l \in Renames \cup Links : l[1] \in PathSeq /\ l[2] \in PathSeq /\ l[2] \in Path
    /\ \A p \in Proc : Domain[p] \in {"tos", "mint"}
<1>1. Path \subseteq PathSeq
  BY DEF Path, PathSeq
<1>. QED BY <1>1, DosAssumption

\* The default path of a process is locked.
LEMMA DefaultLocked ==
    ASSUME DosInv, NEW p \in alive
    PROVE  /\ DefaultDD(p) \in FDs \ FileFDs /\ ram.fd[DefaultDD(p)].refcnt > 0
           /\ drvx[p] > 0 => /\ drvx[p] \in Handle /\ DefaultDD(p) = pathx[drvx[p]] /\ DefaultDD(p) # ROOT
                             /\ p \in CwdOf(pathx[drvx[p]]) /\ pathcntx[drvx[p]] > 0
           /\ drvx[p] \in Nat
<1>1. RootOK(ram, FileFDs) /\ ram.fd \in FdTable
  BY DiskOKParts DEF DosInv
<1>2. p \in Proc /\ drvx[p] \in {0} \cup Handle /\ \A h \in Handle : h \in Nat /\ h > 0
  BY DosAssumption DEF DosInv, KernelType, Handle
<1>3. CASE drvx[p] = 0
  BY <1>1, <1>3, Constants DEF DefaultDD, RootOK
<1>4. CASE drvx[p] # 0
  <2>1. drvx[p] \in Handle /\ drvx[p] > 0 /\ drvx[p] \in Nat
    BY <1>2, <1>4
  <2>2. p \in {q \in alive : drvx[q] = drvx[p]}
    OBVIOUS
  <2>3. IsFiniteSet(alive)
    BY DosAssumption, FS_Subset DEF DosInv, KernelType
  <2>4. pathcntx[drvx[p]] = Cardinality({q \in alive : drvx[q] = drvx[p]})
    BY <2>1 DEF DosInv, PathsOK
  <2>5. pathcntx[drvx[p]] > 0
    <3>. DEFINE S == {q \in alive : drvx[q] = drvx[p]}
    <3>1. IsFiniteSet(S)
      BY <2>3, FS_Subset
    <3>2. S # {}
      BY <2>2
    <3>. HIDE DEF S
    <3>3. Cardinality(S) \in Nat /\ Cardinality(S) # 0
      BY <3>1, <3>2, FS_CardinalityType, FS_EmptySet
    <3>. QED BY <2>4, <3>3 DEF S
  <2>6. /\ pathx[drvx[p]] # NULL /\ pathx[drvx[p]] \notin FileFDs \cup {ROOT} /\ pathx[drvx[p]] \in FDs
    BY <2>1, <2>5 DEF DosInv, PathsOK, KernelType
  <2>7. DefaultDD(p) = pathx[drvx[p]]
    BY <2>1 DEF DefaultDD
  <2>8. p \in CwdOf(pathx[drvx[p]])
    BY <2>1 DEF CwdOf
  <2>9. ram.fd[pathx[drvx[p]]].refcnt > 0
    <3>. DEFINE i == pathx[drvx[p]]
    <3>1. IsFiniteSet(CwdOf(i)) /\ IsFiniteSet(HandlesOf(i))
      <4>1. IsFiniteSet(Proc \X (1..NHDL))
        <5>1. IsFiniteSet(1..NHDL) /\ IsFiniteSet(Proc)
          BY DosAssumption, FS_Interval
        <5>. QED BY <5>1, FS_Product
      <4>. QED BY <2>3, <4>1, FS_Subset DEF CwdOf, HandlesOf
    <3>2. CwdOf(i) # {}
      BY <2>8
    <3>3. Cardinality(CwdOf(i)) \in Nat /\ Cardinality(CwdOf(i)) # 0 /\ Cardinality(HandlesOf(i)) \in Nat
      BY <3>1, <3>2, FS_CardinalityType, FS_EmptySet
    <3>4. ram.fd[i].refcnt >= Uses(i) /\ ram.fd[i].refcnt \in Nat
      BY <1>1, <2>6, FdParts DEF DosInv, CountsOK
    <3>. HIDE DEF i
    <3>. QED BY <3>3, <3>4 DEF Uses, i
  <2>. QED BY <2>1, <2>5, <2>6, <2>7, <2>8, <2>9
<1>. QED BY <1>3, <1>4

\* A lookup from the default path.
LEMMA LookupIs ==
    ASSUME DosInv, NEW p \in alive, NEW d, Locks(ram, d, FileFDs, NULL) \/ (\E x \in FDs : Locks(ram, d, FileFDs, x)),
           NEW path \in PathSeq, NEW mode, NEW r, r = Lookup(d, p, path, mode)
    PROVE  LookupOK(d, FileFDs, r)
<1>1. DefaultDD(p) \in FDs \ FileFDs /\ ram.fd[DefaultDD(p)].refcnt > 0
  BY DefaultLocked
<1>2. DiskOK(d, FileFDs)
  BY DEF Locks
<1>3. d.fd[DefaultDD(p)].refcnt > 0
  <2>1. ram.fd \in FdTable
    BY DiskOKParts DEF DosInv
  <2>2. ram.fd[DefaultDD(p)].refcnt \in Nat
    BY <1>1, <2>1, FdParts
  <2>. QED BY <1>1, <2>2 DEF Locks
<1>4. Domain[p] \in {"tos", "mint"}
  BY Paths DEF DosInv, KernelType
<1>. QED BY <1>1, <1>2, <1>3, <1>4, PathToDD DEF Lookup

-----------------------------------------------------------------------------
(* Steps *)

\* The step of CwdKept
CwdStays ==
    \A p \in alive : drvx[p] > 0 /\ drvx'[p] = drvx[p] /\ p \in alive' =>
       /\ pathx'[drvx[p]] = DefaultDD(p)
       /\ ram'.fd[DefaultDD(p)].file = ram.fd[DefaultDD(p)].file

\* What every step has to keep, and what a step keeps that gives back its locks
StepOK == DosInv' /\ CwdStays
StepExact == StepOK /\ (Exact => Exact')

\* A call that changes the disk alone.
LEMMA SameKernel ==
    ASSUME DosInv, UNCHANGED kernel, DiskOK(ram', FileFDs),
           \A i \in FDs : ram'.fd[i].refcnt >= ram.fd[i].refcnt,
           \A i \in FileFDs : ram'.fd[i].refcnt = ram.fd[i].refcnt,
           \A i \in FDs : ram.fd[i].refcnt > 0 => SameDD(ram.fd, ram'.fd, i)
    PROVE  StepOK
<1>1. pathx' = pathx /\ pathcntx' = pathcntx /\ drvx' = drvx /\ hdl' = hdl /\ alive' = alive
  BY DEF kernel
<1>2. FileFDs' = FileFDs
  BY <1>1 DEF FileFDs
<1>3. DiskOK(ram, FileFDs)' 
  BY <1>2
<1>4. KernelType'
  BY <1>1 DEF DosInv, KernelType
<1>5. PathsOK'
  BY <1>1, <1>2 DEF DosInv, PathsOK
<1>6. \A i : Uses(i)' = Uses(i)
  BY <1>1 DEF Uses, CwdOf, HandlesOf
<1>7. CountsOK'
  <2>1. ram.fd \in FdTable /\ ram'.fd \in FdTable
    BY DiskOKParts DEF DosInv
  <2>2. \A i \in FDs : ram.fd[i].refcnt \in Nat /\ ram'.fd[i].refcnt \in Nat
    BY <2>1, FdParts
  <2>3. FileFDs \subseteq FDs
    BY DiskOKParts
  <2>4. IsFiniteSet(alive) /\ IsFiniteSet(Proc \X (1..NHDL))
    <3>1. IsFiniteSet(1..NHDL) /\ IsFiniteSet(Proc)
      BY DosAssumption, FS_Interval
    <3>. QED BY <3>1, FS_Product, FS_Subset DEF DosInv, KernelType
  <2>5. \A i : IsFiniteSet(CwdOf(i)) /\ IsFiniteSet(HandlesOf(i))
    BY <2>4, FS_Subset DEF CwdOf, HandlesOf
  <2>6. \A i : Cardinality(CwdOf(i)) \in Nat /\ Cardinality(HandlesOf(i)) \in Nat
    BY <2>5, FS_CardinalityType
  <2>7. \A i : Uses(i) \in Nat
    BY <2>6 DEF Uses
  <2>8. \A i \in FDs : ram.fd[i].refcnt >= Uses(i) /\ (i \in FileFDs => ram.fd[i].refcnt = Uses(i))
    BY DEF DosInv, CountsOK
  <2>9. \A i \in FDs : ram'.fd[i].refcnt >= Uses(i) /\ (i \in FileFDs => ram'.fd[i].refcnt = Uses(i))
    <3>. SUFFICES ASSUME NEW i \in FDs
                  PROVE  ram'.fd[i].refcnt >= Uses(i) /\ (i \in FileFDs => ram'.fd[i].refcnt = Uses(i))
      OBVIOUS
    <3>1. ram'.fd[i].refcnt \in Nat /\ ram.fd[i].refcnt \in Nat /\ Uses(i) \in Nat
      BY <2>2, <2>7
    <3>. QED BY <2>8, <3>1
  <2>. QED BY <1>2, <1>6, <2>9 DEF CountsOK
<1>8. CwdStays
  <2>. SUFFICES ASSUME NEW p \in alive, drvx[p] > 0
                PROVE  /\ pathx'[drvx[p]] = DefaultDD(p)
                       /\ ram'.fd[DefaultDD(p)].file = ram.fd[DefaultDD(p)].file
    BY DEF CwdStays
  <2>1. DefaultDD(p) \in FDs /\ ram.fd[DefaultDD(p)].refcnt > 0 /\ DefaultDD(p) = pathx[drvx[p]]
    BY DefaultLocked
  <2>. QED BY <1>1, <2>1 DEF SameDD
<1>. QED BY <1>3, <1>4, <1>5, <1>7, <1>8 DEF StepOK, DosInv

\* It gives back its locks.
LEMMA BalancedStep ==
    ASSUME DosInv, UNCHANGED kernel, Balanced(ram, ram', FileFDs)
    PROVE  StepExact
<1>1. ram.fd \in FdTable /\ FileFDs \subseteq FDs
  BY DiskOKParts DEF DosInv
<1>2. \A i \in FDs : ram'.fd[i].refcnt = ram.fd[i].refcnt /\ ram.fd[i].refcnt \in Nat
  BY <1>1, FdParts DEF Balanced
<1>3. StepOK
  BY <1>1, <1>2, SameKernel DEF Balanced
<1>4. \A i : Uses(i)' = Uses(i)
  BY DEF Uses, CwdOf, HandlesOf, kernel
<1>5. Exact => Exact'
  BY <1>2, <1>4 DEF Exact
<1>. QED BY <1>3, <1>5 DEF StepExact

\* It locks DD x and does not unlock it.
LEMMA LeakStep ==
    ASSUME DosInv, UNCHANGED kernel, NEW x \in FDs \ FileFDs, Locks(ram, ram', FileFDs, x)
    PROVE  StepOK
<1>1. ram.fd \in FdTable /\ FileFDs \subseteq FDs
  BY DiskOKParts DEF DosInv
<1>2. \A i \in FDs : ram.fd[i].refcnt \in Nat /\ ram'.fd[i].refcnt = ram.fd[i].refcnt + (IF i = x THEN 1 ELSE 0)
  BY <1>1, FdParts DEF Locks
<1>3. \A i \in FDs : ram'.fd[i].refcnt >= ram.fd[i].refcnt
  BY <1>2
<1>4. \A i \in FileFDs : ram'.fd[i].refcnt = ram.fd[i].refcnt
  BY <1>1, <1>2
<1>. QED BY <1>3, <1>4, SameKernel DEF Locks, Keeps

-----------------------------------------------------------------------------
(* Calls that leave the kernel's variables as they are *)

\* Dcreate.
LEMMA DcreateStep ==
    ASSUME DosInv, careful', NEW p \in alive, NEW path \in MakeDirs, Dcreate(p, path)
    PROVE  StepExact
<1>. DEFINE F == FileFDs
<1>1. PICK r : r = Lookup(ram, p, path, 0)
  OBVIOUS
<1>2. DiskOK(ram, F) /\ path \in PathSeq /\ Domain[p] \in {"tos", "mint"}
  BY Paths DEF DosInv, KernelType
<1>3. Locks(ram, ram, F, NULL)
  BY <1>2, LocksNone
<1>4. LookupOK(ram, F, r)
  BY <1>1, <1>2, <1>3, LookupIs
<1>. DEFINE answers == dcreate(r.disk, r.dd, r.last, Domain[p])
            ok == MayGrow(r.disk, r.dd)
<1>5. Fxfunct(r, ok, answers) /\ UNCHANGED kernel /\ (r.err = "E_OK" => ok)
  <2>1. Fxfunct(r, ok, answers)
    BY <1>1, Zenon DEF Dcreate
  <2>. QED BY <2>1 DEF Fxfunct
<1>6. ASSUME r.err = "E_OK", NEW a \in answers PROVE Answered(r.disk, F, a)
  <2>1. r.dd \in FDs \ F /\ DiskOK(r.disk, F) /\ r.disk.fd[r.dd].refcnt > 0
    BY <1>2, <1>4, <1>6, LookedUp
  <2>2. MayGrow(r.disk, r.dd) /\ a \in dcreate(r.disk, r.dd, r.last, Domain[p])
    BY <1>5, <1>6
  <2>. QED BY <1>2, <2>1, <2>2, DcreateOK
<1>. HIDE DEF answers, ok
<1>7. Balanced(ram, ram', F)
  BY <1>2, <1>4, <1>5, <1>6, FxCall
<1>. QED BY <1>5, <1>7, BalancedStep

\* Fsymlink.
LEMMA FsymlinkStep ==
    ASSUME DosInv, careful', NEW p \in alive, NEW l \in Links, Fsymlink(p, l[1], l[2])
    PROVE  StepExact
<1>. DEFINE F == FileFDs
<1>1. PICK r : r = Lookup(ram, p, l[1], 0)
  OBVIOUS
<1>2. DiskOK(ram, F) /\ l[1] \in PathSeq /\ l[2] \in Path /\ Domain[p] \in {"tos", "mint"}
  BY Paths DEF DosInv, KernelType
<1>3. Locks(ram, ram, F, NULL)
  BY <1>2, LocksNone
<1>4. LookupOK(ram, F, r)
  BY <1>1, <1>2, <1>3, LookupIs
<1>. DEFINE answers == symlink(r.disk, r.dd, r.last, l[2], Domain[p])
            ok == MayGrow(r.disk, r.dd)
<1>5. Fxfunct(r, ok, answers) /\ UNCHANGED kernel /\ (r.err = "E_OK" => ok)
  <2>1. Fxfunct(r, ok, answers)
    BY <1>1, Zenon DEF Fsymlink
  <2>. QED BY <2>1 DEF Fxfunct
<1>6. ASSUME r.err = "E_OK", NEW a \in answers PROVE Answered(r.disk, F, a)
  <2>1. r.dd \in FDs \ F /\ DiskOK(r.disk, F) /\ r.disk.fd[r.dd].refcnt > 0
    BY <1>2, <1>4, <1>6, LookedUp
  <2>2. MayGrow(r.disk, r.dd) /\ a \in symlink(r.disk, r.dd, r.last, l[2], Domain[p])
    BY <1>5, <1>6
  <2>. QED BY <1>2, <2>1, <2>2, SymlinkOK
<1>. HIDE DEF answers, ok
<1>7. Balanced(ram, ram', F)
  BY <1>2, <1>4, <1>5, <1>6, FxCall
<1>. QED BY <1>5, <1>7, BalancedStep

\* Fdelete.
LEMMA FdeleteStep ==
    ASSUME DosInv, NEW p \in alive, NEW path \in FilePaths, Fdelete(p, path)
    PROVE  StepExact
<1>. DEFINE F == FileFDs
<1>1. PICK r : r = Lookup(ram, p, path, 0)
  OBVIOUS
<1>2. DiskOK(ram, F) /\ path \in PathSeq /\ Domain[p] \in {"tos", "mint"}
  BY Paths DEF DosInv, KernelType
<1>3. Locks(ram, ram, F, NULL)
  BY <1>2, LocksNone
<1>4. LookupOK(ram, F, r)
  BY <1>1, <1>2, <1>3, LookupIs
<1>. DEFINE answers == fdelete(r.disk, r.dd, r.last, Domain[p])
<1>5. Fxfunct(r, TRUE, answers) /\ UNCHANGED kernel
  BY <1>1 DEF Fdelete, Fxfunct
<1>6. ASSUME r.err = "E_OK", NEW a \in answers PROVE Answered(r.disk, F, a)
  <2>1. r.dd \in FDs \ F /\ DiskOK(r.disk, F) /\ r.disk.fd[r.dd].refcnt > 0
    BY <1>2, <1>4, <1>6, LookedUp
  <2>. QED BY <1>2, <1>6, <2>1, FdeleteOK
<1>. HIDE DEF answers
<1>7. Balanced(ram, ram', F)
  BY <1>2, <1>4, <1>5, <1>6, FxCall
<1>. QED BY <1>5, <1>7, BalancedStep

\* Dopendir.
LEMMA DopendirStep ==
    ASSUME DosInv, NEW p \in alive, NEW path \in ReadPaths, Dopendir(p, path)
    PROVE  StepExact
<1>. DEFINE F == FileFDs
<1>1. PICK r : r = Lookup(ram, p, path, 1)
  OBVIOUS
<1>2. DiskOK(ram, F) /\ path \in PathSeq /\ p \in Proc
  BY Paths DEF DosInv, KernelType
<1>3. Locks(ram, ram, F, NULL)
  BY <1>2, LocksNone
<1>4. LookupOK(ram, F, r)
  BY <1>1, <1>2, <1>3, LookupIs
<1>5. /\ ram' = IF r.err = "E_OK" THEN unlock_dd(dopendir(r.disk, r.dd, p).disk, r.dd) ELSE r.disk
      /\ UNCHANGED kernel
  BY <1>1 DEF Dopendir
<1>6. CASE r.err = "E_OK"
  <2>1. r.dd \in FDs \ F /\ Locks(ram, r.disk, F, r.dd) /\ DiskOK(r.disk, F) /\ r.disk.fd[r.dd].refcnt > 0
    BY <1>2, <1>4, <1>6, LookedUp
  <2>2. Answered(r.disk, F, dopendir(r.disk, r.dd, p))
    BY <1>2, <2>1, DopendirOK
  <2>3. r.disk.fd \in FdTable
    BY <2>1, DiskOKParts
  <2>4. Balanced(r.disk, dopendir(r.disk, r.dd, p).disk, F)
    BY <2>2, <2>3, BalancedFirst DEF Answered
  <2>5. Balanced(ram, ram', F)
    BY <1>2, <1>5, <1>6, <2>1, <2>4, CallEnd
  <2>. QED BY <1>5, <2>5, BalancedStep
<1>7. CASE r.err # "E_OK"
  <2>1. Locks(ram, ram', F, NULL) /\ ram.fd \in FdTable
    BY <1>2, <1>4, <1>5, <1>7, DiskOKParts DEF LookupOK
  <2>2. Balanced(ram, ram', F)
    BY <2>1, BalancedFirst
  <2>. QED BY <1>5, <2>2, BalancedStep
<1>. QED BY <1>6, <1>7

\* Dclosedir.
LEMMA DclosedirStep ==
    ASSUME DosInv, NEW p \in alive, NEW i \in DHDs, Dclosedir(p, i)
    PROVE  StepExact
<1>1. DiskOK(ram, FileFDs) /\ ram' = dclosedir(ram, i) /\ UNCHANGED kernel
  BY DEF DosInv, Dclosedir
<1>2. DiskOK(ram', FileFDs) /\ ram'.fd = ram.fd /\ ram.fd \in FdTable
  BY <1>1, DclosedirOK, DiskOKParts
<1>3. Balanced(ram, ram', FileFDs)
  BY <1>2, BalancedFirst
<1>. QED BY <1>1, <1>3, BalancedStep

\* Frename.
LEMMA FrenameStep ==
    ASSUME DosInv, careful', NEW p \in alive, NEW l \in Renames, Frename(p, l[1], l[2])
    PROVE  StepExact
<1>. DEFINE F == FileFDs
<1>1. PICK r1 : r1 = Lookup(ram, p, l[1], 0)
  OBVIOUS
<1>2. PICK r2 : r2 = Lookup(r1.disk, p, l[2], 0)
  OBVIOUS
<1>3. DiskOK(ram, F) /\ l[1] \in PathSeq /\ l[2] \in PathSeq /\ Domain[p] \in {"tos", "mint"}
  BY Paths DEF DosInv, KernelType
<1>4. ram.fd \in FdTable
  BY <1>3, DiskOKParts
<1>. DEFINE old == r1.dd
            new == r2.dd
            ok == /\ MayMove(r2.disk, old, new, r1.last, Domain[p])
                  /\ old = new \/ MayGrow(r2.disk, new)
<1>5. /\ UNCHANGED kernel
      /\ r1.err # "E_OK" => ram' = r1.disk
      /\ r1.err = "E_OK" /\ r2.err # "E_OK" => ram' = unlock_dd(r2.disk, old)
      /\ r1.err = "E_OK" /\ r2.err = "E_OK" =>
            /\ MayMove(r2.disk, old, new, r1.last, Domain[p])
            /\ old = new \/ MayGrow(r2.disk, new)
            /\ \E a \in link(r2.disk, old, new, r1.last, r2.last, Domain[p]) :
                  ram' = unlock_dd(unlock_dd(a.disk, new), old)
  <2>1. /\ UNCHANGED kernel
        /\ CASE r1.err # "E_OK" -> ram' = r1.disk /\ UNCHANGED careful
             [] r1.err = "E_OK" /\ r2.err # "E_OK" ->
                   ram' = unlock_dd(r2.disk, old) /\ UNCHANGED careful
             [] OTHER ->
                   /\ careful' = (careful /\ ok)
                   /\ \E a \in link(r2.disk, old, new, r1.last, r2.last, Domain[p]) :
                         ram' = unlock_dd(unlock_dd(a.disk, new), old)
    BY <1>1, <1>2, ZenonT(30) DEF Frename
  <2>2. r1.err = "E_OK" /\ r2.err = "E_OK" =>
            /\ ok
            /\ \E a \in link(r2.disk, old, new, r1.last, r2.last, Domain[p]) :
                  ram' = unlock_dd(unlock_dd(a.disk, new), old)
    <3>. HIDE DEF ok, old, new
    <3>. QED BY <2>1, Zenon
  <2>3. /\ r1.err # "E_OK" => ram' = r1.disk
        /\ r1.err = "E_OK" /\ r2.err # "E_OK" => ram' = unlock_dd(r2.disk, old)
    <3>. HIDE DEF ok, old, new
    <3>. QED BY <2>1, Zenon
  <2>. QED BY <2>1, <2>2, <2>3, Zenon
<1>6. LookupOK(ram, F, r1)
  <2>1. Locks(ram, ram, F, NULL)
    BY <1>3, LocksNone
  <2>. QED BY <1>1, <1>3, <2>1, LookupIs
<1>7. CASE r1.err # "E_OK"
  <2>1. Balanced(ram, ram', F)
    BY <1>4, <1>5, <1>6, <1>7, BalancedFirst DEF LookupOK
  <2>. QED BY <1>5, <2>1, BalancedStep
<1>8. CASE r1.err = "E_OK"
  <2>1. old \in FDs \ F /\ Locks(ram, r1.disk, F, old) /\ DiskOK(r1.disk, F) /\ r1.disk.fd[old].refcnt > 0
    BY <1>3, <1>6, <1>8, LookedUp
  <2>2. LookupOK(r1.disk, F, r2)
    BY <1>2, <1>3, <2>1, LookupIs
  <2>3. r1.disk.fd \in FdTable
    BY <2>1, DiskOKParts
  <2>4. CASE r2.err # "E_OK"
    <3>1. Balanced(r1.disk, r2.disk, F)
      BY <2>2, <2>3, <2>4, BalancedFirst DEF LookupOK
    <3>2. Balanced(ram, ram', F)
      BY <1>3, <1>5, <1>8, <2>1, <2>4, <3>1, CallEnd
    <3>. QED BY <1>5, <3>2, BalancedStep
  <2>5. CASE r2.err = "E_OK"
    <3>1. new \in FDs \ F /\ Locks(r1.disk, r2.disk, F, new) /\ DiskOK(r2.disk, F) /\ r2.disk.fd[new].refcnt > 0
      BY <2>1, <2>2, <2>5, LookedUp
    <3>2. r2.disk.fd[old].refcnt > 0
      <4>1. r1.disk.fd[old].refcnt \in Nat /\ r2.disk.fd[old].refcnt \in Nat
        BY <2>1, <3>1, FdParts, DiskOKParts
      <4>. QED BY <2>1, <3>1, <4>1 DEF Locks
    <3>3. PICK a \in link(r2.disk, old, new, r1.last, r2.last, Domain[p]) :
             ram' = unlock_dd(unlock_dd(a.disk, new), old)
      BY <1>5, <1>8, <2>5
    <3>4. MayMove(r2.disk, old, new, r1.last, Domain[p]) /\ (old = new \/ MayGrow(r2.disk, new))
      BY <1>5, <1>8, <2>5
    <3>. HIDE DEF old, new
    <3>5. Answered(r2.disk, F, a)
      BY <1>3, <2>1, <3>1, <3>2, <3>3, <3>4, LinkOK
    <3>6. r2.disk.fd \in FdTable
      BY <3>1, DiskOKParts
    <3>7. Balanced(r2.disk, a.disk, F)
      BY <3>5, <3>6, BalancedFirst DEF Answered
    <3>8. Balanced(r1.disk, unlock_dd(a.disk, new), F)
      BY <2>1, <3>1, <3>7, CallEnd
    <3>9. Balanced(ram, ram', F)
      BY <1>3, <2>1, <3>3, <3>8, CallEnd
    <3>. QED BY <1>5, <3>9, BalancedStep
  <2>. QED BY <2>4, <2>5
<1>. QED BY <1>7, <1>8

\* Ddelete looks up one component that is no link, or none: it follows none.
LEMMA OneComponent ==
    ASSUME NEW d, NEW dd, NEW c, NEW cs, NEW domain, NEW i, i = findfile(d, DirOf(d, dd), c, "search", domain),
           cs = << >> \/ (cs = << c >>
                          /\ (c \in {".", ".."} \/ i = 0 \/ Entry(d, << DirOf(d, dd), i >>).kind # "link")),
           NEW r, r = path2DD(d, dd, cs, 1, domain)
    PROVE  r.err = "ELINK" => r.link = NULL
<1>. DEFINE n == Len(cs)
            w == CHOOSE walk : walk = [k \in 0..n |->
                    IF k = 0 THEN Found(d, dd, NULL)
                    ELSE Component2DD(walk[k - 1], cs[k], SubSeq(cs, k + 1, Len(cs)), domain)]
            last == IF n < Len(cs) THEN cs[Len(cs)] ELSE NULL
<1>1. r = IF w[n].err # "E_OK" THEN w[n]
          ELSE Found(increase_refcnts(w[n].disk, w[n].dd), w[n].dd, last)
  <2>. DEFINE m == IF 1 = 0 /\ cs # << >> THEN Len(cs) - 1 ELSE Len(cs)
              v == CHOOSE walk : walk = [k \in 0..m |->
                      IF k = 0 THEN Found(d, dd, NULL)
                      ELSE Component2DD(walk[k - 1], cs[k], SubSeq(cs, k + 1, Len(cs)), domain)]
  <2>1. m = n
    OBVIOUS
  <2>2. r = IF v[m].err # "E_OK" THEN v[m]
            ELSE Found(increase_refcnts(v[m].disk, v[m].dd), v[m].dd, IF m < Len(cs) THEN cs[Len(cs)] ELSE NULL)
    BY Zenon DEF path2DD, path2DD_end
  <2>. HIDE DEF m
  <2>3. v = w
    BY <2>1, Zenon
  <2>. HIDE DEF v, w, n
  <2>. QED BY <2>1, <2>2, <2>3
<1>2. n \in {0, 1} /\ (n = 1 => cs = << c >>)
  OBVIOUS
<1>. HIDE DEF n
<1>3. w = [k \in 0..n |->
            IF k = 0 THEN Found(d, dd, NULL)
            ELSE Component2DD(w[k - 1], cs[k], SubSeq(cs, k + 1, Len(cs)), domain)]
  <2>1. \E f : f = [k \in 0..n |->
            IF k = 0 THEN Found(d, dd, NULL)
            ELSE Component2DD(f[k - 1], cs[k], SubSeq(cs, k + 1, Len(cs)), domain)]
    <3>1. \E f : WalkStep(f, d, dd, cs, n, domain)
      BY <1>2, WalkExists
    <3>. QED BY <3>1, Zenon DEF WalkStep
  <2>. QED BY <2>1, Zenon
<1>. HIDE DEF w, last
<1>4. CASE w[n].err = "E_OK"
  BY <1>1, <1>4, Answers
<1>5. CASE w[n].err # "E_OK"
  <2>. DEFINE start == Found(d, dd, NULL)
              rest == SubSeq(cs, 1 + 1, Len(cs))
  <2>1. start.disk = d /\ start.err = "E_OK" /\ start.dd = dd
    BY Answers
  <2>2. w[0] = start
    BY <1>2, <1>3
  <2>3. n = 1 /\ cs = << c >>
    BY <1>2, <1>5, <2>1, <2>2
  <2>4. w[1] = Component2DD(w[0], cs[1], SubSeq(cs, 1 + 1, Len(cs)), domain)
    BY <1>3, <2>3
  <2>. HIDE DEF start, rest
  <2>5. r = Component2DD(start, c, rest, domain)
    BY <1>1, <1>5, <2>2, <2>3, <2>4 DEF rest
  <2>6. r.err # "E_OK"
    BY <1>1, <1>5
  <2>7. c # "."
    <3>1. c = "." => Component2DD(start, c, rest, domain) = start
      BY Zenon DEF Component2DD
    <3>. QED BY <2>1, <2>5, <2>6, <3>1
  <2>. DEFINE e == << DirOf(d, dd), i >>
              kind == IF i = 0 THEN NULL ELSE Entry(d, e).kind
              new == findfd(d, e)
  <2>8. r = CASE c = ".." /\ dd = ROOT -> Link(d, dd, NULL, rest)
               [] c = ".." /\ dd # ROOT -> Found(d, d.fd[dd].parent, NULL)
               [] c # ".." /\ kind = "link" ->
                     Link(increase_refcnts(d, dd), dd, d.heap[Entry(d, e).faddr].to, rest)
               [] c # ".." /\ kind = "dir" /\ new # NULL ->
                     Found(PutFd(d, new, [d.fd[new] EXCEPT !.file = e, !.parent = dd]), new, NULL)
               [] c # ".." /\ kind = "dir" /\ new = NULL -> Failed(d, "ENSMEM")
               [] OTHER -> Failed(d, "EPTHNF")
    BY <2>1, <2>5, <2>7, Zenon DEF Component2DD
  <2>9. c # ".." => kind # "link"
    <3>1. NULL # "link"
      BY RamAssumption DEF Kinds
    <3>. QED BY <2>3, <2>7, <3>1
  <2>. HIDE DEF e, kind, new
  <2>10. \/ r = Link(d, dd, NULL, rest) \/ r = Found(d, d.fd[dd].parent, NULL)
         \/ r = Found(PutFd(d, new, [d.fd[new] EXCEPT !.file = e, !.parent = dd]), new, NULL)
         \/ r = Failed(d, "ENSMEM") \/ r = Failed(d, "EPTHNF")
    BY <2>8, <2>9
  <2>11. CASE r = Link(d, dd, NULL, rest)
    BY <2>11, Answers
  <2>12. CASE r.err # "ELINK"
    BY <2>12
  <2>13. r # Link(d, dd, NULL, rest) => r.err # "ELINK"
    <3>1. \A x, y, z : Found(x, y, z).err = "E_OK"
      BY DEF Found, Failed
    <3>2. \A x, y : Failed(x, y).err = y
      BY DEF Failed
    <3>3. r # Link(d, dd, NULL, rest) => r.err \in {"E_OK", "ENSMEM", "EPTHNF"}
      BY <2>10, <3>1, <3>2
    <3>. QED BY <3>3
  <2>. QED BY <2>11, <2>12, <2>13
<1>. QED BY <1>4, <1>5

\* Ddelete of what is a directory.
LEMMA DdeleteDir ==
    ASSUME DosInv, UNCHANGED kernel, NEW d, NEW dd \in FDs \ FileFDs, Locks(ram, d, FileFDs, dd),
           NEW del, del = ddelete(d, dd),
           \/ ram' = unlock_dd(d, dd)
           \/ del.err = "E_OK" /\ d.fd[dd].refcnt <= 1 /\ ram' = unlock_dd(del.disk, dd)
    PROVE  StepExact
<1>. DEFINE F == FileFDs
<1>1. DiskOK(ram, F) /\ DiskOK(d, F)
  BY DEF DosInv, Locks
<1>2. ram.fd \in FdTable /\ d.fd \in FdTable /\ RootOK(ram, F) /\ d.fd[dd].refcnt \in Nat /\ ram.fd[dd].refcnt \in Nat
  <2>1. ram.fd \in FdTable /\ d.fd \in FdTable /\ RootOK(ram, F)
    BY <1>1, DiskOKParts
  <2>. QED BY <2>1, FdParts
<1>3. Balanced(d, d, F)
  BY <1>1, <1>2, BalancedFirst
<1>4. Balanced(ram, unlock_dd(d, dd), F)
  BY <1>1, <1>3, CallEnd
<1>5. CASE ram' = unlock_dd(d, dd)
  BY <1>4, <1>5, BalancedStep
<1>6. CASE del.err = "E_OK" /\ d.fd[dd].refcnt <= 1 /\ ram' = unlock_dd(del.disk, dd)
  <2>1. d.fd[dd].refcnt = ram.fd[dd].refcnt + 1
    BY DEF Locks
  <2>2. d.fd[dd].refcnt = 1 /\ dd # ROOT
    BY <1>2, <1>6, <2>1 DEF RootOK
  <2>3. DiskOK(ram', F) /\ ram'.fd = unlock_dd(d, dd).fd
    BY <1>1, <1>6, <2>2, DdeleteOK
  <2>4. Balanced(ram, ram', F)
    BY <1>4, <2>3 DEF Balanced, SameDD
  <2>. QED BY <2>4, BalancedStep
<1>. QED BY <1>5, <1>6

\* Ddelete.
LEMMA DdeleteStep ==
    ASSUME DosInv, careful', NEW p \in alive, NEW path0 \in DirPaths, Ddelete(p, path0)
    PROVE  StepExact
<1>. DEFINE F == FileFDs
            path == IF path0 = << "\\" >> THEN << >> ELSE path0
            dom == Domain[p]
            nr(s) == findfile(s.disk, DirOf(s.disk, s.dd), s.last, "search", dom)
            kind_(s) == IF s.last \in {NULL, ".", ".."} THEN "dir"
                        ELSE IF nr(s) = 0 THEN NULL ELSE s.disk.heap[DirOf(s.disk, s.dd)].ent[nr(s)].kind
            cs_(s) == IF s.last = NULL THEN << >> ELSE << s.last >>
            Done(d, x) == ram' = unlock_dd(d, x) /\ UNCHANGED << kernel, careful >>
            RemoveDir(d, x, std, cnt, del) ==
                IF d.fd[x].refcnt > 1 + cnt \/ del.err # "E_OK" THEN Done(d, x)
                ELSE IF std = {} THEN Done(del.disk, x)
                ELSE /\ careful' = FALSE
                     /\ ram' = unlock_dd(PutFd(del.disk, x, [d.fd[x] EXCEPT !.refcnt = Max({d.fd[x].refcnt - cnt, 1})]), x)
                     /\ pathx' = [pathx EXCEPT ![Min(std)] = NULL]
                     /\ free_pathx(Min(std))
                     /\ UNCHANGED << hdl, alive >>
            DeleteDir(d, x) ==
                LET std == isdefault(x)
                IN  RemoveDir(d, x, std, IF std = {} THEN 0 ELSE pathcntx[Min(std)], ddelete(d, x))
            Body(s) ==
                CASE s.err # "E_OK" -> ram' = s.disk /\ UNCHANGED << kernel, careful >>
                  [] s.err = "E_OK" /\ kind_(s) \in {NULL, "file"} -> Done(s.disk, s.dd)
                  [] s.err = "E_OK" /\ kind_(s) = "link" ->
                        \E a \in fdelete(s.disk, s.dd, s.last, dom) : Done(a.disk, s.dd)
                  [] OTHER ->
                        \E at \in {path2DD(s.disk, s.dd, cs_(s), 1, dom)} :
                           IF at.err # "E_OK" THEN Done(at.disk, s.dd)
                           ELSE DeleteDir(unlock_dd(at.disk, s.dd), at.dd)
<1>0. \E r \in {Lookup(ram, p, path, 0)} : Body(r)
  BY Zenon DEF Ddelete
<1>1. PICK r : r = Lookup(ram, p, path, 0) /\ Body(r)
  <2>. HIDE DEF Body, path
  <2>. QED BY <1>0, Zenon
<1>. DEFINE dd == r.dd
            isDir == r.last \in {NULL, ".", ".."}
            i == findfile(r.disk, DirOf(r.disk, dd), r.last, "search", dom)
            kind == IF isDir THEN "dir" ELSE IF i = 0 THEN NULL ELSE r.disk.heap[DirOf(r.disk, dd)].ent[i].kind
            cs == IF r.last = NULL THEN << >> ELSE << r.last >>
<1>2. (CASE r.err # "E_OK" -> ram' = r.disk /\ UNCHANGED << kernel, careful >>
         [] r.err = "E_OK" /\ kind \in {NULL, "file"} -> Done(r.disk, dd)
         [] r.err = "E_OK" /\ kind = "link" ->
               \E a \in fdelete(r.disk, dd, r.last, dom) : Done(a.disk, dd)
         [] OTHER ->
               \E at \in {path2DD(r.disk, dd, cs, 1, dom)} :
                  IF at.err # "E_OK" THEN Done(at.disk, dd)
                  ELSE DeleteDir(unlock_dd(at.disk, dd), at.dd))
  BY <1>1, Zenon
<1>. HIDE DEF Body, kind_, cs_, nr
<1>3. DiskOK(ram, F) /\ path0 \in PathSeq /\ dom \in {"tos", "mint"}
  BY Paths DEF DosInv, KernelType
<1>4. path \in PathSeq /\ ram.fd \in FdTable
  BY <1>3, DiskOKParts DEF PathSeq
<1>. HIDE DEF path
<1>5. LookupOK(ram, F, r)
  <2>1. Locks(ram, ram, F, NULL)
    BY <1>3, LocksNone
  <2>. QED BY <1>1, <1>4, <2>1, LookupIs
<1>6. CASE r.err # "E_OK"
  <2>1. ram' = r.disk /\ UNCHANGED kernel
    BY <1>2, <1>6
  <2>2. Balanced(ram, ram', F)
    BY <1>4, <1>5, <1>6, <2>1, BalancedFirst DEF LookupOK
  <2>. QED BY <2>1, <2>2, BalancedStep
<1>7. CASE r.err = "E_OK"
  <2>1. /\ dd \in FDs \ F /\ Locks(ram, r.disk, F, dd) /\ DiskOK(r.disk, F) /\ r.disk.fd[dd].refcnt > 0
        /\ Rooted(r.disk, F, dd) /\ DirOf(r.disk, dd) \in Dirs(r.disk.heap)
    BY <1>3, <1>5, <1>7, LookedUp
  <2>2. r.disk.fd \in FdTable /\ r.disk.heap \in HeapType /\ DirOf(r.disk, dd) \in Blocks
    BY <2>1, DiskOKParts DEF Dirs
  <2>3. CASE kind \in {NULL, "file"}
    <3>1. ram' = unlock_dd(r.disk, dd) /\ UNCHANGED kernel
      <4>1. NULL # "link" /\ "file" # "link"
        BY RamAssumption DEF Kinds
      <4>. HIDE DEF kind, DeleteDir, cs
      <4>. QED BY <1>2, <1>7, <2>3, <4>1
    <3>2. Balanced(r.disk, r.disk, F)
      BY <2>1, <2>2, BalancedFirst
    <3>3. Balanced(ram, ram', F)
      BY <1>3, <2>1, <3>1, <3>2, CallEnd
    <3>. QED BY <3>1, <3>3, BalancedStep
  <2>4. CASE kind = "link"
    <3>1. \E a \in fdelete(r.disk, dd, r.last, dom) : ram' = unlock_dd(a.disk, dd) /\ UNCHANGED kernel
      <4>1. NULL # "link" /\ "file" # "link"
        BY RamAssumption DEF Kinds
      <4>. HIDE DEF kind, DeleteDir, cs
      <4>. QED BY <1>2, <1>7, <2>4, <4>1
    <3>2. PICK a \in fdelete(r.disk, dd, r.last, dom) : ram' = unlock_dd(a.disk, dd) /\ UNCHANGED kernel
      BY <3>1
    <3>. HIDE DEF dd, dom
    <3>3. Answered(r.disk, F, a)
      BY <1>3, <2>1, <3>2, FdeleteOK
    <3>4. Balanced(r.disk, a.disk, F)
      BY <2>2, <3>3, BalancedFirst DEF Answered
    <3>5. Balanced(ram, ram', F)
      BY <1>3, <2>1, <3>2, <3>4, CallEnd
    <3>. QED BY <3>2, <3>5, BalancedStep
  <2>5. CASE kind \notin {NULL, "file", "link"}
    <3>1. PICK at : /\ at = path2DD(r.disk, dd, cs, 1, dom)
                    /\ IF at.err # "E_OK" THEN Done(at.disk, dd)
                       ELSE DeleteDir(unlock_dd(at.disk, dd), at.dd)
      <4>1. \E at \in {path2DD(r.disk, dd, cs, 1, dom)} :
                 IF at.err # "E_OK" THEN Done(at.disk, dd)
                 ELSE DeleteDir(unlock_dd(at.disk, dd), at.dd)
        <5>. HIDE DEF kind, DeleteDir, cs, Done
        <5>. QED BY <1>2, <1>7, <2>5
      <4>. HIDE DEF DeleteDir, cs, Done
      <4>. QED BY <4>1, Zenon
    <3>2. r.last = NULL \/ r.last \in {".", ".."} \/ (r.last \in Name /\ i # 0 /\ kind # "link")
      <4>1. ~isDir => i # 0
        BY <2>5
      <4>2. i # 0 => r.last \in Name
        <5>. DEFINE a == DirOf(r.disk, dd)
                    n == r.last
        <5>1. n \notin Name => findfile(r.disk, a, n, "search", dom) = 0
          <6>. SUFFICES ASSUME n \notin Name PROVE findfile(r.disk, a, n, "search", dom) = 0
            OBVIOUS
          <6>. DEFINE Hits(S) == {k \in Live(r.disk, a) : r.disk.heap[a].ent[k].name \in S}
                      First(S) == IF S = {} THEN 0 ELSE Min(S)
                      alike == {m \in Name : Tos[m] = Tos[n]}
          <6>1. findfile(r.disk, a, n, "search", dom) =
                CASE n \notin Name -> 0
                  [] n \in Name /\ dom = "mint" -> First(Hits({n}))
                  [] n \in Name /\ dom = "tos" /\ "search" = "exist" -> First(Hits({Lower[n]}))
                  [] OTHER -> IF Hits({n}) # {} THEN First(Hits({n}))
                              ELSE IF Hits({Lower[n]}) # {} THEN First(Hits({Lower[n]}))
                              ELSE First(Hits(alike))
            BY Zenon DEF findfile
          <6>. HIDE DEF Hits, First, alike
          <6>. QED BY <6>1
        <5>. QED BY <5>1
      <4>. QED BY <2>5, <4>1, <4>2
    <3>3. cs \in PathSeq
      <4>1. \A S : << >> \in Seq(S) /\ \A c \in S : << c >> \in Seq(S)
        OBVIOUS
      <4>2. r.last = NULL \/ r.last \in Component \cup {"\\"}
        BY <3>2 DEF Component
      <4>3. cs = << >> \/ (r.last # NULL /\ cs = << r.last >>)
        OBVIOUS
      <4>. QED BY <4>1, <4>2, <4>3, Zenon DEF PathSeq
    <3>4. Locks(r.disk, at.disk, F, Target(at)) /\ (Arrived(at) => at.dd \in FDs \ F)
      <4>. HIDE DEF cs, dd, dom
      <4>. QED BY <1>3, <2>1, <3>1, <3>3, Path2DD
    <3>5. at.err = "ELINK" => at.link = NULL
      <4>1. r.last \in Name /\ i # 0 => Entry(r.disk, << DirOf(r.disk, dd), i >>).kind # "link"
        <5>. SUFFICES ASSUME r.last \in Name, i # 0 PROVE Entry(r.disk, << DirOf(r.disk, dd), i >>).kind # "link"
          OBVIOUS
        <5>1. LiveAt(r.disk.heap, DirOf(r.disk, dd), i)
          <6>. HIDE DEF dd, dom
          <6>. QED BY <1>3, <2>2, FindFile
        <5>2. Entry(r.disk, << DirOf(r.disk, dd), i >>) = Ent(r.disk.heap, DirOf(r.disk, dd), i)
          <6>. HIDE DEF i, dd
          <6>. QED BY <2>2, <5>1, EntryAt
        <5>3. r.last \notin {NULL, ".", ".."}
          BY RamAssumption DEF Component
        <5>. QED BY <2>5, <5>2, <5>3 DEF Ent
      <4>2. \/ cs = << >>
            \/ /\ cs = << r.last >>
               /\ r.last \in {".", ".."} \/ i = 0 \/ Entry(r.disk, << DirOf(r.disk, dd), i >>).kind # "link"
        BY <3>2, <4>1
      <4>. HIDE DEF cs, i, dd, dom
      <4>. QED BY <3>1, <4>2, OneComponent DEF i
    <3>6. CASE at.err # "E_OK"
      <4>1. Locks(r.disk, at.disk, F, NULL)
        BY <3>4, <3>5, <3>6 DEF Target, Arrived
      <4>2. ram' = unlock_dd(at.disk, dd) /\ UNCHANGED kernel
        BY <3>1, <3>6
      <4>3. Balanced(r.disk, at.disk, F)
        BY <2>2, <4>1, BalancedFirst
      <4>4. Balanced(ram, ram', F)
        BY <1>3, <2>1, <4>2, <4>3, CallEnd
      <4>. QED BY <4>2, <4>4, BalancedStep
    <3>7. CASE at.err = "E_OK"
      <4>. DEFINE d == unlock_dd(at.disk, dd)
                  std == isdefault(at.dd)
                  cnt == IF std = {} THEN 0 ELSE pathcntx[Min(std)]
                  del == ddelete(d, at.dd)
      <4>1. Locks(r.disk, at.disk, F, at.dd) /\ at.dd \in FDs \ F
        BY <3>4, <3>7 DEF Target, Arrived
      <4>2. Locks(ram, d, F, at.dd)
        <5>. HIDE DEF dd
        <5>. QED BY <1>3, <2>1, <4>1, LocksUnlock DEF d
      <4>3. RemoveDir(d, at.dd, std, cnt, del)
        <5>1. DeleteDir(unlock_dd(at.disk, dd), at.dd)
          BY <3>1, <3>7
        <5>. QED BY <5>1, Zenon
      <4>. HIDE DEF d, del
      <4>4. /\ UNCHANGED kernel
            /\ \/ ram' = unlock_dd(d, at.dd)
               \/ del.err = "E_OK" /\ d.fd[at.dd].refcnt <= 1 /\ ram' = unlock_dd(del.disk, at.dd)
        <5>1. d.fd[at.dd].refcnt \in Nat
          BY <4>1, <4>2, DiskOKParts, FdParts DEF Locks
        <5>2. careful' # FALSE
          BY Zenon
        <5>3. CASE std = {}
          <6>1. cnt = 0
            BY <5>3
          <6>. HIDE DEF std, cnt
          <6>2. d.fd[at.dd].refcnt <= 1 \/ d.fd[at.dd].refcnt > 1 + cnt
            BY <5>1, <6>1
          <6>. QED BY <4>3, <5>3, <6>2, Zenon
        <5>4. CASE std # {}
          <6>. HIDE DEF std, cnt
          <6>. QED BY <4>3, <5>2, <5>4, ZenonT(60)
        <5>. QED BY <5>3, <5>4
      <4>. QED BY <4>1, <4>2, <4>4, DdeleteDir DEF del
    <3>. QED BY <3>6, <3>7
  <2>. QED BY <2>3, <2>4, <2>5
<1>. QED BY <1>6, <1>7

-----------------------------------------------------------------------------
(* Counting processes and handles *)

\* Two sets that differ in one element.
LEMMA CountOther ==
    ASSUME NEW A, IsFiniteSet(A), NEW B, IsFiniteSet(B), NEW x, A \ {x} = B \ {x}
    PROVE  /\ Cardinality(A) \in Nat /\ Cardinality(B) \in Nat
           /\ Cardinality(B) = Cardinality(A) - (IF x \in A THEN 1 ELSE 0) + (IF x \in B THEN 1 ELSE 0)
<1>1. Cardinality(A) \in Nat /\ Cardinality(B) \in Nat
  BY FS_CardinalityType
<1>2. \A S : IsFiniteSet(S) => Cardinality(S \ {x}) = IF x \in S THEN Cardinality(S) - 1 ELSE Cardinality(S)
  BY FS_RemoveElement
<1>. QED BY <1>1, <1>2

\* Two sets that differ in parts of them.
LEMMA CountParts ==
    ASSUME NEW A, IsFiniteSet(A), NEW B, IsFiniteSet(B), NEW U \in SUBSET A, NEW V \in SUBSET B, A \ U = B \ V
    PROVE  Cardinality(B) = Cardinality(A) - Cardinality(U) + Cardinality(V)
<1>1. IsFiniteSet(U) /\ IsFiniteSet(V)
  BY FS_Subset
<1>2. Cardinality(A) \in Nat /\ Cardinality(B) \in Nat /\ Cardinality(U) \in Nat /\ Cardinality(V) \in Nat
  BY <1>1, FS_CardinalityType
<1>3. Cardinality(A \ U) = Cardinality(A) - Cardinality(A \cap U)
  BY FS_Difference
<1>4. Cardinality(B \ V) = Cardinality(B) - Cardinality(B \cap V)
  BY FS_Difference
<1>5. A \cap U = U /\ B \cap V = V
  OBVIOUS
<1>6. Cardinality(A \ U) = Cardinality(B \ V)
  OBVIOUS
<1>7. Cardinality(A) - Cardinality(U) = Cardinality(B) - Cardinality(V)
  BY ONLY <1>3, <1>4, <1>5, <1>6
<1>. QED BY ONLY <1>2, <1>7

\* A set counts as empty if it is.
LEMMA CountNone ==
    ASSUME NEW S, IsFiniteSet(S)
    PROVE  Cardinality(S) \in Nat /\ (Cardinality(S) > 0 <=> S # {})
BY FS_CardinalityType, FS_EmptySet

\* The sets that are counted.
LEMMA UsersFinite ==
    ASSUME KernelType
    PROVE  /\ IsFiniteSet(alive) /\ \A h : IsFiniteSet({p \in alive : drvx[p] = h})
           /\ \A i : IsFiniteSet(CwdOf(i)) /\ IsFiniteSet(HandlesOf(i)) /\ Uses(i) \in Nat
           /\ \A i : Cardinality(CwdOf(i)) \in Nat /\ Cardinality(HandlesOf(i)) \in Nat
<1>1. IsFiniteSet(alive) /\ IsFiniteSet(Proc \X (1..NHDL))
  <2>1. IsFiniteSet(1..NHDL) /\ IsFiniteSet(Proc)
    BY DosAssumption, FS_Interval
  <2>. QED BY <2>1, FS_Product, FS_Subset DEF KernelType
<1>2. \A i : IsFiniteSet(CwdOf(i)) /\ IsFiniteSet(HandlesOf(i))
  BY <1>1, FS_Subset DEF CwdOf, HandlesOf
<1>3. \A i : Cardinality(CwdOf(i)) \in Nat /\ Cardinality(HandlesOf(i)) \in Nat
  BY <1>2, FS_CardinalityType
<1>4. \A i : Uses(i) \in Nat
  BY <1>3 DEF Uses
<1>5. \A h : IsFiniteSet({p \in alive : drvx[p] = h})
  BY <1>1, FS_Subset
<1>. QED BY <1>1, <1>2, <1>3, <1>4, <1>5

\* The processes that use path handle h
UsersOf(h) == {q \in alive : drvx[q] = h}

\* One process changes its default path, begins or ends: the users of a path handle.
LEMMA UserCount ==
    ASSUME KernelType, KernelType', NEW p \in Proc, alive' \ {p} = alive \ {p},
           \A q \in alive \ {p} : drvx'[q] = drvx[q], NEW h
    PROVE  Cardinality(UsersOf(h)') = Cardinality(UsersOf(h)) - (IF p \in alive /\ drvx[p] = h THEN 1 ELSE 0)
                                          + (IF p \in alive' /\ drvx'[p] = h THEN 1 ELSE 0)
<1>. DEFINE A == {q \in alive : drvx[q] = h}
            B == {q \in alive' : drvx'[q] = h}
<1>1. IsFiniteSet(A) /\ IsFiniteSet(B)
  <2>1. IsFiniteSet(alive) /\ IsFiniteSet(alive')
    BY DosAssumption, FS_Subset DEF KernelType
  <2>. QED BY <2>1, FS_Subset
<1>2. A \ {p} = B \ {p}
  OBVIOUS
<1>3. (p \in A <=> p \in alive /\ drvx[p] = h) /\ (p \in B <=> p \in alive' /\ drvx'[p] = h)
  OBVIOUS
<1>. HIDE DEF A, B
<1>4. Cardinality(B) = Cardinality(A) - (IF p \in A THEN 1 ELSE 0) + (IF p \in B THEN 1 ELSE 0)
  BY <1>1, <1>2, CountOther
<1>5. Cardinality(B) = Cardinality(A) - (IF p \in alive /\ drvx[p] = h THEN 1 ELSE 0)
                     + (IF p \in alive' /\ drvx'[p] = h THEN 1 ELSE 0)
  BY <1>3, <1>4
<1>. QED BY <1>5 DEF A, B, UsersOf

\* Likewise the processes whose default path is DD i.
LEMMA CwdCount ==
    ASSUME KernelType, KernelType', NEW p \in Proc, alive' \ {p} = alive \ {p},
           \A q \in alive \ {p} : drvx'[q] = drvx[q] /\ (drvx[q] > 0 => pathx'[drvx[q]] = pathx[drvx[q]]), NEW i
    PROVE  Cardinality(CwdOf(i)') = Cardinality(CwdOf(i)) - (IF p \in CwdOf(i) THEN 1 ELSE 0)
                                              + (IF p \in CwdOf(i)' THEN 1 ELSE 0)
<1>1. IsFiniteSet(CwdOf(i)) /\ IsFiniteSet(CwdOf(i)')
  <2>1. IsFiniteSet(alive) /\ IsFiniteSet(alive')
    BY DosAssumption, FS_Subset DEF KernelType
  <2>. QED BY <2>1, FS_Subset DEF CwdOf
<1>2. CwdOf(i)' \ {p} = CwdOf(i) \ {p}
  BY DEF CwdOf
<1>. QED BY <1>1, <1>2, CountOther

\* The handles of a process, as pairs.
LEMMA HandlesAre ==
    ASSUME NEW p, NEW T \in SUBSET (1..NHDL)
    PROVE  /\ IsFiniteSet(T) /\ IsFiniteSet({p} \X T)
           /\ Cardinality({p} \X T) = Cardinality(T) /\ Cardinality(T) \in Nat
<1>1. IsFiniteSet(T)
  <2>1. IsFiniteSet(1..NHDL)
    BY DosAssumption, FS_Interval
  <2>. QED BY <2>1, FS_Subset
<1>2. IsFiniteSet({p}) /\ Cardinality({p}) = 1
  BY FS_Singleton
<1>3. Cardinality(T) \in Nat
  BY <1>1, FS_CardinalityType
<1>4. IsFiniteSet({p} \X T) /\ Cardinality({p} \X T) = Cardinality({p}) * Cardinality(T)
  BY ONLY <1>1, <1>2, FS_Product
<1>5. Cardinality({p} \X T) = Cardinality(T)
  BY <1>2, <1>3, <1>4
<1>. QED BY <1>1, <1>3, <1>4, <1>5

\* The descriptors of files are those with a handle
FilesCounted ==
    /\ FileFDs \subseteq FDs
    /\ \A i \in FDs : Cardinality(HandlesOf(i)) \in Nat /\ (i \in FileFDs <=> Cardinality(HandlesOf(i)) > 0)

\* They are, whatever the handles.
LEMMA FileFDsAre == KernelType => FilesCounted
<1>. SUFFICES ASSUME KernelType PROVE FilesCounted
  OBVIOUS
<1>1. FileFDs \subseteq FDs
  <2>1. \A p \in Proc, n \in 1..NHDL : hdl[p][n] \in FDs \cup {NULL}
    BY DEF KernelType
  <2>. QED BY <2>1 DEF FileFDs
<1>2. ASSUME NEW i \in FDs PROVE i \in FileFDs <=> HandlesOf(i) # {}
  <2>1. i # NULL
    BY Constants
  <2>2. ASSUME i \in FileFDs PROVE HandlesOf(i) # {}
    <3>1. PICK p \in Proc, n \in 1..NHDL : i = hdl[p][n]
      BY <2>2 DEF FileFDs
    <3>2. << p, n >> \in HandlesOf(i)
      BY <3>1 DEF HandlesOf
    <3>. QED BY <3>2
  <2>3. ASSUME NEW q \in HandlesOf(i) PROVE i \in FileFDs
    <3>1. q[1] \in Proc /\ q[2] \in 1..NHDL /\ hdl[q[1]][q[2]] = i
      BY DEF HandlesOf
    <3>. QED BY <2>1, <3>1 DEF FileFDs
  <2>. QED BY <2>2, <2>3
<1>3. \A i : IsFiniteSet(HandlesOf(i))
  BY UsersFinite
<1>4. \A i : Cardinality(HandlesOf(i)) \in Nat /\ (Cardinality(HandlesOf(i)) > 0 <=> HandlesOf(i) # {})
  BY <1>3, CountNone
<1>. QED BY <1>1, <1>2, <1>4 DEF FilesCounted

\* A path handle that is used leads to a DD that is locked.
LEMMA PathLocked ==
    ASSUME DosInv, NEW h \in Handle, pathx[h] # NULL \/ pathcntx[h] > 0 \/ \E p \in alive : drvx[p] = h
    PROVE  /\ pathx[h] \in FDs \ FileFDs /\ pathx[h] # ROOT /\ pathx[h] # NULL
           /\ ram.fd[pathx[h]].refcnt > 0 /\ pathcntx[h] > 0
           /\ \E p \in alive : drvx[p] = h
<1>1. \A g : IsFiniteSet({p \in alive : drvx[p] = g})
  BY UsersFinite DEF DosInv
<1>2. pathcntx[h] = Cardinality({p \in alive : drvx[p] = h}) /\ pathcntx[h] \in Nat
      /\ (pathcntx[h] > 0 <=> {p \in alive : drvx[p] = h} # {})
  <2>. DEFINE S == {p \in alive : drvx[p] = h}
  <2>1. pathcntx[h] = Cardinality(S)
    BY DEF DosInv, PathsOK
  <2>2. IsFiniteSet(S)
    BY <1>1
  <2>. HIDE DEF S
  <2>3. Cardinality(S) \in Nat /\ (Cardinality(S) > 0 <=> S # {})
    BY <2>2, CountNone
  <2>4. pathcntx[h] = Cardinality(S) /\ pathcntx[h] \in Nat /\ (pathcntx[h] > 0 <=> S # {})
    BY <2>1, <2>3
  <2>. QED BY <2>4 DEF S
<1>3. PICK p \in alive : drvx[p] = h
  BY <1>2 DEF DosInv, PathsOK
<1>4. drvx[p] > 0
  BY <1>3 DEF Handle
<1>. QED BY <1>3, <1>4, DefaultLocked DEF DosInv, PathsOK

\* The numbers of users are natural numbers.
LEMMA UsersNat ==
    KernelType => \A i : Cardinality(CwdOf(i)) \in Nat /\ Cardinality(HandlesOf(i)) \in Nat
BY UsersFinite

\* Locks and users change alike.
LEMMA CountsStep ==
    ASSUME DosInv, KernelType', ram'.fd \in FdTable,
           \A i \in FDs : ram'.fd[i].refcnt - Cardinality(CwdOf(i)') - Cardinality(HandlesOf(i)')
                          = ram.fd[i].refcnt - Cardinality(CwdOf(i)) - Cardinality(HandlesOf(i)),
           \A i \in FileFDs' : i \in FileFDs \/ ram.fd[i].refcnt = 0
    PROVE  CountsOK' /\ (Exact => Exact')
<1>1. \A i : /\ Cardinality(CwdOf(i)) \in Nat /\ Cardinality(HandlesOf(i)) \in Nat /\ Uses(i) \in Nat
  BY UsersFinite DEF DosInv
<1>2. \A i : Cardinality(CwdOf(i)') \in Nat /\ Cardinality(HandlesOf(i)') \in Nat
  <2>1. (KernelType => \A i : Cardinality(CwdOf(i)) \in Nat /\ Cardinality(HandlesOf(i)) \in Nat)'
    BY UsersNat, PTL
  <2>. QED BY <2>1
<1>3. ram.fd \in FdTable
  BY DiskOKParts DEF DosInv
<1>4. \A i : Uses(i)' = (IF i = ROOT THEN 1 ELSE 0) + Cardinality(CwdOf(i)') + Cardinality(HandlesOf(i)')
  BY DEF Uses
<1>5. ASSUME NEW i \in FDs
      PROVE  /\ ram'.fd[i].refcnt - Uses(i)' = ram.fd[i].refcnt - Uses(i)
             /\ ram'.fd[i].refcnt \in Nat /\ ram.fd[i].refcnt \in Nat /\ Uses(i)' \in Nat /\ Uses(i) \in Nat
  <2>1. ram'.fd[i].refcnt \in Nat /\ ram.fd[i].refcnt \in Nat
    BY <1>3, FdParts
  <2>2. Uses(i) = (IF i = ROOT THEN 1 ELSE 0) + Cardinality(CwdOf(i)) + Cardinality(HandlesOf(i))
    BY DEF Uses
  <2>3. (IF i = ROOT THEN 1 ELSE 0) \in Nat
    OBVIOUS
  <2>4. Uses(i)' \in Nat
    BY <1>2, <1>4, <2>3
  <2>5. ram'.fd[i].refcnt - Cardinality(CwdOf(i)') - Cardinality(HandlesOf(i)')
                          = ram.fd[i].refcnt - Cardinality(CwdOf(i)) - Cardinality(HandlesOf(i))
    OBVIOUS
  <2>. DEFINE z == IF i = ROOT THEN 1 ELSE 0
  <2>6. z \in Nat /\ Uses(i) = z + Cardinality(CwdOf(i)) + Cardinality(HandlesOf(i))
        /\ Uses(i)' = z + Cardinality(CwdOf(i)') + Cardinality(HandlesOf(i)')
    BY <1>4, <2>2
  <2>. HIDE DEF z
  <2>7. ram'.fd[i].refcnt - Uses(i)' = ram.fd[i].refcnt - Uses(i)
    BY <1>1, <1>2, <2>1, <2>5, <2>6
  <2>. QED BY <1>1, <2>1, <2>4, <2>7
<1>6. CountsOK'
  <2>. SUFFICES ASSUME NEW i \in FDs
                PROVE  ram'.fd[i].refcnt >= Uses(i)' /\ (i \in FileFDs' => ram'.fd[i].refcnt = Uses(i)')
    BY DEF CountsOK
  <2>1. ram.fd[i].refcnt >= Uses(i) /\ (i \in FileFDs => ram.fd[i].refcnt = Uses(i))
    BY DEF DosInv, CountsOK
  <2>2. i \in FileFDs' => ram.fd[i].refcnt = Uses(i)
    BY <1>5, <2>1
  <2>. QED BY <1>5, <2>1, <2>2
<1>7. Exact => Exact'
  <2>. SUFFICES ASSUME Exact, NEW i \in FDs PROVE ram'.fd[i].refcnt = Uses(i)'
    BY DEF Exact
  <2>1. ram.fd[i].refcnt = Uses(i)
    BY DEF Exact
  <2>. QED BY <1>5, <2>1
<1>. QED BY <1>6, <1>7

\* A file is opened: its descriptor is new to the kernel.
LEMMA OpenStep ==
    ASSUME DosInv, NEW p \in alive, NEW n \in 1..NHDL, hdl[p][n] = NULL, NEW f \in FDs \ FileFDs,
           ram.fd[f].refcnt = 0, DiskOK(ram', FileFDs \cup {f}),
           \A i \in FDs : ram'.fd[i].refcnt = ram.fd[i].refcnt + (IF i = f THEN 1 ELSE 0),
           \A i \in FDs : ram.fd[i].refcnt > 0 => SameDD(ram.fd, ram'.fd, i),
           hdl' = [hdl EXCEPT ![p][n] = f], UNCHANGED << pathx, pathcntx, drvx, alive >>
    PROVE  StepExact
<1>1. p \in Proc /\ f # NULL /\ KernelType
  BY Constants DEF DosInv, KernelType
<1>2. \A q \in Proc, m \in 1..NHDL : hdl'[q][m] = IF q = p /\ m = n THEN f ELSE hdl[q][m]
  BY <1>1 DEF KernelType
<1>3. KernelType'
  BY <1>1 DEF KernelType
<1>4. \A i : HandlesOf(i)' = IF i = f THEN HandlesOf(i) \cup {<< p, n >>} ELSE HandlesOf(i) \ {<< p, n >>}
  BY <1>1, <1>2 DEF HandlesOf
<1>5. \A i \in FDs : << p, n >> \notin HandlesOf(i)
  BY Constants DEF HandlesOf
<1>6. \A i \in FDs : Cardinality(HandlesOf(i)') = Cardinality(HandlesOf(i)) + (IF i = f THEN 1 ELSE 0)
  <2>. SUFFICES ASSUME NEW i \in FDs
                PROVE  Cardinality(HandlesOf(i)') = Cardinality(HandlesOf(i)) + (IF i = f THEN 1 ELSE 0)
    OBVIOUS
  <2>1. IsFiniteSet(HandlesOf(i)) /\ Cardinality(HandlesOf(i)) \in Nat
    BY <1>1, UsersFinite
  <2>2. CASE i = f
    <3>1. HandlesOf(i)' = HandlesOf(i) \cup {<< p, n >>} /\ << p, n >> \notin HandlesOf(i)
      BY <1>4, <1>5, <2>2
    <3>2. Cardinality(HandlesOf(i) \cup {<< p, n >>}) = Cardinality(HandlesOf(i)) + 1
      BY <2>1, <3>1, FS_AddElement
    <3>. QED BY <2>2, <3>1, <3>2
  <2>3. CASE i # f
    <3>1. HandlesOf(i)' = HandlesOf(i)
      BY <1>4, <1>5, <2>3
    <3>. QED BY <2>1, <2>3, <3>1
  <2>. QED BY <2>2, <2>3
<1>7. FileFDs' = FileFDs \cup {f}
  <2>1. FilesCounted /\ FilesCounted'
    <3>1. KernelType' => FilesCounted'
      BY FileFDsAre, PTL
    <3>. QED BY <1>1, <1>3, <3>1, FileFDsAre
  <2>2. \A i \in FDs : i \in FileFDs <=> HandlesOf(i) # {}
    <3>1. \A i \in FDs : IsFiniteSet(HandlesOf(i))
      BY <1>1, UsersFinite
    <3>2. \A i \in FDs : Cardinality(HandlesOf(i)) > 0 <=> HandlesOf(i) # {}
      BY <3>1, CountNone
    <3>. QED BY <2>1, <3>2 DEF FilesCounted
  <2>3. \A i \in FDs : Cardinality(HandlesOf(i)') \in Nat /\ (i \in FileFDs' <=> Cardinality(HandlesOf(i)') > 0)
    BY <2>1 DEF FilesCounted
  <2>4. \A i \in FDs : Cardinality(HandlesOf(i)) \in Nat /\ (i \in FileFDs <=> Cardinality(HandlesOf(i)) > 0)
    BY <2>1 DEF FilesCounted
  <2>5. \A i \in FDs : i \in FileFDs' <=> i \in FileFDs \/ i = f
    BY <1>6, <2>3, <2>4
  <2>. QED BY <2>1, <2>5 DEF FilesCounted
<1>8. DiskOK(ram', FileFDs')
  BY <1>7
<1>9. PathsOK'
  <2>1. \A h \in Handle : pathx[h] # NULL => pathx[h] \notin FileFDs' \cup {ROOT}
    <3>. SUFFICES ASSUME NEW h \in Handle, pathx[h] # NULL PROVE pathx[h] \notin FileFDs' \cup {ROOT}
      OBVIOUS
    <3>1. pathx[h] \in FDs \ FileFDs /\ pathx[h] # ROOT /\ ram.fd[pathx[h]].refcnt > 0
      BY PathLocked
    <3>2. pathx[h] # f
      BY <3>1
    <3>. QED BY <1>7, <3>1, <3>2
  <2>2. \A q \in Proc \ alive : hdl'[q] = hdl[q]
    BY <1>1 DEF KernelType
  <2>. QED BY <2>1, <2>2 DEF DosInv, PathsOK
<1>10. CountsOK' /\ (Exact => Exact')
  <2>1. ram'.fd \in FdTable /\ ram.fd \in FdTable
    BY DiskOKParts DEF DosInv
  <2>2. \A i : CwdOf(i)' = CwdOf(i)
    BY DEF CwdOf
  <2>3. \A i \in FDs : ram'.fd[i].refcnt - Cardinality(CwdOf(i)') - Cardinality(HandlesOf(i)')
                          = ram.fd[i].refcnt - Cardinality(CwdOf(i)) - Cardinality(HandlesOf(i))
    <3>. SUFFICES ASSUME NEW i \in FDs
                  PROVE  ram'.fd[i].refcnt - Cardinality(CwdOf(i)') - Cardinality(HandlesOf(i)')
                          = ram.fd[i].refcnt - Cardinality(CwdOf(i)) - Cardinality(HandlesOf(i))
      OBVIOUS
    <3>1. Cardinality(CwdOf(i)) \in Nat /\ Cardinality(HandlesOf(i)) \in Nat /\ ram.fd[i].refcnt \in Nat
      BY <1>1, <2>1, UsersFinite, FdParts
    <3>2. Cardinality(CwdOf(i)') = Cardinality(CwdOf(i))
      BY <2>2
    <3>. QED BY <1>6, <3>1, <3>2
  <2>4. \A i \in FileFDs' : i \in FileFDs \/ ram.fd[i].refcnt = 0
    BY <1>7
  <2>. QED BY <1>3, <2>1, <2>3, <2>4, CountsStep
<1>11. CwdStays
  <2>. SUFFICES ASSUME NEW q \in alive, drvx[q] > 0
                PROVE  /\ pathx'[drvx[q]] = DefaultDD(q)
                       /\ ram'.fd[DefaultDD(q)].file = ram.fd[DefaultDD(q)].file
    BY DEF CwdStays
  <2>1. DefaultDD(q) \in FDs /\ ram.fd[DefaultDD(q)].refcnt > 0 /\ DefaultDD(q) = pathx[drvx[q]]
    BY DefaultLocked
  <2>. QED BY <2>1 DEF SameDD
<1>. QED BY <1>3, <1>8, <1>9, <1>10, <1>11 DEF StepExact, StepOK, DosInv

\* Fopen. It leaves a lock behind only when it gives up following links.
LEMMA FopenStep ==
    ASSUME DosInv, careful', NEW p \in alive, NEW o \in Opens, Fopen(p, o[1], o[2])
    PROVE  /\ StepOK
           /\ fop_path(ram, DefaultDD(p), o[1], o[2], Domain[p]).err # "ELINK" => StepExact
<1>. DEFINE F == FileFDs
            omode == o[2]
            dom == Domain[p]
<1>1. DiskOK(ram, F) /\ o[1] \in PathSeq /\ dom \in {"tos", "mint"} /\ ram.fd \in FdTable /\ p \in Proc
  BY Paths, DiskOKParts DEF DosInv, KernelType
<1>2. \E n \in 1..NHDL, r \in {fop_path(ram, DefaultDD(p), o[1], omode, dom)} :
        /\ hdl[p][n] = NULL
        /\ \/ /\ r.err # "E_OK"
              /\ ram' = r.disk
              /\ UNCHANGED << hdl, careful >>
           \/ /\ r.err = "E_OK"
              /\ careful' = (careful /\ (omode = "open" \/ MayGrow(r.disk, r.dd)))
              /\ \E a \in fopen(r.disk, r.dd, r.last, omode, dom) :
                    /\ ram' = unlock_dd(a.disk, r.dd)
                    /\ hdl' = IF a.err = "E_OK" THEN [hdl EXCEPT ![p][n] = a.fd] ELSE hdl
        /\ UNCHANGED << pathx, pathcntx, drvx, alive >>
  BY Zenon DEF Fopen
<1>3. PICK n, r :
        /\ n \in 1..NHDL
        /\ r = fop_path(ram, DefaultDD(p), o[1], omode, dom)
        /\ hdl[p][n] = NULL
        /\ \/ /\ r.err # "E_OK"
              /\ ram' = r.disk
              /\ UNCHANGED << hdl, careful >>
           \/ /\ r.err = "E_OK"
              /\ careful' = (careful /\ (omode = "open" \/ MayGrow(r.disk, r.dd)))
              /\ \E a \in fopen(r.disk, r.dd, r.last, omode, dom) :
                    /\ ram' = unlock_dd(a.disk, r.dd)
                    /\ hdl' = IF a.err = "E_OK" THEN [hdl EXCEPT ![p][n] = a.fd] ELSE hdl
        /\ UNCHANGED << pathx, pathcntx, drvx, alive >>
  BY <1>2, Zenon
<1>. HIDE DEF omode, dom
<1>4. FopOK(ram, F, r, omode, dom)
  <2>1. DefaultDD(p) \in FDs \ F /\ ram.fd[DefaultDD(p)].refcnt > 0
    BY DefaultLocked
  <2>. QED BY <1>1, <1>3, <2>1, FopPath
<1>5. CASE r.err # "E_OK"
  <2>1. ram' = r.disk /\ UNCHANGED kernel
    BY <1>3, <1>5 DEF kernel
  <2>2. CASE r.err = "ELINK"
    <3>1. r.dd \in FDs \ F /\ Locks(ram, ram', F, r.dd)
      BY <1>4, <2>1, <2>2 DEF FopOK
    <3>2. StepOK
      BY <2>1, <3>1, LeakStep
    <3>. QED BY <1>3, <2>2, <3>2 DEF omode, dom
  <2>3. CASE r.err # "ELINK"
    <3>1. Locks(ram, ram', F, NULL)
      BY <1>4, <1>5, <2>1, <2>3 DEF FopOK
    <3>2. Balanced(ram, ram', F)
      BY <1>1, <3>1, BalancedFirst
    <3>3. StepExact
      BY <2>1, <3>2, BalancedStep
    <3>. QED BY <3>3 DEF StepExact
  <2>. QED BY <2>2, <2>3
<1>6. CASE r.err = "E_OK"
  <2>1. PICK a \in fopen(r.disk, r.dd, r.last, omode, dom) :
            /\ ram' = unlock_dd(a.disk, r.dd)
            /\ hdl' = IF a.err = "E_OK" THEN [hdl EXCEPT ![p][n] = a.fd] ELSE hdl
    BY <1>3, <1>6
  <2>2. r.dd \in FDs \ F /\ Locks(ram, r.disk, F, r.dd) /\ DiskOK(r.disk, F)
        /\ ~ is_link(r.disk, fopen_entry(r.disk, r.dd, r.last, omode, dom))
    BY <1>4, <1>6 DEF FopOK, Locks
  <2>3. r.disk.fd \in FdTable /\ RootOK(ram, F) /\ \A i \in FDs : ram.fd[i].refcnt \in Nat
    BY <1>1, <2>2, DiskOKParts, FdParts
  <2>4. /\ \A i \in FDs : r.disk.fd[i].refcnt = ram.fd[i].refcnt + (IF i = r.dd THEN 1 ELSE 0)
        /\ \A i \in FDs : ram.fd[i].refcnt > 0 => SameDD(ram.fd, r.disk.fd, i)
    BY <2>2 DEF Locks, Keeps
  <2>5. r.disk.fd[r.dd].refcnt > 0 /\ (r.dd = ROOT => r.disk.fd[r.dd].refcnt > 1)
    BY <2>2, <2>3, <2>4 DEF RootOK
  <2>6. omode = "open" \/ MayGrow(r.disk, r.dd)
    BY <1>3, <1>6
  <2>7. /\ a.err # "E_OK" => Answered(r.disk, F, a)
        /\ a.err = "E_OK" =>
                 /\ a.fd \in FDs \ F /\ DiskOK(a.disk, F \cup {a.fd})
                 /\ r.disk.fd[a.fd].refcnt = 0 /\ a.disk.fd[a.fd].refcnt = 1
                 /\ \A j \in FDs \ {a.fd} : a.disk.fd[j] = r.disk.fd[j]
    <3>1. Fopened(r.disk, F, a)
      <4>. QED BY ONLY <1>1, <2>1, <2>2, <2>5, <2>6, FopenOK
    <3>. QED BY <3>1 DEF Fopened
  <2>8. CASE a.err # "E_OK"
    <3>1. UNCHANGED kernel
      BY <1>3, <2>1, <2>8 DEF kernel
    <3>2. Balanced(r.disk, a.disk, F)
      BY <2>3, <2>7, <2>8, BalancedFirst DEF Answered
    <3>3. Balanced(ram, ram', F)
      BY <1>1, <2>1, <2>2, <3>2, CallEnd
    <3>4. StepExact
      BY <3>1, <3>3, BalancedStep
    <3>. QED BY <3>4 DEF StepExact
  <2>9. CASE a.err = "E_OK"
    <3>. DEFINE f == a.fd
                G == F \cup {f}
    <3>1. f \in FDs \ F /\ DiskOK(a.disk, G) /\ r.disk.fd[f].refcnt = 0 /\ a.disk.fd[f].refcnt = 1
          /\ \A j \in FDs \ {f} : a.disk.fd[j] = r.disk.fd[j]
      BY <2>7, <2>9
    <3>2. f # r.dd
      BY <2>5, <3>1
    <3>3. r.dd \in FDs \ G /\ a.disk.fd[r.dd].refcnt > 0 /\ (r.dd = ROOT => a.disk.fd[r.dd].refcnt > 1)
      BY <2>2, <2>5, <3>1, <3>2
    <3>. HIDE DEF f, G
    <3>4. Unlocks(a.disk, ram', G, r.dd)
      BY <2>1, <3>1, <3>3, Unlock
    <3>5. /\ DiskOK(ram', G)
          /\ \A i \in FDs : ram'.fd[i].refcnt > 0 => SameDD(a.disk.fd, ram'.fd, i)
          /\ \A i \in FDs : ram'.fd[i].refcnt = a.disk.fd[i].refcnt - (IF i = r.dd THEN 1 ELSE 0)
      BY <3>4 DEF Unlocks
    <3>6. ram.fd[f].refcnt = 0
      BY <2>3, <2>4, <3>1, <3>2
    <3>7. \A i \in FDs : ram'.fd[i].refcnt = ram.fd[i].refcnt + (IF i = f THEN 1 ELSE 0)
      BY <2>3, <2>4, <3>1, <3>2, <3>5, <3>6
    <3>8. ASSUME NEW i \in FDs, ram.fd[i].refcnt > 0 PROVE SameDD(ram.fd, ram'.fd, i)
      <4>1. i # f /\ ram'.fd[i].refcnt > 0
        BY <2>3, <3>6, <3>7, <3>8
      <4>2. SameDD(ram.fd, r.disk.fd, i) /\ SameDD(a.disk.fd, ram'.fd, i) /\ a.disk.fd[i] = r.disk.fd[i]
        BY <2>4, <3>1, <3>5, <3>8, <4>1
      <4>. QED BY <4>2 DEF SameDD
    <3>9. /\ hdl' = [hdl EXCEPT ![p][n] = f] /\ UNCHANGED << pathx, pathcntx, drvx, alive >>
          /\ hdl[p][n] = NULL /\ n \in 1..NHDL
      BY <1>3, <2>1, <2>9 DEF f
    <3>10. StepExact
      BY <3>1, <3>5, <3>6, <3>7, <3>8, <3>9, OpenStep DEF G
    <3>. QED BY <3>10 DEF StepExact
  <2>. QED BY <2>8, <2>9
<1>. QED BY <1>5, <1>6

\* Disk e is the one after cnt handles have been closed
HandedBack(e, cnt) ==
    /\ DiskOK(e, FileFDs') /\ FileFDs' \subseteq FileFDs
    /\ \A i \in FDs : /\ cnt[i] \in Nat /\ e.fd[i].refcnt = ram.fd[i].refcnt - cnt[i]
                      /\ Cardinality(HandlesOf(i)') = Cardinality(HandlesOf(i)) - cnt[i]
                      /\ i \notin FileFDs => cnt[i] = 0
    /\ \A i \in FDs \ FileFDs : e.fd[i] = ram.fd[i]

\* A process closes the handles in S.
LEMMA CloseHandles ==
    ASSUME DosInv, KernelType', NEW p \in Proc, NEW S \in SUBSET (1..NHDL),
           \A q \in Proc, n \in 1..NHDL : hdl'[q][n] = IF q = p /\ n \in S THEN NULL ELSE hdl[q][n],
           NEW cnt, cnt = [i \in FDs |-> Handles(p, S, i)], NEW e, e = close(ram, cnt)
    PROVE  HandedBack(e, cnt)
<1>1. DiskOK(ram, FileFDs) /\ ram.fd \in FdTable /\ ROOT \notin FileFDs /\ KernelType
  BY DiskOKParts DEF DosInv, RootOK
<1>2. FilesCounted /\ FilesCounted'
  <2>1. KernelType' => FilesCounted'
    BY FileFDsAre, PTL
  <2>. QED BY <1>1, <2>1, FileFDsAre
<1>3. ASSUME NEW i \in FDs
      PROVE  /\ cnt[i] \in Nat /\ Cardinality(HandlesOf(i)') = Cardinality(HandlesOf(i)) - cnt[i]
             /\ Cardinality(HandlesOf(i)) \in Nat /\ Cardinality(HandlesOf(i)') \in Nat
  <2>. DEFINE T == {n \in S : hdl[p][n] = i}
              U == {p} \X T
              A == HandlesOf(i)
              B == HandlesOf(i)'
  <2>1. cnt[i] = Cardinality(T)
    BY DEF Handles, Quantify
  <2>2. IsFiniteSet(T) /\ Cardinality(U) = Cardinality(T) /\ Cardinality(T) \in Nat
    <3>1. T \in SUBSET (1..NHDL)
      OBVIOUS
    <3>. HIDE DEF T
    <3>. QED BY <3>1, HandlesAre
  <2>3. U \in SUBSET A
    BY DEF HandlesOf
  <2>4. i # NULL
    BY Constants
  <2>5. B = A \ U
    BY <2>4 DEF HandlesOf
  <2>6. IsFiniteSet(A)
    BY <1>1, UsersFinite
  <2>. HIDE DEF A, B, T, U
  <2>7. IsFiniteSet(B) /\ {} \in SUBSET B /\ A \ U = B \ {}
    BY <2>5, <2>6, FS_Difference
  <2>8. Cardinality(B) = Cardinality(A) - Cardinality(U) + Cardinality({})
    BY <2>3, <2>6, <2>7, CountParts
  <2>9. Cardinality(A) \in Nat /\ Cardinality(B) \in Nat /\ Cardinality({}) = 0
    BY <2>6, <2>7, FS_CardinalityType, FS_EmptySet
  <2>. QED BY <2>1, <2>2, <2>8, <2>9 DEF A, B
<1>4. ASSUME NEW i \in FileFDs PROVE CwdOf(i) = {}
  <2>. SUFFICES ASSUME NEW q \in CwdOf(i) PROVE FALSE
    OBVIOUS
  <2>1. q \in alive /\ drvx[q] > 0 /\ pathx[drvx[q]] = i
    BY DEF CwdOf
  <2>2. DefaultDD(q) = i /\ DefaultDD(q) \notin FileFDs
    BY <2>1, DefaultLocked
  <2>. QED BY <2>2
<1>5. ASSUME NEW i \in FileFDs PROVE ram.fd[i].refcnt = Cardinality(HandlesOf(i))
  <2>1. i \in FDs /\ i # ROOT
    BY <1>1, <1>2 DEF FilesCounted
  <2>2. ram.fd[i].refcnt = Uses(i)
    BY <2>1 DEF DosInv, CountsOK
  <2>3. Cardinality(CwdOf(i)) = 0
    BY <1>4, FS_EmptySet
  <2>4. Cardinality(HandlesOf(i)) \in Nat
    BY <1>3, <2>1
  <2>. QED BY <2>1, <2>2, <2>3, <2>4 DEF Uses
<1>6. ASSUME NEW i \in FDs PROVE i \notin FileFDs => cnt[i] = 0
  <2>1. ~(Cardinality(HandlesOf(i)) > 0) => cnt[i] = 0
    BY <1>3
  <2>. QED BY <1>2, <2>1 DEF FilesCounted
<1>7. ASSUME NEW i \in FDs PROVE cnt[i] <= ram.fd[i].refcnt /\ (cnt[i] > 0 => i \in FileFDs)
  <2>1. cnt[i] > 0 => i \in FileFDs
    BY <1>6
  <2>2. ram.fd[i].refcnt \in Nat
    BY <1>1, FdParts
  <2>3. CASE i \in FileFDs
    <3>1. cnt[i] <= Cardinality(HandlesOf(i))
      BY <1>3
    <3>. QED BY <1>5, <2>1, <2>3, <3>1
  <2>4. CASE i \notin FileFDs
    BY <1>6, <2>2, <2>4
  <2>. QED BY <2>3, <2>4
<1>8. FileFDs' = {i \in FileFDs : ram.fd[i].refcnt > cnt[i]}
  <2>1. ASSUME NEW i \in FDs PROVE i \in FileFDs' <=> i \in FileFDs /\ ram.fd[i].refcnt > cnt[i]
    <3>1. i \in FileFDs' <=> Cardinality(HandlesOf(i)') > 0
      BY <1>2 DEF FilesCounted
    <3>2. i \in FileFDs <=> Cardinality(HandlesOf(i)) > 0
      BY <1>2 DEF FilesCounted
    <3>3. CASE i \in FileFDs
      BY <1>3, <1>5, <3>1, <3>3
    <3>4. CASE i \notin FileFDs
      BY <1>3, <3>1, <3>2, <3>4
    <3>. QED BY <3>3, <3>4
  <2>2. FileFDs \subseteq FDs /\ FileFDs' \subseteq FDs
    BY <1>2 DEF FilesCounted
  <2>. QED BY <2>1, <2>2
<1>9. cnt \in [FDs -> Nat]
  <2>1. \A i \in FDs : cnt[i] \in Nat
    BY <1>3
  <2>2. cnt = [i \in FDs |-> cnt[i]]
    OBVIOUS
  <2>. QED BY ONLY <2>1, <2>2
<1>10. /\ DiskOK(e, FileFDs') /\ \A i \in FDs : e.fd[i].refcnt = ram.fd[i].refcnt - cnt[i]
       /\ \A i \in FDs \ FileFDs : e.fd[i] = ram.fd[i]
  <2>1. \A i \in FDs : cnt[i] <= ram.fd[i].refcnt /\ (cnt[i] > 0 => i \in FileFDs)
    BY <1>7
  <2>2. PICK G : G = FileFDs' /\ G = {i \in FileFDs : ram.fd[i].refcnt > cnt[i]}
    BY <1>8
  <2>3. PICK F : F = FileFDs
    OBVIOUS
  <2>4. /\ DiskOK(ram, F) /\ G = {i \in F : ram.fd[i].refcnt > cnt[i]} /\ e = close(ram, cnt)
        /\ \A i \in FDs : cnt[i] <= ram.fd[i].refcnt /\ (cnt[i] > 0 => i \in F)
    BY <1>1, <2>1, <2>2, <2>3
  <2>5. Closed(ram, F, cnt, G, e)
    BY <1>9, <2>4, CloseOK
  <2>. QED BY <2>2, <2>3, <2>5 DEF Closed
<1>11. FileFDs' \subseteq FileFDs
  BY <1>8
<1>. QED BY <1>3, <1>6, <1>10, <1>11 DEF HandedBack

\* Fclose.
LEMMA FcloseStep ==
    ASSUME DosInv, NEW p \in alive, NEW n \in 1..NHDL, Fclose(p, n)
    PROVE  StepExact
<1>. DEFINE cnt == [i \in FDs |-> Handles(p, {n}, i)]
<1>1. p \in Proc /\ KernelType /\ ram.fd \in FdTable /\ PathsOK
  BY DiskOKParts DEF DosInv, KernelType
<1>2. /\ ram' = close(ram, cnt) /\ hdl' = [hdl EXCEPT ![p][n] = NULL]
      /\ UNCHANGED << pathx, pathcntx, drvx, alive >>
  BY DEF Fclose
<1>3. KernelType' /\ \A q \in Proc, m \in 1..NHDL : hdl'[q][m] = IF q = p /\ m \in {n} THEN NULL ELSE hdl[q][m]
  BY <1>1, <1>2 DEF KernelType
<1>4. HandedBack(ram', cnt)
  <2>. HIDE DEF cnt
  <2>1. {n} \in SUBSET (1..NHDL)
    OBVIOUS
  <2>2. cnt = [i \in FDs |-> Handles(p, {n}, i)]
    BY DEF cnt
  <2>. QED BY <1>1, <1>2, <1>3, <2>1, <2>2, CloseHandles
<1>. HIDE DEF cnt
<1>5. DiskOK(ram', FileFDs') /\ FileFDs' \subseteq FileFDs /\ ram'.fd \in FdTable
  BY <1>4, DiskOKParts DEF HandedBack
<1>6. \A i : CwdOf(i)' = CwdOf(i)
  BY <1>2 DEF CwdOf
<1>7. CountsOK' /\ (Exact => Exact')
  <2>1. ASSUME NEW i \in FDs
        PROVE  ram'.fd[i].refcnt - Cardinality(CwdOf(i)') - Cardinality(HandlesOf(i)')
                          = ram.fd[i].refcnt - Cardinality(CwdOf(i)) - Cardinality(HandlesOf(i))
    <3>1. Cardinality(CwdOf(i)) \in Nat /\ Cardinality(HandlesOf(i)) \in Nat /\ ram.fd[i].refcnt \in Nat
      BY <1>1, UsersFinite, FdParts
    <3>2. Cardinality(CwdOf(i)') = Cardinality(CwdOf(i))
      BY <1>6
    <3>3. cnt[i] \in Nat /\ ram'.fd[i].refcnt = ram.fd[i].refcnt - cnt[i]
          /\ Cardinality(HandlesOf(i)') = Cardinality(HandlesOf(i)) - cnt[i]
      BY <1>4 DEF HandedBack
    <3>. QED BY <3>1, <3>2, <3>3
  <2>. QED BY <1>3, <1>5, <2>1, CountsStep
<1>8. PathsOK'
  <2>1. \A q \in Proc \ alive : hdl'[q] = hdl[q]
    BY <1>1, <1>2 DEF KernelType
  <2>. QED BY <1>1, <1>2, <1>5, <2>1 DEF PathsOK
<1>9. CwdStays
  <2>. SUFFICES ASSUME NEW q \in alive, drvx[q] > 0
                PROVE  /\ pathx'[drvx[q]] = DefaultDD(q)
                       /\ ram'.fd[DefaultDD(q)].file = ram.fd[DefaultDD(q)].file
    BY DEF CwdStays
  <2>1. DefaultDD(q) \in FDs \ FileFDs /\ DefaultDD(q) = pathx[drvx[q]]
    BY DefaultLocked
  <2>. QED BY <1>2, <1>4, <2>1 DEF HandedBack
<1>. QED BY <1>3, <1>5, <1>7, <1>8, <1>9 DEF StepExact, StepOK, DosInv

\* The path handles after a process has left its default path.
LEMMA PathsLeft ==
    ASSUME DosInv, KernelType', NEW p \in alive, alive' = alive \ {p}, \A q \in Proc \ {p} : drvx'[q] = drvx[q],
           drvx'[p] = 0, \A n \in 1..NHDL : hdl'[p][n] = NULL, \A q \in Proc \ {p} : hdl'[q] = hdl[q],
           \A h \in Handle : pathcntx'[h] = pathcntx[h] - (IF h = drvx[p] THEN 1 ELSE 0),
           \A h \in Handle : pathx'[h] = IF pathcntx'[h] = 0 THEN NULL ELSE pathx[h],
           FileFDs' \subseteq FileFDs
    PROVE  /\ PathsOK'
           /\ \A q \in alive \ {p} : drvx[q] > 0 => drvx[q] \in Handle /\ pathx'[drvx[q]] = pathx[drvx[q]]
<1>1. p \in Proc /\ KernelType /\ PathsOK /\ 0 \notin Handle
  BY DEF DosInv, KernelType, Handle
<1>2. ASSUME NEW h \in Handle
      PROVE  /\ pathcntx'[h] = Cardinality(UsersOf(h)')
             /\ pathcntx'[h] > 0 <=> \E q \in alive' : drvx'[q] = h
             /\ pathcntx'[h] \in Nat
  <2>1. Cardinality(UsersOf(h)') =
           Cardinality(UsersOf(h)) - (IF p \in alive /\ drvx[p] = h THEN 1 ELSE 0)
           + (IF p \in alive' /\ drvx'[p] = h THEN 1 ELSE 0)
    <3>1. alive' \ {p} = alive \ {p} /\ \A q \in alive \ {p} : drvx'[q] = drvx[q]
      BY <1>1 DEF KernelType
    <3>. QED BY <1>1, <3>1, UserCount
  <2>2. pathcntx[h] = Cardinality(UsersOf(h))
    BY <1>1 DEF PathsOK, UsersOf
  <2>3. pathcntx[h] \in Nat
    BY <1>1 DEF KernelType
  <2>4. pathcntx'[h] = Cardinality(UsersOf(h)')
    BY <1>1, <2>1, <2>2, <2>3
  <2>5. IsFiniteSet(UsersOf(h)')
    BY DosAssumption, FS_Subset DEF KernelType, UsersOf
  <2>6. Cardinality(UsersOf(h)') > 0 <=> UsersOf(h)' # {}
    BY <2>5, CountNone
  <2>7. pathcntx'[h] \in Nat
    BY DEF KernelType
  <2>. QED BY <2>4, <2>6, <2>7 DEF UsersOf
<1>3. ASSUME NEW h \in Handle, pathcntx'[h] > 0 PROVE pathx'[h] = pathx[h] /\ pathx[h] # NULL
  <2>1. pathcntx[h] \in Nat /\ pathcntx'[h] = pathcntx[h] - (IF h = drvx[p] THEN 1 ELSE 0)
    BY <1>1 DEF KernelType
  <2>2. pathcntx[h] > 0
    BY <1>2, <1>3, <2>1
  <2>3. pathx'[h] = pathx[h]
    BY <1>3
  <2>. QED BY <1>1, <2>2, <2>3 DEF PathsOK
<1>4. ASSUME NEW h \in Handle PROVE pathx'[h] # NULL <=> pathcntx'[h] > 0
  <2>1. pathcntx'[h] \in Nat
    BY <1>2
  <2>2. CASE pathcntx'[h] > 0
    BY <1>3, <2>2
  <2>3. CASE pathcntx'[h] = 0
    BY <2>3
  <2>. QED BY <2>1, <2>2, <2>3
<1>5. \A h \in Handle : pathx'[h] # NULL => pathx'[h] \notin FileFDs' \cup {ROOT}
  BY <1>1, <1>3, <1>4 DEF PathsOK
<1>6. \A g, h \in Handle : pathx'[g] # NULL /\ pathx'[g] = pathx'[h] => g = h
  <2>1. ASSUME NEW g \in Handle, NEW h \in Handle, pathx'[g] # NULL, pathx'[g] = pathx'[h] PROVE g = h
    <3>1. pathx'[g] = pathx[g] /\ pathx'[h] = pathx[h] /\ pathx[g] # NULL
      BY <1>3, <1>4, <2>1
    <3>2. pathx[g] # NULL /\ pathx[g] = pathx[h]
      BY <2>1, <3>1
    <3>3. \A k, l \in Handle : pathx[k] # NULL /\ pathx[k] = pathx[l] => k = l
      BY <1>1 DEF PathsOK
    <3>. QED BY ONLY <3>2, <3>3, g \in Handle, h \in Handle
  <2>. QED BY <2>1
<1>7. \A q \in Proc \ alive' : drvx'[q] = 0 /\ \A n \in 1..NHDL : hdl'[q][n] = NULL
  BY <1>1 DEF PathsOK
<1>8. PathsOK'
  <2>1. \A h \in Handle : pathcntx'[h] = Cardinality({q \in alive' : drvx'[q] = h})
    BY <1>2 DEF UsersOf
  <2>. QED BY <2>1, <1>4, <1>5, <1>6, <1>7 DEF PathsOK
<1>9. ASSUME NEW q \in alive \ {p}, drvx[q] > 0 PROVE drvx[q] \in Handle /\ pathx'[drvx[q]] = pathx[drvx[q]]
  <2>1. drvx[q] \in Handle
    BY <1>9, DefaultLocked
  <2>2. q \in alive' /\ q \in Proc /\ drvx'[q] = drvx[q]
    BY <1>1 DEF KernelType
  <2>3. pathcntx'[drvx[q]] > 0
    BY <1>2, <2>1, <2>2
  <2>. QED BY <1>3, <2>1, <2>3
<1>. QED BY <1>8, <1>9

\* The default paths are locked
CwdLocked == \A i \in FDs : CwdOf(i) # {} => ram.fd[i].refcnt > 0

\* They are if the counters are right.
LEMMA CwdUsed == KernelType /\ CountsOK /\ ram.fd \in FdTable => CwdLocked
<1>. SUFFICES ASSUME KernelType, CountsOK, ram.fd \in FdTable, NEW i \in FDs, CwdOf(i) # {}
              PROVE  ram.fd[i].refcnt > 0
  BY DEF CwdLocked
<1>1. IsFiniteSet(CwdOf(i)) /\ Cardinality(HandlesOf(i)) \in Nat
  BY UsersFinite
<1>2. Cardinality(CwdOf(i)) \in Nat /\ Cardinality(CwdOf(i)) > 0
  BY <1>1, CountNone
<1>3. ram.fd[i].refcnt \in Nat /\ ram.fd[i].refcnt >= Uses(i)
  BY FdParts DEF CountsOK
<1>. QED BY <1>1, <1>2, <1>3 DEF Uses

\* Pterm.
LEMMA PtermStep ==
    ASSUME DosInv, NEW p \in alive, Pterm(p)
    PROVE  StepExact
<1>. DEFINE cnt == [i \in FDs |-> Handles(p, 1..NHDL, i)]
            closed == close(ram, cnt)
            h == drvx[p]
            used == h > 0 /\ pathcntx[h] > 0
            m == IF used THEN unlock_dd(closed, pathx[h]) ELSE closed
<1>1. p \in Proc /\ KernelType /\ ram.fd \in FdTable /\ PathsOK
  BY DiskOKParts DEF DosInv, KernelType
<1>2. /\ ram' = pterm(m, p)
      /\ pathcntx' = IF used THEN [pathcntx EXCEPT ![h] = pathcntx[h] - 1] ELSE pathcntx
      /\ hdl' = [hdl EXCEPT ![p] = [n \in 1..NHDL |-> NULL]]
      /\ drvx' = [drvx EXCEPT ![p] = 0] /\ alive' = alive \ {p}
      /\ pathx' = [g \in Handle |-> IF pathcntx'[g] = 0 THEN NULL ELSE pathx[g]]
  BY Zenon DEF Pterm
<1>. HIDE DEF m, cnt, closed
<1>3. /\ h \in Nat /\ (used <=> h > 0) /\ (h > 0 => h \in Handle) /\ (h = 0 => h \notin Handle)
      /\ used => pathx[h] \in FDs \ FileFDs /\ pathx[h] # ROOT /\ ram.fd[pathx[h]].refcnt > 0
                 /\ DefaultDD(p) = pathx[h]
  BY DefaultLocked DEF Handle
<1>4. \A g \in Handle : pathcntx'[g] \in Nat /\ pathcntx'[g] = pathcntx[g] - (IF g = h THEN 1 ELSE 0)
  <2>1. \A g \in Handle : pathcntx[g] \in Nat
    BY <1>1 DEF KernelType
  <2>2. CASE used
    BY <1>1, <1>2, <1>3, <2>1, <2>2 DEF KernelType
  <2>3. CASE ~used
    BY <1>1, <1>2, <1>3, <2>1, <2>3 DEF KernelType
  <2>. QED BY <2>2, <2>3
<1>5. KernelType'
  <2>1. pathcntx' \in [Handle -> Nat]
    <3>1. pathcntx' = [g \in Handle |-> pathcntx'[g]]
      <4>1. CASE used
        BY <1>1, <1>2, <4>1 DEF KernelType
      <4>2. CASE ~used
        BY <1>1, <1>2, <4>2 DEF KernelType
      <4>. QED BY <4>1, <4>2
    <3>. QED BY ONLY <1>4, <3>1
  <2>2. pathx' \in [Handle -> FDs \cup {NULL}]
    BY <1>1, <1>2 DEF KernelType
  <2>3. hdl' \in [Proc -> [1..NHDL -> FDs \cup {NULL}]] /\ drvx' \in [Proc -> {0} \cup Handle] /\ alive' \subseteq Proc
    BY <1>1, <1>2 DEF KernelType
  <2>. QED BY <2>1, <2>2, <2>3 DEF KernelType
<1>6. /\ \A q \in Proc \ {p} : drvx'[q] = drvx[q] /\ hdl'[q] = hdl[q]
      /\ drvx'[p] = 0 /\ \A n \in 1..NHDL : hdl'[p][n] = NULL
  BY <1>1, <1>2 DEF KernelType
<1>7. HandedBack(closed, cnt)
  <2>1. \A q \in Proc, n \in 1..NHDL : hdl'[q][n] = IF q = p /\ n \in 1..NHDL THEN NULL ELSE hdl[q][n]
    BY <1>6
  <2>2. 1..NHDL \in SUBSET (1..NHDL) /\ cnt = [i \in FDs |-> Handles(p, 1..NHDL, i)] /\ closed = close(ram, cnt)
    BY DEF cnt, closed
  <2>. QED BY <1>1, <1>5, <2>1, <2>2, CloseHandles
<1>8. /\ DiskOK(closed, FileFDs') /\ FileFDs' \subseteq FileFDs
      /\ \A i \in FDs : /\ cnt[i] \in Nat /\ closed.fd[i].refcnt = ram.fd[i].refcnt - cnt[i]
                        /\ Cardinality(HandlesOf(i)') = Cardinality(HandlesOf(i)) - cnt[i]
                        /\ i \notin FileFDs => cnt[i] = 0
      /\ \A i \in FDs \ FileFDs : closed.fd[i] = ram.fd[i]
  BY <1>7 DEF HandedBack
<1>9. closed.fd \in FdTable /\ \A i \in FDs : closed.fd[i].refcnt \in Nat
  BY <1>8, DiskOKParts, FdParts
<1>10. /\ DiskOK(m, FileFDs')
       /\ \A i \in FDs : m.fd[i].refcnt = closed.fd[i].refcnt - (IF used /\ i = pathx[h] THEN 1 ELSE 0)
       /\ \A i \in FDs : m.fd[i].refcnt > 0 => SameDD(closed.fd, m.fd, i)
  <2>1. CASE used
    <3>. DEFINE x == pathx[h]
    <3>1. x \in FDs \ FileFDs' /\ closed.fd[x].refcnt > 0 /\ x # ROOT
      BY <1>3, <1>8, <2>1
    <3>2. m = unlock_dd(closed, x)
      BY <2>1 DEF m
    <3>. HIDE DEF x
    <3>3. Unlocks(closed, m, FileFDs', x)
      BY <1>8, <3>1, <3>2, Unlock
    <3>. QED BY <2>1, <3>3 DEF Unlocks, x
  <2>2. CASE ~used
    <3>1. m = closed
      BY <2>2 DEF m
    <3>. QED BY <1>8, <1>9, <2>2, <3>1 DEF SameDD
  <2>. QED BY <2>1, <2>2
<1>11. DiskOK(ram', FileFDs') /\ ram'.fd = m.fd
  BY <1>2, <1>10, PtermOK
<1>12. PathsOK' /\ \A q \in alive \ {p} : drvx[q] > 0 => drvx[q] \in Handle /\ pathx'[drvx[q]] = pathx[drvx[q]]
  <2>1. \A g \in Handle : pathx'[g] = IF pathcntx'[g] = 0 THEN NULL ELSE pathx[g]
    BY <1>2
  <2>. QED BY <1>2, <1>4, <1>5, <1>6, <1>8, <2>1, PathsLeft
<1>13. ram'.fd \in FdTable
  BY <1>11, DiskOKParts
<1>14. CountsOK' /\ (Exact => Exact')
  <2>1. ASSUME NEW i \in FDs
        PROVE  ram'.fd[i].refcnt - Cardinality(CwdOf(i)') - Cardinality(HandlesOf(i)')
                          = ram.fd[i].refcnt - Cardinality(CwdOf(i)) - Cardinality(HandlesOf(i))
    <3>1. Cardinality(CwdOf(i)') = Cardinality(CwdOf(i)) - (IF p \in CwdOf(i) THEN 1 ELSE 0)
                                              + (IF p \in CwdOf(i)' THEN 1 ELSE 0)
      <4>1. alive' \ {p} = alive \ {p} /\ \A q \in alive \ {p} : q \in Proc
        BY <1>1, <1>2 DEF KernelType
      <4>. QED BY <1>1, <1>5, <1>6, <1>12, <4>1, CwdCount
    <3>2. p \notin CwdOf(i)'
      BY <1>2 DEF CwdOf
    <3>3. p \in CwdOf(i) <=> used /\ i = pathx[h]
      BY <1>3 DEF CwdOf
    <3>4. Cardinality(CwdOf(i)) \in Nat /\ Cardinality(HandlesOf(i)) \in Nat /\ ram.fd[i].refcnt \in Nat
      BY <1>1, UsersFinite, FdParts
    <3>5. cnt[i] \in Nat /\ closed.fd[i].refcnt = ram.fd[i].refcnt - cnt[i]
          /\ Cardinality(HandlesOf(i)') = Cardinality(HandlesOf(i)) - cnt[i]
      BY <1>8
    <3>6. ram'.fd[i].refcnt = closed.fd[i].refcnt - (IF used /\ i = pathx[h] THEN 1 ELSE 0)
      BY <1>10, <1>11
    <3>. DEFINE z == IF used /\ i = pathx[h] THEN 1 ELSE 0
    <3>7. z \in Nat /\ Cardinality(CwdOf(i)') = Cardinality(CwdOf(i)) - z /\ ram'.fd[i].refcnt = closed.fd[i].refcnt - z
      BY <3>1, <3>2, <3>3, <3>4, <3>6
    <3>. HIDE DEF z
    <3>. QED BY <3>4, <3>5, <3>7
  <2>. QED BY <1>5, <1>8, <1>13, <2>1, CountsStep
<1>15. CwdStays
  <2>. SUFFICES ASSUME NEW q \in alive, drvx[q] > 0, q \in alive'
                PROVE  /\ pathx'[drvx[q]] = DefaultDD(q)
                       /\ ram'.fd[DefaultDD(q)].file = ram.fd[DefaultDD(q)].file
    BY DEF CwdStays
  <2>1. PICK i \in FDs \ FileFDs : i = DefaultDD(q) /\ i = pathx[drvx[q]]
    BY DefaultLocked
  <2>2. q \in alive \ {p} /\ q \in Proc \ {p}
    BY <1>1, <1>2 DEF KernelType
  <2>3. pathx'[drvx[q]] = i /\ drvx'[q] = drvx[q]
    BY <1>6, <1>12, <2>1, <2>2
  <2>4. CwdOf(i)' # {}
    <3>1. q \in alive' /\ drvx'[q] > 0 /\ pathx'[drvx'[q]] = i
      BY <2>3
    <3>2. q \in CwdOf(i)'
      BY <3>1 DEF CwdOf
    <3>. QED BY <3>2
  <2>5. CwdLocked'
    <3>1. KernelType' /\ CountsOK' /\ (ram.fd \in FdTable)' => CwdLocked'
      BY CwdUsed, PTL
    <3>. QED BY <1>5, <1>13, <1>14, <3>1
  <2>6. ram'.fd[i].refcnt > 0
    <3>1. \A j \in FDs : CwdOf(j)' # {} => ram'.fd[j].refcnt > 0
      BY <2>5 DEF CwdLocked
    <3>. QED BY <2>1, <2>4, <3>1
  <2>7. ram'.fd[i].file = ram.fd[i].file
    BY <1>8, <1>10, <1>11, <2>1, <2>6 DEF SameDD
  <2>. QED BY <2>1, <2>3, <2>7
<1>. QED BY <1>5, <1>11, <1>12, <1>14, <1>15 DEF StepExact, StepOK, DosInv

\* One process changes its default path, begins or ends: pathcntx of a path handle.
LEMMA PathUsers ==
    ASSUME DosInv, KernelType', NEW p \in Proc, alive' \ {p} = alive \ {p},
           \A q \in alive \ {p} : drvx'[q] = drvx[q], NEW h \in Handle,
           pathcntx'[h] = pathcntx[h] - (IF p \in alive /\ drvx[p] = h THEN 1 ELSE 0)
                                      + (IF p \in alive' /\ drvx'[p] = h THEN 1 ELSE 0)
    PROVE  /\ pathcntx'[h] = Cardinality({q \in alive' : drvx'[q] = h})
           /\ pathcntx'[h] > 0 <=> \E q \in alive' : drvx'[q] = h
           /\ pathcntx'[h] \in Nat
<1>1. KernelType /\ PathsOK
  BY DEF DosInv
<1>2. Cardinality(UsersOf(h)') =
         Cardinality(UsersOf(h)) - (IF p \in alive /\ drvx[p] = h THEN 1 ELSE 0)
         + (IF p \in alive' /\ drvx'[p] = h THEN 1 ELSE 0)
  BY <1>1, UserCount
<1>3. pathcntx[h] = Cardinality(UsersOf(h))
  BY <1>1 DEF PathsOK, UsersOf
<1>4. pathcntx'[h] = Cardinality(UsersOf(h)')
  BY <1>2, <1>3
<1>5. IsFiniteSet(UsersOf(h)')
  BY DosAssumption, FS_Subset DEF KernelType, UsersOf
<1>6. Cardinality(UsersOf(h)') > 0 <=> UsersOf(h)' # {}
  BY <1>5, CountNone
<1>7. pathcntx'[h] \in Nat
  BY DEF KernelType
<1>. QED BY <1>4, <1>6, <1>7 DEF UsersOf

\* The greatest of a natural number and 0.
LEMMA MaxZero == \A x \in Nat : Max({x, 0}) = x
<1>. SUFFICES ASSUME NEW x \in Nat PROVE Max({x, 0}) = x
  OBVIOUS
<1>1. x \in {x, 0} /\ \A y \in {x, 0} : x >= y
  OBVIOUS
<1>2. \A z \in {x, 0} : (\A y \in {x, 0} : z >= y) => z = x
  OBVIOUS
<1>. QED BY <1>1, <1>2 DEF Max

\* Pexec, Pfork.
LEMMA PexecStep ==
    ASSUME DosInv, NEW p \in alive, NEW c \in Proc, Pexec(p, c)
    PROVE  StepExact
<1>. DEFINE h == drvx[p]
            n == [i \in FDs |-> Handles(p, 1..NHDL, i) + (IF h > 0 /\ DefaultDD(p) = i THEN 1 ELSE 0)]
<1>1. p \in Proc /\ KernelType /\ ram.fd \in FdTable /\ PathsOK /\ DiskOK(ram, FileFDs) /\ p # c /\ c \notin alive
  BY DiskOKParts DEF DosInv, KernelType, Pexec
<1>2. /\ h \in Nat /\ (h > 0 => h \in Handle) /\ (h = 0 => h \notin Handle)
      /\ h > 0 => pathx[h] \in FDs \ FileFDs /\ pathx[h] # ROOT /\ ram.fd[pathx[h]].refcnt > 0
                 /\ DefaultDD(p) = pathx[h] /\ pathcntx[h] > 0
  BY DefaultLocked DEF Handle
<1>3. /\ alive' = alive \cup {c} /\ hdl' = [hdl EXCEPT ![c] = hdl[p]] /\ drvx' = [drvx EXCEPT ![c] = h]
      /\ pathcntx' = [g \in Handle |-> pathcntx[g] + (IF g = h THEN 1 ELSE 0)] /\ pathx' = pathx
  BY <1>2, MaxZero DEF Pexec
<1>4. ram' = [ram EXCEPT !.fd = [i \in FDs |-> [ram.fd[i] EXCEPT !.refcnt = ram.fd[i].refcnt + n[i]]]]
  <2>1. \A i \in FDs : n[i] = Handles(p, 1..NHDL, i) + (IF h > 0 /\ DefaultDD(p) = i THEN 1 ELSE 0)
    OBVIOUS
  <2>2. \A i \in FDs : Handles(p, 1..NHDL, i) \in Nat /\ ram.fd[i].refcnt \in Nat
    <3>1. \A i : {m \in 1..NHDL : hdl[p][m] = i} \in SUBSET (1..NHDL)
      OBVIOUS
    <3>2. \A i : Cardinality({m \in 1..NHDL : hdl[p][m] = i}) \in Nat
      BY <3>1, HandlesAre
    <3>. QED BY <1>1, <3>2, FdParts DEF Handles, Quantify
  <2>3. ram' = [ram EXCEPT !.fd = [i \in FDs |->
                  [ram.fd[i] EXCEPT !.refcnt = ram.fd[i].refcnt + Handles(p, 1..NHDL, i)
                      + (IF h > 0 /\ DefaultDD(p) = i THEN 1 ELSE 0)]]]
    BY DEF Pexec
  <2>. HIDE DEF n
  <2>4. \A i \in FDs : ram.fd[i].refcnt + Handles(p, 1..NHDL, i) + (IF h > 0 /\ DefaultDD(p) = i THEN 1 ELSE 0)
                          = ram.fd[i].refcnt + n[i]
    BY <2>1, <2>2
  <2>. QED BY ONLY <2>3, <2>4
<1>5. KernelType'
  <2>1. \A g \in Handle : pathcntx[g] + (IF g = h THEN 1 ELSE 0) \in Nat
    BY <1>1 DEF KernelType
  <2>2. pathcntx' \in [Handle -> Nat]
    BY <1>3, <2>1
  <2>3. pathx' \in [Handle -> FDs \cup {NULL}] /\ alive' \subseteq Proc
    BY <1>1, <1>3 DEF KernelType
  <2>4. hdl' \in [Proc -> [1..NHDL -> FDs \cup {NULL}]] /\ drvx' \in [Proc -> {0} \cup Handle]
    BY <1>1, <1>3 DEF KernelType
  <2>. QED BY <2>2, <2>3, <2>4 DEF KernelType
<1>6. /\ \A q \in Proc \ {c} : drvx'[q] = drvx[q] /\ hdl'[q] = hdl[q]
      /\ drvx'[c] = h /\ hdl'[c] = hdl[p]
  BY <1>1, <1>3 DEF KernelType
<1>7. \A m \in 1..NHDL : hdl[c][m] = NULL
  BY <1>1 DEF PathsOK
<1>8. FilesCounted /\ FilesCounted' /\ FileFDs' = FileFDs
  <2>1. KernelType' => FilesCounted'
    BY FileFDsAre, PTL
  <2>2. FileFDs' \subseteq FileFDs
    BY <1>1, <1>6 DEF FileFDs
  <2>3. FileFDs \subseteq FileFDs'
    BY <1>1, <1>6, <1>7 DEF FileFDs
  <2>. QED BY <1>1, <1>5, <2>1, <2>2, <2>3, FileFDsAre
<1>9. ASSUME NEW i \in FDs
      PROVE  /\ Handles(p, 1..NHDL, i) \in Nat
             /\ Handles(p, 1..NHDL, i) > 0 => i \in FileFDs
             /\ Cardinality(HandlesOf(i)') = Cardinality(HandlesOf(i)) + Handles(p, 1..NHDL, i)
  <2>. DEFINE T == {m \in 1..NHDL : hdl[p][m] = i}
              U == {p} \X T
              V == {c} \X T
              A == HandlesOf(i)
              B == HandlesOf(i)'
  <2>1. Handles(p, 1..NHDL, i) = Cardinality(T)
    BY DEF Handles, Quantify
  <2>2. IsFiniteSet(T) /\ IsFiniteSet(V) /\ Cardinality(V) = Cardinality(T) /\ Cardinality(T) \in Nat
    <3>1. T \in SUBSET (1..NHDL)
      OBVIOUS
    <3>. HIDE DEF T
    <3>. QED BY <3>1, HandlesAre
  <2>3. i # NULL
    BY Constants
  <2>4. B = A \cup V /\ A \cap V = {}
    BY <1>1, <1>6, <1>7, <2>3 DEF HandlesOf
  <2>5. IsFiniteSet(A)
    BY <1>1, UsersFinite
  <2>6. Cardinality(T) > 0 => i \in FileFDs
    <3>1. Cardinality(T) > 0 => T # {}
      BY <2>2, CountNone
    <3>2. T # {} => i \in FileFDs
      BY <1>1, <2>3 DEF FileFDs
    <3>. QED BY <3>1, <3>2
  <2>. HIDE DEF A, B, T, U, V
  <2>7. IsFiniteSet(B) /\ V \in SUBSET B /\ {} \in SUBSET A /\ A \ {} = B \ V
    BY <2>2, <2>4, <2>5, FS_Union
  <2>8. Cardinality(B) = Cardinality(A) - Cardinality({}) + Cardinality(V)
    BY <2>5, <2>7, CountParts
  <2>9. Cardinality(A) \in Nat /\ Cardinality({}) = 0
    BY <2>5, FS_CardinalityType, FS_EmptySet
  <2>. QED BY <2>1, <2>2, <2>6, <2>8, <2>9 DEF A, B
<1>10. ASSUME NEW i \in FDs
       PROVE  n[i] \in Nat /\ (n[i] > 0 => ram.fd[i].refcnt > 0)
  <2>1. i \in FileFDs => ram.fd[i].refcnt > 0
    BY <1>1 DEF DiskOK, FdOK, FilesOK
  <2>. QED BY <1>2, <1>9, <2>1
<1>11. /\ DiskOK(ram', FileFDs)
       /\ \A i \in FDs : ram'.fd[i].refcnt = ram.fd[i].refcnt + n[i]
       /\ \A i \in FDs : SameDD(ram.fd, ram'.fd, i)
  <2>1. n \in [FDs -> Nat]
    <3>1. \A i \in FDs : n[i] \in Nat
      BY <1>10
    <3>2. n = [i \in FDs |-> n[i]]
      OBVIOUS
    <3>. QED BY ONLY <3>1, <3>2
  <2>2. \A i \in FDs : n[i] > 0 => ram.fd[i].refcnt > 0
    BY <1>10
  <2>3. PICK F : F = FileFDs
    OBVIOUS
  <2>4. PICK m \in [FDs -> Nat] : m = n
    BY <2>1
  <2>. HIDE DEF n
  <2>5. ram' = Recounted(ram, m)
    BY <1>4, <2>4 DEF Recounted
  <2>6. DiskOK(ram, F) /\ \A i \in FDs : m[i] > 0 => ram.fd[i].refcnt > 0
    BY <1>1, <2>2, <2>3, <2>4
  <2>7. /\ DiskOK(ram', F) /\ \A i \in FDs : ram'.fd[i].refcnt = ram.fd[i].refcnt + m[i]
        /\ \A i \in FDs : SameDD(ram.fd, ram'.fd, i)
    BY <2>5, <2>6, RecountOK
  <2>. QED BY <2>3, <2>4, <2>7
<1>12. /\ alive' \ {c} = alive \ {c} /\ \A q \in alive \ {c} : drvx'[q] = drvx[q]
       /\ \A q \in alive \ {c} : drvx[q] > 0 => pathx'[drvx[q]] = pathx[drvx[q]]
  BY <1>1, <1>3, <1>6 DEF KernelType
<1>13. ASSUME NEW g \in Handle
       PROVE  /\ pathcntx'[g] = Cardinality({q \in alive' : drvx'[q] = g})
              /\ pathcntx'[g] > 0 <=> pathcntx[g] > 0
  <2>1. pathcntx[g] \in Nat /\ pathcntx'[g] = pathcntx[g] + (IF g = h THEN 1 ELSE 0)
    BY <1>1, <1>3 DEF KernelType
  <2>2. pathcntx'[g] = pathcntx[g] - (IF c \in alive /\ drvx[c] = g THEN 1 ELSE 0)
                                      + (IF c \in alive' /\ drvx'[c] = g THEN 1 ELSE 0)
    BY <1>1, <1>3, <1>6, <2>1
  <2>3. pathcntx'[g] = Cardinality({q \in alive' : drvx'[q] = g})
    BY <1>5, <1>12, <2>2, PathUsers
  <2>4. g = h => pathcntx[g] > 0
    BY <1>2
  <2>. QED BY <2>1, <2>3, <2>4
<1>14. PathsOK'
  <2>1. \A q \in Proc \ alive' : drvx'[q] = 0 /\ \A m \in 1..NHDL : hdl'[q][m] = NULL
    BY <1>1, <1>3, <1>6 DEF PathsOK
  <2>2. /\ \A g \in Handle : pathx'[g] # NULL <=> pathcntx'[g] > 0
        /\ \A g \in Handle : pathx'[g] # NULL => pathx'[g] \notin FileFDs' \cup {ROOT}
    BY <1>1, <1>3, <1>8, <1>13 DEF PathsOK
  <2>3. \A f, g \in Handle : pathx'[f] # NULL /\ pathx'[f] = pathx'[g] => f = g
    BY <1>1, <1>3 DEF PathsOK
  <2>4. \A g \in Handle : pathcntx'[g] = Cardinality({q \in alive' : drvx'[q] = g})
    BY <1>13
  <2>. QED BY <2>1, <2>2, <2>3, <2>4 DEF PathsOK
<1>15. CountsOK' /\ (Exact => Exact')
  <2>1. ASSUME NEW i \in FDs
        PROVE  ram'.fd[i].refcnt - Cardinality(CwdOf(i)') - Cardinality(HandlesOf(i)')
                          = ram.fd[i].refcnt - Cardinality(CwdOf(i)) - Cardinality(HandlesOf(i))
    <3>1. Cardinality(CwdOf(i)') = Cardinality(CwdOf(i)) - (IF c \in CwdOf(i) THEN 1 ELSE 0)
                                              + (IF c \in CwdOf(i)' THEN 1 ELSE 0)
      BY <1>1, <1>5, <1>12, CwdCount
    <3>2. c \notin CwdOf(i)
      BY <1>1 DEF CwdOf
    <3>3. c \in CwdOf(i)' <=> h > 0 /\ DefaultDD(p) = i
      <4>1. c \in CwdOf(i)' <=> c \in alive' /\ drvx'[c] > 0 /\ pathx'[drvx'[c]] = i
        BY DEF CwdOf
      <4>. QED BY <1>2, <1>3, <1>6, <4>1
    <3>4. Cardinality(CwdOf(i)) \in Nat /\ Cardinality(HandlesOf(i)) \in Nat /\ ram.fd[i].refcnt \in Nat
      BY <1>1, UsersFinite, FdParts
    <3>5. Handles(p, 1..NHDL, i) \in Nat /\ Cardinality(HandlesOf(i)') = Cardinality(HandlesOf(i)) + Handles(p, 1..NHDL, i)
      BY <1>9
    <3>. DEFINE z == IF h > 0 /\ DefaultDD(p) = i THEN 1 ELSE 0
    <3>6. z \in Nat /\ Cardinality(CwdOf(i)') = Cardinality(CwdOf(i)) + z /\ n[i] = Handles(p, 1..NHDL, i) + z
      BY <3>1, <3>2, <3>3, <3>4
    <3>7. ram'.fd[i].refcnt = ram.fd[i].refcnt + n[i]
      BY <1>11
    <3>. HIDE DEF z, n
    <3>. QED BY <3>4, <3>5, <3>6, <3>7
  <2>2. ram'.fd \in FdTable
    BY <1>11, DiskOKParts
  <2>. QED BY <1>5, <1>8, <2>1, <2>2, CountsStep
<1>16. CwdStays
  <2>. SUFFICES ASSUME NEW q \in alive, drvx[q] > 0
                PROVE  /\ pathx'[drvx[q]] = DefaultDD(q)
                       /\ ram'.fd[DefaultDD(q)].file = ram.fd[DefaultDD(q)].file
    BY DEF CwdStays
  <2>1. PICK i \in FDs : i = DefaultDD(q) /\ i = pathx[drvx[q]]
    BY DefaultLocked
  <2>2. ram'.fd[i].file = ram.fd[i].file
    BY <1>11 DEF SameDD
  <2>. QED BY <1>3, <2>1, <2>2
<1>. QED BY <1>5, <1>8, <1>11, <1>14, <1>15, <1>16 DEF StepExact, StepOK, DosInv

\* From d to e DD dd gets locked unless it is the root, and DD x unlocked (none if it is NULL)
Changed(d, e, F, dd, x) ==
    /\ DiskOK(e, F)
    /\ \A i \in FDs : e.fd[i].refcnt = d.fd[i].refcnt + (IF dd # ROOT /\ i = dd THEN 1 ELSE 0)
                                                      - (IF i = x THEN 1 ELSE 0)
    /\ \A i \in FDs : d.fd[i].refcnt > 0 /\ e.fd[i].refcnt > 0 => SameDD(d.fd, e.fd, i)

\* The DDs when a process changes its default path.
LEMMA ChangeDD ==
    ASSUME NEW d, NEW F, DiskOK(d, F), NEW dd \in FDs \ F, NEW m, Locks(d, m, F, dd),
           NEW x, x # NULL => x \in FDs \ F /\ d.fd[x].refcnt > 0 /\ x # ROOT,
           NEW f, f = (IF dd = ROOT THEN unlock_dd(m, ROOT) ELSE m),
           NEW e, e = (IF x # NULL THEN unlock_dd(f, x) ELSE f)
    PROVE  Changed(d, e, F, dd, x)
<1>1. /\ d.fd \in FdTable /\ DiskOK(m, F) /\ \A i \in FDs : d.fd[i].refcnt \in Nat
      /\ d.fd[ROOT].refcnt > 0
  BY DiskOKParts, FdParts DEF Locks, RootOK
<1>2. /\ \A i \in FDs : m.fd[i].refcnt = d.fd[i].refcnt + (IF i = dd THEN 1 ELSE 0)
      /\ \A i \in FDs : d.fd[i].refcnt > 0 => SameDD(d.fd, m.fd, i)
  BY DEF Locks, Keeps
<1>3. /\ DiskOK(f, F)
      /\ \A i \in FDs : f.fd[i].refcnt = d.fd[i].refcnt + (IF dd # ROOT /\ i = dd THEN 1 ELSE 0)
      /\ \A i \in FDs : d.fd[i].refcnt > 0 => SameDD(d.fd, f.fd, i)
  <2>1. CASE dd = ROOT
    <3>1. f = unlock_dd(m, ROOT) /\ ROOT \in FDs \ F /\ m.fd[ROOT].refcnt > 1 /\ m.fd[ROOT].refcnt > 0
      <4>1. \A i \in FDs : i = dd => m.fd[i].refcnt = d.fd[i].refcnt + 1
        BY <1>2
      <4>2. ROOT \in FDs \ F /\ m.fd[ROOT].refcnt = d.fd[ROOT].refcnt + 1
        BY <2>1, <4>1
      <4>. QED BY <1>1, <2>1, <4>2
    <3>2. Unlocks(m, f, F, ROOT)
      BY ONLY <1>1, <3>1, Unlock
    <3>3. /\ DiskOK(f, F) /\ \A i \in FDs : f.fd[i].refcnt = m.fd[i].refcnt - (IF i = ROOT THEN 1 ELSE 0)
          /\ \A i \in FDs : f.fd[i].refcnt > 0 => SameDD(m.fd, f.fd, i)
      BY <3>2 DEF Unlocks
    <3>4. \A i \in FDs : f.fd[i].refcnt = d.fd[i].refcnt
      BY <1>1, <1>2, <2>1, <3>3
    <3>. QED BY <1>1, <1>2, <2>1, <3>3, <3>4 DEF SameDD
  <2>2. CASE dd # ROOT
    BY <1>1, <1>2, <2>2
  <2>. QED BY <2>1, <2>2
<1>4. CASE x # NULL
  <2>1. x \in FDs \ F /\ x # ROOT /\ f.fd[x].refcnt > 0 /\ e = unlock_dd(f, x)
    BY <1>1, <1>3, <1>4
  <2>2. Unlocks(f, e, F, x)
    BY <1>3, <2>1, Unlock
  <2>3. /\ DiskOK(e, F) /\ \A i \in FDs : e.fd[i].refcnt = f.fd[i].refcnt - (IF i = x THEN 1 ELSE 0)
        /\ \A i \in FDs : e.fd[i].refcnt > 0 => SameDD(f.fd, e.fd, i)
    BY <2>2 DEF Unlocks
  <2>4. \A i \in FDs : e.fd[i].refcnt = d.fd[i].refcnt + (IF dd # ROOT /\ i = dd THEN 1 ELSE 0)
                                                      - (IF i = x THEN 1 ELSE 0)
    <3>. SUFFICES ASSUME NEW i \in FDs
                  PROVE  e.fd[i].refcnt = d.fd[i].refcnt + (IF dd # ROOT /\ i = dd THEN 1 ELSE 0)
                                                      - (IF i = x THEN 1 ELSE 0)
      OBVIOUS
    <3>2. f.fd[i].refcnt = d.fd[i].refcnt + (IF dd # ROOT /\ i = dd THEN 1 ELSE 0)
      BY <1>3
    <3>3. e.fd[i].refcnt = f.fd[i].refcnt - (IF i = x THEN 1 ELSE 0)
      BY <2>3
    <3>4. d.fd[i].refcnt \in Nat
      BY <1>1
    <3>. QED BY ONLY <3>2, <3>3, <3>4
  <2>5. \A i \in FDs : d.fd[i].refcnt > 0 /\ e.fd[i].refcnt > 0 => SameDD(d.fd, e.fd, i)
    BY <1>3, <2>3 DEF SameDD
  <2>. QED BY <2>3, <2>4, <2>5 DEF Changed
<1>5. CASE x = NULL
  <2>1. e = f
    BY <1>5
  <2>2. \A i \in FDs : e.fd[i].refcnt = d.fd[i].refcnt + (IF dd # ROOT /\ i = dd THEN 1 ELSE 0)
                                                      - (IF i = x THEN 1 ELSE 0)
    <3>1. \A i \in FDs : i # x
      BY <1>5, Constants
    <3>. QED BY <1>1, <1>3, <2>1, <3>1
  <2>. QED BY <1>3, <2>1, <2>2 DEF Changed
<1>. QED BY <1>4, <1>5

\* A process gets path handle new for DD dd (the root needs none).
NewPath(dd, new) ==
    IF dd = ROOT THEN new = 0
    ELSE /\ new \in Handle
         /\ IF pathcntx[new] > 0 THEN pathx[new] = dd
            ELSE \A h \in Handle : pathcntx[h] > 0 => pathx[h] # dd

\* Process p leaves its default path (handle old) for DD dd (handle new), which is locked on
\* disk m; left counts the users of the path handles in between, f is the disk then
Leaves(p, old, dd, new, m, left, f) ==
    /\ old = drvx[p]
    /\ left = [h \in Handle |-> pathcntx[h] - (IF h = old THEN 1 ELSE 0)]
    /\ f = IF dd = ROOT THEN unlock_dd(m, ROOT) ELSE m
    /\ ram' = IF old > 0 THEN unlock_dd(f, pathx[old]) ELSE f
    /\ pathcntx' = [h \in Handle |-> left[h] + (IF h = new THEN 1 ELSE 0)]
    /\ pathx' = [h \in Handle |-> IF h = new THEN dd ELSE IF left[h] = 0 THEN NULL ELSE pathx[h]]
    /\ drvx' = [drvx EXCEPT ![p] = new]
    /\ UNCHANGED << hdl, alive >>

\* It does.
LEMMA SetpathStep ==
    ASSUME DosInv, NEW p \in alive, NEW dd \in FDs \ FileFDs, NEW m, Locks(ram, m, FileFDs, dd),
           NEW new, NewPath(dd, new), NEW old, NEW left, NEW f, Leaves(p, old, dd, new, m, left, f)
    PROVE  StepExact
<1>. USE DEF Leaves
<1>1. p \in Proc /\ KernelType /\ ram.fd \in FdTable /\ PathsOK /\ DiskOK(ram, FileFDs) /\ FileFDs' = FileFDs
  BY DiskOKParts DEF DosInv, KernelType, FileFDs
<1>2. /\ old \in Nat /\ (old > 0 => old \in Handle) /\ (old = 0 => old \notin Handle)
      /\ old > 0 => pathx[old] \in FDs \ FileFDs /\ pathx[old] # ROOT /\ ram.fd[pathx[old]].refcnt > 0
                   /\ DefaultDD(p) = pathx[old] /\ pathcntx[old] > 0
  BY DefaultLocked DEF Handle
<1>3. /\ new \in {0} \cup Handle /\ 0 \notin Handle /\ (new \in Handle => new > 0 /\ dd # ROOT)
      /\ (dd # ROOT => new \in Handle) /\ dd # NULL
      /\ \A h \in Handle : h # new /\ pathcntx[h] > 0 => dd = ROOT \/ pathx[h] # dd
      /\ new \in Handle /\ pathcntx[new] > 0 => pathx[new] = dd
  <2>1. 0 \notin Handle /\ dd # NULL /\ \A h \in Handle : h > 0
    BY Constants DEF Handle
  <2>2. CASE dd = ROOT
    BY <2>1, <2>2 DEF NewPath
  <2>3. CASE dd # ROOT
    <3>1. \A g, h \in Handle : pathx[g] # NULL /\ pathx[g] = pathx[h] => g = h
      BY <1>1 DEF PathsOK
    <3>. QED BY <2>1, <2>3, <3>1 DEF NewPath
  <2>. QED BY <2>2, <2>3
<1>4. PICK x : x = IF old > 0 THEN pathx[old] ELSE NULL
  OBVIOUS
<1>5. /\ DiskOK(ram', FileFDs)
      /\ \A i \in FDs : ram'.fd[i].refcnt = ram.fd[i].refcnt + (IF dd # ROOT /\ i = dd THEN 1 ELSE 0)
                                                         - (IF i = x THEN 1 ELSE 0)
      /\ \A i \in FDs : ram.fd[i].refcnt > 0 /\ ram'.fd[i].refcnt > 0 => SameDD(ram.fd, ram'.fd, i)
  <2>1. /\ x # NULL => x \in FDs \ FileFDs /\ ram.fd[x].refcnt > 0 /\ x # ROOT
        /\ x # NULL <=> old > 0
    BY <1>2, <1>4, Constants
  <2>2. ram' = IF x # NULL THEN unlock_dd(f, x) ELSE f
    BY <1>4, <2>1
  <2>3. Changed(ram, ram', FileFDs, dd, x)
    BY <1>1, <2>1, <2>2, ChangeDD
  <2>. QED BY <2>3 DEF Changed
<1>6. \A h \in Handle : /\ pathcntx[h] \in Nat /\ left[h] \in Nat /\ pathcntx'[h] = left[h] + (IF h = new THEN 1 ELSE 0)
                        /\ left[h] = pathcntx[h] - (IF h = old THEN 1 ELSE 0)
  <2>1. \A h \in Handle : pathcntx[h] \in Nat /\ (h = old => pathcntx[h] > 0)
    BY <1>1, <1>2 DEF KernelType
  <2>. QED BY <2>1
<1>7. KernelType'
  <2>1. pathcntx' \in [Handle -> Nat]
    BY <1>6
  <2>2. pathx' \in [Handle -> FDs \cup {NULL}]
    BY <1>1 DEF KernelType
  <2>3. hdl' \in [Proc -> [1..NHDL -> FDs \cup {NULL}]] /\ drvx' \in [Proc -> {0} \cup Handle] /\ alive' \subseteq Proc
    BY <1>1, <1>3 DEF KernelType
  <2>. QED BY <2>1, <2>2, <2>3 DEF KernelType
<1>8. drvx'[p] = new /\ \A q \in Proc \ {p} : drvx'[q] = drvx[q]
  BY <1>1 DEF KernelType
<1>9. alive' = alive /\ alive' \ {p} = alive \ {p} /\ \A q \in alive \ {p} : q \in Proc /\ drvx'[q] = drvx[q]
  BY <1>1, <1>8 DEF KernelType
<1>10. ASSUME NEW h \in Handle
       PROVE  /\ pathcntx'[h] = Cardinality({q \in alive' : drvx'[q] = h})
              /\ pathcntx'[h] > 0 <=> \E q \in alive' : drvx'[q] = h
  <2>1. pathcntx'[h] = pathcntx[h] - (IF p \in alive /\ drvx[p] = h THEN 1 ELSE 0)
                                      + (IF p \in alive' /\ drvx'[p] = h THEN 1 ELSE 0)
    BY <1>6, <1>8, <1>9
  <2>. QED BY ONLY DosInv, h \in Handle, <1>1, <1>7, <1>9, <2>1, PathUsers
<1>11. \A h \in Handle : pathx'[h] = IF h = new THEN dd ELSE IF left[h] = 0 THEN NULL ELSE pathx[h]
  OBVIOUS
<1>12. ASSUME NEW h \in Handle, h # new
       PROVE  /\ pathcntx'[h] = left[h]
              /\ left[h] > 0 => pathcntx[h] > 0 /\ pathx'[h] = pathx[h] /\ pathx[h] # NULL
              /\ left[h] = 0 => pathx'[h] = NULL
  <2>1. left[h] > 0 => pathcntx[h] > 0
    BY <1>6
  <2>. QED BY <1>1, <1>6, <1>11, <1>12, <2>1 DEF PathsOK
<1>13. PathsOK'
  <2>1. \A h \in Handle : pathcntx'[h] = Cardinality({q \in alive' : drvx'[q] = h})
    BY <1>10
  <2>2. ASSUME NEW h \in Handle
        PROVE  /\ pathx'[h] # NULL <=> pathcntx'[h] > 0
               /\ pathx'[h] # NULL => pathx'[h] \notin FileFDs' \cup {ROOT}
    <3>1. CASE h = new
      BY <1>1, <1>3, <1>6, <1>11, <3>1
    <3>2. CASE h # new
      BY <1>1, <1>6, <1>12, <3>2 DEF PathsOK
    <3>. QED BY <3>1, <3>2
  <2>3. ASSUME NEW g \in Handle, NEW h \in Handle, h # new, pathx'[g] # NULL, pathx'[g] = pathx'[h]
        PROVE  g = h
    <3>1. pathx'[h] = pathx[h] /\ pathcntx[h] > 0 /\ pathx[h] # NULL
      BY <1>6, <1>12, <2>3
    <3>2. CASE g = new
      BY <1>3, <1>11, <2>3, <3>1, <3>2
    <3>3. CASE g # new
      <4>1. pathx'[g] = pathx[g]
        BY <1>6, <1>12, <2>3, <3>3
      <4>2. \A k, l \in Handle : pathx[k] # NULL /\ pathx[k] = pathx[l] => k = l
        BY <1>1 DEF PathsOK
      <4>3. pathx[g] = pathx[h] /\ pathx[g] # NULL
        BY <2>3, <3>1, <4>1
      <4>. QED BY ONLY <4>2, <4>3, g \in Handle, h \in Handle
    <3>. QED BY <3>2, <3>3
  <2>4. \A g, h \in Handle : pathx'[g] # NULL /\ pathx'[g] = pathx'[h] => g = h
    BY <2>3
  <2>5. \A q \in Proc \ alive' : drvx'[q] = 0 /\ \A n \in 1..NHDL : hdl'[q][n] = NULL
    BY <1>1, <1>8 DEF PathsOK
  <2>. QED BY <2>1, <2>2, <2>4, <2>5 DEF PathsOK
<1>14. ASSUME NEW q \in alive, q # p, drvx[q] > 0 PROVE drvx[q] \in Handle /\ pathx'[drvx[q]] = pathx[drvx[q]]
  <2>1. PICK h \in Handle : h = drvx[q] /\ pathcntx[h] > 0
    BY <1>14, DefaultLocked
  <2>2. pathcntx'[h] > 0
    BY <1>9, <1>10, <1>14, <2>1
  <2>3. CASE h = new
    BY <1>3, <1>11, <2>1, <2>3
  <2>4. CASE h # new
    BY <1>6, <1>12, <2>1, <2>2, <2>4
  <2>. QED BY <2>1, <2>3, <2>4
<1>15. ram'.fd \in FdTable
  BY <1>5, DiskOKParts
<1>16. CountsOK' /\ (Exact => Exact')
  <2>1. ASSUME NEW i \in FDs
        PROVE  ram'.fd[i].refcnt - Cardinality(CwdOf(i)') - Cardinality(HandlesOf(i)')
                          = ram.fd[i].refcnt - Cardinality(CwdOf(i)) - Cardinality(HandlesOf(i))
    <3>1. Cardinality(CwdOf(i)') = Cardinality(CwdOf(i)) - (IF p \in CwdOf(i) THEN 1 ELSE 0)
                                              + (IF p \in CwdOf(i)' THEN 1 ELSE 0)
      <4>1. \A q \in alive \ {p} : drvx'[q] = drvx[q] /\ (drvx[q] > 0 => pathx'[drvx[q]] = pathx[drvx[q]])
        BY <1>9, <1>14
      <4>. QED BY <1>1, <1>7, <1>9, <4>1, CwdCount
    <3>2. p \in CwdOf(i) <=> i = x
      BY <1>4, Constants DEF CwdOf
    <3>3. p \in CwdOf(i)' <=> dd # ROOT /\ i = dd
      <4>1. p \in CwdOf(i)' <=> p \in alive' /\ drvx'[p] > 0 /\ pathx'[drvx'[p]] = i
        BY DEF CwdOf
      <4>2. new > 0 <=> new \in Handle
        BY <1>3
      <4>3. new \in Handle => pathx'[new] = dd
        BY <1>11
      <4>. QED BY <1>3, <1>8, <1>9, <4>1, <4>2, <4>3
    <3>4. Cardinality(CwdOf(i)) \in Nat /\ Cardinality(HandlesOf(i)) \in Nat /\ ram.fd[i].refcnt \in Nat
      BY <1>1, UsersFinite, FdParts
    <3>5. HandlesOf(i)' = HandlesOf(i)
      BY DEF HandlesOf
    <3>. DEFINE y == IF i = x THEN 1 ELSE 0
                z == IF dd # ROOT /\ i = dd THEN 1 ELSE 0
    <3>6. y \in Nat /\ z \in Nat /\ ram'.fd[i].refcnt = ram.fd[i].refcnt + z - y
      BY <1>5
    <3>7. Cardinality(CwdOf(i)') = Cardinality(CwdOf(i)) - y + z
      BY <3>1, <3>2, <3>3
    <3>. HIDE DEF y, z
    <3>. QED BY ONLY <3>4, <3>5, <3>6, <3>7
  <2>. QED BY <1>1, <1>7, <1>15, <2>1, CountsStep
<1>17. CwdStays
  <2>. SUFFICES ASSUME NEW q \in alive, drvx[q] > 0, drvx'[q] = drvx[q]
                PROVE  /\ pathx'[drvx[q]] = DefaultDD(q)
                       /\ ram'.fd[DefaultDD(q)].file = ram.fd[DefaultDD(q)].file
    BY DEF CwdStays
  <2>1. PICK i \in FDs \ FileFDs : i = DefaultDD(q) /\ i = pathx[drvx[q]] /\ ram.fd[i].refcnt > 0
    BY DefaultLocked
  <2>2. drvx[q] \in Handle /\ pathcntx[drvx[q]] > 0
    BY DefaultLocked
  <2>3. pathx'[drvx[q]] = i
    <3>1. CASE q = p
      BY <1>3, <1>8, <1>11, <2>1, <2>2, <3>1
    <3>2. CASE q # p
      BY <1>14, <2>1, <3>2
    <3>. QED BY <3>1, <3>2
  <2>4. CwdOf(i)' # {}
    <3>1. q \in alive' /\ drvx'[q] > 0 /\ pathx'[drvx'[q]] = i
      BY <2>3
    <3>2. q \in CwdOf(i)'
      BY <3>1 DEF CwdOf
    <3>. QED BY <3>2
  <2>5. CwdLocked'
    <3>1. KernelType' /\ CountsOK' /\ (ram.fd \in FdTable)' => CwdLocked'
      BY CwdUsed, PTL
    <3>. QED BY <1>7, <1>15, <1>16, <3>1
  <2>6. ram'.fd[i].refcnt > 0
    <3>1. \A j \in FDs : CwdOf(j)' # {} => ram'.fd[j].refcnt > 0
      BY <2>5 DEF CwdLocked
    <3>. QED BY <2>4, <3>1
  <2>7. ram'.fd[i].file = ram.fd[i].file
    BY <1>5, <2>1, <2>6 DEF SameDD
  <2>. QED BY <2>1, <2>3, <2>7
<1>. QED BY <1>1, <1>5, <1>7, <1>13, <1>16, <1>17 DEF StepExact, StepOK, DosInv

\* With more path handles than processes one is always free.
LEMMA FreePath ==
    ASSUME KernelType, PathsOK, NSTD > Cardinality(Proc)
    PROVE  isdefault(NULL) # {}
<1>. SUFFICES ASSUME isdefault(NULL) = {} PROVE FALSE
  OBVIOUS
<1>1. \A h \in Handle : \E p \in alive : drvx[p] = h
  <2>. SUFFICES ASSUME NEW h \in Handle PROVE UsersOf(h) # {}
    BY DEF UsersOf
  <2>1. pathcntx[h] # 0 /\ pathcntx[h] \in Nat
    BY DEF isdefault, KernelType
  <2>2. pathcntx[h] = Cardinality(UsersOf(h))
    BY DEF PathsOK, UsersOf
  <2>3. IsFiniteSet(UsersOf(h))
    BY UsersFinite DEF UsersOf
  <2>. QED BY <2>1, <2>2, <2>3, CountNone
<1>. DEFINE S == {p \in alive : drvx[p] \in Handle}
            f == [p \in S |-> drvx[p]]
<1>2. IsFiniteSet(S) /\ Cardinality(S) <= Cardinality(Proc) /\ Cardinality(S) \in Nat /\ Cardinality(Proc) \in Nat
  BY DosAssumption, FS_Subset, FS_CardinalityType DEF KernelType
<1>3. f \in Surjection(S, Handle)
  <2>1. f \in [S -> Handle]
    OBVIOUS
  <2>2. \A h \in Handle : \E p \in S : f[p] = h
    BY <1>1
  <2>. HIDE DEF f, S
  <2>. QED BY <2>1, <2>2 DEF Surjection
<1>. HIDE DEF S, f
<1>4. Cardinality(Handle) <= Cardinality(S)
  BY <1>2, <1>3, FS_Surjection
<1>5. Cardinality(Handle) = NSTD /\ NSTD \in Nat
  BY DosAssumption, FS_Interval DEF Handle
<1>. QED BY <1>2, <1>4, <1>5

\* The path handle that Dsetpath takes for DD dd
NewHandle(dd) ==
    IF dd = ROOT THEN 0 ELSE IF isdefault(dd) # {} THEN Min(isdefault(dd)) ELSE Min(isdefault(NULL))

\* It is one for dd or a free one.
LEMMA NewHandleOK ==
    ASSUME NEW dd \in FDs, dd # ROOT => isdefault(dd) \cup isdefault(NULL) # {}
    PROVE  NewPath(dd, NewHandle(dd))
<1>1. dd # NULL /\ Handle \subseteq Nat
  BY Constants DEF Handle
<1>. SUFFICES ASSUME dd # ROOT PROVE NewPath(dd, NewHandle(dd))
  BY DEF NewPath, NewHandle
<1>2. /\ \A h : h \in isdefault(dd) <=> h \in Handle /\ pathcntx[h] > 0 /\ pathx[h] = dd
      /\ \A h : h \in isdefault(NULL) <=> h \in Handle /\ pathcntx[h] = 0
  BY <1>1 DEF isdefault
<1>3. isdefault(dd) \in SUBSET Nat /\ isdefault(NULL) \in SUBSET Nat
  BY <1>1, <1>2
<1>4. CASE isdefault(dd) # {}
  <2>1. NewHandle(dd) \in isdefault(dd)
    BY <1>3, <1>4, MinOf DEF NewHandle
  <2>. QED BY <1>2, <2>1 DEF NewPath
<1>5. CASE isdefault(dd) = {}
  <2>1. isdefault(NULL) # {} /\ NewHandle(dd) = Min(isdefault(NULL))
    BY <1>5 DEF NewHandle
  <2>2. NewHandle(dd) \in isdefault(NULL)
    BY <1>3, <2>1, MinOf
  <2>3. \A h \in Handle : pathcntx[h] > 0 => pathx[h] # dd
    BY <1>2, <1>5
  <2>4. NewHandle(dd) \in Handle /\ pathcntx[NewHandle(dd)] = 0
    BY <1>2, <2>2
  <2>. QED BY <2>3, <2>4 DEF NewPath
<1>. QED BY <1>4, <1>5

\* Dsetpath. It leaves a lock behind only when no path handle is left.
LEMMA DsetpathStep ==
    ASSUME DosInv, NEW p \in alive, NEW path \in DirPaths, Dsetpath(p, path)
    PROVE  StepOK /\ (NSTD > Cardinality(Proc) => StepExact)
<1>. DEFINE f(r) == IF r.dd = ROOT THEN unlock_dd(r.disk, ROOT) ELSE r.disk
            left == [h \in Handle |-> pathcntx[h] - (IF h = drvx[p] THEN 1 ELSE 0)]
            Body(r) ==
              IF r.err # "E_OK" \/ (r.dd # ROOT /\ isdefault(r.dd) \cup isdefault(NULL) = {})
              THEN ram' = r.disk /\ UNCHANGED << kernel, careful >>
              ELSE /\ ram' = IF drvx[p] > 0 THEN unlock_dd(f(r), pathx[drvx[p]]) ELSE f(r)
                   /\ pathcntx' = [h \in Handle |-> left[h] + (IF h = NewHandle(r.dd) THEN 1 ELSE 0)]
                   /\ pathx' = [h \in Handle |-> IF h = NewHandle(r.dd) THEN r.dd ELSE IF left[h] = 0 THEN NULL ELSE pathx[h]]
                   /\ drvx' = [drvx EXCEPT ![p] = NewHandle(r.dd)]
                   /\ UNCHANGED << hdl, alive, careful >>
<1>1. PICK r : r = Lookup(ram, p, path, 1) /\ Body(r)
  BY Zenon DEF Dsetpath, NewHandle
<1>2. DiskOK(ram, FileFDs) /\ path \in PathSeq /\ Locks(ram, ram, FileFDs, NULL) /\ ram.fd \in FdTable
  <2>1. DiskOK(ram, FileFDs) /\ path \in PathSeq
    BY Paths DEF DosInv
  <2>. QED BY <2>1, LocksNone, DiskOKParts
<1>3. LookupOK(ram, FileFDs, r)
  BY <1>1, <1>2, LookupIs
<1>4. CASE r.err # "E_OK"
  <2>1. ram' = r.disk /\ UNCHANGED kernel
    BY <1>1, <1>4
  <2>2. Locks(ram, ram', FileFDs, NULL)
    BY <1>3, <1>4, <2>1 DEF LookupOK
  <2>3. Balanced(ram, ram', FileFDs)
    BY <1>2, <2>2, BalancedFirst
  <2>. QED BY <2>1, <2>3, BalancedStep DEF StepExact
<1>5. CASE r.err = "E_OK" /\ r.dd # ROOT /\ isdefault(r.dd) \cup isdefault(NULL) = {}
  <2>1. ram' = r.disk /\ UNCHANGED kernel
    BY <1>1, <1>5
  <2>2. r.dd \in FDs \ FileFDs /\ Locks(ram, ram', FileFDs, r.dd)
    BY <1>2, <1>3, <1>5, <2>1, LookedUp
  <2>3. StepOK
    BY <2>1, <2>2, LeakStep
  <2>4. ~(NSTD > Cardinality(Proc))
    BY <1>5, FreePath DEF DosInv
  <2>. QED BY <2>3, <2>4
<1>6. CASE r.err = "E_OK" /\ ~(r.dd # ROOT /\ isdefault(r.dd) \cup isdefault(NULL) = {})
  <2>1. r.dd \in FDs \ FileFDs /\ Locks(ram, r.disk, FileFDs, r.dd)
    BY <1>2, <1>3, <1>6, LookedUp
  <2>2. NewPath(r.dd, NewHandle(r.dd))
    BY <1>6, <2>1, NewHandleOK
  <2>3. PICK g, old, new, dd, m, l :
           /\ g = f(r) /\ old = drvx[p] /\ new = NewHandle(r.dd) /\ dd = r.dd /\ m = r.disk /\ l = left
    OBVIOUS
  <2>4. /\ ram' = IF drvx[p] > 0 THEN unlock_dd(f(r), pathx[drvx[p]]) ELSE f(r)
        /\ pathcntx' = [h \in Handle |-> left[h] + (IF h = NewHandle(r.dd) THEN 1 ELSE 0)]
        /\ pathx' = [h \in Handle |-> IF h = NewHandle(r.dd) THEN r.dd ELSE IF left[h] = 0 THEN NULL ELSE pathx[h]]
        /\ drvx' = [drvx EXCEPT ![p] = NewHandle(r.dd)]
        /\ UNCHANGED << hdl, alive >>
    BY <1>1, <1>6, Zenon
  <2>5. /\ l = [h \in Handle |-> pathcntx[h] - (IF h = old THEN 1 ELSE 0)]
        /\ g = IF dd = ROOT THEN unlock_dd(m, ROOT) ELSE m
    BY <2>3, Zenon
  <2>. HIDE DEF f, left
  <2>6. /\ ram' = IF old > 0 THEN unlock_dd(g, pathx[old]) ELSE g
        /\ pathcntx' = [h \in Handle |-> l[h] + (IF h = new THEN 1 ELSE 0)]
        /\ pathx' = [h \in Handle |-> IF h = new THEN dd ELSE IF l[h] = 0 THEN NULL ELSE pathx[h]]
        /\ drvx' = [drvx EXCEPT ![p] = new]
    BY <2>3, <2>4, Zenon
  <2>7. dd \in FDs \ FileFDs /\ Locks(ram, m, FileFDs, dd) /\ NewPath(dd, new)
    BY <2>1, <2>2, <2>3
  <2>8. StepExact
    <3>1. Leaves(p, old, dd, new, m, l, g)
      BY <2>3, <2>4, <2>5, <2>6, Zenon DEF Leaves
    <3>. QED BY <2>7, <3>1, SetpathStep
  <2>. QED BY <2>8 DEF StepExact
<1>. QED BY <1>4, <1>5, <1>6

-----------------------------------------------------------------------------
(* The first state *)

\* The blocks of a new RAM disk.
LEMMA NewHeapOK == HeapOK(NewDisk.heap) /\ NewDisk \in DiskType
<1>. DEFINE h == NewDisk.heap
            empty == [i \in 1..ROOTSIZE |-> FreeEntry]
            dir == Directory(ROOTSIZE, NULL)
<1>1. /\ h = [a \in Blocks |-> IF a = Root THEN dir ELSE NoBlock]
      /\ NewDisk.fd = [i \in FDs |-> IF i = ROOT THEN [FreeFd EXCEPT !.file = root_de, !.refcnt = 1] ELSE FreeFd]
      /\ NewDisk.dhd = [i \in DHDs |-> FreeDhd]
      /\ NewDisk = [heap |-> NewDisk.heap, fd |-> NewDisk.fd, dhd |-> NewDisk.dhd]
  BY DEF NewDisk
<1>2. empty \in Seq(EntryType) /\ DOMAIN empty = 1..ROOTSIZE /\ \A i \in 1..ROOTSIZE : empty[i] = FreeEntry
  BY RamAssumption DEF EntryType, FreeEntry
<1>. HIDE DEF empty
<1>3. /\ dir \in BlockType /\ dir.kind = "dir" /\ dir.ent = empty
      /\ NoBlock \in BlockType /\ NoBlock.kind = NULL /\ NoBlock.ent = << >>
  <2>1. NoBlock \in BlockType /\ NoBlock.kind = NULL /\ NoBlock.ent = << >> /\ NoBlock.to = << >>
    BY DEF NoBlock, BlockType, Path
  <2>2. dir = [NoBlock EXCEPT !.kind = "dir", !.up = NULL, !.ent = empty]
    BY DEF Directory, empty
  <2>3. dir = [kind |-> "dir", up |-> NULL, ent |-> empty, to |-> << >>]
    BY <2>2 DEF NoBlock
  <2>. HIDE DEF dir
  <2>4. << >> \in Path
    BY DEF Path
  <2>. QED BY <1>2, <2>1, <2>3, <2>4 DEF BlockType, Kinds
<1>. HIDE DEF dir
<1>4. h \in HeapType /\ h[Root].kind = "dir" /\ \A a \in Blocks \ {Root} : h[a] = NoBlock
  <2>. HIDE DEF h
  <2>. QED BY <1>1, <1>3, Constants DEF HeapType
<1>5. \A a \in Blocks : h[a].kind # "dir" => h[a].ent = << >>
  BY <1>3, <1>4
<1>6. ASSUME NEW a, NEW k PROVE ~LiveAt(h, a, k)
  <2>1. CASE a = Root
    <3>1. h[a].ent = empty
      BY <1>1, <1>3, <2>1, Constants
    <3>2. \A i \in DOMAIN empty : empty[i].faddr = NULL
      BY <1>2 DEF FreeEntry
    <3>. QED BY <3>1, <3>2 DEF LiveAt, Ent
  <2>2. CASE a # Root /\ a \in Blocks
    BY <1>3, <1>4, <2>2 DEF LiveAt
  <2>. QED BY <2>1, <2>2 DEF LiveAt
<1>7. ToRoot(h)
  <2>. SUFFICES ASSUME NEW S \in SUBSET Dirs(h), S # {} PROVE Root \in S
    BY DEF ToRoot
  <2>1. Dirs(h) \subseteq {Root}
    BY <1>3, <1>4, Constants DEF Dirs, Kinds
  <2>. QED BY <2>1
<1>8. NoneLost(h)
  BY <1>3, <1>4, Constants DEF NoneLost
<1>. HIDE DEF h
<1>9. EntriesOK(h) /\ OneEntry(h) /\ OneName(h)
  BY <1>4, <1>5, <1>6 DEF EntriesOK, OneEntry, OneName
<1>10. HeapOK(h)
  BY <1>4, <1>7, <1>8, <1>9 DEF HeapOK
<1>11. NewDisk.fd \in FdTable
  <2>1. FreeFd \in FdType /\ root_de \in Blocks \X Nat
    BY Constants DEF FreeFd, FdType, root_de
  <2>2. [FreeFd EXCEPT !.file = root_de, !.refcnt = 1] \in FdType
    BY <2>1 DEF FreeFd, FdType
  <2>3. \A i \in FDs : (IF i = ROOT THEN [FreeFd EXCEPT !.file = root_de, !.refcnt = 1] ELSE FreeFd) \in FdType
    BY <2>1, <2>2
  <2>4. NewDisk.fd \in [FDs -> FdType]
    BY <1>1, <2>3
  <2>. QED BY <2>4 DEF FdTable, FdType
<1>12. NewDisk.dhd \in [DHDs -> [dir : Blocks \cup {NULL}, owner : Proc \cup {NULL}]]
  BY <1>1 DEF FreeDhd
<1>. QED BY <1>1, <1>4, <1>10, <1>11, <1>12 DEF DiskType, h

\* A new RAM disk: nothing but the root.
LEMMA NewDiskOK == DiskOK(NewDisk, {}) /\ \A i \in FDs : NewDisk.fd[i].refcnt = IF i = ROOT THEN 1 ELSE 0
<1>. DEFINE d == NewDisk
<1>1. HeapOK(d.heap) /\ d \in DiskType /\ d.fd \in FdTable
  BY NewHeapOK, DiskParts
<1>2. /\ \A i \in FDs \ {ROOT} : d.fd[i] = FreeFd
      /\ d.fd[ROOT].file = root_de /\ d.fd[ROOT].refcnt = 1 /\ d.fd[ROOT].parent = NULL /\ d.fd[ROOT].is_parent = 0
      /\ d.dhd = [i \in DHDs |-> FreeDhd]
  BY Constants DEF NewDisk, FreeFd
<1>. HIDE DEF d
<1>3. FreeFd.refcnt = 0 /\ FreeFd.file = NULL /\ FreeFd.is_parent = 0
  BY DEF FreeFd
<1>4. RootOK(d, {}) /\ FreeOK(d) /\ FilesOK(d, {})
  BY <1>2, <1>3 DEF RootOK, FreeOK, FilesOK
<1>5. OneDD(d, {})
  BY <1>2, <1>3 DEF OneDD
<1>6. Rooted(d, {}, ROOT) /\ Chain(d.fd, ROOT) = {ROOT}
  BY <1>1, <1>4, RootFacts
<1>7. \A i \in FDs : d.fd[i].refcnt > 0 => i = ROOT
  BY <1>2, <1>3
<1>8. LockedOK(d, {})
  BY <1>6, <1>7 DEF LockedOK
<1>9. ParentsOK(d, {})
  <2>1. \A i \in FDs : Below(d.fd, {}, i) = {}
    BY <1>6, <1>7 DEF Below, Ancestors
  <2>2. \A i \in FDs : d.fd[i].is_parent = 0
    BY <1>2, <1>3
  <2>. QED BY <2>1, <2>2, FS_EmptySet DEF ParentsOK
<1>10. OpenDirsOK(d)
  BY <1>2 DEF OpenDirsOK, FreeDhd
<1>11. \A i \in FDs : d.fd[i].refcnt = IF i = ROOT THEN 1 ELSE 0
  BY <1>2, <1>3
<1>. QED BY <1>1, <1>4, <1>5, <1>8, <1>9, <1>10, <1>11 DEF DiskOK, FdOK, d

\* At first a process has neither a default path nor a handle.
LEMMA InitOK == Init => DosInv /\ Exact
<1>. SUFFICES ASSUME Init PROVE DosInv /\ Exact
  OBVIOUS
<1>1. /\ ram = NewDisk /\ \A h \in Handle : pathx[h] = NULL /\ pathcntx[h] = 0
      /\ \A p \in Proc : drvx[p] = 0 /\ \A n \in 1..NHDL : hdl[p][n] = NULL
      /\ alive = {InitProc} /\ InitProc \in Proc
  BY DosAssumption DEF Init
<1>2. KernelType
  BY DosAssumption DEF Init, KernelType
<1>3. FileFDs = {}
  BY <1>1 DEF FileFDs
<1>4. 0 \notin Handle
  BY DEF Handle
<1>5. PathsOK
  <2>1. \A h \in Handle : {p \in alive : drvx[p] = h} = {}
    BY <1>1, <1>4
  <2>2. \A h \in Handle : pathcntx[h] = Cardinality({p \in alive : drvx[p] = h})
    BY <1>1, <2>1, FS_EmptySet
  <2>. QED BY <1>1, <2>2 DEF PathsOK
<1>6. ASSUME NEW i \in FDs PROVE ram.fd[i].refcnt = Uses(i) /\ Uses(i) \in Nat
  <2>1. CwdOf(i) = {} /\ HandlesOf(i) = {}
    BY <1>1, Constants DEF CwdOf, HandlesOf
  <2>. QED BY <1>1, <2>1, NewDiskOK, FS_EmptySet DEF Uses
<1>. QED BY <1>1, <1>2, <1>3, <1>5, <1>6, NewDiskOK DEF DosInv, CountsOK, Exact

-----------------------------------------------------------------------------
(* Every step *)

\* Each step keeps the invariant; it keeps Exact too if the call gives up following links
\* nowhere and a path handle is left.
LEMMA NextOK ==
    ASSUME DosInv, careful', Next
    PROVE  StepOK /\ (NSTD > Cardinality(Proc) /\ ChainsEnd => StepExact)
<1>. DEFINE Goal == StepOK /\ (NSTD > Cardinality(Proc) /\ ChainsEnd => StepExact)
<1>1. PICK p \in alive : ProcStep(p)
  BY DEF Next
<1>2. StepExact => Goal
  BY DEF StepExact
<1>. HIDE DEF Goal
<1>3. ASSUME NEW path \in DirPaths, Dsetpath(p, path) \/ Ddelete(p, path) PROVE Goal
  <2>1. CASE Dsetpath(p, path)
    BY <2>1, DsetpathStep DEF Goal
  <2>2. CASE Ddelete(p, path)
    BY <1>2, <2>2, DdeleteStep
  <2>. QED BY <1>3, <2>1, <2>2
<1>4. ASSUME NEW path \in ReadPaths, Dopendir(p, path) PROVE Goal
  BY <1>2, <1>4, DopendirStep
<1>5. ASSUME NEW path \in MakeDirs, Dcreate(p, path) PROVE Goal
  BY <1>2, <1>5, DcreateStep
<1>6. ASSUME NEW o \in Opens, Fopen(p, o[1], o[2]) PROVE Goal
  <2>1. ChainsEnd => fop_path(ram, DefaultDD(p), o[1], o[2], Domain[p]).err # "ELINK"
    BY Zenon DEF ChainsEnd
  <2>. QED BY <1>6, <2>1, FopenStep DEF Goal
<1>7. ASSUME NEW l \in Links, Fsymlink(p, l[1], l[2]) PROVE Goal
  BY <1>2, <1>7, FsymlinkStep
<1>8. ASSUME NEW path \in FilePaths, Fdelete(p, path) PROVE Goal
  BY <1>2, <1>8, FdeleteStep
<1>9. ASSUME NEW l \in Renames, Frename(p, l[1], l[2]) PROVE Goal
  BY <1>2, <1>9, FrenameStep
<1>10. ASSUME NEW n \in 1..NHDL, Fclose(p, n) PROVE Goal
  BY <1>2, <1>10, FcloseStep
<1>11. ASSUME NEW i \in DHDs, Dclosedir(p, i) PROVE Goal
  BY <1>2, <1>11, DclosedirStep
<1>12. ASSUME NEW c \in Proc, Pexec(p, c) PROVE Goal
  BY <1>2, <1>12, PexecStep
<1>13. ASSUME Pterm(p) PROVE Goal
  BY <1>2, <1>13, PtermStep
<1>14. Goal
  BY <1>1, <1>3, <1>4, <1>5, <1>6, <1>7, <1>8, <1>9, <1>10, <1>11, <1>12, <1>13, Zenon DEF ProcStep
<1>. QED BY <1>14 DEF Goal

\* Without a step everything stays.
LEMMA Unchanged ==
    ASSUME DosInv, UNCHANGED vars
    PROVE  StepExact
<1>1. UNCHANGED kernel /\ ram' = ram
  BY DEF vars, kernel
<1>2. DiskOK(ram', FileFDs) /\ ram'.fd = ram.fd /\ ram.fd \in FdTable
  BY <1>1, DiskOKParts DEF DosInv
<1>3. Balanced(ram, ram', FileFDs)
  BY <1>2, BalancedFirst
<1>. QED BY <1>1, <1>3, BalancedStep

-----------------------------------------------------------------------------
(* What the invariant says *)

\* DosTypeOK follows.
LEMMA TypeHolds == careful \in BOOLEAN /\ DosInv => DosTypeOK
<1>. SUFFICES ASSUME careful \in BOOLEAN, DosInv PROVE DosTypeOK
  OBVIOUS
<1>1. ram \in DiskType /\ ram.heap \in HeapType /\ ram.fd \in FdTable /\ KernelType /\ PathsOK
  BY DiskOKParts DEF DosInv
<1>2. ram.dhd \in [DHDs -> [dir : Blocks \cup {NULL}, owner : Proc \cup {NULL}]]
  BY <1>1, DiskParts
<1>3. \A a \in Blocks : ram.heap[a].kind \in Kinds \cup {NULL}
  BY <1>1 DEF HeapType, BlockType
<1>4. pathcntx \in [Handle -> 0..Cardinality(Proc)]
  <2>1. ASSUME NEW h \in Handle PROVE pathcntx[h] \in 0..Cardinality(Proc)
    <3>1. pathcntx[h] = Cardinality({p \in alive : drvx[p] = h}) /\ {p \in alive : drvx[p] = h} \subseteq Proc
      BY <1>1 DEF PathsOK, KernelType
    <3>2. Cardinality({p \in alive : drvx[p] = h}) <= Cardinality(Proc)
      BY <3>1, DosAssumption, FS_Subset
    <3>3. pathcntx[h] \in Nat /\ Cardinality(Proc) \in Nat
      BY <1>1, DosAssumption, FS_CardinalityType DEF KernelType
    <3>. QED BY <3>1, <3>2, <3>3
  <2>2. pathcntx = [h \in Handle |-> pathcntx[h]]
    BY <1>1 DEF KernelType
  <2>. QED BY ONLY <2>1, <2>2
<1>. QED BY <1>1, <1>2, <1>3, <1>4 DEF DosTypeOK, KernelType

\* OpenLive follows.
LEMMA OpenHolds == DosInv => OpenLive
<1>. SUFFICES ASSUME DosInv PROVE OpenLive
  OBVIOUS
<1>1. FilesOK(ram, FileFDs) /\ OpenDirsOK(ram)
  BY DiskOKParts DEF DosInv
<1>2. ASSUME NEW i \in FileFDs
      PROVE  ram.fd[i].file[2] \in Live(ram, ram.fd[i].file[1]) /\ Entry(ram, ram.fd[i].file).kind = "file"
  BY <1>1 DEF FilesOK, LiveAt, Live, Slots, At, Nr, Ent
<1>. QED BY <1>1, <1>2 DEF OpenLive, FilesOK, OpenDirsOK

\* TreeOK follows.
LEMMA TreeHolds == DosInv => TreeOK
<1>. SUFFICES ASSUME DosInv PROVE TreeOK
  OBVIOUS
<1>. DEFINE h == ram.heap
            dirs == {a \in Blocks : h[a].kind = "dir"}
            entries == UNION {{<< a, i >> : i \in Live(ram, a)} : a \in dirs}
<1>1. HeapOK(h) /\ h \in HeapType /\ EntriesOK(h) /\ OneEntry(h) /\ NoneLost(h) /\ OneName(h) /\ ToRoot(h)
  BY DiskOKParts DEF DosInv, HeapOK
<1>2. \A a \in Blocks : \A i : LiveAt(h, a, i) <=> i \in Live(ram, a)
  BY DEF LiveAt, Live, Slots, Ent
<1>3. ASSUME NEW e \in entries
      PROVE  /\ e[1] \in Blocks /\ e = << e[1], e[2] >> /\ e[2] \in DOMAIN h[e[1]].ent /\ LiveAt(h, e[1], e[2])
             /\ Entry(ram, e) = Ent(h, e[1], e[2])
  <2>. PICK a \in dirs : e \in {<< a, i >> : i \in Live(ram, a)}
    OBVIOUS
  <2>1. PICK i \in Live(ram, a) : e = << a, i >>
    OBVIOUS
  <2>2. a \in Blocks /\ LiveAt(h, a, i)
    BY <1>2
  <2>. QED BY <1>1, <2>1, <2>2, EntryAt DEF LiveAt
<1>4. ASSUME NEW a, NEW i, LiveAt(h, a, i) PROVE << a, i >> \in entries
  <2>1. a \in dirs /\ i \in Live(ram, a)
    BY <1>1, <1>2, <1>4, LiveInDir DEF LiveAt
  <2>. QED BY <2>1
<1>. HIDE DEF entries
<1>5. ASSUME NEW e \in entries, NEW f \in entries, e[1] = f[1], Entry(ram, e).name = Entry(ram, f).name PROVE e = f
  <2>1. e[2] = f[2]
    BY <1>1, <1>3, <1>5 DEF OneName
  <2>. QED BY <1>3, <1>5, <2>1
<1>6. ASSUME NEW a \in Addr
      PROVE  LET of == {e \in entries : Entry(ram, e).faddr = a}
             IN  IF h[a].kind = NULL THEN of = {}
                 ELSE /\ Cardinality(of) = 1
                      /\ \A e \in of : Entry(ram, e).kind = h[a].kind
                      /\ h[a].kind = "dir" => \A e \in of : h[a].up = e[1]
  <2>. DEFINE of == {e \in entries : Entry(ram, e).faddr = a}
  <2>1. ASSUME NEW e \in of
        PROVE  /\ Entry(ram, e).kind = h[a].kind /\ Entry(ram, e).kind \in Kinds
               /\ h[a].kind = "dir" => h[a].up = e[1]
    BY <1>1, <1>3 DEF EntriesOK
  <2>2. h[a].kind = NULL => of = {}
    BY <2>1, Constants
  <2>3. ASSUME h[a].kind # NULL PROVE Cardinality(of) = 1
    <3>1. PICK b \in Blocks : \E k \in DOMAIN h[b].ent : LiveAt(h, b, k) /\ Ent(h, b, k).faddr = a
      BY <1>1, <2>3 DEF NoneLost
    <3>2. PICK k \in DOMAIN h[b].ent : LiveAt(h, b, k) /\ Ent(h, b, k).faddr = a
      BY <3>1
    <3>3. << b, k >> \in entries /\ Entry(ram, << b, k >>) = Ent(h, b, k)
      BY <1>1, <1>4, <3>2, EntryAt
    <3>4. ASSUME NEW e \in of PROVE e = << b, k >>
      <4>1. e[1] = b /\ e[2] = k
        BY <1>1, <1>3, <3>2 DEF OneEntry
      <4>. QED BY <1>3, <4>1
    <3>5. of = {<< b, k >>}
      BY <3>2, <3>3, <3>4
    <3>. QED BY <3>5, FS_Singleton
  <2>. QED BY <2>1, <2>2, <2>3
<1>7. \A S \in SUBSET dirs : S # {} /\ (\A a \in S \ {Root} : h[a].up \in S) => Root \in S
  BY <1>1 DEF ToRoot, Dirs
<1>. QED BY <1>5, <1>6, <1>7 DEF TreeOK, entries

\* The DDs that somebody uses, and those above them.
LEMMA DDsUsed ==
    ASSUME NEW d, NEW F, DiskOK(d, F), NEW i \in FDs \ F, d.fd[i].refcnt > 0 \/ d.fd[i].is_parent > 0
    PROVE  /\ GoodDD(d, F, i) /\ d.fd[i].file # NULL
           /\ i # ROOT => d.fd[i].parent \in FDs \ F /\ d.fd[i].parent # NULL /\ d.fd[d.fd[i].parent].is_parent > 0
                          /\ d.fd[d.fd[i].parent].file # NULL
<1>1. d \in DiskType /\ HeapOK(d.heap) /\ d.fd \in FdTable /\ RootOK(d, F) /\ LockedOK(d, F) /\ ParentsOK(d, F)
  BY DiskOKParts
<1>2. PICK j \in FDs \ F : d.fd[j].refcnt > 0 /\ i \in Chain(d.fd, j)
  <2>1. CASE d.fd[i].refcnt > 0
    BY <1>1, <2>1, ChainClosed
  <2>2. CASE d.fd[i].is_parent > 0
    <3>1. Cardinality(Below(d.fd, F, i)) > 0
      BY <1>1, <2>2 DEF ParentsOK
    <3>2. Below(d.fd, F, i) # {}
      BY <3>1, BelowFinite, CountNone
    <3>. QED BY <3>2 DEF Below, Ancestors
  <2>. QED BY <2>1, <2>2
<1>3. Rooted(d, F, j)
  BY <1>1, <1>2 DEF LockedOK
<1>4. Rooted(d, F, i) /\ GoodDD(d, F, i)
  BY <1>1, <1>2, <1>3, RootedChain
<1>5. ASSUME NEW k, GoodDD(d, F, k) PROVE k \in FDs \ F /\ d.fd[k].file # NULL
  <2>1. root_de # NULL
    <3>1. root_de \in Blocks \X Nat
      BY Constants DEF root_de
    <3>. QED BY <3>1, Constants
  <2>2. k \in FDs \ F /\ (k # ROOT => d.fd[k].file # NULL) /\ d.fd[ROOT].file = root_de
    BY <1>1, <1>5 DEF GoodDD, RootOK
  <2>. QED BY <2>1, <2>2
<1>6. ASSUME i # ROOT
      PROVE  d.fd[i].parent \in FDs \ F /\ d.fd[d.fd[i].parent].is_parent > 0 /\ d.fd[d.fd[i].parent].file # NULL
  <2>. DEFINE k == d.fd[i].parent
  <2>1. k \in FDs \ F /\ Rooted(d, F, k) /\ Chain(d.fd, i) = {i} \cup Chain(d.fd, k) /\ i \notin Chain(d.fd, k)
    BY <1>1, <1>4, <1>6, RootedStep
  <2>2. k \in Chain(d.fd, k) /\ GoodDD(d, F, k)
    BY <1>1, <2>1, ChainClosed DEF Rooted
  <2>3. k \in Chain(d.fd, j)
    BY <1>1, <1>2, <2>1, <2>2, ChainMono
  <2>4. k # j
    <3>. SUFFICES ASSUME k = j PROVE FALSE
      OBVIOUS
    <3>. QED BY <1>2, <2>1
  <2>5. j \in Below(d.fd, F, k)
    BY <1>2, <2>3, <2>4 DEF Below, Ancestors
  <2>6. Cardinality(Below(d.fd, F, k)) > 0
    BY <2>5, BelowFinite, CountNone
  <2>7. d.fd[k].is_parent > 0
    BY <1>1, <2>1, <2>6 DEF ParentsOK
  <2>. QED BY <1>5, <2>1, <2>2, <2>7
<1>. QED BY <1>4, <1>5, <1>6, Constants

\* DDsLive follows.
LEMMA DDsHold == DosInv => DDsLive
<1>. SUFFICES ASSUME DosInv PROVE DDsLive
  OBVIOUS
<1>. DEFINE F == FileFDs
            used == {i \in DDs : ram.fd[i].refcnt > 0 \/ ram.fd[i].is_parent > 0}
<1>1. DiskOK(ram, F)
  BY DEF DosInv
<1>2. ram \in DiskType /\ HeapOK(ram.heap) /\ ram.heap \in HeapType /\ ram.fd \in FdTable /\ RootOK(ram, F) /\ OneDD(ram, F)
  BY <1>1, DiskOKParts
<1>3. \A i : i \in used <=> /\ i \in FDs \ F /\ ram.fd[i].file # NULL
                            /\ ram.fd[i].refcnt > 0 \/ ram.fd[i].is_parent > 0
  BY DEF DDs
<1>. HIDE DEF F, used
<1>4. ASSUME NEW i \in used, i # ROOT
      PROVE  /\ ram.fd[i].parent \in used
             /\ ram.fd[i].file[1] = DirOf(ram, ram.fd[i].parent)
             /\ ram.fd[i].file[2] \in Live(ram, ram.fd[i].file[1])
             /\ Entry(ram, ram.fd[i].file).kind = "dir"
             /\ \A j \in used : ram.fd[j].file = ram.fd[i].file => j = i
  <2>1. /\ GoodDD(ram, F, i) /\ ram.fd[i].parent \in FDs \ F
        /\ ram.fd[ram.fd[i].parent].is_parent > 0 /\ ram.fd[ram.fd[i].parent].file # NULL
    BY <1>1, <1>3, <1>4, DDsUsed
  <2>2. ram.fd[i].parent \in used
    BY <1>3, <2>1
  <2>3. /\ ram.fd[i].file[1] = DirOf(ram, ram.fd[i].parent)
        /\ LiveAt(ram.heap, ram.fd[i].file[1], ram.fd[i].file[2]) /\ Entry(ram, ram.fd[i].file).kind = "dir"
    BY <1>4, <2>1 DEF GoodDD, At, Nr
  <2>4. ram.fd[i].file[2] \in Live(ram, ram.fd[i].file[1])
    BY <2>3 DEF LiveAt, Live, Slots, Ent
  <2>5. \A j \in used : ram.fd[j].file = ram.fd[i].file => j = i
    BY <1>2, <1>3, <1>4 DEF OneDD
  <2>. QED BY <2>2, <2>3, <2>4, <2>5
<1>. QED BY <1>4 DEF DDsLive, used

\* RefCounts follows if nothing is locked that is not used.
LEMMA CountsHold == DosInv /\ Exact => RefCounts
<1>. SUFFICES ASSUME DosInv, Exact PROVE RefCounts
  OBVIOUS
<1>1. DiskOK(ram, FileFDs) /\ KernelType /\ PathsOK
  BY DEF DosInv
<1>2. RootOK(ram, FileFDs) /\ FreeOK(ram) /\ ParentsOK(ram, FileFDs) /\ ram.fd \in FdTable
  BY <1>1, DiskOKParts
<1>3. ASSUME NEW i \in FDs
      PROVE  ram.fd[i].refcnt =
                (IF i = ROOT THEN 1 ELSE 0)
                + Quantify(alive, LAMBDA p : drvx[p] > 0 /\ DefaultDD(p) = i)
                + Quantify(Proc \X (1..NHDL), LAMBDA q : hdl[q[1]][q[2]] = i)
  <2>1. CwdOf(i) = {p \in alive : drvx[p] > 0 /\ DefaultDD(p) = i}
    <3>1. \A p \in alive : drvx[p] > 0 => DefaultDD(p) = pathx[drvx[p]]
      BY DefaultLocked
    <3>. QED BY <3>1 DEF CwdOf
  <2>2. ram.fd[i].refcnt = (IF i = ROOT THEN 1 ELSE 0) + Cardinality(CwdOf(i)) + Cardinality(HandlesOf(i))
    BY DEF Exact, Uses
  <2>. QED BY <2>1, <2>2 DEF Quantify, HandlesOf
<1>4. \A h \in Handle : pathcntx[h] = Quantify(alive, LAMBDA p : drvx[p] = h)
  BY <1>1 DEF PathsOK, Quantify
<1>5. ASSUME NEW i \in FDs
      PROVE  ram.fd[i].is_parent = Quantify(DDs, LAMBDA j : ram.fd[j].refcnt > 0 /\ i \in Ancestors(ram.fd, j))
  <2>1. ASSUME NEW j \in FDs, ram.fd[j].refcnt > 0 PROVE ram.fd[j].file # NULL
    <3>1. CASE j = ROOT
      BY <1>2, <3>1, Constants DEF RootOK, root_de
    <3>2. CASE j # ROOT
      BY <1>2, <2>1, <3>2 DEF FreeOK, FreeFd
    <3>. QED BY <3>1, <3>2
  <2>2. Below(ram.fd, FileFDs, i) = {j \in DDs : ram.fd[j].refcnt > 0 /\ i \in Ancestors(ram.fd, j)}
    BY <2>1 DEF Below, DDs
  <2>. QED BY <1>2, <2>2 DEF ParentsOK, Quantify
<1>. QED BY <1>3, <1>4, <1>5 DEF RefCounts

-----------------------------------------------------------------------------
(* Theorems *)

\* careful is a history: once FALSE it stays so.
LEMMA CarefulStep ==
    ASSUME careful \in BOOLEAN, [Next]_vars
    PROVE  careful' \in BOOLEAN /\ (careful' => careful)
<1>. DEFINE Goal == careful' \in BOOLEAN /\ (careful' => careful)
<1>1. careful' = careful \/ careful' = FALSE => Goal
  <2>1. CASE careful' = careful
    <3>1. careful' \in BOOLEAN
      BY <2>1
    <3>2. careful' => careful
      BY <2>1, Zenon
    <3>. QED BY <3>1, <3>2
  <2>2. CASE careful' = FALSE
    <3>1. careful' \in BOOLEAN
      BY <2>2
    <3>2. ~ careful'
      BY <2>2, Zenon
    <3>. QED BY <3>1, <3>2
  <2>. HIDE DEF Goal
  <2>. QED BY <2>1, <2>2
<1>2. ASSUME NEW ok, careful' = (careful /\ ok) PROVE Goal
  BY <1>2, Zenon
<1>. HIDE DEF Goal
<1>3. CASE UNCHANGED vars
  BY <1>1, <1>3 DEF vars
<1>4. ASSUME NEW p \in alive, ProcStep(p) PROVE Goal
  <2>1. ASSUME NEW path, Dsetpath(p, path) PROVE Goal
    BY <1>1, <2>1 DEF Dsetpath
  <2>2. ASSUME NEW path, Ddelete(p, path) PROVE Goal
    <3>1. careful' = careful \/ careful' = FALSE
      BY <2>2, ZenonT(60) DEF Ddelete
    <3>. QED BY <1>1, <3>1
  <2>3. ASSUME NEW path, Dopendir(p, path) PROVE Goal
    BY <1>1, <2>3 DEF Dopendir
  <2>4. ASSUME NEW r, NEW ok, NEW answers, Fxfunct(r, ok, answers) PROVE Goal
    BY <1>2, <2>4, Zenon DEF Fxfunct
  <2>5. ASSUME NEW path, Dcreate(p, path) \/ Fdelete(p, path) PROVE Goal
    BY <2>4, <2>5 DEF Dcreate, Fdelete
  <2>6. ASSUME NEW path, NEW to, Fsymlink(p, path, to) PROVE Goal
    BY <2>4, <2>6 DEF Fsymlink
  <2>7. ASSUME NEW path, NEW omode, Fopen(p, path, omode) PROVE Goal
    BY <1>1, <1>2, <2>7, Zenon DEF Fopen
  <2>8. ASSUME NEW from, NEW to, Frename(p, from, to) PROVE Goal
    BY <1>1, <1>2, <2>8, Zenon DEF Frename
  <2>9. ASSUME NEW n, Fclose(p, n) PROVE Goal
    BY <1>1, <2>9 DEF Fclose
  <2>10. ASSUME NEW i, Dclosedir(p, i) PROVE Goal
    BY <1>1, <2>10 DEF Dclosedir
  <2>11. ASSUME NEW c, Pexec(p, c) PROVE Goal
    BY <1>1, <2>11 DEF Pexec
  <2>12. CASE Pterm(p)
    BY <1>1, <2>12 DEF Pterm
  <2>. QED BY <1>4, <2>1, <2>2, <2>3, <2>5, <2>6, <2>7, <2>8, <2>9, <2>10, <2>11, <2>12, Zenon
           DEF ProcStep
<1>. QED BY <1>3, <1>4 DEF Next, Goal

\* Up to the first careless call the invariant holds, and so does what a careful
\* step keeps besides.
LEMMA Careful ==
    Spec => [](careful \in BOOLEAN /\ (careful => DosInv))
<1>1. Init => careful \in BOOLEAN /\ (careful => DosInv)
  BY InitOK DEF Init
<1>2. careful \in BOOLEAN /\ (careful => DosInv) /\ [Next]_vars
      => (careful \in BOOLEAN /\ (careful => DosInv))'
  BY CarefulStep, NextOK, Unchanged DEF StepExact, StepOK
<1>. QED BY <1>1, <1>2, PTL DEF Spec

\* The invariant: it holds until an application moves something in use, fills up a
\* directory in use or deletes a default path.
THEOREM DosInvariant == Spec => [](careful => DosInv)
BY Careful, PTL

\* Counters are never negative, and descriptors and path handles stay within their
\* tables: DosTypeOK of the kernel's path handling on the RAM disk.
THEOREM DosTypes == Spec => []DosTypeOK
<1>1. careful \in BOOLEAN /\ (careful => DosInv) => DosTypeOK
  BY TypeHolds DEF DosTypeOK
<1>. QED BY <1>1, Careful, PTL

\* As long as the applications are careful, a DD that somebody uses stands for a
\* directory that exists and lies where fd_parent says, and no directory has two of
\* them.
THEOREM DDsStayLive == Spec => []DDsLive
<1>1. (careful => DosInv) => DDsLive
  BY DDsHold DEF DDsLive
<1>. QED BY <1>1, DosInvariant, PTL

\* The blocks form a tree, and no directory has two entries of the same name, whatever
\* careful processes create, delete and move, and whichever directories they are in.
THEOREM TreeStays == Spec => []TreeOK
<1>1. (careful => DosInv) => TreeOK
  BY TreeHolds DEF TreeOK
<1>. QED BY <1>1, DosInvariant, PTL

\* As long as the applications are careful, the descriptor of an open file leads to it,
\* and an open directory exists.
THEOREM OpenStaysLive == Spec => []OpenLive
<1>1. (careful => DosInv) => OpenLive
  BY OpenHolds DEF OpenLive
<1>. QED BY <1>1, DosInvariant, PTL

\* As long as the applications are careful, nobody but the process itself changes its
\* default path.
THEOREM CwdStaysKept == Spec => CwdKept
<1>1. careful \in BOOLEAN /\ (careful => DosInv) /\ [Next]_vars =>
         [careful' => \A p \in alive : drvx[p] > 0 /\ drvx'[p] = drvx[p] /\ p \in alive' =>
             /\ pathx'[drvx[p]] = DefaultDD(p)
             /\ ram'.fd[DefaultDD(p)].file = ram.fd[DefaultDD(p)].file]_vars
  BY CarefulStep, NextOK, Unchanged DEF StepExact, StepOK, CwdStays
<1>. QED BY <1>1, Careful, PTL DEF Spec, CwdKept

\* With more path handles than processes, careful applications get every lock on a DD
\* given back, and the counters are the numbers of users, as long as no Fopen gives up
\* following links.
THEOREM CountsStayExact ==
    ASSUME NSTD > Cardinality(Proc)
    PROVE  Spec /\ []ChainsEnd => []RefCounts
<1>. DEFINE Inv == careful \in BOOLEAN /\ (careful => DosInv /\ Exact)
<1>1. Init => Inv
  BY InitOK DEF Init
<1>2. Inv /\ ChainsEnd /\ [Next]_vars => Inv'
  BY CarefulStep, NextOK, Unchanged DEF StepExact, StepOK
<1>3. Inv => RefCounts
  BY CountsHold DEF RefCounts
<1>. QED BY <1>1, <1>2, <1>3, PTL DEF Spec
=============================================================================
