------------------------------ MODULE RamDisk ------------------------------
(***************************************************************************)
(* The directory side of the RAM disk file system                          *)
(* (src/extensio/ramdisk/ramdisk.c and ramutil.c): directory blocks of     *)
(* entries, the table of descriptors that serves as DDs and as FDs, and    *)
(* the directory handles. Each XFS function is an operator from the state  *)
(* of the disk, a record, to the state it leaves and its answer; the       *)
(* module DosPath calls them as the kernel does.                           *)
(*                                                                         *)
(* Access rights, times and the contents of files (module RamFile) are     *)
(* left out: every entry is readable, writeable and searchable, as the     *)
(* RAM disk creates it. Freeing an entry or a descriptor only clears       *)
(* de_faddr or fd_file; the model clears the rest too, which nothing reads *)
(* as long as the properties of DosPath hold.                              *)
(***************************************************************************)
EXTENDS Integers, Sequences, FiniteSetsExt

CONSTANTS Name,      \* names of entries
          Lower,     \* strlwr on names
          Tos,       \* tostrunc on names: the 8+3 name
          Addr,      \* addresses Kmalloc may return
          Root, NULL, \* address of the static root block; no address, no name
          MAX_FD, MAX_DHD,
          ROOTSIZE,  \* entries of the root, without "." and ".."
          DEFAULTDIR \* entries of a block of any other directory, likewise

ROOT == 0
FDs == 0..(MAX_FD - 1)
DHDs == 1..MAX_DHD
Blocks == Addr \cup {Root}
Kinds == {"dir", "file", "link"}

\* A path is a sequence of components; that of an absolute path starts with "\\"
Component == Name \cup {".", ".."}
Path == {p \in Seq(Component \cup {"\\"}) : \A i \in DOMAIN p : p[i] = "\\" => i = 1}
IsAbs(path) == path # << >> /\ Head(path) = "\\"

ASSUME RamAssumption ==
    /\ {".", "..", "\\"} \cap Name = {}
    /\ Lower \in [Name -> Name] /\ DOMAIN Tos = Name
    /\ \A n \in Name : Lower[Lower[n]] = Lower[n] /\ Tos[Lower[n]] = Tos[n]
    /\ Addr \subseteq Int /\ IsFiniteSet(Addr) /\ Root \notin Addr
    /\ NULL \notin Int \cup Blocks \cup (Blocks \X Int) \cup Component \cup Path \cup Kinds
    /\ MAX_FD \in Nat \ {0} /\ MAX_DHD \in Nat
    /\ ROOTSIZE \in Nat \ {0} /\ DEFAULTDIR \in Nat \ {0}

\* An entry is addressed by its block and its number; root_de is a static one
root_de == << Root, 0 >>
FreeEntry == [name |-> NULL, kind |-> NULL, faddr |-> NULL]
FreeFd == [file |-> NULL, refcnt |-> 0, is_parent |-> 0, parent |-> NULL]
FreeDhd == [dir |-> NULL, owner |-> NULL]

\* What is at an address: a directory with ".." and the other entries, a symbolic
\* link to a path, the contents of a file, or nothing
NoBlock == [kind |-> NULL, up |-> NULL, ent |-> << >>, to |-> << >>]
FileBlock == [NoBlock EXCEPT !.kind = "file"]
LinkBlock(to) == [NoBlock EXCEPT !.kind = "link", !.to = to]
Directory(size, parent) ==
    [NoBlock EXCEPT !.kind = "dir", !.up = parent, !.ent = [i \in 1..size |-> FreeEntry]]

FdTable == [FDs -> [file : (Blocks \X Nat) \cup {NULL}, refcnt : Nat, is_parent : Nat,
                    parent : FDs \cup {NULL}]]

\* ramdisk_drv_open, the first time
NewDisk ==
    [heap |-> [a \in Blocks |-> IF a = Root THEN Directory(ROOTSIZE, NULL) ELSE NoBlock],
     fd |-> [i \in FDs |-> IF i = ROOT THEN [FreeFd EXCEPT !.file = root_de, !.refcnt = 1] ELSE FreeFd],
     dhd |-> [i \in DHDs |-> FreeDhd]]

Entry(d, e) ==
    IF e = root_de THEN [name |-> NULL, kind |-> "dir", faddr |-> Root] ELSE d.heap[e[1]].ent[e[2]]

DirOf(d, i) == Entry(d, d.fd[i].file).faddr
Slots(d, a) == DOMAIN d.heap[a].ent
Live(d, a) == {i \in Slots(d, a) : d.heap[a].ent[i].faddr # NULL}
FreeAddr(d) == {a \in Addr : d.heap[a].kind = NULL}

\* Kmalloc: the first free address, if there is one
Kmalloc(d) == {a \in FreeAddr(d) : \A b \in FreeAddr(d) : a <= b}
\* A disk with one descriptor, block or entry replaced
PutFd(d, i, f) == [d EXCEPT !.fd = [j \in FDs |-> IF j = i THEN f ELSE d.fd[j]]]
PutBlock(d, a, b) == [d EXCEPT !.heap = [c \in Blocks |-> IF c = a THEN b ELSE d.heap[c]]]
PutEntry(d, a, i, e) == PutBlock(d, a, [d.heap[a] EXCEPT !.ent = [d.heap[a].ent EXCEPT ![i] = e]])

-----------------------------------------------------------------------------
\* Helpers of ramutil.c

\* The number of the entry for name n in block a, 0 if there is none
findfile(d, a, n, s_or_e, domain) ==
    LET Hits(S) == {i \in Live(d, a) : d.heap[a].ent[i].name \in S}
        First(S) == IF S = {} THEN 0 ELSE Min(S)
        alike == {m \in Name : Tos[m] = Tos[n]}
    IN  CASE n \notin Name -> 0
          [] n \in Name /\ domain = "mint" -> First(Hits({n}))
          [] n \in Name /\ domain = "tos" /\ s_or_e = "exist" -> First(Hits({Lower[n]}))
          [] OTHER -> IF Hits({n}) # {} THEN First(Hits({n}))
                      ELSE IF Hits({Lower[n]}) # {} THEN First(Hits({Lower[n]}))
                      ELSE First(Hits(alike))

\* The descriptor entry e has, or a free one; NULL if there is none
findfd(d, e) ==
    LET used == {i \in FDs : d.fd[i].file = e /\ e # NULL}
        free == {i \in FDs : d.fd[i].file = NULL}
    IN  IF used # {} THEN Min(used) ELSE IF free # {} THEN Min(free) ELSE NULL

\* DD i and those fd_parent leads to from there, and the latter alone: fd_parent
\* leaves every set that has i and lacks one of them
Chain(fd, i) ==
    LET leaves(S) == \E k \in S : fd[k].parent # NULL /\ fd[k].parent \notin S
    IN  {i} \cup {j \in FDs \ {i} : \A S \in SUBSET (FDs \ {i, j}) : leaves(S \cup {i})}
Ancestors(fd, i) == Chain(fd, i) \ {i}

increase_refcnts(d, i) ==
    LET above == IF d.fd[i].refcnt = 0 THEN Ancestors(d.fd, i) ELSE {}
    IN  [d EXCEPT !.fd = [j \in FDs |->
            IF j = i THEN [d.fd[j] EXCEPT !.refcnt = d.fd[j].refcnt + 1]
            ELSE IF j \in above THEN [d.fd[j] EXCEPT !.is_parent = d.fd[j].is_parent + 1]
            ELSE d.fd[j]]]

\* The first free entry of block a, or the first one behind its end
FirstFree(d, a) == Min((1..(Len(d.heap[a].ent) + 1)) \ Live(d, a))

\* A directory without a free entry has to grow when it gets a new one
Full(d, a) == FirstFree(d, a) \notin Slots(d, a)

\* new_file's Krealloc: the block of DD i moves to a longer one at b
Grow(d, i, b) ==
    LET a == DirOf(d, i)
        e == d.fd[i].file
        n == Len(d.heap[a].ent)
        longer == [d.heap[a] EXCEPT !.ent =
                      [k \in 1..(n + DEFAULTDIR) |-> IF k <= n THEN d.heap[a].ent[k] ELSE FreeEntry]]
    IN  PutEntry(PutBlock(PutBlock(d, b, longer), a, NoBlock),
                 e[1], e[2], [Entry(d, e) EXCEPT !.faddr = b])

\* new_file: the disks with a free entry in the directory of DD i. Kmalloc may
\* fail even with addresses left, because leave_free bytes are kept
new_file(d, i) == IF Full(d, DirOf(d, i)) THEN {Grow(d, i, b) : b \in Kmalloc(d)} ELSE {d}

NewName(n, domain) == IF domain = "tos" THEN Lower[n] ELSE n

dir_is_open(d, a) == \E i \in DHDs : d.dhd[i].dir = a

-----------------------------------------------------------------------------
\* XFS functions. An answer has the disk, err, and what else it returns

Answer(d, err) == [disk |-> d, err |-> err]
OK(d) == Answer(d, "E_OK")

\* Mutant: a DD is freed although others lie below it
freeDDParent(d, i) ==
    LET anc == Ancestors(d.fd, i)
        counted == [j \in FDs |-> IF j \in anc /\ d.fd[j].is_parent > 0
                                  THEN [d.fd[j] EXCEPT !.is_parent = d.fd[j].is_parent - 1] ELSE d.fd[j]]
    IN  IF d.fd[i].refcnt # 0 THEN d
        ELSE [d EXCEPT !.fd = [j \in FDs |-> IF counted[j].refcnt = 0 THEN FreeFd ELSE counted[j]]]

\* ramdisk_freeDD: fd_is_parent is counted down along the chain, then every
\* descriptor that nobody uses is free, those path2DD has left behind included
freeDD(d, i) ==
    LET anc == Ancestors(d.fd, i)
        counted == [j \in FDs |-> IF j \in anc /\ d.fd[j].is_parent > 0
                                  THEN [d.fd[j] EXCEPT !.is_parent = d.fd[j].is_parent - 1] ELSE d.fd[j]]
    IN  IF d.fd[i].refcnt # 0 THEN d
        ELSE [d EXCEPT !.fd = [j \in FDs |->
                IF counted[j].refcnt = 0 /\ counted[j].is_parent = 0 THEN FreeFd ELSE counted[j]]]

\* What looking up a path answers. E_OK: a DD, which is locked, and the name of a
\* file in it, NULL if there is none. ELINK: link is the link to follow from dd,
\* or NULL above the root; rest is the path behind it
Failed(d, err) == [disk |-> d, err |-> err, dd |-> NULL, last |-> NULL, link |-> NULL, rest |-> << >>]
Found(d, dd, last) == [Failed(d, "E_OK") EXCEPT !.dd = dd, !.last = last]
Link(d, dd, to, rest) == [Failed(d, "ELINK") EXCEPT !.dd = dd, !.link = to, !.rest = rest]

\* ramdisk_path2DD at component c behind w: the DD that follows, not yet locked
Component2DD(w, c, rest, domain) ==
    LET d == w.disk
        dd == w.dd
        i == findfile(d, DirOf(d, dd), c, "search", domain)
        e == << DirOf(d, dd), i >>
        kind == IF i = 0 THEN NULL ELSE Entry(d, e).kind
        new == findfd(d, e)
    IN  IF w.err # "E_OK" \/ c = "." THEN w
        ELSE CASE c = ".." /\ dd = ROOT -> Link(d, dd, NULL, rest)
               [] c = ".." /\ dd # ROOT -> Found(d, d.fd[dd].parent, NULL)
               [] c # ".." /\ kind = "link" ->
                     Link(increase_refcnts(d, dd), dd, d.heap[Entry(d, e).faddr].to, rest)
               [] c # ".." /\ kind = "dir" /\ new # NULL ->
                     Found(PutFd(d, new, [d.fd[new] EXCEPT !.file = e, !.parent = dd]), new, NULL)
               [] c # ".." /\ kind = "dir" /\ new = NULL -> Failed(d, "ENSMEM")
               [] OTHER -> Failed(d, "EPTHNF")

\* The end of the walk: the DD is locked, last is the file name
path2DD_end(end, last) ==
    IF end.err # "E_OK" THEN end ELSE Found(increase_refcnts(end.disk, end.dd), end.dd, last)

\* ramdisk_path2DD from DD dd along the components cs. With mode 0 the last
\* one is a file name
path2DD(d, dd, cs, mode, domain) ==
    LET n == IF mode = 0 /\ cs # << >> THEN Len(cs) - 1 ELSE Len(cs)
        walk[i \in 0..n] ==
            IF i = 0 THEN Found(d, dd, NULL)
            ELSE Component2DD(walk[i - 1], cs[i], SubSeq(cs, i + 1, Len(cs)), domain)
    IN  path2DD_end(walk[n], IF n < Len(cs) THEN cs[Len(cs)] ELSE NULL)

EFILNF(d) == {Answer(d, "EFILNF")}
EACCDN(d) == {Answer(d, "EACCDN")}
ENSMEM(d) == {Answer(d, "ENSMEM")}

\* What the functions that allocate may answer: a set. Make puts an entry for
\* a new object ob, called n, into the directory of DD dd. check_name and
\* ramdisk_fopen refuse what is not a name
Make(d, dd, n, ob, domain) ==
    LET Put(g) ==
            LET a == DirOf(g, dd)
                new(b) == [name |-> NewName(n, domain), kind |-> ob.kind, faddr |-> b]
                block == IF ob.kind = "dir" THEN [ob EXCEPT !.up = a] ELSE ob
            IN  {OK(PutEntry(PutBlock(g, b, block), a, FirstFree(g, a), new(b))) :
                    b \in Kmalloc(g)} \cup ENSMEM(g)
    IN  EACCDN(d) \cup IF n \in Name THEN UNION {Put(g) : g \in new_file(d, dd)} ELSE {}

\* ramdisk_dcreate and ramdisk_symlink
dcreate(d, dd, n, domain) ==
    IF findfile(d, DirOf(d, dd), n, "exist", domain) # 0 THEN EACCDN(d)
    ELSE Make(d, dd, n, Directory(DEFAULTDIR, NULL), domain)

symlink(d, dd, n, to, domain) ==
    IF findfile(d, DirOf(d, dd), n, "exist", domain) # 0 THEN EACCDN(d)
    ELSE Make(d, dd, n, LinkBlock(to), domain)

\* The entry ramdisk_fopen finds for n, NULL if there is none. omode: open takes
\* what is there, creat makes what is missing, trunc likewise but by its exact
\* name, excl refuses what is there
fopen_entry(d, dd, n, omode, domain) ==
    LET i == findfile(d, DirOf(d, dd), n, IF omode = "trunc" THEN "exist" ELSE "search", domain)
    IN  IF i = 0 THEN NULL ELSE << DirOf(d, dd), i >>

\* ramdisk_fopen answers ELINK
is_link(d, e) == e # NULL /\ Entry(d, e).kind = "link"

\* ramdisk_fopen of an entry that is no link, or of a new one
fopen(d, dd, n, omode, domain) ==
    LET e == fopen_entry(d, dd, n, omode, domain)
        new == findfd(d, e)
        Opened(g, f) ==
            [disk |-> PutFd(g, new, [file |-> f, refcnt |-> 1, is_parent |-> 0, parent |-> dd]),
             err |-> "E_OK", fd |-> new]
    IN  CASE e # NULL /\ Entry(d, e).kind = "dir" -> EFILNF(d)
          [] e # NULL /\ omode = "excl" -> EACCDN(d)
          [] new = NULL -> ENSMEM(d)
          [] d.fd[new].parent # NULL -> EACCDN(d)
          [] e = NULL /\ omode = "open" -> EFILNF(d)
          [] OTHER -> IF e # NULL THEN {Opened(d, e)}
                      ELSE {IF r.err = "E_OK" THEN Opened(r.disk, << DirOf(r.disk, dd), FirstFree(d, DirOf(d, dd)) >>)
                            ELSE r : r \in Make(d, dd, n, FileBlock, domain)}

\* Kfree of what entry e stands for, and the entry is free
Drop(d, e) == PutEntry(PutBlock(d, Entry(d, e).faddr, NoBlock), e[1], e[2], FreeEntry)

\* Mutant: fdelete does not look whether the file is open
fdeleteOpen(d, dd, n, domain) ==
    LET a == DirOf(d, dd)
        i == findfile(d, a, n, "search", domain)
    IN  CASE i = 0 -> EFILNF(d)
          [] Entry(d, << a, i >>).kind = "dir" -> EACCDN(d)
          [] OTHER -> {OK(Drop(d, << a, i >>))}

\* ramdisk_fdelete
fdelete(d, dd, n, domain) ==
    LET a == DirOf(d, dd)
        i == findfile(d, a, n, "search", domain)
        fd == findfd(d, << a, i >>)
    IN  CASE i = 0 -> EFILNF(d)
          [] Entry(d, << a, i >>).kind = "dir" -> EACCDN(d)
          [] fd # NULL /\ d.fd[fd].parent # NULL -> EACCDN(d)
          [] OTHER -> {OK(Drop(d, << a, i >>))}

\* ramdisk_ddelete, kernel version 3 and later
ddelete(d, dd) ==
    IF dir_is_open(d, DirOf(d, dd)) \/ Live(d, DirOf(d, dd)) # {} THEN Answer(d, "EACCDN")
    ELSE OK(Drop(d, d.fd[dd].file))

\* Mutant: the ".." of a directory stays as it is
MovedKeepsUp(d, a, i, b, name) ==
    PutEntry(PutEntry(d, b, FirstFree(d, b), [Entry(d, << a, i >>) EXCEPT !.name = name]), a, i, FreeEntry)

\* Entry i of block a moves to block b; a directory gets a new ".."
Moved(d, a, i, b, name) ==
    LET e == Entry(d, << a, i >>)
        put == PutEntry(PutEntry(d, b, FirstFree(d, b), [e EXCEPT !.name = name]), a, i, FreeEntry)
    IN  IF e.kind = "dir" THEN PutBlock(put, e.faddr, [put.heap[e.faddr] EXCEPT !.up = b]) ELSE put

\* ramdisk_link: rename, or move to another directory
link(d, old, new, oldname, newname, domain) ==
    LET a == DirOf(d, old)
        i == findfile(d, a, oldname, "search", domain)
        name == NewName(newname, domain)
        below == \E j \in {new} \cup Ancestors(d.fd, new) : d.fd[j].file = << a, i >>
    IN  CASE newname \notin Name -> EACCDN(d)
          [] i = 0 -> EFILNF(d)
          [] findfile(d, DirOf(d, new), name, "exist", domain) # 0 -> EACCDN(d)
          [] Entry(d, << a, i >>).kind = "dir" /\ below -> EACCDN(d)
          [] OTHER -> IF old = new THEN {OK(PutEntry(d, a, i, [Entry(d, << a, i >>) EXCEPT !.name = name]))}
                      ELSE {OK(Moved(g, a, i, DirOf(g, new), name)) : g \in new_file(d, new)} \cup EACCDN(d)

\* ramdisk_dopendir, ramdisk_dclosedir, ramdisk_pterm, ramdisk_close
dopendir(d, dd, pd) ==
    LET free == {i \in DHDs : d.dhd[i].dir = NULL}
    IN  IF free = {} THEN Answer(d, "ENHNDL")
        ELSE OK([d EXCEPT !.dhd[Min(free)] = [dir |-> DirOf(d, dd), owner |-> pd]])

dclosedir(d, i) == [d EXCEPT !.dhd[i] = FreeDhd]

pterm(d, pd) == [d EXCEPT !.dhd = [i \in DHDs |-> IF d.dhd[i].owner = pd THEN FreeDhd ELSE d.dhd[i]]]

\* ramdisk_close, cnt[i] times for descriptor i
close(d, cnt) ==
    [d EXCEPT !.fd = [i \in FDs |-> IF cnt[i] = 0 THEN d.fd[i]
                                    ELSE IF d.fd[i].refcnt <= cnt[i] THEN FreeFd
                                    ELSE [d.fd[i] EXCEPT !.refcnt = d.fd[i].refcnt - cnt[i]]]]
=============================================================================
