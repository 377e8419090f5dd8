------------------------------ MODULE DosPath ------------------------------
(***************************************************************************)
(* The kernel's path handling (src/kernel/dos/magidos.s) on the RAM disk:  *)
(* the GEMDOS calls of several processes on one drive, with default paths  *)
(* that the processes share, file handles that children inherit, symbolic  *)
(* links that the kernel follows, and the DDs that all of them count.      *)
(*                                                                         *)
(* The RAM disk never waits and the kernel is not interrupted in           *)
(* supervisor mode, so a GEMDOS call is one step.                          *)
(***************************************************************************)
EXTENDS RamDisk

CONSTANTS Proc, InitProc,     \* processes, and the one that starts the others
          Domain,          \* Pdomain of each process
          NSTD,            \* path handles: N_STDPATHS - 1 in the code
          NHDL,            \* file handles of a process
          RamDrive,        \* number of the RAM disk's drive, A: is 0
          MakeDirs, Opens, Renames, Links, \* paths for Dcreate, Fopen, Frename, Fsymlink
          DirPaths, ReadPaths, FilePaths  \* for Dsetpath and Ddelete, Dopendir, Fdelete

ASSUME DosAssumption ==
    /\ IsFiniteSet(Proc) /\ InitProc \in Proc /\ NULL \notin Proc /\ Domain \in [Proc -> {"tos", "mint"}]
    /\ NSTD \in Nat /\ NHDL \in Nat /\ RamDrive \in Nat
    /\ MakeDirs \cup DirPaths \cup ReadPaths \cup FilePaths \subseteq Path
    /\ Opens \subseteq Path \X {"open", "creat", "trunc", "excl"}
    /\ Renames \cup Links \subseteq Path \X Path

VARIABLES
    ram,      \* the RAM disk
    pathx,    \* DD of each path handle, here NULL for an unused one
    pathcntx, \* number of processes that use it
    drvx,     \* p_drvx of each process for the RAM disk: 0 is the root, -1 invalid
    hdl,      \* file handles of each process
    alive,    \* processes that exist
    careful   \* history: no call has moved a file or directory that is in use,
              \* filled up a directory that is in use, or deleted a default path

vars == << ram, pathx, pathcntx, drvx, hdl, alive, careful >>
kernel == << pathx, pathcntx, drvx, hdl, alive >>

Handle == 1..NSTD

Init ==
    /\ ram = NewDisk
    /\ pathx = [h \in Handle |-> NULL] /\ pathcntx = [h \in Handle |-> 0]
    /\ drvx = [p \in Proc |-> 0]
    /\ hdl = [p \in Proc |-> [n \in 1..NHDL |-> NULL]]
    /\ alive = {InitProc} /\ careful = TRUE
-----------------------------------------------------------------------------
(* Paths *)

unlock_dd(d, i) ==
    LET e == PutFd(d, i, [d.fd[i] EXCEPT !.refcnt = d.fd[i].refcnt - 1])
    IN  IF e.fd[i].refcnt = 0 THEN freeDD(e, i) ELSE e

\* DD a relative path of p starts at, NULL if its default path is invalid
DefaultDD(p) == IF drvx[p] = 0 THEN ROOT ELSE IF drvx[p] < 0 THEN NULL ELSE pathx[drvx[p]]

MAXLINKS == 7
MAXDEPTH == 5

lock_dd(d, i) == PutFd(d, i, [d.fd[i] EXCEPT !.refcnt = d.fd[i].refcnt + 1])

\* A link to look up: what to start from and the path
Query == [fd : FdTable, dd : FDs, path : Path]

\* Where the search goes on after path2DD has answered r: d is the disk with the
\* DD it started from unlocked, to is what a link leads to
pthdd_link(r, d, to) ==
    CASE r.err = "E_OK" -> Found(d, r.dd, r.last)
      [] r.err = "ELINK" /\ r.link # NULL /\ to.err = "E_OK" ->
            Link(unlock_dd(to.disk, r.dd), to.dd, NULL, r.rest)
      [] r.err = "ELINK" /\ r.link # NULL /\ to.err # "E_OK" -> Failed(unlock_dd(to.disk, r.dd), "EPTHNF")
      [] r.err = "ELINK" /\ r.link = NULL -> Failed(d, "EPTHNF")
      [] OTHER -> Failed(d, r.err)

\* The same from the answer alone. links has the answers for links
pthdd_nounlock(r, d, links) == pthdd_link(r, d, links[[fd |-> d.fd, dd |-> r.dd, path |-> r.link]])
pthdd_unlock(w, r, links) == pthdd_nounlock(r, unlock_dd(r.disk, w.dd), links)

\* pthdd_loop once: on along w.rest from DD w.dd, which is locked and gets
\* unlocked, to the end, to an error, or to where a link leads
pthdd_loop(w, mode, domain, links) ==
    IF w.err # "ELINK" THEN w
    ELSE pthdd_unlock(w, path2DD(w.disk, w.dd, w.rest, mode, domain), links)

\* _path_to_DD from DD reldir: the start is locked while path2DD works
follow(d, reldir, path, mode, domain, links) ==
    LET start == IF IsAbs(path) THEN ROOT ELSE reldir
        cs == IF IsAbs(path) THEN Tail(path) ELSE path
        loop[n \in 0..(Len(cs) + 1)] ==
            IF n = 0 THEN Link(lock_dd(d, start), start, NULL, cs)
            ELSE pthdd_loop(loop[n - 1], mode, domain, links)
    IN  IF start = NULL THEN Failed(d, "EPTHNF") ELSE loop[Len(cs) + 1]

\* The recursion of _path_to_DD: links[k] answers for links k levels deep
path_to_DD(d, reldir, path, mode, domain) ==
    LET links[k \in 0..(MAXDEPTH - 1)] ==
            [q \in Query |->
                IF k = 0 THEN Failed([d EXCEPT !.fd = q.fd], "ELOOP")
                ELSE follow([d EXCEPT !.fd = q.fd], q.dd, q.path, 1, domain, links[k - 1])]
    IN  follow(d, reldir, path, mode, domain, links[MAXDEPTH - 1])

Lookup(d, p, path, mode) == path_to_DD(d, DefaultDD(p), path, mode, Domain[p])

\* Mutant: a handle in use is taken for a free one
isdefaultAny(dd) ==
    {h \in Handle : IF dd = NULL THEN TRUE ELSE pathcntx[h] > 0 /\ pathx[h] = dd}

\* isdefault: the path handles of DD dd, or the unused ones if dd is NULL
isdefault(dd) ==
    {h \in Handle : IF dd = NULL THEN pathcntx[h] = 0 ELSE pathcntx[h] > 0 /\ pathx[h] = dd}

-----------------------------------------------------------------------------
(* What the calls of careful applications do, see careful *)

\* The entry has a descriptor that somebody uses
EntryInUse(d, e) ==
    \E i \in FDs : d.fd[i].file = e /\ (d.fd[i].refcnt > 0 \/ d.fd[i].is_parent > 0)

\* A pointer to block a exists besides that of its own entry: new_file, which
\* gives a full directory a larger block, leaves it behind
BlockInUse(d, a) ==
    \/ a = Root \/ dir_is_open(d, a)
    \/ \E i \in FDs \ {ROOT} : d.fd[i].file # NULL /\ d.fd[i].file[1] = a
    \/ \E i \in Live(d, a) : d.heap[a].ent[i].kind = "dir"

MayGrow(d, dd) == ~Full(d, DirOf(d, dd)) \/ ~BlockInUse(d, DirOf(d, dd))

\* ramdisk_link leaves a descriptor with the entry that was moved
MayMove(d, old, new, n, domain) ==
    \/ old = new
    \/ ~EntryInUse(d, << DirOf(d, old), findfile(d, DirOf(d, old), n, "search", domain) >>)

-----------------------------------------------------------------------------
(* GEMDOS calls of process p *)

\* Mutant: the old default path is not left
DsetpathKeeps(p, path) ==
    \E r \in {Lookup(ram, p, path, 1)} :
    LET d == IF r.dd = ROOT THEN unlock_dd(r.disk, ROOT) ELSE r.disk
        same == isdefault(r.dd)
        free == isdefault(NULL)
        new == IF r.dd = ROOT THEN 0 ELSE IF same # {} THEN Min(same) ELSE Min(free)
    IN  IF r.err # "E_OK" \/ (r.dd # ROOT /\ same \cup free = {})
        THEN ram' = r.disk /\ UNCHANGED << kernel, careful >>
        ELSE /\ ram' = d
             /\ pathcntx' = [h \in Handle |-> pathcntx[h] + (IF h = new THEN 1 ELSE 0)]
             /\ pathx' = [h \in Handle |-> IF h = new THEN r.dd ELSE pathx[h]]
             /\ drvx' = [drvx EXCEPT ![p] = new]
             /\ UNCHANGED << hdl, alive, careful >>

\* Dsetpath. With no path handle left the DD stays locked
Dsetpath(p, path) ==
    \E r \in {Lookup(ram, p, path, 1)} :
    LET old == drvx[p]
        d == IF r.dd = ROOT THEN unlock_dd(r.disk, ROOT) ELSE r.disk
        same == isdefault(r.dd)
        free == isdefault(NULL)
        new == IF r.dd = ROOT THEN 0 ELSE IF same # {} THEN Min(same) ELSE Min(free)
        left == [h \in Handle |-> pathcntx[h] - (IF h = old THEN 1 ELSE 0)]
    IN  IF r.err # "E_OK" \/ (r.dd # ROOT /\ same \cup free = {})
        THEN ram' = r.disk /\ UNCHANGED << kernel, careful >>
        ELSE /\ ram' = IF old > 0 THEN unlock_dd(d, pathx[old]) ELSE d
             /\ pathcntx' = [h \in Handle |-> left[h] + (IF h = new THEN 1 ELSE 0)]
             /\ pathx' = [h \in Handle |-> IF h = new THEN r.dd ELSE IF left[h] = 0 THEN NULL ELSE pathx[h]]
             /\ drvx' = [drvx EXCEPT ![p] = new]
             /\ UNCHANGED << hdl, alive, careful >>

\* Fxfunct: r says where the path leads; there the XFS function answers, and
\* the call is a careful one if ok
Fxfunct(r, ok, answers) ==
    /\ \E a \in IF r.err = "E_OK" THEN answers ELSE {r} :
          ram' = IF r.err = "E_OK" THEN unlock_dd(a.disk, r.dd) ELSE a.disk
    /\ careful' = (careful /\ (r.err = "E_OK" => ok))
    /\ UNCHANGED kernel

Dcreate(p, path) ==
    \E r \in {Lookup(ram, p, path, 0)} :
        Fxfunct(r, MayGrow(r.disk, r.dd), dcreate(r.disk, r.dd, r.last, Domain[p]))

Fsymlink(p, path, to) ==
    \E r \in {Lookup(ram, p, path, 0)} :
        Fxfunct(r, MayGrow(r.disk, r.dd), symlink(r.disk, r.dd, r.last, to, Domain[p]))

Fdelete(p, path) ==
    \E r \in {Lookup(ram, p, path, 0)} :
        Fxfunct(r, TRUE, fdelete(r.disk, r.dd, r.last, Domain[p]))

\* Where Fopen goes on after the path has led to r: d is the disk with the
\* directory of the last link unlocked, e the entry there
fop_link(r, d, e) ==
    CASE r.err # "E_OK" -> Failed(d, r.err)
      [] r.err = "E_OK" /\ is_link(d, e) -> Link(d, r.dd, NULL, d.heap[Entry(d, e).faddr].to)
      [] OTHER -> Found(d, r.dd, r.last)

fop_nounlock(r, d, omode, domain) == fop_link(r, d, fopen_entry(d, r.dd, r.last, omode, domain))
fop_unlock(w, r, locked, omode, domain) ==
    fop_nounlock(r, IF locked THEN unlock_dd(r.disk, w.dd) ELSE r.disk, omode, domain)

\* fop_again once: look for the file w.rest from DD w.dd, which gets unlocked if it
\* is the directory of a link (locked); ELINK if there is a link again
fop_again(w, locked, omode, domain) ==
    IF w.err # "ELINK" THEN w
    ELSE fop_unlock(w, path_to_DD(w.disk, w.dd, w.rest, 0, domain), locked, omode, domain)

\* Where Fopen arrives. With ELINK it has given up, and the DD stays locked
fop_path(d, reldir, path, omode, domain) ==
    LET loop[n \in 0..(MAXLINKS + 1)] ==
            IF n = 0 THEN Link(d, reldir, NULL, path)
            ELSE fop_again(loop[n - 1], n > 1, omode, domain)
    IN  loop[MAXLINKS + 1]

\* Fopen, Fcreate
Fopen(p, path, omode) ==
    \E n \in 1..NHDL, r \in {fop_path(ram, DefaultDD(p), path, omode, Domain[p])} :
       /\ hdl[p][n] = NULL /\ \A m \in 1..(n - 1) : hdl[p][m] # NULL
       /\ \/ /\ r.err # "E_OK"
             /\ ram' = r.disk
             /\ UNCHANGED << hdl, careful >>
          \/ /\ r.err = "E_OK"
             /\ careful' = (careful /\ (omode = "open" \/ MayGrow(r.disk, r.dd)))
             /\ \E a \in fopen(r.disk, r.dd, r.last, omode, Domain[p]) :
                   /\ ram' = unlock_dd(a.disk, r.dd)
                   /\ hdl' = IF a.err = "E_OK" THEN [hdl EXCEPT ![p][n] = a.fd] ELSE hdl
       /\ UNCHANGED << pathx, pathcntx, drvx, alive >>

\* How many of the file handles of p, those in S, are for descriptor i
Handles(p, S, i) == Quantify(S, LAMBDA n : hdl[p][n] = i)

Fclose(p, n) ==
    /\ hdl[p][n] # NULL
    /\ ram' = close(ram, [i \in FDs |-> Handles(p, {n}, i)])
    /\ hdl' = [hdl EXCEPT ![p][n] = NULL]
    /\ UNCHANGED << pathx, pathcntx, drvx, alive, careful >>

\* free_pathx and free_stdpaths after Ddelete of the default path with handle h:
\* the loop over the drives ends behind the first one
free_pathx(h) ==
    /\ pathcntx' = [pathcntx EXCEPT ![h] = 0]
    /\ drvx' = [q \in Proc |-> IF drvx[q] = h /\ RamDrive = 0 THEN -1 ELSE drvx[q]]

\* Ddelete. A trailing backslash is removed first, that of "\\" too. A symbolic
\* link is deleted itself; the default paths in a deleted directory become
\* invalid
Ddelete(p, path0) ==
    \E r \in {Lookup(ram, p, IF path0 = << "\\" >> THEN << >> ELSE path0, 0)} :
    LET isDir == r.last \in {NULL, ".", ".."}
        i == findfile(r.disk, DirOf(r.disk, r.dd), r.last, "search", Domain[p])
        kind == IF isDir THEN "dir" ELSE IF i = 0 THEN NULL ELSE r.disk.heap[DirOf(r.disk, r.dd)].ent[i].kind
        Done(d, dd) == ram' = unlock_dd(d, dd) /\ UNCHANGED << kernel, careful >>
        \* std are the handles of the directory, cnt is the number of its users
        RemoveDir(d, dd, std, cnt, del) ==
            IF d.fd[dd].refcnt > 1 + cnt \/ del.err # "E_OK" THEN Done(d, dd)
            ELSE IF std = {} THEN Done(del.disk, dd)
            ELSE /\ careful' = FALSE
                 /\ ram' = unlock_dd(PutFd(del.disk, dd,
                               [d.fd[dd] EXCEPT !.refcnt = Max({d.fd[dd].refcnt - cnt, 1})]), dd)
                 /\ pathx' = [pathx EXCEPT ![Min(std)] = NULL]
                 /\ free_pathx(Min(std))
                 /\ UNCHANGED << hdl, alive >>
        DeleteDir(d, dd) ==
            LET std == isdefault(dd)
            IN  RemoveDir(d, dd, std, IF std = {} THEN 0 ELSE pathcntx[Min(std)], ddelete(d, dd))
    IN  CASE r.err # "E_OK" -> ram' = r.disk /\ UNCHANGED << kernel, careful >>
          [] r.err = "E_OK" /\ kind \in {NULL, "file"} -> Done(r.disk, r.dd)
          [] r.err = "E_OK" /\ kind = "link" ->
                \E a \in fdelete(r.disk, r.dd, r.last, Domain[p]) : Done(a.disk, r.dd)
          [] OTHER ->
                \E at \in {path2DD(r.disk, r.dd, IF r.last = NULL THEN << >> ELSE << r.last >>,
                                  1, Domain[p])} :
                   IF at.err # "E_OK" THEN Done(at.disk, r.dd)
                   ELSE DeleteDir(unlock_dd(at.disk, r.dd), at.dd)

\* Mutant: the DD of the old name stays locked if that of the new name is not found
FrenameLocked(p, from, to) ==
    \E r1 \in {Lookup(ram, p, from, 0)} : \E r2 \in {Lookup(r1.disk, p, to, 0)} :
    LET old == r1.dd
        new == r2.dd
        ok == /\ MayMove(r2.disk, old, new, r1.last, Domain[p])
              /\ old = new \/ MayGrow(r2.disk, new)
    IN  /\ CASE r1.err # "E_OK" -> ram' = r1.disk /\ UNCHANGED careful
             [] r1.err = "E_OK" /\ r2.err # "E_OK" -> ram' = r2.disk /\ UNCHANGED careful
             [] OTHER ->
                   /\ careful' = (careful /\ ok)
                   /\ \E a \in link(r2.disk, old, new, r1.last, r2.last, Domain[p]) :
                         ram' = unlock_dd(unlock_dd(a.disk, new), old)
        /\ UNCHANGED kernel

\* Frename
Frename(p, from, to) ==
    \E r1 \in {Lookup(ram, p, from, 0)} : \E r2 \in {Lookup(r1.disk, p, to, 0)} :
    LET old == r1.dd
        new == r2.dd
        ok == /\ MayMove(r2.disk, old, new, r1.last, Domain[p])
              /\ old = new \/ MayGrow(r2.disk, new)
    IN  /\ CASE r1.err # "E_OK" -> ram' = r1.disk /\ UNCHANGED careful
             [] r1.err = "E_OK" /\ r2.err # "E_OK" ->
                   ram' = unlock_dd(r2.disk, old) /\ UNCHANGED careful
             [] OTHER ->
                   /\ careful' = (careful /\ ok)
                   /\ \E a \in link(r2.disk, old, new, r1.last, r2.last, Domain[p]) :
                         ram' = unlock_dd(unlock_dd(a.disk, new), old)
        /\ UNCHANGED kernel

\* Dopendir, Dclosedir
Dopendir(p, path) ==
    /\ \E r \in {Lookup(ram, p, path, 1)} :
          ram' = IF r.err = "E_OK" THEN unlock_dd(dopendir(r.disk, r.dd, p).disk, r.dd) ELSE r.disk
    /\ UNCHANGED << kernel, careful >>

Dclosedir(p, i) ==
    /\ ram.dhd[i].dir # NULL /\ ram.dhd[i].owner = p
    /\ ram' = dclosedir(ram, i)
    /\ UNCHANGED << kernel, careful >>

-----------------------------------------------------------------------------
(* Processes *)

\* Pexec, Pfork: the child c gets p's file handles and default path
Pexec(p, c) ==
    /\ c \notin alive
    /\ alive' = alive \cup {c}
    /\ hdl' = [hdl EXCEPT ![c] = hdl[p]]
    /\ drvx' = [drvx EXCEPT ![c] = Max({drvx[p], 0})]
    /\ pathcntx' = [h \in Handle |-> pathcntx[h] + (IF h = drvx[p] THEN 1 ELSE 0)]
    /\ ram' = [ram EXCEPT !.fd = [i \in FDs |->
                  [ram.fd[i] EXCEPT !.refcnt = ram.fd[i].refcnt + Handles(p, 1..NHDL, i)
                      + (IF drvx[p] > 0 /\ DefaultDD(p) = i THEN 1 ELSE 0)]]]
    /\ UNCHANGED << pathx, careful >>

\* PDkill: handles are closed, the default path is left, the RAM disk is told
Pterm(p) ==
    LET closed == close(ram, [i \in FDs |-> Handles(p, 1..NHDL, i)])
        h == drvx[p]
        used == h > 0 /\ pathcntx[h] > 0
    IN  /\ p # InitProc
        /\ ram' = pterm(IF used THEN unlock_dd(closed, pathx[h]) ELSE closed, p)
        /\ pathcntx' = IF used THEN [pathcntx EXCEPT ![h] = pathcntx[h] - 1] ELSE pathcntx
        /\ hdl' = [hdl EXCEPT ![p] = [n \in 1..NHDL |-> NULL]]
        /\ drvx' = [drvx EXCEPT ![p] = 0]
        /\ alive' = alive \ {p}
        /\ pathx' = [g \in Handle |-> IF pathcntx'[g] = 0 THEN NULL ELSE pathx[g]]
        /\ UNCHANGED careful

-----------------------------------------------------------------------------
ProcStep(p) ==
    \/ \E path \in DirPaths : Dsetpath(p, path) \/ Ddelete(p, path)
    \/ \E path \in ReadPaths : Dopendir(p, path)
    \/ \E path \in MakeDirs : Dcreate(p, path)
    \/ \E o \in Opens : Fopen(p, o[1], o[2])
    \/ \E l \in Links : Fsymlink(p, l[1], l[2])
    \/ \E path \in FilePaths : Fdelete(p, path)
    \/ \E r \in Renames : Frename(p, r[1], r[2])
    \/ \E n \in 1..NHDL : Fclose(p, n)
    \/ \E i \in DHDs : Dclosedir(p, i)
    \/ \E c \in Proc : Pexec(p, c)
    \/ Pterm(p)

Next == \E p \in alive : ProcStep(p)

Spec == Init /\ [][Next]_vars
-----------------------------------------------------------------------------
(* Correctness. The code does not survive every call that applications may     *)
(* make: careful tells whether one of the three kinds above has been made, and *)
(* the properties speak of what the system is like until then.                 *)

FileFDs == {hdl[p][n] : p \in Proc, n \in 1..NHDL} \ {NULL}
DDs == {i \in FDs : ram.fd[i].file # NULL} \ FileFDs

\* Counters are never negative, descriptors and path handles stay within their
\* tables, and pathcntx never exceeds the number of processes, as long as the
\* applications are careful.
DosTypeOK ==
    /\ careful \in BOOLEAN
    /\ careful =>
         /\ ram.fd \in FdTable
         /\ \A a \in Blocks : ram.heap[a].kind \in Kinds \cup {NULL}
         /\ ram.dhd \in [DHDs -> [dir : Blocks \cup {NULL}, owner : Proc \cup {NULL}]]
         /\ pathx \in [Handle -> FDs \cup {NULL}]
         /\ pathcntx \in [Handle -> 0..Cardinality(Proc)]
         /\ drvx \in [Proc -> {-1, 0} \cup Handle]
         /\ hdl \in [Proc -> [1..NHDL -> FDs \cup {NULL}]]
         /\ alive \subseteq Proc

\* Every lock on a DD is given back: outside of a call, dd_refcnt is the number
\* of processes whose default path it is (one more for the root), that of a
\* file the number of handles on it, pathcntx counts the processes, and
\* fd_is_parent the DDs in use below a DD, in whatever order careful processes
\* change into and leave directories above and below each other.
RefCounts ==
    careful =>
      /\ \A i \in FDs : ram.fd[i].refcnt =
            (IF i = ROOT THEN 1 ELSE 0)
            + Quantify(alive, LAMBDA p : drvx[p] > 0 /\ DefaultDD(p) = i)
            + Quantify(Proc \X (1..NHDL), LAMBDA q : hdl[q[1]][q[2]] = i)
      /\ \A h \in Handle : pathcntx[h] = Quantify(alive, LAMBDA p : drvx[p] = h)
      /\ \A i \in FDs : ram.fd[i].is_parent =
            Quantify(DDs, LAMBDA j : ram.fd[j].refcnt > 0 /\ i \in Ancestors(ram.fd, j))

\* A DD in use stands for a directory that exists and lies where fd_parent
\* says, and no directory has two of them: ddelete looks at one only. Not so
\* when a directory in use has been moved (ramdisk.c:1222) or filled up
\* (ramutil.c:1019).
DDsLive ==
    LET used == {i \in DDs : ram.fd[i].refcnt > 0 \/ ram.fd[i].is_parent > 0}
    IN  careful => \A i \in used \ {ROOT} :
           /\ ram.fd[i].parent \in used
           /\ ram.fd[i].file[1] = DirOf(ram, ram.fd[i].parent)
           /\ ram.fd[i].file[2] \in Live(ram, ram.fd[i].file[1])
           /\ Entry(ram, ram.fd[i].file).kind = "dir"
           /\ \A j \in used : ram.fd[j].file = ram.fd[i].file => j = i

\* The blocks form a tree: each one that is allocated belongs to exactly one
\* entry, a directory's ".." is the directory it lies in, and following it
\* leads to the root (a set of directories that ".." does not leave has it).
\* No block is lost, used twice, or freed while it is used, and no directory has
\* two entries of the same name, whichever domains the processes that made them
\* live in. Not so when a directory in use has been filled up.
TreeOK ==
    LET dirs == {a \in Blocks : ram.heap[a].kind = "dir"}
        entries == UNION {{<< a, i >> : i \in Live(ram, a)} : a \in dirs}
    IN  careful =>
        /\ \A e, f \in entries : e[1] = f[1] /\ Entry(ram, e).name = Entry(ram, f).name => e = f
        /\ \A a \in Addr :
              LET of == {e \in entries : Entry(ram, e).faddr = a}
              IN  IF ram.heap[a].kind = NULL THEN of = {}
                  ELSE /\ Cardinality(of) = 1
                       /\ \A e \in of : Entry(ram, e).kind = ram.heap[a].kind
                       /\ ram.heap[a].kind = "dir" => \A e \in of : ram.heap[a].up = e[1]
        /\ \A S \in SUBSET dirs : S # {} /\ (\A a \in S \ {Root} : ram.heap[a].up \in S) => Root \in S

\* A file is open once, and the descriptor of an open file leads to it: nobody
\* deletes it or gives its entry to something else. A directory that is open
\* for Dreaddir exists as long as it is open. Not so when an open file has been
\* moved or its directory filled up.
OpenLive ==
    careful =>
      /\ \A i \in FileFDs :
            /\ ram.fd[i].file[2] \in Live(ram, ram.fd[i].file[1])
            /\ Entry(ram, ram.fd[i].file).kind = "file"
            /\ \A j \in FileFDs : ram.fd[j].file = ram.fd[i].file => j = i
      /\ \A i \in DHDs : ram.dhd[i].dir # NULL => ram.heap[ram.dhd[i].dir].kind = "dir"

\* A path handle that a process has refers to a path: after Ddelete of a
\* default path, free_pathx makes the handles of all processes invalid.
NoStaleHandle == \A p \in alive : drvx[p] > 0 => pathcntx[drvx[p]] > 0 /\ pathx[drvx[p]] # NULL

\* What nobody has open counts as not open: no descriptor that path2DD has left
\* behind refers to a file, which fopen and fdelete would then refuse.
NoFalseOpen ==
    \A i \in FDs \ {ROOT} : careful /\ ram.fd[i].file # NULL /\ i \notin FileFDs =>
       LET e == ram.fd[i].file
       IN  ram.heap[e[1]].kind = "dir" /\ e[2] \in Live(ram, e[1]) => Entry(ram, e).kind # "file"

\* Nobody but the process itself changes its default path: as long as it keeps
\* its path handle, the handle means the same directory entry, whatever careful
\* processes do. Not so when another process deletes it (magidos.s:10250).
CwdKept ==
    [][careful' => \A p \in alive : drvx[p] > 0 /\ drvx'[p] = drvx[p] /\ p \in alive' =>
          /\ pathx'[drvx[p]] = DefaultDD(p)
          /\ ram'.fd[DefaultDD(p)].file = ram.fd[DefaultDD(p)].file]_vars
=============================================================================
