------------------------------ MODULE RamFile -------------------------------
(***************************************************************************)
(* The files of the RAM disk (src/extensio/ramdisk/ramdisk.c): the device  *)
(* driver's read, write, seek, ioctl, getc, getline, putc and close, and   *)
(* what fopen and fdelete do to the contents of a file.                    *)
(*                                                                         *)
(* A file is a list of FILEBLOCKs of BS bytes each, from the memory that   *)
(* Kmalloc takes from the system; it holds st_size bytes and always at     *)
(* least one block. The loops that walk along the list are given in closed *)
(* form: the bytes a call moves, and the place of each.                    *)
(*                                                                         *)
(* All calls on a file that go through one FD share its position. Names    *)
(* and directories are the matter of RamDisk and DosPath.                  *)
(***************************************************************************)
EXTENDS Integers, Sequences, FiniteSets

CONSTANTS File, Blk, Byte, CR, LF,
          Junk,       \* what memory holds that was not written by a file
          BS,         \* DEFAULTFILE
          LMAX,       \* the largest LONG
          MaxRef,     \* bound on fd_refcnt
          OpenModes, Buffers, Counts, Seeks,
          HugeReads   \* TRUE: reads whose end is not a LONG

ASSUME RamFileAssumption ==
    /\ CR \in Byte /\ LF \in Byte /\ Junk \notin Byte
    /\ BS \in Nat \ {0} /\ LMAX \in Nat /\ MaxRef \in Nat \ {0}
    /\ OpenModes \subseteq [m : {"r", "w", "rw"}, creat : BOOLEAN, trunc : BOOLEAN, excl : BOOLEAN]
    /\ Buffers \in [File -> SUBSET Seq(Byte)] /\ Counts \subseteq -LMAX..LMAX /\ Seeks \subseteq Int \X (0..3)
    /\ HugeReads \in BOOLEAN

\* a LONG counts every byte of the machine's memory
ASSUME MemoryAssumption == IsFiniteSet(Blk) /\ Cardinality(Blk) * BS <= LMAX

VARIABLES data,       \* data of the FILEBLOCKs
          chain,      \* the list that starts at de_faddr; empty: no such file
          st_size, st_blocks,
          refcnt, mode, fpos,   \* fd_refcnt, fd_mode, fd_fpos of the file's FD
          reply       \* the answer to the last call

vars == << data, chain, st_size, st_blocks, refcnt, mode, fpos, reply >>
fds == << refcnt, mode, fpos >>
files == << data, chain, st_size, st_blocks >>

Modes == {"r", "w", "rw"}
Readable(f) == mode[f] \in {"r", "rw"}
Writeable(f) == mode[f] \in {"w", "rw"}

Reply(err, val, buf) == [err |-> err, val |-> val, buf |-> buf]
Refuse(err) == Reply(err, 0, << >>)

Blank == [o \in 0..(BS - 1) |-> Junk]
BlocksOf(f) == {chain[f][i] : i \in DOMAIN chain[f]}
Free == Blk \ UNION {BlocksOf(f) : f \in File}

\* Sizes and positions are LONGs that are not negative, and a FD is never
\* counted beyond its handles.
RamTypeOK ==
    /\ data \in [Blk -> [0..(BS - 1) -> Byte \cup {Junk}]]
    /\ chain \in [File -> Seq(Blk)]
    /\ st_size \in [File -> 0..LMAX] /\ st_blocks \in [File -> Nat]
    /\ refcnt \in [File -> 0..MaxRef]
    /\ mode \in [File -> Modes]
    /\ fpos \in [File -> 0..LMAX]

Init ==
    /\ data = [b \in Blk |-> Blank] /\ chain = [f \in File |-> << >>]
    /\ st_size = [f \in File |-> 0] /\ st_blocks = [f \in File |-> 0]
    /\ refcnt = [f \in File |-> 0] /\ mode = [f \in File |-> "r"]
    /\ fpos = [f \in File |-> 0]
    /\ reply = Refuse("E_OK")

Answer(r) == reply' = r /\ UNCHANGED << files, fds >>

-----------------------------------------------------------------------------
(* Memory *)

\* Kmalloc n times: the lists of fresh blocks it may give
News(n) == {s \in [1..n -> Free] : \A i, j \in 1..n : s[i] = s[j] => i = j}

\* Kfree: the blocks in B belong to the system again
Freed(B) == [b \in Blk |-> IF b \in B THEN Blank ELSE data[b]]

-----------------------------------------------------------------------------
(* Places *)

\* Mutant: the offset is not reset behind the first block
PlaceNoReset(p, i) ==
    LET skip == IF p = 0 THEN 0 ELSE (p - 1) \div BS
        off == p - skip * BS
        rest == BS - off
    IN  IF i < rest THEN << skip, off + i >>
        ELSE << skip + 1 + ((i - rest) \div BS), (off + i - rest) % BS >>

\* The block, counted from 0, and the offset at which read and write find
\* byte i of a transfer that starts at position p. They skip blocks as long as
\* p lies behind the next one's start, so a p at the end of a block belongs to
\* it, with no byte left there
Place(p, i) ==
    LET skip == IF p = 0 THEN 0 ELSE (p - 1) \div BS
        off == p - skip * BS
        rest == BS - off
    IN  IF i < rest THEN << skip, off + i >>
        ELSE << skip + 1 + ((i - rest) \div BS), (i - rest) % BS >>

\* what read copies as byte i; behind the last block next is NULL
ByteAt(f, p, i) ==
    LET at == Place(p, i)
    IN  IF at[1] < Len(chain[f]) THEN data[chain[f][at[1] + 1]][at[2]] ELSE Junk

\* the blocks of list c after write has put buf[1..n] at position p
Written(c, p, buf, n) ==
    [b \in Blk |-> [o \in 0..(BS - 1) |->
        LET hit == {i \in 0..(n - 1) : Place(p, i)[2] = o /\ c[Place(p, i)[1] + 1] = b}
        IN  IF hit = {} THEN data[b][o] ELSE buf[(CHOOSE i \in hit : TRUE) + 1]]]

-----------------------------------------------------------------------------
(* fopen, close, fdelete *)

\* Mutant: O_TRUNC frees the blocks and leaves st_blocks as it was
TruncateKeepsCount(f) ==
    /\ data' = Freed(BlocksOf(f) \ {chain[f][1]})
    /\ chain' = [chain EXCEPT ![f] = << chain[f][1] >>]
    /\ st_size' = [st_size EXCEPT ![f] = 0]
    /\ UNCHANGED st_blocks

\* O_TRUNC: one block is left
Truncate(f) ==
    /\ data' = Freed(BlocksOf(f) \ {chain[f][1]})
    /\ chain' = [chain EXCEPT ![f] = << chain[f][1] >>]
    /\ st_size' = [st_size EXCEPT ![f] = 0]
    /\ st_blocks' = [st_blocks EXCEPT ![f] = 1]

\* a new file has one block
NewFile(f, b) ==
    /\ chain' = [chain EXCEPT ![f] = << b >>]
    /\ st_size' = [st_size EXCEPT ![f] = 0]
    /\ st_blocks' = [st_blocks EXCEPT ![f] = 1]
    /\ UNCHANGED data

\* the rest of fopen: the FD
Opened(f, m) ==
    /\ refcnt' = [refcnt EXCEPT ![f] = 1]
    /\ mode' = [mode EXCEPT ![f] = m]
    /\ fpos' = [fpos EXCEPT ![f] = 0]
    /\ reply' = Refuse("E_OK")

\* ramdisk_fopen
Fopen(f, m, creat, trunc, excl) ==
    LET exists == chain[f] # << >>
    IN  \/ /\ \/ (creat \/ trunc) /\ m = "r"
              \/ exists /\ creat /\ excl
              \/ exists /\ refcnt[f] > 0
           /\ Answer(Refuse("EACCDN"))
        \/ /\ ~((creat \/ trunc) /\ m = "r") /\ ~exists /\ ~creat
           /\ Answer(Refuse("EFILNF"))
        \/ /\ ~((creat \/ trunc) /\ m = "r")
           /\ exists /\ ~(creat /\ excl) /\ refcnt[f] = 0
           /\ IF trunc THEN Truncate(f) ELSE UNCHANGED files
           /\ Opened(f, m)
        \/ /\ m # "r" /\ ~exists /\ creat
           /\ \/ Answer(Refuse("ENSMEM"))
              \/ \E b \in Free : NewFile(f, b) /\ Opened(f, m)

\* Fdup, Fforce and Pexec give a process another handle of the FD
Fdup(f) ==
    /\ refcnt[f] \in 1..(MaxRef - 1)
    /\ refcnt' = [refcnt EXCEPT ![f] = @ + 1]
    /\ reply' = Refuse("E_OK")
    /\ UNCHANGED << files, mode, fpos >>

\* ramdisk_close; what a free FD holds does not matter and is reset here
Fclose(f) ==
    /\ refcnt[f] > 0
    /\ refcnt' = [refcnt EXCEPT ![f] = @ - 1]
    /\ mode' = [mode EXCEPT ![f] = IF refcnt[f] = 1 THEN "r" ELSE @]
    /\ fpos' = [fpos EXCEPT ![f] = IF refcnt[f] = 1 THEN 0 ELSE @]
    /\ reply' = Refuse("E_OK")
    /\ UNCHANGED files

\* ramdisk_fdelete
Fdelete(f) ==
    IF chain[f] = << >> THEN Answer(Refuse("EFILNF"))
    ELSE IF refcnt[f] > 0 THEN Answer(Refuse("EACCDN"))
    ELSE /\ data' = Freed(BlocksOf(f))
         /\ chain' = [chain EXCEPT ![f] = << >>]
         /\ st_size' = [st_size EXCEPT ![f] = 0]
         /\ st_blocks' = [st_blocks EXCEPT ![f] = 0]
         /\ reply' = Refuse("E_OK")
         /\ UNCHANGED fds

-----------------------------------------------------------------------------
(* read and write *)

\* the sum of two LONGs
Long(n) == IF n > LMAX THEN n - 2 * (LMAX + 1) ELSE n

\* ramdisk_read
Fread(f, count) ==
    LET left == st_size[f] - fpos[f]
        want == IF Long(fpos[f] + count) > st_size[f] THEN left ELSE count
        n == IF want < 0 THEN 0 ELSE want
    IN  /\ refcnt[f] > 0
        /\ HugeReads \/ fpos[f] + count <= LMAX
        /\ IF ~Readable(f) THEN Answer(Refuse("EACCDN"))
           ELSE /\ reply' = Reply("E_OK", n, [i \in 1..n |-> ByteAt(f, fpos[f], i - 1)])
                /\ fpos' = [fpos EXCEPT ![f] = Long(@ + n)]
                /\ UNCHANGED << files, refcnt, mode >>

\* the number of blocks write asks for
NewBlocks(f, count) ==
    IF fpos[f] + count > st_blocks[f] * BS
    THEN ((fpos[f] + count + BS - 1) \div BS) - st_blocks[f] ELSE 0

\* Mutant: the count is not shortened when memory is out
WriteBlocksLong(f, buf, new) ==
    LET n == Len(buf)
    IN  /\ reply' = Reply("E_OK", n, << >>)
        /\ chain' = [chain EXCEPT ![f] = @ \o new]
        /\ st_blocks' = [st_blocks EXCEPT ![f] = @ + Len(new)]
        /\ fpos' = [fpos EXCEPT ![f] = @ + n]
        /\ st_size' = [st_size EXCEPT ![f] = IF fpos[f] + n > @ THEN fpos[f] + n ELSE @]
        /\ data' = Written(chain[f] \o new \o new, fpos[f], buf, 0)
        /\ UNCHANGED << refcnt, mode >>

\* ramdisk_write with the blocks in new: they are appended, and as much is
\* written as fits
WriteBlocks(f, buf, new) ==
    LET maxcount == (st_blocks[f] + Len(new)) * BS
        n == IF fpos[f] + Len(buf) > maxcount THEN maxcount - fpos[f] ELSE Len(buf)
    IN  /\ reply' = Reply("E_OK", n, << >>)
        /\ chain' = [chain EXCEPT ![f] = @ \o new]
        /\ st_blocks' = [st_blocks EXCEPT ![f] = @ + Len(new)]
        /\ fpos' = [fpos EXCEPT ![f] = @ + n]
        /\ st_size' = [st_size EXCEPT ![f] = IF fpos[f] + n > @ THEN fpos[f] + n ELSE @]
        /\ data' = Written(chain[f] \o new, fpos[f], buf, n)
        /\ UNCHANGED << refcnt, mode >>

\* ramdisk_write, and ramdisk_putc with one byte. The memory is shared with
\* all applications, so Kmalloc may fail at any of the blocks
Fwrite(f, buf) ==
    /\ refcnt[f] > 0
    /\ IF ~Writeable(f) THEN Answer(Refuse("EACCDN"))
       ELSE \E n \in 0..NewBlocks(f, Len(buf)) : \E new \in News(n) : WriteBlocks(f, buf, new)

-----------------------------------------------------------------------------
(* seek, ioctl, getline *)

\* Mutant: the start of the file is not looked at
FseekBefore(f, where, whence) ==
    LET base == << 0, fpos[f], st_size[f] >>
        new_pos == base[whence + 1] + where
    IN  /\ refcnt[f] > 0
        /\ IF whence \notin 0..2 THEN Answer(Reply("E_OK", fpos[f], << >>))
           ELSE IF new_pos > st_size[f] THEN Answer(Refuse("ERANGE"))
           ELSE /\ fpos' = [fpos EXCEPT ![f] = new_pos]
                /\ reply' = Reply("E_OK", new_pos, << >>)
                /\ UNCHANGED << files, refcnt, mode >>

\* ramdisk_seek
Fseek(f, where, whence) ==
    LET base == << 0, fpos[f], st_size[f] >>
        new_pos == base[whence + 1] + where
    IN  /\ refcnt[f] > 0
        /\ IF whence \notin 0..2 THEN Answer(Reply("E_OK", fpos[f], << >>))
           ELSE IF new_pos < 0 \/ new_pos > st_size[f] THEN Answer(Refuse("ERANGE"))
           ELSE /\ fpos' = [fpos EXCEPT ![f] = new_pos]
                /\ reply' = Reply("E_OK", new_pos, << >>)
                /\ UNCHANGED << files, refcnt, mode >>

\* ramdisk_ioctl with FIONREAD and FIONWRITE
Fionread(f) ==
    /\ refcnt[f] > 0
    /\ Answer(IF Readable(f) THEN Reply("E_OK", st_size[f] - fpos[f], << >>) ELSE Refuse("EACCDN"))

Fionwrite(f) ==
    LET avail == st_blocks[f] * BS - fpos[f]
    IN  /\ refcnt[f] > 0
        /\ Answer(IF ~Writeable(f) THEN Refuse("EACCDN")
                  ELSE Reply("E_OK", IF avail < 0 THEN 0 ELSE avail, << >>))

\* ramdisk_getc at position p: it reads one byte
Getc(f, p) == ByteAt(f, p, 0)

\* no byte at position p, or no right to read one: getc gives 0xff1a
AtEnd(f, p) == ~Readable(f) \/ p >= st_size[f]

\* ramdisk_getline calls getc until size bytes, the end of the file or of the
\* line
Stops(f, size, i) ==
    i = size \/ AtEnd(f, fpos[f] + i) \/ Getc(f, fpos[f] + i) \in {CR, LF}

LineLen(f, size) ==
    CHOOSE n \in 0..size : Stops(f, size, n) /\ \A j \in 0..(n - 1) : ~Stops(f, size, j)

\* the bytes of the line's end, behind n bytes: with a CR goes the byte behind it
Eol(f, size, n) ==
    IF n = size \/ AtEnd(f, fpos[f] + n) THEN 0
    ELSE IF Getc(f, fpos[f] + n) = CR /\ ~AtEnd(f, fpos[f] + n + 1) THEN 2 ELSE 1

\* ramdisk_getline
Getline(f, size) ==
    LET n == LineLen(f, size)
    IN  /\ refcnt[f] > 0 /\ fpos[f] + size + 2 <= LMAX
        /\ reply' = Reply("E_OK", n, [i \in 1..n |-> Getc(f, fpos[f] + i - 1)])
        /\ fpos' = [fpos EXCEPT ![f] = @ + n + Eol(f, size, n)]
        /\ UNCHANGED << files, refcnt, mode >>

-----------------------------------------------------------------------------
Next ==
    \E f \in File :
       \/ \E o \in OpenModes : Fopen(f, o.m, o.creat, o.trunc, o.excl)
       \/ Fdup(f) \/ Fclose(f) \/ Fdelete(f)
       \/ \E count \in Counts : Fread(f, count) \/ (count >= 0 /\ Getline(f, count))
       \/ \E buf \in Buffers[f] : Fwrite(f, buf)
       \/ \E s \in Seeks : Fseek(f, s[1], s[2])
       \/ Fionread(f) \/ Fionwrite(f)

Spec == Init /\ [][Next]_vars

-----------------------------------------------------------------------------
(* Correctness *)

\* No FILEBLOCK is in two files or twice in one, and st_blocks counts them:
\* otherwise one file would write into another, or Kfree would free it twice.
BlocksOwned ==
    /\ \A f \in File : st_blocks[f] = Len(chain[f])
    /\ \A f, g \in File : \A i \in DOMAIN chain[f], j \in DOMAIN chain[g] :
          chain[f][i] = chain[g][j] => f = g /\ i = j

\* The position of an open file lies inside the file and the file inside its
\* blocks, so that read, write and the walk to the first block of a transfer
\* never follow the NULL at the end of the list.
SizeFits ==
    \A f \in File : /\ st_size[f] <= st_blocks[f] * BS
                    /\ refcnt[f] > 0 => chain[f] # << >> /\ fpos[f] <= st_size[f]

\* A read gives bytes of the file only and stops at its end ("dass man nicht
\* ueber das Ende der Datei hinausliest").
EndRespected == \A i \in DOMAIN reply.buf : reply.buf[i] # Junk

\* The byte at position p, counted from 0
ContentByte(f, p) == data[chain[f][(p \div BS) + 1]][p % BS]

\* FileSpec sees the bytes of the blocks in the order of the list
Contents == [f \in File |-> [i \in 1..st_size[f] |-> ContentByte(f, i - 1)]]
Existing == {f \in File : chain[f] # << >>}
Capacity == [f \in File |-> Len(chain[f]) * BS]

Abstract == INSTANCE FileSpec WITH
    content <- Contents, exists <- Existing, cap <- Capacity,
    users <- refcnt, pos <- fpos

\* The files behave as FileSpec says: sequences of bytes with a position and a
\* capacity, whatever the blocks are and however calls are cut at them.
ImplementsFileSpec == Abstract!FileSpecification
=============================================================================
