------------------------------ MODULE FileSpec ------------------------------
(***************************************************************************)
(* What the files of a RAM disk promise to the applications that use them: *)
(* a file is a sequence of bytes, an open file has a position in it, and   *)
(* every call answers with a reply. Where the bytes are kept is not said;  *)
(* a file only has a capacity, up to which writing cannot fail.            *)
(***************************************************************************)
EXTENDS Integers, Sequences

CONSTANTS File, Byte, CR, LF,
          OpenModes,  \* how the applications open files
          Buffers,    \* what they write to each file
          Counts,     \* how much they read
          Seeks       \* by how much they seek, and from where

VARIABLES content,    \* the bytes of each file
          exists,     \* the files there are
          cap,        \* number of bytes a file has room for
          users,      \* fd_refcnt: handles of the open file
          mode,       \* "r", "w", "rw": what it was opened for
          pos,        \* its position
          reply       \* the answer to the last call

fvars == << content, exists, cap, users, mode, pos, reply >>

Modes == {"r", "w", "rw"}
CanRead(m) == m \in {"r", "rw"}
CanWrite(m) == m \in {"w", "rw"}

Reply(err, val, buf) == [err |-> err, val |-> val, buf |-> buf]
Refuse(err) == Reply(err, 0, << >>)

Smaller(a, b) == IF a < b THEN a ELSE b

FileInit ==
    /\ content = [f \in File |-> << >>] /\ exists = {}
    /\ cap = [f \in File |-> 0] /\ users = [f \in File |-> 0]
    /\ mode = [f \in File |-> "r"] /\ pos = [f \in File |-> 0]
    /\ reply = Refuse("E_OK")

\* A call that is refused changes nothing
Refused(errs) == reply' \in {Refuse(e) : e \in errs} /\ UNCHANGED << content, exists, cap, users, mode, pos >>

Open(f, m, creat, trunc, excl) ==
    \/ Refused({"EACCDN", "EFILNF", "ENSMEM"})
    \/ /\ users[f] = 0
       /\ f \in exists => ~(creat /\ excl)
       /\ f \notin exists => creat
       /\ creat \/ trunc => CanWrite(m)
       /\ exists' = exists \cup {f}
       /\ content' = IF trunc \/ f \notin exists THEN [content EXCEPT ![f] = << >>] ELSE content
       /\ cap' = [cap EXCEPT ![f] = IF trunc \/ f \notin exists THEN cap'[f] ELSE @]
       /\ users' = [users EXCEPT ![f] = 1]
       /\ mode' = [mode EXCEPT ![f] = m]
       /\ pos' = [pos EXCEPT ![f] = 0]
       /\ reply' = Refuse("E_OK")

Dup(f) ==
    /\ users[f] > 0
    /\ users' = [users EXCEPT ![f] = @ + 1]
    /\ reply' = Refuse("E_OK")
    /\ UNCHANGED << content, exists, cap, mode, pos >>

Close(f) ==
    /\ users[f] > 0
    /\ users' = [users EXCEPT ![f] = @ - 1]
    /\ mode' = [mode EXCEPT ![f] = IF users[f] = 1 THEN "r" ELSE @]
    /\ pos' = [pos EXCEPT ![f] = IF users[f] = 1 THEN 0 ELSE @]
    /\ reply' = Refuse("E_OK")
    /\ UNCHANGED << content, exists, cap >>

\* A file that is open is not deleted
Delete(f) ==
    \/ /\ f \notin exists \/ users[f] > 0
       /\ Refused({"EACCDN", "EFILNF"})
    \/ /\ f \in exists /\ users[f] = 0
       /\ exists' = exists \ {f}
       /\ content' = [content EXCEPT ![f] = << >>] /\ cap' = [cap EXCEPT ![f] = 0]
       /\ reply' = Refuse("E_OK")
       /\ UNCHANGED << users, mode, pos >>

\* The bytes from the position on, as many as there are
Read(f, count) ==
    LET n == IF count < 0 THEN 0 ELSE Smaller(count, Len(content[f]) - pos[f])
    IN  /\ users[f] > 0
        /\ \/ ~CanRead(mode[f]) /\ Refused({"EACCDN"})
           \/ /\ CanRead(mode[f])
              /\ reply' = Reply("E_OK", n, SubSeq(content[f], pos[f] + 1, pos[f] + n))
              /\ pos' = [pos EXCEPT ![f] = @ + n]
              /\ UNCHANGED << content, exists, cap, users, mode >>

\* The capacity may grow; whatever fits is written, over the bytes from the
\* position on and beyond the end
Write(f, buf) ==
    LET n == Smaller(Len(buf), cap'[f] - pos[f])
        rest == SubSeq(content[f], pos[f] + n + 1, Len(content[f]))
    IN  /\ users[f] > 0
        /\ \/ ~CanWrite(mode[f]) /\ Refused({"EACCDN"})
           \/ /\ CanWrite(mode[f])
              /\ cap'[f] >= cap[f] /\ cap' = [cap EXCEPT ![f] = cap'[f]]
              /\ reply' = Reply("E_OK", n, << >>)
              /\ pos' = [pos EXCEPT ![f] = @ + n]
              /\ content' = [content EXCEPT ![f] = SubSeq(@, 1, pos[f]) \o SubSeq(buf, 1, n) \o rest]
              /\ UNCHANGED << exists, users, mode >>

\* Positions are counted from the start, the position or the end, and lie
\* inside the file; another whence only asks where the position is
Seek(f, where, whence) ==
    LET base == << 0, pos[f], Len(content[f]) >>
        new == IF whence \in 0..2 THEN base[whence + 1] + where ELSE pos[f]
    IN  /\ users[f] > 0
        /\ IF new \in 0..Len(content[f])
           THEN /\ pos' = [pos EXCEPT ![f] = new] /\ reply' = Reply("E_OK", new, << >>)
                /\ UNCHANGED << content, exists, cap, users, mode >>
           ELSE Refused({"ERANGE"})

\* How much can be read, and how much can be written in any case
Avail(f, write) ==
    /\ users[f] > 0
    /\ reply' = IF ~(IF write THEN CanWrite(mode[f]) ELSE CanRead(mode[f])) THEN Refuse("EACCDN")
                ELSE Reply("E_OK", (IF write THEN cap[f] ELSE Len(content[f])) - pos[f], << >>)
    /\ UNCHANGED << content, exists, cap, users, mode, pos >>

\* A line ends at a CR with the byte behind it, at a LF, at the end of the
\* text, or when the buffer is full, which leaves its end for the next call
LineLen(text, size) ==
    CHOOSE n \in 0..Smaller(size, Len(text)) :
       /\ \A j \in 1..n : text[j] \notin {CR, LF}
       /\ n \in {size, Len(text)} \/ text[n + 1] \in {CR, LF}

Eol(text, size, n) ==
    IF n = size \/ n = Len(text) THEN 0
    ELSE IF text[n + 1] = CR /\ n + 1 < Len(text) THEN 2 ELSE 1

\* the bytes from the position on
Text(f) == IF CanRead(mode[f]) THEN SubSeq(content[f], pos[f] + 1, Len(content[f])) ELSE << >>

Getline(f, size) ==
    LET n == LineLen(Text(f), size)
    IN  /\ users[f] > 0
        /\ reply' = Reply("E_OK", n, SubSeq(Text(f), 1, n))
        /\ pos' = [pos EXCEPT ![f] = @ + n + Eol(Text(f), size, n)]
        /\ UNCHANGED << content, exists, cap, users, mode >>

FileNext ==
    \E f \in File :
       \/ \E o \in OpenModes : Open(f, o.m, o.creat, o.trunc, o.excl)
       \/ Dup(f) \/ Close(f) \/ Delete(f)
       \/ \E count \in Counts : Read(f, count) \/ (count >= 0 /\ Getline(f, count))
       \/ \E buf \in Buffers[f] : Write(f, buf)
       \/ \E s \in Seeks : Seek(f, s[1], s[2])
       \/ \E w \in BOOLEAN : Avail(f, w)

FileSpecification == FileInit /\ [][FileNext]_fvars
=============================================================================
