-------------------------------- MODULE Pipe --------------------------------
(***************************************************************************)
(* Pipes of MagiC (src/kernel/dos/dev_pipe.s): unidirectional ones (upipe) *)
(* with one PIPE for everybody, bidirectional ones (bipipe) with a PIPE    *)
(* for each direction, and Fselect on a pipe (src/kernel/dos/magidos.s).   *)
(*                                                                         *)
(* A read or write runs in supervisor mode and is atomic up to the evnt_IO *)
(* it waits in, so each turn of its loop is one action. evnt_IO and        *)
(* evnt_mIO are used as Sched models them: appl_IOcomplete leaves a note,  *)
(* and the note ends the wait.                                             *)
(***************************************************************************)
EXTENDS Integers, Sequences, FiniteSetsExt

CONSTANTS App, NONE,
          Parties,           \* the kinds of pipe and who uses them: records with
                             \* bi (bidirectional), readers and writers
          Rejoin,            \* TRUE: clients open a bipipe after its creator has left
          PipeSize,          \* room in pipe_data, 2048 in the code
          MaxCount,          \* bound on the size of a read or write
          MaxBytes           \* bound on the bytes written to a PIPE in its life

ASSUME PipeAssumption ==
    /\ NONE \notin App /\ IsFiniteSet(App)
    /\ Parties \subseteq [bi : BOOLEAN, readers : SUBSET App, writers : SUBSET App]
    /\ Rejoin \in BOOLEAN
    /\ PipeSize \in Nat \ {0} /\ MaxCount \in Nat \ {0} /\ MaxBytes \in Nat

VARIABLES
    party,    \* the pipe that was created last, and who uses it
    data,     \* pipe_data of each PIPE, pipe_len bytes; bytes are numbered
    waiting,  \* pipe_waiting of each PIPE
    refcnt,   \* upipe_refcnt, bipipe_refcnt
    flag,     \* bipipe_flag: nobody has opened the pipe yet
    exists,   \* the pipe has a directory entry and memory
    pc,       \* off: pipe not open; open; rwait, wwait: in the evnt_IO of a
              \* read or write; rsel, wsel: in the evnt_mIO of Fselect
    creator,  \* applications whose file descriptor has O_HEAD
    left,     \* d7: bytes a waiting read or write still has to move
    unsel,    \* the unselect structure an application waits with
    notes,    \* iocpbuf: applications with an IOcomplete
    got,      \* what has been read from each PIPE since it was created
    wild      \* history: funselect has called an unselect routine of the pipe with
              \* an APPL for its PIPE, or an APPL for an unselect routine. What the
              \* machine does from there on is not modelled

vars == << party, data, waiting, refcnt, flag, exists, pc, creator, left, unsel, notes, got, wild >>

\* crpipe: creator to client; clpipe: client to creator. A upipe uses crpipe only
PIPE == {"crpipe", "clpipe"}

Waits == {"rwait", "wwait", "rsel", "wsel"}

\* A PIPE never holds more than PipeSize bytes, and pipe_waiting names at most one
\* application.
PipeTypeOK ==
    /\ party \in Parties
    /\ data \in [PIPE -> Seq(Nat)] /\ \A p \in PIPE : Len(data[p]) \in 0..PipeSize
    /\ waiting \in [PIPE -> App \cup {NONE}]
    /\ refcnt \in 0..Cardinality(App)
    /\ flag \in BOOLEAN /\ exists \in BOOLEAN
    /\ pc \in [App -> {"off", "open"} \cup Waits]
    /\ creator \subseteq App
    /\ left \in [App -> 0..MaxCount]
    /\ unsel \in [App -> {"none", "armed", "done", "appl"}]
    /\ notes \subseteq App
    /\ got \in [PIPE -> Seq(Nat)]
    /\ wild \in BOOLEAN

Init ==
    /\ party \in Parties
    /\ data = [p \in PIPE |-> << >>] /\ waiting = [p \in PIPE |-> NONE]
    /\ refcnt = 0 /\ flag = FALSE /\ exists = FALSE
    /\ pc = [a \in App |-> "off"] /\ creator = {}
    /\ left = [a \in App |-> 0] /\ unsel = [a \in App |-> "none"]
    /\ notes = {} /\ got = [p \in PIPE |-> << >>] /\ wild = FALSE

\* number of bytes written to p since it was created
Written(p) == Len(got[p]) + Len(data[p])

\* bipipe_pipe: the PIPE application a reads from or writes to
PipeOf(a, write) ==
    IF ~party.bi \/ (a \in creator) = write THEN "crpipe" ELSE "clpipe"

\* number of bytes waiting writers still have for p
Unwritten(p) ==
    MapThenSumSet(LAMBDA a : left[a], {a \in App : pc[a] = "wwait" /\ PipeOf(a, TRUE) = p})

-----------------------------------------------------------------------------
(* Create, open, close *)

\* upipe_create, bipipe_create: two fresh PIPEs, nobody waits
Create ==
    /\ ~exists
    /\ party' \in Parties
    /\ exists' = TRUE /\ flag' = party'.bi /\ refcnt' = 0
    /\ data' = [p \in PIPE |-> << >>] /\ waiting' = [p \in PIPE |-> NONE]
    /\ got' = [p \in PIPE |-> << >>]
    /\ UNCHANGED << pc, creator, left, unsel, notes, wild >>

\* Mutant: bipipe_open does not count the client
OpenUncounted(a) ==
    /\ exists /\ pc[a] = "off" /\ a \in party.readers \cup party.writers
    /\ ~party.bi \/ Rejoin \/ flag \/ creator # {}
    /\ refcnt' = IF refcnt = 0 THEN 1 ELSE refcnt
    /\ creator' = IF flag THEN creator \cup {a} ELSE creator
    /\ flag' = FALSE
    /\ pc' = [pc EXCEPT ![a] = "open"]
    /\ UNCHANGED << party, data, waiting, exists, left, unsel, notes, got, wild >>

\* upipe_open, bipipe_open: the first one becomes the creator
Open(a) ==
    /\ exists /\ pc[a] = "off" /\ a \in party.readers \cup party.writers
    /\ ~party.bi \/ Rejoin \/ flag \/ creator # {}
    /\ refcnt' = refcnt + 1
    /\ creator' = IF flag THEN creator \cup {a} ELSE creator
    /\ flag' = FALSE
    /\ pc' = [pc EXCEPT ![a] = "open"]
    /\ UNCHANGED << party, data, waiting, exists, left, unsel, notes, got, wild >>

\* the applications pipe_wakeup finds waiting on the PIPEs in P
Sleepers(P) == {waiting[p] : p \in P} \ {NONE}

\* upipe_close, bipipe_close: pipe_wakeup gives who waits an OK in its unselect
\* structure and an IOcomplete; the last one to close removes the pipe
CloseFd(a) ==
    /\ waiting' = [p \in PIPE |-> NONE]
    /\ notes' = (notes \cup Sleepers(PIPE)) \ {a}
    /\ unsel' = [b \in App |-> IF b = a THEN "none"
                               ELSE IF b \in Sleepers(PIPE) THEN "done" ELSE unsel[b]]
    /\ refcnt' = refcnt - 1
    /\ exists' = (refcnt > 1)
    /\ creator' = creator \ {a}
    /\ pc' = [pc EXCEPT ![a] = "off"]
    /\ left' = [left EXCEPT ![a] = 0]
    /\ UNCHANGED << party, data, flag, got, wild >>

Close(a) == pc[a] = "open" /\ CloseFd(a)

\* a is terminated while it waits: PDkill closes its files, which wakes up
\* whoever waits, a included; its own wait is over, and its IOcomplete is
\* dropped (rmv_ap_io, and the kernel loop finds no application to give it to)
Kill(a) == pc[a] \in Waits /\ CloseFd(a)

-----------------------------------------------------------------------------
(* Read and write *)

\* Mutant: nobody is woken up when bytes were moved
LoopEndSilent(a, p, moved, rest, where) ==
    LET blocks == rest > 0 /\ refcnt > 1
    IN  /\ waiting' = [waiting EXCEPT ![p] = IF blocks THEN a ELSE @]
        /\ unsel' = [unsel EXCEPT ![a] = IF blocks THEN "armed" ELSE "none"]
        /\ notes' = IF pc[a] = "open" THEN notes ELSE notes \ {a}
        /\ pc' = [pc EXCEPT ![a] = IF blocks THEN where ELSE "open"]
        /\ left' = [left EXCEPT ![a] = IF blocks THEN rest ELSE 0]
        /\ UNCHANGED << party, refcnt, flag, exists, creator, wild >>

\* Mutant: an application waits although it is alone with the pipe
LoopEndAlone(a, p, moved, rest, where) ==
    LET blocks == rest > 0
        woken == IF moved > 0 THEN Sleepers({p}) ELSE {}
    IN  /\ waiting' = [waiting EXCEPT ![p] = IF blocks THEN a ELSE IF moved > 0 THEN NONE ELSE @]
        /\ unsel' = [b \in App |-> IF b = a THEN IF blocks THEN "armed" ELSE "none"
                                   ELSE IF b \in woken THEN "done" ELSE unsel[b]]
        /\ notes' = (IF pc[a] = "open" THEN notes ELSE notes \ {a}) \cup woken
        /\ pc' = [pc EXCEPT ![a] = IF blocks THEN where ELSE "open"]
        /\ left' = [left EXCEPT ![a] = IF blocks THEN rest ELSE 0]
        /\ UNCHANGED << party, refcnt, flag, exists, creator, wild >>

\* The end of a turn of the read or write loop of a on PIPE p: moved bytes
\* were copied, which wakes up who waits; rest bytes are still to do. The loop
\* is left if there are none or nobody else has the pipe open, else a waits
LoopEnd(a, p, moved, rest, where) ==
    LET blocks == rest > 0 /\ refcnt > 1
        woken == IF moved > 0 THEN Sleepers({p}) ELSE {}
    IN  /\ waiting' = [waiting EXCEPT ![p] = IF blocks THEN a ELSE IF moved > 0 THEN NONE ELSE @]
        /\ unsel' = [b \in App |-> IF b = a THEN IF blocks THEN "armed" ELSE "none"
                                   ELSE IF b \in woken THEN "done" ELSE unsel[b]]
        /\ notes' = (IF pc[a] = "open" THEN notes ELSE notes \ {a}) \cup woken
        /\ pc' = [pc EXCEPT ![a] = IF blocks THEN where ELSE "open"]
        /\ left' = [left EXCEPT ![a] = IF blocks THEN rest ELSE 0]
        /\ UNCHANGED << party, refcnt, flag, exists, creator, wild >>

\* Mutant: the rest of the data is not moved down
ReadLoopNoShift(a, count) ==
    LET p == PipeOf(a, FALSE)
        n == Min({count, Len(data[p])})
    IN  /\ got' = [got EXCEPT ![p] = @ \o SubSeq(data[p], 1, n)]
        /\ data' = [data EXCEPT ![p] = SubSeq(@, 1, Len(@) - n)]
        /\ LoopEnd(a, p, n, count - n, "rwait")

\* one turn of pr_loop: copy what is there, move the rest of the data down
ReadLoop(a, count) ==
    LET p == PipeOf(a, FALSE)
        n == Min({count, Len(data[p])})
    IN  /\ got' = [got EXCEPT ![p] = @ \o SubSeq(data[p], 1, n)]
        /\ data' = [data EXCEPT ![p] = SubSeq(@, n + 1, Len(@))]
        /\ LoopEnd(a, p, n, count - n, "rwait")

\* Mutant: the room in the pipe is not looked at
WriteLoopNoRoom(a, count) ==
    LET p == PipeOf(a, TRUE)
    IN  /\ data' = [data EXCEPT ![p] = @ \o [i \in 1..count |-> Written(p) + i]]
        /\ LoopEnd(a, p, count, 0, "wwait")
        /\ UNCHANGED got

\* one turn of pw_loop: copy as much as there is room for
WriteLoop(a, count) ==
    LET p == PipeOf(a, TRUE)
        n == Min({count, PipeSize - Len(data[p])})
    IN  /\ data' = [data EXCEPT ![p] = @ \o [i \in 1..n |-> Written(p) + i]]
        /\ LoopEnd(a, p, n, count - n, "wwait")
        /\ UNCHANGED got

Read(a, count) == a \in party.readers /\ pc[a] = "open" /\ ReadLoop(a, count)

Write(a, count) ==
    /\ a \in party.writers /\ pc[a] = "open"
    /\ Written(PipeOf(a, TRUE)) + Unwritten(PipeOf(a, TRUE)) + count <= MaxBytes
    /\ WriteLoop(a, count)

\* evnt_IO returns: the loop goes on
ReadAgain(a) == pc[a] = "rwait" /\ a \in notes /\ ReadLoop(a, left[a])
WriteAgain(a) == pc[a] = "wwait" /\ a \in notes /\ WriteLoop(a, left[a])

-----------------------------------------------------------------------------
(* Fselect *)

\* upipe_stat, bipipe_stat: a has to wait. If somebody waits already, pipe_stat
\* returns, and stores in the unselect structure, what d0 has been tested for,
\* the APPL: Fselect takes any value above 1 for "waiting" and goes to sleep,
\* although nobody will find it in pipe_waiting. (Polling changes nothing here)
Select(a, write) ==
    LET p == PipeOf(a, write)
        free == waiting[p] = NONE
    IN  /\ pc[a] = "open" /\ a \in (IF write THEN party.writers ELSE party.readers)
        /\ IF write THEN Len(data[p]) >= PipeSize ELSE Len(data[p]) = 0
        /\ waiting' = [waiting EXCEPT ![p] = IF free THEN a ELSE @]
        /\ unsel' = [unsel EXCEPT ![a] = IF free THEN "armed" ELSE "appl"]
        /\ pc' = [pc EXCEPT ![a] = IF write THEN "wsel" ELSE "rsel"]
        /\ UNCHANGED << party, data, refcnt, flag, exists, creator, left, notes, got, wild >>

\* Mutant: a timeout leaves the application in pipe_waiting
SelectRetRegistered(a, timeout) ==
    /\ pc[a] \in {"rsel", "wsel"} /\ (timeout \/ a \in notes) /\ unsel[a] # "appl"
    /\ unsel' = [unsel EXCEPT ![a] = "none"]
    /\ notes' = notes \ {a}
    /\ pc' = [pc EXCEPT ![a] = "open"]
    /\ wild' = (unsel[a] = "armed" /\ pc[a] = "wsel")
    /\ UNCHANGED << party, data, waiting, refcnt, flag, exists, creator, left, got >>

\* evnt_mIO is over, by IOcomplete or by timeout; funselect calls pipe_unsel
\* unless the event has come, and evnt_emIO drops an IOcomplete that is too late.
\* Who wants to read is taken out of pipe_waiting. For who wants to write,
\* pipe_stat has stored the APPL instead of the PIPE: pipe_unsel clears memory
\* of the APPL, and pipe_waiting stays as it is
SelectRet(a, timeout) ==
    LET p == PipeOf(a, pc[a] = "wsel")
        unselect == unsel[a] = "armed"
    IN  /\ pc[a] \in {"rsel", "wsel"} /\ (timeout \/ a \in notes) /\ unsel[a] # "appl"
        /\ waiting' = IF unselect /\ pc[a] = "rsel" THEN [waiting EXCEPT ![p] = NONE] ELSE waiting
        /\ unsel' = [unsel EXCEPT ![a] = "none"]
        /\ notes' = notes \ {a}
        /\ pc' = [pc EXCEPT ![a] = "open"]
        /\ wild' = (unselect /\ pc[a] = "wsel")
        /\ UNCHANGED << party, data, refcnt, flag, exists, creator, left, got >>

\* The wait of who was refused by Select ends by timeout, nothing else can end
\* it: funselect takes the APPL for the unselect routine and jumps there
SelectJumps(a) ==
    /\ pc[a] \in {"rsel", "wsel"} /\ unsel[a] = "appl"
    /\ wild' = TRUE
    /\ UNCHANGED << party, data, waiting, refcnt, flag, exists, pc, creator, left, unsel, notes, got >>

-----------------------------------------------------------------------------
AppStep(a) ==
    \/ Open(a) \/ Close(a) \/ Kill(a) \/ ReadAgain(a) \/ WriteAgain(a) \/ SelectJumps(a)
    \/ \E count \in 1..MaxCount : Read(a, count) \/ Write(a, count)
    \/ \E b \in BOOLEAN : Select(a, b) \/ SelectRet(a, b)

Next == ~wild /\ (Create \/ \E a \in App : AppStep(a))

Spec == Init /\ [][Next]_vars

\* An application whose wait is over runs again (IOWakesUp of Sched)
Fairness ==
    \A a \in App : /\ WF_vars(~wild /\ ReadAgain(a)) /\ WF_vars(~wild /\ WriteAgain(a))
                   /\ WF_vars(~wild /\ SelectRet(a, FALSE))

FairSpec == Spec /\ Fairness
-----------------------------------------------------------------------------
(* Correctness *)

\* The pipe is a byte stream: what has been read, followed by what is in the
\* pipe, is what was written, nothing lost, doubled or out of order, however
\* reads and writes are cut into pieces by a pipe that is full or empty and
\* whoever is terminated in between.
ByteStream ==
    \A p \in PIPE : got[p] \o data[p] = [i \in 1..Written(p) |-> i]

\* pipe_waiting and pipe_waitunsl never point to an application that no longer
\* waits: pipe_wakeup writes through them into the stack frame of the wait,
\* which is gone after a timeout of Fselect or a termination. The one way there,
\* and no other, is the timeout of an Fselect for writing (dev_pipe.s:397, the
\* parameter of pipe_unsel is the APPL): it sets wild.
SleeperWaits ==
    \A p \in PIPE : ~wild /\ waiting[p] # NONE =>
       LET a == waiting[p]
       IN  exists /\ pc[a] \in Waits /\ unsel[a] = "armed" /\ PipeOf(a, pc[a] \in {"wwait", "wsel"}) = p

\* One application for each end of the pipe
Private ==
    IF party.bi THEN Cardinality(party.readers \cup party.writers) <= 2
    ELSE Cardinality(party.readers) <= 1 /\ Cardinality(party.writers) <= 1

\* No application is forgotten in a pipe between two: one that sleeps without
\* an IOcomplete on its way is in pipe_waiting, a reader only while the PIPE is empty, a writer only
\* while it is full, and both only while somebody else has the pipe open.
NoSleeperForgotten ==
    \A a \in App : Private /\ pc[a] \in Waits /\ a \notin notes =>
       LET p == PipeOf(a, pc[a] \in {"wwait", "wsel"})
       IN  /\ waiting[p] = a
           /\ pc[a] \in {"rwait", "rsel"} => data[p] = << >>
           /\ pc[a] \in {"wwait", "wsel"} => Len(data[p]) = PipeSize
           /\ pc[a] \in {"rwait", "wwait"} => refcnt > 1

\* upipe_refcnt counts the applications that have the pipe open, so that the
\* pipe is freed with the last of them and readers and writers see when they
\* are alone.
RefCounted ==
    /\ refcnt = Cardinality({a \in App : pc[a] # "off"})
    /\ exists \/ refcnt = 0

-----------------------------------------------------------------------------
(* The rest of the inductive invariant behind the theorems of Pipe_proofs *)

\* a read or write only waits as long as it has bytes to move
Unfinished == \A a \in App : pc[a] \in {"rwait", "wwait"} => left[a] > 0

\* an IOcomplete is on its way only to somebody who still waits, and whose
\* unselect structure has its OK
Notified == \A a \in notes : pc[a] \in Waits /\ unsel[a] = "done"

\* who has the pipe open is one of its users, and a wait is for what they do
Users ==
    \A a \in App : /\ pc[a] # "off" => a \in party.readers \cup party.writers
                   /\ pc[a] \in {"rwait", "rsel"} => a \in party.readers
                   /\ pc[a] \in {"wwait", "wsel"} => a \in party.writers

\* the creator is the one who opened the pipe first, as long as it stays
OneCreator ==
    /\ \A a, b \in creator : a = b
    /\ \A a \in creator : pc[a] # "off"
    /\ flag => party.bi /\ refcnt = 0

\* and a bipipe between two has one client
OneClient ==
    Private /\ party.bi =>
       \A a, b \in App \ creator : pc[a] # "off" /\ pc[b] # "off" => a = b

CountInv == PipeTypeOK /\ RefCounted /\ Unfinished

SleepInv == CountInv /\ Notified /\ SleeperWaits

EndsInv == SleepInv /\ Users /\ OneCreator /\ OneClient /\ NoSleeperForgotten

-----------------------------------------------------------------------------
\* A reader whose PIPE has data, a writer whose PIPE has room, and whoever is
\* alone with the pipe does not wait for ever (as long as no unselect has gone
\* wild, see SleeperWaits).
SleeperServed ==
    \A a \in App :
       LET p == PipeOf(a, pc[a] = "wwait")
           due == /\ Private /\ ~wild /\ pc[a] \in {"rwait", "wwait"}
                  /\ \/ refcnt <= 1
                     \/ IF pc[a] = "rwait" THEN data[p] # << >> ELSE Len(data[p]) < PipeSize
       IN  due ~> ~due
=============================================================================
