----------------------------- MODULE Pipe_proofs ----------------------------
(***************************************************************************)
(* Proofs about Pipe, for any applications, any kinds of pipe, any size of *)
(* the pipe and of the reads and writes.                                   *)
(***************************************************************************)
EXTENDS Pipe, FiniteSetTheorems, SequenceTheorems, TLAPS

\* The smaller of two naturals, as pr_loop and pw_loop compute it.
LEMMA MinIs ==
    ASSUME NEW i \in Nat, NEW j \in Nat
    PROVE  /\ Min({i, j}) \in Nat /\ Min({i, j}) <= i /\ Min({i, j}) <= j
           /\ Min({i, j}) = i \/ Min({i, j}) = j
<1>1. \E x \in {i, j} : \A y \in {i, j} : x <= y
  BY SMT
<1>2. Min({i, j}) \in {i, j} /\ \A y \in {i, j} : Min({i, j}) <= y
  BY <1>1, Zenon DEF Min
<1>. QED BY <1>2, SMT

\* Naturals have a sum.
LEMMA PlusNat == \A i, j \in Nat : i + j \in Nat
OBVIOUS

\* The sizes are positive.
LEMMA Sizes == PipeSize \in Nat /\ PipeSize > 0 /\ MaxCount \in Nat /\ MaxCount > 0
<1>1. PipeSize \in Nat \ {0} /\ MaxCount \in Nat \ {0}
  BY PipeAssumption, Zenon
<1>. QED BY ONLY <1>1

\* bipipe_pipe gives a PIPE, and depends on nobody but its caller.
LEMMA PipeOfIs ==
    ASSUME NEW a, NEW w PROVE PipeOf(a, w) \in PIPE
BY DEF PipeOf, PIPE

\* Whoever pipe_wakeup finds waits on one of its PIPEs.
LEMMA NobodySleeps ==
    ASSUME NEW P, NEW b, b \in Sleepers(P)
    PROVE  b # NONE /\ \E p \in P : waiting[p] = b
BY DEF Sleepers

-----------------------------------------------------------------------------
(* Types *)

\* One turn of a loop keeps the types of what is not in the PIPE.
LEMMA LoopEndType ==
    ASSUME PipeTypeOK, NEW a \in App, NEW p \in PIPE, NEW moved \in Nat,
           NEW rest \in 0..MaxCount, NEW where \in Waits,
           LoopEnd(a, p, moved, rest, where),
           data' \in [PIPE -> Seq(Nat)], \A q \in PIPE : Len(data'[q]) \in 0..PipeSize,
           got' \in [PIPE -> Seq(Nat)]
    PROVE  PipeTypeOK'
<1>. DEFINE blocks == rest > 0 /\ refcnt > 1
            woken == IF moved > 0 THEN Sleepers({p}) ELSE {}
<1>1. /\ waiting' = [waiting EXCEPT ![p] = IF blocks THEN a ELSE IF moved > 0 THEN NONE ELSE @]
      /\ unsel' = [b \in App |-> IF b = a THEN IF blocks THEN "armed" ELSE "none"
                                 ELSE IF b \in woken THEN "done" ELSE unsel[b]]
      /\ notes' = (IF pc[a] = "open" THEN notes ELSE notes \ {a}) \cup woken
      /\ pc' = [pc EXCEPT ![a] = IF blocks THEN where ELSE "open"]
      /\ left' = [left EXCEPT ![a] = IF blocks THEN rest ELSE 0]
      /\ UNCHANGED << party, refcnt, flag, exists, creator, wild >>
  BY DEF LoopEnd
<1>2. woken \subseteq App
  BY DEF PipeTypeOK, Sleepers
<1>. HIDE DEF blocks, woken
<1>3. waiting' \in [PIPE -> App \cup {NONE}] /\ notes' \subseteq App
  BY <1>1, <1>2 DEF PipeTypeOK
<1>4. unsel' \in [App -> {"none", "armed", "done", "appl"}]
  BY <1>1 DEF PipeTypeOK
<1>5. pc' \in [App -> {"off", "open"} \cup Waits] /\ left' \in [App -> 0..MaxCount]
  BY <1>1, PipeAssumption DEF PipeTypeOK
<1>. QED BY <1>1, <1>3, <1>4, <1>5 DEF PipeTypeOK

-----------------------------------------------------------------------------
(* The bytes *)

\* A sequence is what it starts with, followed by the rest.
LEMMA CutInTwo ==
    ASSUME NEW S, NEW s \in Seq(S), NEW n \in 0..Len(s)
    PROVE  /\ SubSeq(s, 1, n) \in Seq(S) /\ Len(SubSeq(s, 1, n)) = n
           /\ SubSeq(s, n + 1, Len(s)) \in Seq(S)
           /\ Len(SubSeq(s, n + 1, Len(s))) = Len(s) - n
           /\ SubSeq(s, 1, n) \o SubSeq(s, n + 1, Len(s)) = s
<1>. DEFINE u == SubSeq(s, 1, n)
            v == SubSeq(s, n + 1, Len(s))
<1>1. u \in Seq(S) /\ Len(u) = n /\ \A i \in 1..n : u[i] = s[i]
  OBVIOUS
<1>2. v \in Seq(S) /\ Len(v) = Len(s) - n /\ \A i \in 1..(Len(s) - n) : v[i] = s[n + i]
  OBVIOUS
<1>. HIDE DEF u, v
<1>3. u \o v \in Seq(S) /\ Len(u \o v) = Len(s)
  BY <1>1, <1>2
<1>4. \A i \in 1..Len(s) : (u \o v)[i] = s[i]
  BY <1>1, <1>2
<1>5. u \o v = s
  BY <1>3, <1>4, SeqEqual
<1>. QED BY <1>1, <1>2, <1>5 DEF u, v

\* The length of a concatenation.
LEMMA JoinIs ==
    ASSUME NEW S, NEW s \in Seq(S), NEW t \in Seq(S)
    PROVE  s \o t \in Seq(S) /\ Len(s \o t) = Len(s) + Len(t)
OBVIOUS

\* Concatenation does not care for the order in which it is done.
LEMMA Joined == \A s, t, u \in Seq(Nat) : (s \o t) \o u = s \o (t \o u)
<1>. SUFFICES ASSUME NEW s \in Seq(Nat), NEW t \in Seq(Nat), NEW u \in Seq(Nat)
              PROVE  (s \o t) \o u = s \o (t \o u)
  OBVIOUS
<1>1. /\ (s \o t) \o u \in Seq(Nat) /\ s \o (t \o u) \in Seq(Nat)
      /\ Len((s \o t) \o u) = Len(s \o (t \o u))
  OBVIOUS
<1>2. \A i \in 1..Len((s \o t) \o u) : ((s \o t) \o u)[i] = (s \o (t \o u))[i]
  OBVIOUS
<1>. QED BY <1>1, <1>2, SeqEqual

\* One turn of pr_loop moves n bytes from the PIPE to the reader: fewer than it
\* asked for only if the PIPE is empty then.
LEMMA ReadTurn ==
    ASSUME PipeTypeOK, NEW a \in App, NEW count \in 1..MaxCount, ReadLoop(a, count),
           NEW p, p = PipeOf(a, FALSE)
    PROVE  \E n \in 0..count :
              /\ LoopEnd(a, p, n, count - n, "rwait")
              /\ data' \in [PIPE -> Seq(Nat)] /\ got' \in [PIPE -> Seq(Nat)]
              /\ Len(data'[p]) = Len(data[p]) - n /\ Len(got'[p]) = Len(got[p]) + n
              /\ got'[p] \o data'[p] = got[p] \o data[p]
              /\ \A q \in PIPE \ {p} : data'[q] = data[q] /\ got'[q] = got[q]
              /\ n < count => Len(data'[p]) = 0
              /\ Len(data[p]) > 0 => n > 0
<1>0. p \in PIPE
  BY DEF PipeOf, PIPE
<1>1. PICK s \in Seq(Nat) : s = data[p]
  BY <1>0 DEF PipeTypeOK
<1>2. PICK g \in Seq(Nat) : g = got[p]
  BY <1>0 DEF PipeTypeOK
<1>3. PICK n \in 0..count : /\ n = Min({count, Len(s)}) /\ n <= Len(s)
                            /\ n < count => n = Len(s)
                            /\ Len(s) > 0 => n > 0
  BY MinIs, SMTT(30)
<1>4. PICK u, v : u = SubSeq(s, 1, n) /\ v = SubSeq(s, n + 1, Len(s))
  OBVIOUS
<1>5. /\ u \in Seq(Nat) /\ v \in Seq(Nat) /\ Len(u) = n /\ Len(v) = Len(s) - n /\ u \o v = s
  <2>1. n \in 0..Len(s)
    BY <1>3
  <2>. QED BY <1>4, <2>1, CutInTwo
<1>6. /\ LoopEnd(a, p, n, count - n, "rwait")
      /\ got' = [got EXCEPT ![p] = @ \o u] /\ data' = [data EXCEPT ![p] = v]
  BY <1>1, <1>3, <1>4, Zenon DEF ReadLoop
<1>7. /\ data'[p] = v /\ got'[p] = g \o u
      /\ \A q \in PIPE \ {p} : data'[q] = data[q] /\ got'[q] = got[q]
  BY <1>0, <1>2, <1>6 DEF PipeTypeOK
<1>8. g \o u \in Seq(Nat) /\ Len(g \o u) = Len(g) + n
  BY ONLY <1>2, <1>5, JoinIs
<1>9. (g \o u) \o v = g \o s
  <2>1. (g \o u) \o v = g \o (u \o v)
    BY <1>2, <1>5, Joined, ZenonT(40)
  <2>. QED BY ONLY <1>5, <2>1, Zenon
<1>10. data' \in [PIPE -> Seq(Nat)] /\ got' \in [PIPE -> Seq(Nat)]
  BY <1>0, <1>2, <1>5, <1>6, <1>8 DEF PipeTypeOK
<1>11. n < count => Len(v) = 0
  BY <1>3, <1>5
<1>. QED BY <1>1, <1>2, <1>3, <1>5, <1>6, <1>7, <1>8, <1>9, <1>10, <1>11

\* the next n bytes that are written to p
NextBytes(p, n) == [i \in 1..n |-> Written(p) + i]

\* One turn of pw_loop adds the next n numbers to the PIPE: fewer than it was
\* asked for only if the PIPE is full then.
LEMMA WriteTurn ==
    ASSUME PipeTypeOK, NEW a \in App, NEW count \in 1..MaxCount, WriteLoop(a, count),
           NEW p, p = PipeOf(a, TRUE)
    PROVE  \E n \in 0..count :
              /\ LoopEnd(a, p, n, count - n, "wwait")
              /\ data' \in [PIPE -> Seq(Nat)] /\ UNCHANGED got
              /\ Len(data'[p]) = Len(data[p]) + n /\ Len(data'[p]) <= PipeSize
              /\ data'[p] = data[p] \o NextBytes(p, n)
              /\ \A q \in PIPE \ {p} : data'[q] = data[q]
              /\ n < count => Len(data'[p]) = PipeSize
              /\ Len(data[p]) < PipeSize => n > 0
<1>0. p \in PIPE
  BY DEF PipeOf, PIPE
<1>1. PICK s \in Seq(Nat) : s = data[p] /\ Len(s) \in 0..PipeSize
  BY <1>0 DEF PipeTypeOK
<1>2. Written(p) \in Nat /\ PipeSize \in Nat
  <2>1. got[p] \in Seq(Nat)
    BY <1>0 DEF PipeTypeOK
  <2>2. Len(got[p]) \in Nat /\ Len(data[p]) \in Nat
    BY <1>1, <2>1, LenProperties
  <2>3. Len(got[p]) + Len(data[p]) \in Nat
    BY <2>2, PlusNat, Zenon
  <2>. QED BY <2>3, Sizes DEF Written
<1>3. PICK n \in 0..count : /\ n = Min({count, PipeSize - Len(s)}) /\ n <= PipeSize - Len(s)
                            /\ n < count => n = PipeSize - Len(s)
                            /\ Len(s) < PipeSize => n > 0
  <2>1. ASSUME NEW len \in 0..PipeSize
        PROVE  \E n \in 0..count :
                  /\ n = Min({count, PipeSize - len}) /\ n <= PipeSize - len
                  /\ n < count => n = PipeSize - len
                  /\ len < PipeSize => n > 0
    <3>1. PICK room \in Nat : room = PipeSize - len
      BY Sizes
    <3>2. count \in Nat
      BY Sizes
    <3>3. PICK n : n = Min({count, room})
      OBVIOUS
    <3>4. n \in Nat /\ n <= count /\ n <= room /\ (n = count \/ n = room)
      BY <3>2, <3>3, MinIs, Zenon
    <3>5. n \in 0..count /\ (n < count => n = room) /\ (room > 0 => n > 0)
      BY <3>2, <3>4
    <3>6. len < PipeSize => room > 0
      BY <3>1, Sizes
    <3>. QED BY <3>1, <3>3, <3>4, <3>5, <3>6
  <2>. QED BY ONLY <1>1, <2>1, Zenon
<1>4. PICK u : u = [i \in 1..n |-> Written(p) + i] /\ u = NextBytes(p, n)
  BY DEF NextBytes
<1>5. u \in Seq(Nat) /\ Len(u) = n
  <2>1. n \in Nat
    BY <1>3
  <2>. QED BY ONLY <1>2, <1>4, <2>1
<1>6. /\ LoopEnd(a, p, n, count - n, "wwait") /\ UNCHANGED got
      /\ data' = [data EXCEPT ![p] = @ \o u]
  BY <1>1, <1>3, <1>4, Zenon DEF WriteLoop
<1>7. /\ data'[p] = s \o u /\ \A q \in PIPE \ {p} : data'[q] = data[q]
  BY <1>0, <1>1, <1>6 DEF PipeTypeOK
<1>8. s \o u \in Seq(Nat) /\ Len(s \o u) = Len(s) + n
  BY ONLY <1>1, <1>5, JoinIs
<1>9. data' \in [PIPE -> Seq(Nat)]
  BY <1>0, <1>1, <1>6, <1>8 DEF PipeTypeOK
<1>10. /\ Len(s) + n <= PipeSize /\ (n < count => Len(s) + n = PipeSize)
  BY ONLY <1>1, <1>2, <1>3
<1>. QED BY <1>1, <1>3, <1>4, <1>6, <1>7, <1>8, <1>9, <1>10

\* what ByteStream says of one PIPE
Streams(p) == got[p] \o data[p] = [i \in 1..Written(p) |-> i]

\* What one turn of a loop does for the PIPE p of its caller a, which writes or
\* reads: n of count bytes are moved, and the byte stream goes on.
Turn(a, p, write, count, n) ==
    /\ LoopEnd(a, p, n, count - n, IF write THEN "wwait" ELSE "rwait")
    /\ data' \in [PIPE -> Seq(Nat)] /\ got' \in [PIPE -> Seq(Nat)]
    /\ Len(data'[p]) \in 0..PipeSize
    /\ \A q \in PIPE \ {p} : data'[q] = data[q] /\ got'[q] = got[q]
    /\ n < count => Len(data'[p]) = IF write THEN PipeSize ELSE 0
    /\ Len(data[p]) # (IF write THEN PipeSize ELSE 0) => n > 0
    /\ Streams(p) => Streams(p)'

\* who turns: an application that starts to read or write, or one whose wait is over
MayTurn(a, write, count) ==
    \/ pc[a] = "open" /\ a \in IF write THEN party.writers ELSE party.readers
    \/ pc[a] = (IF write THEN "wwait" ELSE "rwait") /\ a \in notes /\ count = left[a]

\* pr_loop is such a turn.
LEMMA ReadTurns ==
    ASSUME PipeTypeOK, NEW a \in App, NEW count \in 1..MaxCount, ReadLoop(a, count),
           NEW p, p = PipeOf(a, FALSE)
    PROVE  \E n \in 0..count : Turn(a, p, FALSE, count, n)
<1>1. PICK n \in 0..count :
              /\ LoopEnd(a, p, n, count - n, "rwait")
              /\ data' \in [PIPE -> Seq(Nat)] /\ got' \in [PIPE -> Seq(Nat)]
              /\ Len(data'[p]) = Len(data[p]) - n /\ Len(got'[p]) = Len(got[p]) + n
              /\ got'[p] \o data'[p] = got[p] \o data[p]
              /\ \A q \in PIPE \ {p} : data'[q] = data[q] /\ got'[q] = got[q]
              /\ n < count => Len(data'[p]) = 0
              /\ Len(data[p]) > 0 => n > 0
  BY ReadTurn
<1>2. /\ p \in PIPE /\ data[p] \in Seq(Nat) /\ got[p] \in Seq(Nat) /\ data'[p] \in Seq(Nat)
      /\ Len(data[p]) \in 0..PipeSize
  BY <1>1, PipeOfIs DEF PipeTypeOK
<1>3. Len(data'[p]) \in Nat /\ Len(got[p]) \in Nat
  BY <1>2, LenProperties
<1>4. \A m, x, y, z \in Nat : x = y - m => z + m + x = z + y /\ x <= y
  OBVIOUS
<1>5. Len(data'[p]) \in 0..PipeSize /\ Written(p)' = Written(p)
  <2>1. PICK x \in Nat, y \in 0..PipeSize, z \in Nat :
           x = Len(data'[p]) /\ y = Len(data[p]) /\ z = Len(got[p])
    BY <1>2, <1>3
  <2>2. x = y - n /\ Len(got'[p]) = z + n
    BY <1>1, <2>1
  <2>3. x \in 0..PipeSize /\ z + n + x = z + y
    BY <1>4, <2>2, Sizes
  <2>. QED BY <2>1, <2>2, <2>3, Zenon DEF Written
<1>6. Len(data[p]) # 0 => n > 0
  <2>1. \A x \in 0..PipeSize : x # 0 => x > 0
    BY Sizes
  <2>. QED BY <1>1, <1>2, <2>1, Zenon
<1>7. Streams(p) => Streams(p)'
  BY <1>1, <1>5, Zenon DEF Streams
<1>. QED BY <1>1, <1>5, <1>6, <1>7 DEF Turn

\* Numbers in a row, followed by the next ones, are numbers in a row.
LEMMA Numbers ==
    \A m, n \in Nat : [i \in 1..m |-> i] \o [i \in 1..n |-> m + i] = [i \in 1..(m + n) |-> i]
<1>. SUFFICES ASSUME NEW m \in Nat, NEW n \in Nat
              PROVE  [i \in 1..m |-> i] \o [i \in 1..n |-> m + i] = [i \in 1..(m + n) |-> i]
  OBVIOUS
<1>. DEFINE s == [i \in 1..m |-> i]
            t == [i \in 1..n |-> m + i]
            u == [i \in 1..(m + n) |-> i]
<1>1. s \in Seq(Nat) /\ Len(s) = m /\ \A i \in 1..m : s[i] = i
  OBVIOUS
<1>2. t \in Seq(Nat) /\ Len(t) = n /\ \A i \in 1..n : t[i] = m + i
  OBVIOUS
<1>3. u \in Seq(Nat) /\ Len(u) = m + n /\ \A i \in 1..(m + n) : u[i] = i
  OBVIOUS
<1>. HIDE DEF s, t, u
<1>4. s \o t \in Seq(Nat) /\ Len(s \o t) = m + n
  BY <1>1, <1>2
<1>5. \A i \in 1..(m + n) : (s \o t)[i] = i
  BY <1>1, <1>2
<1>6. s \o t = u
  BY <1>3, <1>4, <1>5, SeqEqual
<1>. QED BY <1>6 DEF s, t, u

\* pw_loop is such a turn.
LEMMA WriteTurns ==
    ASSUME PipeTypeOK, NEW a \in App, NEW count \in 1..MaxCount, WriteLoop(a, count),
           NEW p, p = PipeOf(a, TRUE)
    PROVE  \E n \in 0..count : Turn(a, p, TRUE, count, n)
<1>1. PICK n \in 0..count :
              /\ LoopEnd(a, p, n, count - n, "wwait")
              /\ data' \in [PIPE -> Seq(Nat)] /\ UNCHANGED got
              /\ Len(data'[p]) = Len(data[p]) + n /\ Len(data'[p]) <= PipeSize
              /\ data'[p] = data[p] \o NextBytes(p, n)
              /\ \A q \in PIPE \ {p} : data'[q] = data[q]
              /\ n < count => Len(data'[p]) = PipeSize
              /\ Len(data[p]) < PipeSize => n > 0
  BY WriteTurn
<1>2. /\ p \in PIPE /\ data[p] \in Seq(Nat) /\ got[p] \in Seq(Nat) /\ data'[p] \in Seq(Nat)
      /\ Len(data[p]) \in 0..PipeSize /\ got' \in [PIPE -> Seq(Nat)]
  <2>1. p \in PIPE
    BY PipeOfIs
  <2>. QED BY <1>1, <2>1, Zenon DEF PipeTypeOK
<1>3. Len(data'[p]) \in Nat /\ Len(got[p]) \in Nat
  BY <1>2, LenProperties, Zenon
<1>0. n \in Nat
  BY Sizes
<1>4. Len(data'[p]) \in 0..PipeSize
  <2>1. \A x \in Nat : x <= PipeSize => x \in 0..PipeSize
    BY Sizes
  <2>. QED BY <1>1, <1>3, <2>1, Zenon
<1>5. Len(data[p]) # PipeSize => n > 0
  <2>1. \A x \in 0..PipeSize : x # PipeSize => x < PipeSize
    BY Sizes
  <2>. QED BY <1>1, <1>2, <2>1, Zenon
<1>6. PICK m \in Nat : m = Written(p) /\ Written(p)' = m + n
  <2>1. PICK x \in Nat, y \in Nat : x = Len(got[p]) /\ y = Len(data[p])
    BY <1>2, <1>3, LenProperties
  <2>2. x + y \in Nat /\ x + (y + n) = x + y + n
    BY ONLY <1>0
  <2>3. Written(p) = x + y /\ Written(p)' = x + (y + n)
    BY <1>1, <2>1, Zenon DEF Written
  <2>. QED BY <2>2, <2>3
<1>7. PICK w : w = [i \in 1..n |-> m + i]
  OBVIOUS
<1>8. w \in Seq(Nat)
  BY ONLY <1>0, <1>7
<1>9. got'[p] \o data'[p] = (got[p] \o data[p]) \o w
  <2>1. got'[p] = got[p] /\ data'[p] = data[p] \o w
    BY <1>1, <1>6, <1>7, Zenon DEF NextBytes
  <2>2. got[p] \o (data[p] \o w) = (got[p] \o data[p]) \o w
    BY <1>2, <1>8, Joined, ZenonT(40)
  <2>. QED BY <2>1, <2>2, Zenon
<1>10. got[p] \o data[p] = [i \in 1..m |-> i] => got'[p] \o data'[p] = [i \in 1..(m + n) |-> i]
  BY <1>0, <1>7, <1>9, Numbers, Zenon
<1>11. Streams(p) => Streams(p)'
  BY <1>6, <1>10, Zenon DEF Streams
<1>. QED BY <1>1, <1>2, <1>4, <1>5, <1>11 DEF Turn

\* Reads and writes are turns, when they start and when they go on.
LEMMA Turns ==
    ASSUME CountInv, NEW a \in App,
           ReadAgain(a) \/ WriteAgain(a)
           \/ \E count \in 1..MaxCount : Read(a, count) \/ Write(a, count)
    PROVE  \E write \in BOOLEAN : \E count \in 1..MaxCount : \E n \in 0..count :
              MayTurn(a, write, count) /\ Turn(a, PipeOf(a, write), write, count, n)
<1>1. pc[a] \in {"rwait", "wwait"} => left[a] \in 1..MaxCount
  BY DEF CountInv, Unfinished, PipeTypeOK
<1>2. ASSUME ReadAgain(a)
      PROVE  \E n \in 0..left[a] : MayTurn(a, FALSE, left[a])
                                   /\ Turn(a, PipeOf(a, FALSE), FALSE, left[a], n)
  BY <1>1, <1>2, ReadTurns DEF CountInv, ReadAgain, MayTurn
<1>3. ASSUME WriteAgain(a)
      PROVE  \E n \in 0..left[a] : MayTurn(a, TRUE, left[a])
                                   /\ Turn(a, PipeOf(a, TRUE), TRUE, left[a], n)
  BY <1>1, <1>3, WriteTurns DEF CountInv, WriteAgain, MayTurn
<1>4. ASSUME NEW count \in 1..MaxCount, Read(a, count)
      PROVE  \E n \in 0..count : MayTurn(a, FALSE, count) /\ Turn(a, PipeOf(a, FALSE), FALSE, count, n)
  BY <1>4, ReadTurns DEF CountInv, Read, MayTurn
<1>5. ASSUME NEW count \in 1..MaxCount, Write(a, count)
      PROVE  \E n \in 0..count : MayTurn(a, TRUE, count) /\ Turn(a, PipeOf(a, TRUE), TRUE, count, n)
  BY <1>5, WriteTurns DEF CountInv, Write, MayTurn
<1>6. (ReadAgain(a) \/ WriteAgain(a)) => left[a] \in 1..MaxCount
  BY <1>1 DEF ReadAgain, WriteAgain
<1>. QED BY <1>2, <1>3, <1>4, <1>5, <1>6

-----------------------------------------------------------------------------
(* The reference counter *)

\* applications that have the pipe open
Openers == {b \in App : pc[b] # "off"}

\* The counter is a number no larger than there are applications.
LEMMA OpenersCount ==
    ASSUME CountInv
    PROVE  /\ IsFiniteSet(App) /\ IsFiniteSet(Openers) /\ refcnt = Cardinality(Openers)
           /\ refcnt \in Nat /\ Cardinality(App) \in Nat
<1>1. IsFiniteSet(App) /\ Openers \subseteq App
  BY PipeAssumption DEF Openers
<1>2. IsFiniteSet(Openers) /\ Cardinality(Openers) \in Nat /\ Cardinality(App) \in Nat
  BY <1>1, FS_Subset, FS_CardinalityType
<1>3. refcnt = Cardinality(Openers)
  BY DEF CountInv, RefCounted, Openers
<1>. QED BY <1>1, <1>2, <1>3

\* As many as are among the applications.
LEMMA OpenersFit ==
    ASSUME NEW S, S \subseteq App
    PROVE  IsFiniteSet(S) /\ Cardinality(S) \in 0..Cardinality(App)
<1>1. IsFiniteSet(App)
  BY PipeAssumption
<1>2. IsFiniteSet(S) /\ Cardinality(S) <= Cardinality(App)
  BY <1>1, FS_Subset
<1>3. Cardinality(S) \in Nat /\ Cardinality(App) \in Nat
  BY <1>1, <1>2, FS_CardinalityType
<1>. QED BY <1>2, <1>3

\* Creating a pipe keeps CountInv: without a pipe nobody has one open.
LEMMA CreateCount ==
    ASSUME CountInv, Create PROVE CountInv'
<1>1. /\ ~exists /\ party' \in Parties /\ exists' = TRUE /\ flag' = party'.bi /\ refcnt' = 0
      /\ data' = [p \in PIPE |-> << >>] /\ waiting' = [p \in PIPE |-> NONE]
      /\ got' = [p \in PIPE |-> << >>]
      /\ UNCHANGED << pc, creator, left, unsel, notes, wild >>
  BY DEF Create
<1>2. refcnt = 0
  BY <1>1 DEF CountInv, RefCounted
<1>3. RefCounted' /\ Unfinished'
  BY <1>1, <1>2 DEF CountInv, RefCounted, Unfinished
<1>4. << >> \in Seq(Nat) /\ Len(<< >>) = 0
  OBVIOUS
<1>5. /\ data' \in [PIPE -> Seq(Nat)] /\ got' \in [PIPE -> Seq(Nat)]
      /\ \A p \in PIPE : Len(data'[p]) \in 0..PipeSize
      /\ waiting' \in [PIPE -> App \cup {NONE}]
  BY <1>1, <1>4, Sizes
<1>6. flag' \in BOOLEAN
  BY <1>1, PipeAssumption
<1>7. PipeTypeOK'
  BY <1>1, <1>2, <1>5, <1>6 DEF CountInv, PipeTypeOK
<1>. QED BY <1>3, <1>7 DEF CountInv

\* upipe_open and bipipe_open count their caller.
LEMMA OpenCount ==
    ASSUME CountInv, NEW a \in App, Open(a) PROVE CountInv'
<1>1. /\ exists /\ pc[a] = "off" /\ refcnt' = refcnt + 1
      /\ creator' = IF flag THEN creator \cup {a} ELSE creator
      /\ flag' = FALSE /\ pc' = [pc EXCEPT ![a] = "open"]
      /\ UNCHANGED << party, data, waiting, exists, left, unsel, notes, got, wild >>
  BY DEF Open
<1>2. pc \in [App -> {"off", "open"} \cup Waits]
  BY DEF CountInv, PipeTypeOK
<1>3. Openers' = Openers \cup {a} /\ a \notin Openers /\ Openers' \subseteq App
  BY <1>1, <1>2 DEF Openers
<1>4. refcnt' = Cardinality(Openers') /\ Cardinality(Openers') \in 0..Cardinality(App)
  BY <1>1, <1>3, OpenersCount, OpenersFit, FS_AddElement
<1>5. RefCounted' /\ Unfinished'
  BY <1>1, <1>2, <1>4 DEF CountInv, RefCounted, Unfinished, Openers
<1>6. PipeTypeOK'
  BY <1>1, <1>2, <1>4 DEF CountInv, PipeTypeOK
<1>. QED BY <1>5, <1>6 DEF CountInv

\* upipe_close and bipipe_close count down, to 0 when they remove the pipe.
LEMMA CloseCount ==
    ASSUME CountInv, NEW a \in App, pc[a] # "off", CloseFd(a) PROVE CountInv'
<1>1. /\ waiting' = [p \in PIPE |-> NONE]
      /\ notes' = (notes \cup Sleepers(PIPE)) \ {a}
      /\ unsel' = [b \in App |-> IF b = a THEN "none"
                                 ELSE IF b \in Sleepers(PIPE) THEN "done" ELSE unsel[b]]
      /\ refcnt' = refcnt - 1 /\ exists' = (refcnt > 1) /\ creator' = creator \ {a}
      /\ pc' = [pc EXCEPT ![a] = "off"] /\ left' = [left EXCEPT ![a] = 0]
      /\ UNCHANGED << party, data, flag, got, wild >>
  BY DEF CloseFd
<1>2. /\ pc \in [App -> {"off", "open"} \cup Waits] /\ Sleepers(PIPE) \subseteq App
      /\ left \in [App -> 0..MaxCount]
  BY DEF CountInv, PipeTypeOK, Sleepers
<1>3. Openers' = Openers \ {a} /\ a \in Openers /\ Openers' \subseteq App
  BY <1>1, <1>2 DEF Openers
<1>4. /\ refcnt' = Cardinality(Openers') /\ Cardinality(Openers') \in 0..Cardinality(App)
      /\ refcnt \in Nat
  BY <1>1, <1>3, OpenersCount, OpenersFit, FS_RemoveElement
<1>5. exists' \/ refcnt' = 0
  <2>1. refcnt' \in Nat
    BY <1>4, OpenersCount
  <2>2. refcnt' = refcnt - 1 /\ refcnt \in Nat /\ (refcnt > 1 => exists')
    BY <1>1, <1>4, Zenon
  <2>. QED BY ONLY <2>1, <2>2
<1>6. RefCounted' /\ Unfinished'
  BY <1>1, <1>2, <1>4, <1>5 DEF CountInv, RefCounted, Unfinished, Openers
<1>7. /\ waiting' \in [PIPE -> App \cup {NONE}] /\ notes' \subseteq App
      /\ unsel' \in [App -> {"none", "armed", "done", "appl"}] /\ left' \in [App -> 0..MaxCount]
      /\ creator' \subseteq App /\ exists' \in BOOLEAN
      /\ pc' \in [App -> {"off", "open"} \cup Waits]
  BY <1>1, <1>2, Sizes DEF CountInv, PipeTypeOK
<1>8. PipeTypeOK'
  BY <1>1, <1>4, <1>7 DEF CountInv, PipeTypeOK
<1>. QED BY <1>6, <1>8 DEF CountInv

\* Steps in which nobody opens or closes the pipe.
LEMMA SameCount ==
    ASSUME CountInv, NEW a \in App, NEW new \in {"open"} \cup Waits, pc[a] # "off",
           pc' = [pc EXCEPT ![a] = new], UNCHANGED << refcnt, exists >>
    PROVE  RefCounted'
<1>1. pc \in [App -> {"off", "open"} \cup Waits]
  BY DEF CountInv, PipeTypeOK
<1>2. {b \in App : pc'[b] # "off"} = {b \in App : pc[b] # "off"}
  BY <1>1 DEF Waits
<1>. QED BY <1>2 DEF CountInv, RefCounted

\* A turn of a read or write loop keeps the counter.
LEMMA TurnCount ==
    ASSUME CountInv, NEW a \in App, NEW write \in BOOLEAN, NEW count \in 1..MaxCount,
           NEW n \in 0..count, MayTurn(a, write, count), Turn(a, PipeOf(a, write), write, count, n)
    PROVE  CountInv'
<1>. DEFINE p == PipeOf(a, write)
            where == IF write THEN "wwait" ELSE "rwait"
<1>0. p \in PIPE /\ where \in Waits /\ count - n \in 0..MaxCount /\ n \in Nat
  BY PipeOfIs, Sizes DEF Waits
<1>1. /\ LoopEnd(a, p, n, count - n, where)
      /\ data' \in [PIPE -> Seq(Nat)] /\ got' \in [PIPE -> Seq(Nat)]
      /\ Len(data'[p]) \in 0..PipeSize
      /\ \A q \in PIPE \ {p} : data'[q] = data[q] /\ got'[q] = got[q]
  BY DEF Turn
<1>. HIDE DEF p, where
<1>2. \A q \in PIPE : Len(data'[q]) \in 0..PipeSize
  BY <1>1 DEF CountInv, PipeTypeOK
<1>3. PipeTypeOK'
  BY <1>0, <1>1, <1>2, LoopEndType DEF CountInv
<1>. DEFINE blocks == count - n > 0 /\ refcnt > 1
<1>4. /\ pc' = [pc EXCEPT ![a] = IF blocks THEN where ELSE "open"]
      /\ left' = [left EXCEPT ![a] = IF blocks THEN count - n ELSE 0]
      /\ UNCHANGED << refcnt, exists >>
  BY <1>1 DEF LoopEnd
<1>5. blocks => count - n > 0
  OBVIOUS
<1>. HIDE DEF blocks
<1>6. pc[a] # "off" /\ (IF blocks THEN where ELSE "open") \in {"open"} \cup Waits
  BY <1>0 DEF MayTurn
<1>7. RefCounted'
  BY <1>4, <1>6, SameCount
<1>8. Unfinished'
  BY <1>4, <1>5 DEF CountInv, PipeTypeOK, Unfinished
<1>. QED BY <1>3, <1>7, <1>8 DEF CountInv

\* Fselect keeps the counter.
LEMMA SelectCount ==
    ASSUME CountInv, NEW a \in App, NEW b \in BOOLEAN, Select(a, b) \/ SelectRet(a, b)
    PROVE  CountInv'
<1>1. PICK p \in PIPE, new \in {"open", "rsel", "wsel"}, us \in {"none", "armed", "appl"} :
         /\ pc[a] # "off" /\ pc' = [pc EXCEPT ![a] = new] /\ unsel' = [unsel EXCEPT ![a] = us]
         /\ waiting' = [waiting EXCEPT ![p] = a] \/ waiting' = [waiting EXCEPT ![p] = NONE]
            \/ waiting' = waiting
         /\ notes' \subseteq notes /\ wild' \in BOOLEAN
         /\ UNCHANGED << party, data, refcnt, flag, exists, creator, left, got >>
  <2>1. CASE Select(a, b)
    <3>1. CASE waiting[PipeOf(a, b)] = NONE
      BY <2>1, <3>1, PipeOfIs DEF Select, CountInv, PipeTypeOK
    <3>2. CASE waiting[PipeOf(a, b)] # NONE
      <4>1. waiting' = waiting
        BY <2>1, <3>2, PipeOfIs DEF Select, CountInv, PipeTypeOK
      <4>. QED BY <2>1, <3>2, <4>1, PipeOfIs DEF Select, CountInv, PipeTypeOK
    <3>. QED BY <3>1, <3>2
  <2>2. CASE SelectRet(a, b)
    BY <2>2, PipeOfIs DEF SelectRet
  <2>. QED BY <2>1, <2>2
<1>2. RefCounted'
  BY <1>1, SameCount DEF Waits
<1>3. Unfinished'
  BY <1>1 DEF CountInv, PipeTypeOK, Unfinished
<1>4. /\ waiting' \in [PIPE -> App \cup {NONE}] /\ notes' \subseteq App
      /\ unsel' \in [App -> {"none", "armed", "done", "appl"}]
      /\ pc' \in [App -> {"off", "open"} \cup Waits]
  BY <1>1 DEF CountInv, PipeTypeOK, Waits
<1>5. PipeTypeOK'
  BY <1>1, <1>4 DEF CountInv, PipeTypeOK
<1>. QED BY <1>2, <1>3, <1>5 DEF CountInv

\* Every step keeps CountInv.
LEMMA NextCount == CountInv /\ [Next]_vars => CountInv'
<1>. SUFFICES ASSUME CountInv, [Next]_vars PROVE CountInv'
  OBVIOUS
<1>1. CASE UNCHANGED vars
  BY <1>1 DEF vars, CountInv, PipeTypeOK, RefCounted, Unfinished
<1>2. CASE Create
  BY <1>2, CreateCount
<1>3. ASSUME NEW a \in App, AppStep(a) PROVE CountInv'
  <2>1. CASE Open(a)
    BY <2>1, OpenCount
  <2>2. CASE Close(a) \/ Kill(a)
    <3>1. pc[a] # "off" /\ CloseFd(a)
      BY <2>2 DEF Close, Kill, Waits
    <3>. QED BY <3>1, CloseCount
  <2>3. CASE ReadAgain(a) \/ WriteAgain(a)
             \/ \E count \in 1..MaxCount : Read(a, count) \/ Write(a, count)
    BY <2>3, Turns, TurnCount
  <2>4. CASE \E b \in BOOLEAN : Select(a, b) \/ SelectRet(a, b)
    BY <2>4, SelectCount
  <2>5. CASE SelectJumps(a)
    BY <2>5 DEF SelectJumps, CountInv, PipeTypeOK, RefCounted, Unfinished
  <2>. QED BY <1>3, <2>1, <2>2, <2>3, <2>4, <2>5 DEF AppStep
<1>. QED BY <1>1, <1>2, <1>3 DEF Next

\* A pipe that nobody has created yet.
LEMMA InitCount == Init => CountInv
<1>. SUFFICES ASSUME Init PROVE CountInv
  OBVIOUS
<1>1. {b \in App : pc[b] # "off"} = {}
  BY DEF Init
<1>2. RefCounted
  BY <1>1, FS_EmptySet DEF Init, RefCounted
<1>3. Unfinished
  BY DEF Init, Unfinished
<1>4. << >> \in Seq(Nat) /\ Len(<< >>) = 0
  OBVIOUS
<1>5. /\ data \in [PIPE -> Seq(Nat)] /\ got \in [PIPE -> Seq(Nat)]
      /\ \A p \in PIPE : Len(data[p]) \in 0..PipeSize
      /\ waiting \in [PIPE -> App \cup {NONE}]
  BY <1>4, Sizes DEF Init
<1>6. refcnt \in 0..Cardinality(App) /\ left \in [App -> 0..MaxCount]
  BY Sizes, OpenersFit DEF Init
<1>7. PipeTypeOK
  BY <1>5, <1>6 DEF Init, PipeTypeOK
<1>. QED BY <1>2, <1>3, <1>7 DEF CountInv

\* CountInv holds in every reachable state.
LEMMA CountAlways == Spec => []CountInv
BY InitCount, NextCount, PTL DEF Spec

\* A PIPE never holds more than it has room for, and pipe_waiting names an
\* application or nobody, for any applications, pipes and sizes.
THEOREM PipesTyped == Spec => []PipeTypeOK
<1>1. CountInv => PipeTypeOK
  BY DEF CountInv
<1>. QED BY <1>1, CountAlways, PTL

\* upipe_refcnt and bipipe_refcnt always count the applications that have the
\* pipe open, whoever is terminated in whatever wait.
THEOREM PipesCounted == Spec => []RefCounted
<1>1. CountInv => RefCounted
  BY DEF CountInv
<1>. QED BY <1>1, CountAlways, PTL

-----------------------------------------------------------------------------
(* The byte stream *)

\* Two empty sequences have no elements.
LEMMA Zero == \A i, j : i = 0 /\ j = 0 => i + j = 0
OBVIOUS

\* Every step but Create goes on with the byte streams of both PIPEs, and Create
\* begins new ones.
LEMMA NextStream ==
    ASSUME CountInv, ByteStream, [Next]_vars PROVE ByteStream'
<1>1. ASSUME UNCHANGED << data, got >> PROVE ByteStream'
  BY <1>1 DEF ByteStream, Written
<1>2. CASE Create
  <2>1. \A p \in PIPE : data'[p] = << >> /\ got'[p] = << >>
    BY <1>2 DEF Create
  <2>3. [i \in 1..0 |-> i] = << >>
    OBVIOUS
  <2>4. ASSUME NEW p \in PIPE PROVE got'[p] \o data'[p] = [i \in 1..Written(p)' |-> i]
    <3>1. got'[p] \o data'[p] = << >>
      BY <2>1
    <3>2. Len(got'[p]) = 0 /\ Len(data'[p]) = 0
      BY <2>1
    <3>3. Written(p)' = 0
      BY <3>2, Zero, Zenon DEF Written
    <3>. QED BY <2>3, <3>1, <3>3, Zenon
  <2>. QED BY <2>4, Zenon DEF ByteStream
<1>3. ASSUME NEW a \in App, NEW write \in BOOLEAN, NEW count, NEW n,
             Turn(a, PipeOf(a, write), write, count, n)
      PROVE  ByteStream'
  <2>1. ASSUME NEW q \in PIPE PROVE Streams(q)'
    <3>0. Streams(q)
      BY DEF ByteStream, Streams
    <3>1. CASE q = PipeOf(a, write)
      <4>1. \A p : Turn(a, p, write, count, n) /\ Streams(p) => Streams(p)'
        BY Zenon DEF Turn
      <4>. QED BY <1>3, <3>0, <3>1, <4>1, Zenon
    <3>2. CASE q # PipeOf(a, write)
      <4>1. data'[q] = data[q] /\ got'[q] = got[q]
        BY <1>3, <3>2 DEF Turn
      <4>. QED BY <3>0, <4>1, Zenon DEF Streams, Written
    <3>. QED BY <3>1, <3>2
  <2>. QED BY <2>1, Zenon DEF ByteStream, Streams
<1>4. ASSUME NEW a \in App, AppStep(a) PROVE ByteStream'
  <2>1. CASE \/ Open(a) \/ Close(a) \/ Kill(a) \/ SelectJumps(a)
             \/ \E b \in BOOLEAN : Select(a, b) \/ SelectRet(a, b)
    BY <1>1, <2>1 DEF Open, Close, Kill, CloseFd, Select, SelectRet, SelectJumps
  <2>2. CASE ReadAgain(a) \/ WriteAgain(a)
             \/ \E count \in 1..MaxCount : Read(a, count) \/ Write(a, count)
    BY <1>3, <2>2, Turns
  <2>. QED BY <1>4, <2>1, <2>2 DEF AppStep
<1>. QED BY <1>1, <1>2, <1>4 DEF Next, vars

\* A pipe is a byte stream: what has been read, followed by what is in the PIPE,
\* is what was written, in order and without a gap, for any sizes of reads and
\* writes, any number of readers and writers and any order of their turns.
THEOREM PipeIsStream == Spec => []ByteStream
<1>1. Init => ByteStream
  <2>. SUFFICES ASSUME Init PROVE ByteStream
    OBVIOUS
  <2>1. \A p \in PIPE : data[p] = << >> /\ got[p] = << >>
    BY DEF Init
  <2>3. [i \in 1..0 |-> i] = << >>
    OBVIOUS
  <2>4. ASSUME NEW p \in PIPE PROVE got[p] \o data[p] = [i \in 1..Written(p) |-> i]
    <3>1. got[p] \o data[p] = << >>
      BY <2>1
    <3>2. Len(got[p]) = 0 /\ Len(data[p]) = 0
      BY <2>1
    <3>3. Written(p) = 0
      BY <3>2, Zero, Zenon DEF Written
    <3>. QED BY <2>3, <3>1, <3>3, Zenon
  <2>. QED BY <2>4, Zenon DEF ByteStream
<1>2. CountInv /\ ByteStream /\ [Next]_vars => ByteStream'
  BY NextStream
<1>. QED BY <1>1, <1>2, CountAlways, PTL DEF Spec

-----------------------------------------------------------------------------
(* Who sleeps *)

\* the PIPE an application waits for
Side(b) == PipeOf(b, pc[b] \in {"wwait", "wsel"})

\* SleeperWaits for one PIPE
SleeperOK(p) ==
    waiting[p] # NONE =>
       /\ exists /\ pc[waiting[p]] \in Waits /\ unsel[waiting[p]] = "armed"
       /\ Side(waiting[p]) = p

\* SleeperWaits, PIPE by PIPE, as long as no unselect has gone wild.
LEMMA SleepersOK == ~wild => (SleeperWaits <=> \A p \in PIPE : SleeperOK(p))
BY DEF SleeperWaits, SleeperOK, Side

\* The PIPE of an application changes only with its own role or state.
LEMMA SideKept ==
    ASSUME NEW b, UNCHANGED party, (b \in creator)' <=> (b \in creator), pc'[b] = pc[b]
    PROVE  Side(b)' = Side(b)
BY DEF Side, PipeOf

\* A sleeper keeps what SleeperWaits says of it when a step leaves it alone.
LEMMA SleeperKept ==
    ASSUME NEW p \in PIPE, SleeperOK(p), UNCHANGED party, waiting'[p] = waiting[p],
           exists => exists', NEW b, b = waiting[p],
           (b \in creator)' <=> (b \in creator), pc'[b] = pc[b], unsel'[b] = unsel[b]
    PROVE  SleeperOK(p)'
BY SideKept DEF SleeperOK

\* Whoever has the CPU is in no pipe_waiting.
LEMMA AwakeNotListed ==
    ASSUME SleepInv, ~wild, NEW a, pc[a] = "open" \/ pc[a] = "off" \/ a \in notes, NEW p \in PIPE,
           waiting[p] = a, a # NONE
    PROVE  FALSE
<1>1. SleeperOK(p)
  BY SleepersOK DEF SleepInv
<1>2. pc[a] \in Waits /\ unsel[a] = "armed"
  BY <1>1 DEF SleeperOK
<1>3. a \notin notes
  BY <1>2 DEF SleepInv, Notified
<1>. QED BY <1>2, <1>3 DEF Waits

\* A turn wakes up who sleeps on the PIPE, or joins it, and disturbs nobody else.
LEMMA TurnSleep ==
    ASSUME SleepInv, ~wild, NEW a \in App, NEW write \in BOOLEAN, NEW count \in 1..MaxCount,
           NEW n \in 0..count, MayTurn(a, write, count), Turn(a, PipeOf(a, write), write, count, n)
    PROVE  Notified' /\ SleeperWaits'
<1>. DEFINE p == PipeOf(a, write)
            where == IF write THEN "wwait" ELSE "rwait"
            blocks == count - n > 0 /\ refcnt > 1
            woken == IF n > 0 THEN Sleepers({p}) ELSE {}
<1>0. p \in PIPE /\ where \in Waits
  BY PipeOfIs DEF Waits
<1>1. /\ waiting' = [waiting EXCEPT ![p] = IF blocks THEN a ELSE IF n > 0 THEN NONE ELSE @]
      /\ unsel' = [b \in App |-> IF b = a THEN IF blocks THEN "armed" ELSE "none"
                                 ELSE IF b \in woken THEN "done" ELSE unsel[b]]
      /\ notes' = (IF pc[a] = "open" THEN notes ELSE notes \ {a}) \cup woken
      /\ pc' = [pc EXCEPT ![a] = IF blocks THEN where ELSE "open"]
      /\ UNCHANGED << party, refcnt, flag, exists, creator >>
  BY DEF Turn, LoopEnd
<1>2. /\ waiting \in [PIPE -> App \cup {NONE}] /\ pc \in [App -> {"off", "open"} \cup Waits]
      /\ unsel \in [App -> {"none", "armed", "done", "appl"}] /\ notes \subseteq App /\ NONE \notin App
  BY PipeAssumption DEF SleepInv, CountInv, PipeTypeOK
<1>3. blocks => exists
  <2>1. blocks => refcnt # 0
    BY OpenersCount DEF SleepInv
  <2>. QED BY <2>1 DEF SleepInv, CountInv, RefCounted
<1>4. pc[a] = "open" \/ a \in notes
  BY DEF MayTurn
<1>5. \A q \in PIPE : waiting[q] # a
  BY <1>2, <1>4, AwakeNotListed
<1>6. \A q \in PIPE : SleeperOK(q)
  BY SleepersOK DEF SleepInv
<1>7. \A b \in woken : b = waiting[p] /\ b \in App /\ n > 0 /\ b # a /\ pc[b] \in Waits
  BY <1>0, <1>2, <1>5, <1>6 DEF Sleepers, SleeperOK
<1>8. pc[a] = "open" => a \notin notes
  BY DEF SleepInv, Notified, Waits
<1>. HIDE DEF p, where, blocks, woken
<1>9. Notified'
  <2>1. ASSUME NEW b \in notes' PROVE pc'[b] \in Waits /\ unsel'[b] = "done"
    <3>1. b \in App /\ b # a /\ pc[b] \in Waits /\ (b \in woken \/ unsel[b] = "done")
      BY <1>1, <1>2, <1>7, <1>8, <2>1 DEF SleepInv, Notified
    <3>. QED BY <1>1, <1>2, <3>1
  <2>. QED BY <2>1 DEF Notified
<1>10. ASSUME NEW q \in PIPE PROVE SleeperOK(q)'
  <2>1. CASE q = p /\ blocks
    <3>1. waiting'[p] = a /\ pc'[a] = where /\ unsel'[a] = "armed" /\ exists'
      BY <1>0, <1>1, <1>2, <1>3, <2>1
    <3>2. Side(a)' = p
      BY <1>1, <3>1 DEF Side, PipeOf, p, where
    <3>. QED BY <1>0, <2>1, <3>1, <3>2 DEF SleeperOK
  <2>2. CASE q = p /\ ~blocks /\ n > 0
    <3>1. waiting'[q] = NONE
      BY <1>0, <1>1, <1>2, <2>2
    <3>. QED BY <3>1 DEF SleeperOK
  <2>3. CASE q # p \/ (~blocks /\ ~(n > 0))
    <3>1. waiting'[q] = waiting[q] /\ SleeperOK(q)
      BY <1>0, <1>1, <1>2, <1>6, <2>3
    <3>2. CASE waiting[q] = NONE
      BY <3>1, <3>2 DEF SleeperOK
    <3>3. CASE waiting[q] # NONE
      <4>1. waiting[q] \in App /\ waiting[q] # a /\ Side(waiting[q]) = q
        BY <1>2, <1>5, <3>1, <3>3 DEF SleeperOK
      <4>2. waiting[q] \notin woken
        <5>1. SUFFICES ASSUME waiting[q] \in woken PROVE FALSE
          OBVIOUS
        <5>2. waiting[q] = waiting[p] /\ n > 0 /\ waiting[p] # NONE
          BY <1>7, <3>3, <5>1
        <5>3. Side(waiting[p]) = p
          BY <1>0, <1>6, <5>2 DEF SleeperOK
        <5>. QED BY <2>3, <4>1, <5>2, <5>3
      <4>3. pc'[waiting[q]] = pc[waiting[q]] /\ unsel'[waiting[q]] = unsel[waiting[q]]
        BY <1>1, <1>2, <4>1, <4>2
      <4>. QED BY <1>1, <3>1, <4>3, SleeperKept
    <3>. QED BY <3>2, <3>3
  <2>. QED BY <2>1, <2>2, <2>3
<1>11. SleeperWaits'
  BY <1>10 DEF SleeperWaits, SleeperOK, Side
<1>. QED BY <1>9, <1>11

\* Closing the pipe leaves nobody in pipe_waiting, and gives who was there an
\* IOcomplete.
LEMMA CloseSleep ==
    ASSUME SleepInv, ~wild, NEW a \in App, CloseFd(a) PROVE Notified' /\ SleeperWaits'
<1>1. /\ waiting' = [p \in PIPE |-> NONE]
      /\ notes' = (notes \cup Sleepers(PIPE)) \ {a}
      /\ unsel' = [b \in App |-> IF b = a THEN "none"
                                 ELSE IF b \in Sleepers(PIPE) THEN "done" ELSE unsel[b]]
      /\ pc' = [pc EXCEPT ![a] = "off"]
  BY DEF CloseFd
<1>2. /\ waiting \in [PIPE -> App \cup {NONE}] /\ pc \in [App -> {"off", "open"} \cup Waits]
      /\ unsel \in [App -> {"none", "armed", "done", "appl"}] /\ notes \subseteq App
  BY DEF SleepInv, CountInv, PipeTypeOK
<1>3. \A b \in Sleepers(PIPE) : b \in App /\ pc[b] \in Waits
  BY <1>2, SleepersOK DEF SleepInv, Sleepers, SleeperOK
<1>4. ASSUME NEW b \in notes' PROVE pc'[b] \in Waits /\ unsel'[b] = "done"
  <2>1. b \in App /\ b # a /\ pc[b] \in Waits /\ (b \in Sleepers(PIPE) \/ unsel[b] = "done")
    BY <1>1, <1>2, <1>3, <1>4 DEF SleepInv, Notified
  <2>. QED BY <1>1, <1>2, <2>1
<1>5. SleeperWaits'
  BY <1>1 DEF SleeperWaits
<1>. QED BY <1>4, <1>5 DEF Notified

\* Opening a pipe, and Fselect, disturb nobody who waits, unless an unselect
\* goes wild.
LEMMA OtherSleep ==
    ASSUME SleepInv, ~wild, NEW a \in App,
           Open(a) \/ \E b \in BOOLEAN : Select(a, b) \/ SelectRet(a, b)
    PROVE  Notified' /\ SleeperWaits'
<1>1. /\ waiting \in [PIPE -> App \cup {NONE}] /\ pc \in [App -> {"off", "open"} \cup Waits]
      /\ unsel \in [App -> {"none", "armed", "done", "appl"}] /\ notes \subseteq App
      /\ creator \subseteq App /\ NONE \notin App
  BY PipeAssumption DEF SleepInv, CountInv, PipeTypeOK
<1>2. \A q \in PIPE : SleeperOK(q)
  BY SleepersOK DEF SleepInv
<1>3. ASSUME \A q \in PIPE : SleeperOK(q)' PROVE SleeperWaits'
  BY <1>3 DEF SleeperWaits, SleeperOK, Side
<1>4. CASE Open(a)
  <2>1. /\ exists /\ pc[a] = "off" /\ pc' = [pc EXCEPT ![a] = "open"]
        /\ creator' = IF flag THEN creator \cup {a} ELSE creator
        /\ UNCHANGED << party, waiting, exists, unsel, notes >>
    BY <1>4 DEF Open
  <2>2. a \notin notes /\ \A q \in PIPE : waiting[q] # a
    BY <1>1, <2>1, AwakeNotListed DEF SleepInv, Notified, Waits
  <2>3. \A b : b # a => pc'[b] = pc[b] /\ ((b \in creator)' <=> (b \in creator))
    BY <1>1, <2>1
  <2>4. Notified'
    BY <2>1, <2>2, <2>3 DEF SleepInv, Notified
  <2>5. ASSUME NEW q \in PIPE PROVE SleeperOK(q)'
    BY <1>2, <2>1, <2>2, <2>3, SleeperKept
  <2>. QED BY <1>3, <2>4, <2>5
<1>5. ASSUME NEW w \in BOOLEAN, Select(a, w) PROVE Notified' /\ SleeperWaits'
  <2>. DEFINE p == PipeOf(a, w)
  <2>0. p \in PIPE
    BY PipeOfIs
  <2>1. /\ pc[a] = "open"
        /\ waiting' = [waiting EXCEPT ![p] = IF waiting[p] = NONE THEN a ELSE @]
        /\ unsel' = [unsel EXCEPT ![a] = IF waiting[p] = NONE THEN "armed" ELSE "appl"]
        /\ pc' = [pc EXCEPT ![a] = IF w THEN "wsel" ELSE "rsel"]
        /\ UNCHANGED << party, refcnt, exists, creator, notes >>
    BY <1>5 DEF Select
  <2>2. a \notin notes /\ \A q \in PIPE : waiting[q] # a
    BY <1>1, <2>1, AwakeNotListed DEF SleepInv, Notified, Waits
  <2>3. \A b : b # a => pc'[b] = pc[b] /\ unsel'[b] = unsel[b]
    BY <1>1, <2>1
  <2>4. Notified'
    BY <2>1, <2>2, <2>3 DEF SleepInv, Notified
  <2>5. exists
    <3>1. a \in Openers
      BY <2>1 DEF Openers
    <3>2. refcnt # 0
      BY <3>1, OpenersCount, FS_EmptySet DEF SleepInv
    <3>. QED BY <3>2 DEF SleepInv, CountInv, RefCounted
  <2>6. Side(a)' = p
    BY <1>1, <2>1 DEF Side, PipeOf
  <2>. HIDE DEF p
  <2>7. ASSUME NEW q \in PIPE PROVE SleeperOK(q)'
    <3>1. CASE q = p /\ waiting[p] = NONE
      <4>1. waiting'[q] = a /\ pc'[a] \in Waits /\ unsel'[a] = "armed" /\ exists' /\ Side(a)' = q
        BY <1>1, <2>0, <2>1, <2>5, <2>6, <3>1 DEF Waits
      <4>. QED BY <4>1 DEF SleeperOK
    <3>2. CASE q # p \/ waiting[p] # NONE
      <4>1. waiting'[q] = waiting[q]
        BY <1>1, <2>1, <3>2
      <4>. QED BY <1>2, <2>1, <2>2, <2>3, <4>1, SleeperKept
    <3>. QED BY <3>1, <3>2
  <2>. QED BY <1>3, <2>4, <2>7
<1>6. ASSUME NEW timeout \in BOOLEAN, SelectRet(a, timeout) PROVE Notified' /\ SleeperWaits'
  <2>. DEFINE p == PipeOf(a, pc[a] = "wsel")
  <2>0. p \in PIPE
    BY PipeOfIs
  <2>1. /\ pc[a] \in {"rsel", "wsel"}
        /\ wild' = (unsel[a] = "armed" /\ pc[a] = "wsel")
        /\ waiting' = IF unsel[a] = "armed" /\ pc[a] = "rsel" THEN [waiting EXCEPT ![p] = NONE]
                      ELSE waiting
        /\ unsel' = [unsel EXCEPT ![a] = "none"] /\ notes' = notes \ {a}
        /\ pc' = [pc EXCEPT ![a] = "open"]
        /\ UNCHANGED << party, refcnt, exists, creator >>
    BY <1>6 DEF SelectRet
  <2>2. \A b : b # a => pc'[b] = pc[b] /\ unsel'[b] = unsel[b]
    BY <1>1, <2>1
  <2>3. Notified'
    BY <2>1, <2>2 DEF SleepInv, Notified
  <2>4. p = Side(a)
    BY <2>1 DEF Side
  <2>. HIDE DEF p
  <2>5. ASSUME ~wild', NEW q \in PIPE PROVE SleeperOK(q)'
    <3>1. CASE waiting[q] = a
      <4>1. a # NONE /\ unsel[a] = "armed" /\ Side(a) = q
        BY <1>1, <1>2, <3>1 DEF SleeperOK
      <4>2. pc[a] = "rsel"
        BY <2>1, <2>5, <4>1
      <4>3. waiting'[q] = NONE
        BY <1>1, <2>1, <2>4, <4>1, <4>2
      <4>. QED BY <4>3 DEF SleeperOK
    <3>2. CASE waiting[q] # a
      <4>1. waiting'[q] = waiting[q] \/ waiting'[q] = NONE
        BY <1>1, <2>0, <2>1
      <4>2. CASE waiting'[q] = NONE
        BY <4>2 DEF SleeperOK
      <4>3. CASE waiting'[q] = waiting[q]
        BY <1>2, <2>1, <2>2, <3>2, <4>3, SleeperKept
      <4>. QED BY <4>1, <4>2, <4>3
    <3>. QED BY <3>1, <3>2
  <2>6. SleeperWaits'
    BY <2>5 DEF SleeperWaits, SleeperOK, Side
  <2>. QED BY <2>3, <2>6
<1>. QED BY <1>4, <1>5, <1>6

\* Every step keeps SleepInv.
LEMMA NextSleep == SleepInv /\ [Next]_vars => SleepInv'
<1>. SUFFICES ASSUME SleepInv, [Next]_vars PROVE Notified' /\ SleeperWaits'
  BY NextCount DEF SleepInv
<1>1. CASE UNCHANGED vars
  BY <1>1 DEF vars, SleepInv, Notified, SleeperWaits, PipeOf
<1>2. CASE Create
  <2>1. SleeperWaits'
    BY <1>2 DEF Create, SleeperWaits
  <2>. QED BY <1>2, <2>1 DEF Create, SleepInv, Notified
<1>3. ASSUME ~wild, NEW a \in App, AppStep(a) PROVE Notified' /\ SleeperWaits'
  <2>1. CASE Close(a) \/ Kill(a)
    BY <1>3, <2>1, CloseSleep DEF Close, Kill
  <2>2. CASE ReadAgain(a) \/ WriteAgain(a)
             \/ \E count \in 1..MaxCount : Read(a, count) \/ Write(a, count)
    BY <1>3, <2>2, Turns, TurnSleep DEF SleepInv
  <2>3. CASE Open(a) \/ \E b \in BOOLEAN : Select(a, b) \/ SelectRet(a, b)
    BY <1>3, <2>3, OtherSleep
  <2>4. CASE SelectJumps(a)
    BY <2>4 DEF SelectJumps, SleepInv, Notified, SleeperWaits
  <2>. QED BY <1>3, <2>1, <2>2, <2>3, <2>4 DEF AppStep
<1>. QED BY <1>1, <1>2, <1>3 DEF Next

\* Nobody sleeps at first.
LEMMA InitSleep == Init => SleepInv
<1>1. Init => Notified /\ SleeperWaits
  BY DEF Init, Notified, SleeperWaits
<1>. QED BY <1>1, InitCount DEF SleepInv

\* pipe_waiting and pipe_waitunsl only name an application that still waits,
\* with its unselect structure alive, on this PIPE of an existing pipe, until an
\* unselect goes wild: until an Fselect for writing, or one on a PIPE somebody
\* waited for already, runs into its timeout.
THEOREM SleepersWait == Spec => []SleeperWaits
<1>1. SleepInv => SleeperWaits
  BY DEF SleepInv
<1>. QED BY <1>1, InitSleep, NextSleep, PTL DEF Spec

-----------------------------------------------------------------------------
(* Pipes between two *)

\* Two elements of a set with at most one are the same.
LEMMA AtMostOne ==
    ASSUME NEW S, IsFiniteSet(S), Cardinality(S) <= 1, NEW x \in S, NEW y \in S PROVE x = y
<1>. SUFFICES ASSUME x # y PROVE FALSE
  OBVIOUS
<1>1. IsFiniteSet({x}) /\ Cardinality({x}) = 1
  BY FS_Singleton
<1>2. IsFiniteSet({x} \cup {y}) /\ Cardinality({x} \cup {y}) = 2
  <2>1. y \notin {x}
    OBVIOUS
  <2>2. /\ IsFiniteSet({x} \cup {y})
        /\ Cardinality({x} \cup {y}) = IF y \in {x} THEN Cardinality({x}) ELSE Cardinality({x}) + 1
    BY <1>1, FS_AddElement
  <2>. QED BY <1>1, <2>1, <2>2
<1>3. {x} \cup {y} \subseteq S
  OBVIOUS
<1>4. Cardinality({x} \cup {y}) <= Cardinality(S) /\ Cardinality(S) \in Nat
  BY <1>2, <1>3, FS_Subset, FS_CardinalityType
<1>. QED BY <1>2, <1>4

\* Two elements of a set with at most two that differ from a third are the same.
LEMMA AtMostTwo ==
    ASSUME NEW S, IsFiniteSet(S), Cardinality(S) <= 2, NEW x \in S, NEW y \in S, NEW z \in S,
           x # y, x # z
    PROVE  y = z
<1>1. IsFiniteSet(S \ {x}) /\ Cardinality(S \ {x}) = Cardinality(S) - 1
  BY FS_RemoveElement
<1>2. Cardinality(S) \in Nat
  BY FS_CardinalityType
<1>3. Cardinality(S \ {x}) <= 1
  BY <1>1, <1>2
<1>. QED BY <1>1, <1>3, AtMostOne

\* The users of a pipe are applications.
LEMMA UsersFinite ==
    ASSUME PipeTypeOK
    PROVE  /\ party.readers \subseteq App /\ party.writers \subseteq App /\ party.bi \in BOOLEAN
           /\ IsFiniteSet(party.readers) /\ IsFiniteSet(party.writers)
           /\ IsFiniteSet(party.readers \cup party.writers)
<1>1. party.readers \subseteq App /\ party.writers \subseteq App /\ party.bi \in BOOLEAN
  BY PipeAssumption DEF PipeTypeOK
<1>. QED BY <1>1, OpenersFit

\* Each PIPE of a pipe between two has one application that reads and one that
\* writes.
LEMMA OneEnd ==
    ASSUME EndsInv, Private, NEW a \in App, NEW b \in App, pc[a] # "off", pc[b] # "off",
           NEW w \in BOOLEAN, PipeOf(a, w) = PipeOf(b, w),
           a \in IF w THEN party.writers ELSE party.readers,
           b \in IF w THEN party.writers ELSE party.readers
    PROVE  a = b
<1>1. CASE ~party.bi
  <2>1. Cardinality(party.readers) <= 1 /\ Cardinality(party.writers) <= 1
    BY <1>1 DEF Private
  <2>2. PipeTypeOK
    BY DEF EndsInv, SleepInv, CountInv
  <2>. QED BY <2>1, <2>2, UsersFinite, AtMostOne
<1>2. CASE party.bi
  <2>1. a \in creator <=> b \in creator
    BY <1>2 DEF PipeOf
  <2>. QED BY <1>2, <2>1 DEF EndsInv, OneCreator, OneClient
<1>. QED BY <1>1, <1>2

\* NoSleeperForgotten for one application
Served(a) ==
    Private /\ pc[a] \in Waits /\ a \notin notes =>
       /\ waiting[Side(a)] = a
       /\ pc[a] \in {"rwait", "rsel"} => data[Side(a)] = << >>
       /\ pc[a] \in {"wwait", "wsel"} => Len(data[Side(a)]) = PipeSize
       /\ pc[a] \in {"rwait", "wwait"} => refcnt > 1

\* NoSleeperForgotten, application by application.
LEMMA AllServed == NoSleeperForgotten <=> \A a \in App : Served(a)
BY DEF NoSleeperForgotten, Served, Side

\* A turn serves the one at the other end of the PIPE.
LEMMA TurnServes ==
    ASSUME EndsInv, NEW a \in App, NEW write \in BOOLEAN, NEW count \in 1..MaxCount,
           NEW n \in 0..count, MayTurn(a, write, count), Turn(a, PipeOf(a, write), write, count, n)
    PROVE  Users' /\ OneCreator' /\ OneClient' /\ NoSleeperForgotten'
<1>. DEFINE p == PipeOf(a, write)
            where == IF write THEN "wwait" ELSE "rwait"
            blocks == count - n > 0 /\ refcnt > 1
            woken == IF n > 0 THEN Sleepers({p}) ELSE {}
<1>0. p \in PIPE /\ where \in Waits /\ where \in {"rwait", "wwait"}
  BY PipeOfIs DEF Waits
<1>1. /\ waiting' = [waiting EXCEPT ![p] = IF blocks THEN a ELSE IF n > 0 THEN NONE ELSE @]
      /\ notes' = (IF pc[a] = "open" THEN notes ELSE notes \ {a}) \cup woken
      /\ pc' = [pc EXCEPT ![a] = IF blocks THEN where ELSE "open"]
      /\ UNCHANGED << party, refcnt, flag, exists, creator >>
  BY DEF Turn, LoopEnd
<1>2. /\ waiting \in [PIPE -> App \cup {NONE}] /\ pc \in [App -> {"off", "open"} \cup Waits]
      /\ NONE \notin App
  BY PipeAssumption DEF EndsInv, SleepInv, CountInv, PipeTypeOK
<1>3. pc[a] # "off" /\ a \in (IF write THEN party.writers ELSE party.readers)
  BY DEF MayTurn, EndsInv, Users
<1>4. /\ blocks => n < count /\ refcnt > 1
      /\ woken = IF n > 0 THEN Sleepers({p}) ELSE {}
  BY Sizes
<1>5. /\ data' \in [PIPE -> Seq(Nat)]
      /\ \A q \in PIPE \ {p} : data'[q] = data[q]
      /\ n < count => Len(data'[p]) = IF write THEN PipeSize ELSE 0
      /\ Len(data[p]) # (IF write THEN PipeSize ELSE 0) => n > 0
  BY DEF Turn
<1>. HIDE DEF p, where, blocks, woken
<1>6. pc'[a] # "off" /\ \A b \in App \ {a} : pc'[b] = pc[b]
  BY <1>0, <1>1, <1>2 DEF Waits
<1>7. Users'
  <2>1. pc'[a] = "open" \/ pc'[a] = where
    BY <1>1, <1>2
  <2>. QED BY <1>1, <1>3, <1>6, <2>1 DEF EndsInv, Users, where
<1>8. OneCreator' /\ OneClient'
  <2>1. \A b \in App : pc'[b] # "off" <=> pc[b] # "off"
    BY <1>3, <1>6
  <2>2. creator \subseteq App
    BY DEF EndsInv, SleepInv, CountInv, PipeTypeOK
  <2>. QED BY <1>1, <2>1, <2>2 DEF EndsInv, OneCreator, OneClient, Private
<1>9. ASSUME NEW b \in App, Private', pc'[b] \in Waits, b \notin notes'
      PROVE  /\ waiting'[Side(b)'] = b
             /\ pc'[b] \in {"rwait", "rsel"} => data'[Side(b)'] = << >>
             /\ pc'[b] \in {"wwait", "wsel"} => Len(data'[Side(b)']) = PipeSize
             /\ pc'[b] \in {"rwait", "wwait"} => refcnt' > 1
  <2>0. Private
    BY <1>1, <1>9 DEF Private
  <2>1. CASE b = a
    <3>1. blocks /\ pc'[a] = where
      BY <1>1, <1>2, <1>9, <2>1 DEF Waits
    <3>2. Side(a)' = p /\ waiting'[p] = a
      BY <1>0, <1>1, <1>2, <3>1 DEF Side, PipeOf, p, where
    <3>3. Len(data'[p]) = (IF write THEN PipeSize ELSE 0) /\ refcnt' > 1
      BY <1>1, <1>4, <1>5, <3>1
    <3>4. ~write => data'[p] = << >>
      <4>1. data'[p] \in Seq(Nat)
        BY <1>0, <1>5
      <4>. QED BY <3>3, <4>1
    <3>. QED BY <2>1, <3>1, <3>2, <3>3, <3>4 DEF where
  <2>2. CASE b # a
    <3>1. /\ pc'[b] = pc[b] /\ b \notin notes /\ b \notin woken
      BY <1>1, <1>6, <1>9, <2>2
    <3>2. Side(b)' = Side(b) /\ Side(b) \in PIPE
      BY <1>1, <3>1, SideKept, PipeOfIs DEF Side
    <3>3. /\ waiting[Side(b)] = b
          /\ pc[b] \in {"rwait", "rsel"} => data[Side(b)] = << >>
          /\ pc[b] \in {"wwait", "wsel"} => Len(data[Side(b)]) = PipeSize
          /\ pc[b] \in {"rwait", "wwait"} => refcnt > 1
      BY <1>9, <2>0, <3>1, AllServed DEF EndsInv, Served
    <3>4. CASE Side(b) = p
      <4>1. ~(n > 0)
        BY <1>2, <1>4, <3>1, <3>3, <3>4 DEF Sleepers
      <4>2. Len(data[p]) = IF write THEN PipeSize ELSE 0
        BY <1>5, <4>1
      <4>3. pc[b] # "off" /\ (pc[b] \in {"rwait", "rsel"} \/ pc[b] \in {"wwait", "wsel"})
        BY <1>9, <3>1 DEF Waits
      <4>4. pc[b] \in {"wwait", "wsel"} <=> write
        BY <3>3, <3>4, <4>2, <4>3, Sizes
      <4>5. b \in (IF write THEN party.writers ELSE party.readers) /\ PipeOf(b, write) = p
        BY <3>4, <4>3, <4>4 DEF EndsInv, Users, Side
      <4>. QED BY <1>3, <2>0, <2>2, <4>3, <4>5, OneEnd DEF p
    <3>5. CASE Side(b) # p
      <4>1. waiting'[Side(b)] = waiting[Side(b)] /\ data'[Side(b)] = data[Side(b)]
        BY <1>1, <1>2, <1>5, <3>2, <3>5
      <4>. QED BY <1>1, <3>1, <3>2, <3>3, <4>1
    <3>. QED BY <3>4, <3>5
  <2>. QED BY <2>1, <2>2
<1>10. NoSleeperForgotten'
  BY <1>9 DEF NoSleeperForgotten, Side
<1>. QED BY <1>7, <1>8, <1>10

\* Closing leaves nobody behind asleep.
LEMMA CloseServes ==
    ASSUME EndsInv, NEW a \in App, pc[a] # "off", CloseFd(a)
    PROVE  Users' /\ OneCreator' /\ OneClient' /\ NoSleeperForgotten'
<1>1. /\ notes' = (notes \cup Sleepers(PIPE)) \ {a}
      /\ pc' = [pc EXCEPT ![a] = "off"] /\ creator' = creator \ {a} /\ refcnt' = refcnt - 1
      /\ UNCHANGED << party, data, flag >>
  BY DEF CloseFd
<1>2. /\ pc \in [App -> {"off", "open"} \cup Waits] /\ creator \subseteq App
      /\ waiting \in [PIPE -> App \cup {NONE}] /\ NONE \notin App
  BY PipeAssumption DEF EndsInv, SleepInv, CountInv, PipeTypeOK
<1>3. pc'[a] = "off" /\ \A b \in App \ {a} : pc'[b] = pc[b]
  BY <1>1, <1>2
<1>4. Users'
  BY <1>1, <1>3 DEF EndsInv, Users
<1>5. OneClient'
  BY <1>1, <1>3 DEF EndsInv, OneClient, Private
<1>6. OneCreator'
  <2>1. a \in Openers
    BY DEF Openers
  <2>2. refcnt # 0
    BY <2>1, OpenersCount, FS_EmptySet DEF EndsInv, SleepInv
  <2>. QED BY <1>1, <1>2, <1>3, <2>2 DEF EndsInv, OneCreator
<1>7. ASSUME NEW b \in App, Private', pc'[b] \in Waits, b \notin notes' PROVE FALSE
  <2>1. Private /\ b # a /\ pc[b] \in Waits /\ b \notin notes /\ b \notin Sleepers(PIPE)
    BY <1>1, <1>3, <1>7 DEF Private, Waits
  <2>2. waiting[Side(b)] = b /\ Side(b) \in PIPE
    BY <2>1, AllServed, PipeOfIs DEF EndsInv, Served, Side
  <2>. QED BY <1>2, <2>1, <2>2 DEF Sleepers
<1>8. NoSleeperForgotten'
  BY <1>7 DEF NoSleeperForgotten
<1>. QED BY <1>4, <1>5, <1>6, <1>8

\* A pipe is opened by its creator first, and then by one client at most.
LEMMA OpenServes ==
    ASSUME EndsInv, Rejoin = FALSE, NEW a \in App, Open(a)
    PROVE  Users' /\ OneCreator' /\ OneClient' /\ NoSleeperForgotten'
<1>1. /\ exists /\ pc[a] = "off" /\ a \in party.readers \cup party.writers
      /\ ~party.bi \/ flag \/ creator # {}
      /\ refcnt' = refcnt + 1
      /\ creator' = IF flag THEN creator \cup {a} ELSE creator
      /\ flag' = FALSE /\ pc' = [pc EXCEPT ![a] = "open"]
      /\ UNCHANGED << party, data, waiting, notes >>
  BY DEF Open
<1>2. /\ pc \in [App -> {"off", "open"} \cup Waits] /\ creator \subseteq App /\ PipeTypeOK
      /\ refcnt \in Nat
  BY OpenersCount DEF EndsInv, SleepInv, CountInv, PipeTypeOK
<1>3. pc'[a] = "open" /\ \A b \in App \ {a} : pc'[b] = pc[b]
  BY <1>1, <1>2
<1>4. Users'
  BY <1>1, <1>3 DEF EndsInv, Users
<1>5. flag => \A b \in App : pc[b] = "off"
  <2>1. ASSUME flag, NEW b \in App, pc[b] # "off" PROVE FALSE
    <3>1. b \in Openers
      BY <2>1 DEF Openers
    <3>2. refcnt # 0
      BY <3>1, OpenersCount, FS_EmptySet DEF EndsInv, SleepInv
    <3>. QED BY <2>1, <3>2 DEF EndsInv, OneCreator
  <2>. QED BY <2>1
<1>6. a \notin creator /\ (flag => creator = {})
  BY <1>1, <1>2, <1>5 DEF EndsInv, OneCreator
<1>7. OneCreator'
  BY <1>1, <1>2, <1>3, <1>6 DEF EndsInv, OneCreator
<1>8. OneClient'
  <2>1. SUFFICES ASSUME Private', party'.bi, NEW b \in App \ creator', NEW c \in App \ creator',
                        pc'[b] # "off", pc'[c] # "off"
                 PROVE  b = c
    BY DEF OneClient
  <2>2. Private /\ party.bi /\ Cardinality(party.readers \cup party.writers) <= 2
    BY <1>1, <2>1 DEF Private
  <2>3. CASE flag
    BY <1>1, <1>3, <1>5, <2>1, <2>3
  <2>4. CASE ~flag
    <3>1. PICK d \in creator : pc[d] # "off" /\ d \in App /\ d # a
      BY <1>1, <1>2, <1>6, <2>2, <2>4 DEF EndsInv, OneCreator
    <3>2. b # d /\ c # d
      BY <1>1, <2>1, <2>4, <3>1
    <3>3. /\ b \in party.readers \cup party.writers /\ c \in party.readers \cup party.writers
          /\ d \in party.readers \cup party.writers
      BY <1>1, <1>3, <1>4, <2>1, <3>1 DEF EndsInv, Users
    <3>4. IsFiniteSet(party.readers \cup party.writers)
      BY <1>2, UsersFinite
    <3>. QED BY <2>2, <3>2, <3>3, <3>4, AtMostTwo
  <2>. QED BY <2>3, <2>4
<1>9. ASSUME NEW b \in App, Private', pc'[b] \in Waits, b \notin notes'
      PROVE  /\ waiting'[Side(b)'] = b
             /\ pc'[b] \in {"rwait", "rsel"} => data'[Side(b)'] = << >>
             /\ pc'[b] \in {"wwait", "wsel"} => Len(data'[Side(b)']) = PipeSize
             /\ pc'[b] \in {"rwait", "wwait"} => refcnt' > 1
  <2>1. Private /\ b # a /\ pc'[b] = pc[b] /\ b \notin notes
    BY <1>1, <1>3, <1>9 DEF Private, Waits
  <2>2. Side(b)' = Side(b)
    BY <1>1, <2>1, SideKept
  <2>3. /\ waiting[Side(b)] = b
        /\ pc[b] \in {"rwait", "rsel"} => data[Side(b)] = << >>
        /\ pc[b] \in {"wwait", "wsel"} => Len(data[Side(b)]) = PipeSize
        /\ pc[b] \in {"rwait", "wwait"} => refcnt > 1
    BY <1>9, <2>1, AllServed DEF EndsInv, Served
  <2>4. refcnt > 1 => refcnt' > 1
    BY <1>1, <1>2
  <2>. QED BY <1>1, <2>1, <2>2, <2>3, <2>4
<1>10. NoSleeperForgotten'
  BY <1>9 DEF NoSleeperForgotten, Side
<1>. QED BY <1>4, <1>7, <1>8, <1>10

\* In a pipe between two nobody waits for the PIPE whose caller has to wait:
\* pipe_stat does not find it busy.
LEMMA NobodyElse ==
    ASSUME EndsInv, ~wild, Private, NEW a \in App, NEW w \in BOOLEAN, Select(a, w)
    PROVE  waiting[PipeOf(a, w)] = NONE
<1>. DEFINE p == PipeOf(a, w)
            b == waiting[p]
<1>. SUFFICES ASSUME b # NONE PROVE FALSE
  OBVIOUS
<1>1. /\ pc[a] = "open" /\ a \in (IF w THEN party.writers ELSE party.readers)
      /\ IF w THEN Len(data[p]) >= PipeSize ELSE Len(data[p]) = 0
  BY DEF Select
<1>2. p \in PIPE
  BY PipeOfIs
<1>3. b \in App /\ data[p] \in Seq(Nat) /\ Len(data[p]) \in 0..PipeSize
  BY <1>2 DEF EndsInv, SleepInv, CountInv, PipeTypeOK
<1>. HIDE DEF b
<1>4. pc[b] \in Waits /\ unsel[b] = "armed" /\ Side(b) = p
  BY <1>2, SleepersOK DEF EndsInv, SleepInv, SleeperOK, b
<1>. HIDE DEF p
<1>5. b \notin notes
  BY <1>4 DEF EndsInv, SleepInv, Notified
<1>6. /\ pc[b] \in {"rwait", "rsel"} => data[p] = << >>
      /\ pc[b] \in {"wwait", "wsel"} => Len(data[p]) = PipeSize
  BY <1>3, <1>4, <1>5, AllServed DEF EndsInv, Served
<1>7. pc[b] \in {"rwait", "rsel"} \/ pc[b] \in {"wwait", "wsel"}
  BY <1>4 DEF Waits
<1>8. pc[b] \in {"wwait", "wsel"} <=> w
  <2>1. pc[b] \in {"rwait", "rsel"} => pc[b] \notin {"wwait", "wsel"}
    OBVIOUS
  <2>2. data[p] = << >> => Len(data[p]) = 0
    OBVIOUS
  <2>. QED BY <1>1, <1>6, <1>7, <2>1, <2>2, Sizes
<1>9. b \in (IF w THEN party.writers ELSE party.readers) /\ PipeOf(b, w) = p
  BY <1>3, <1>4, <1>7, <1>8 DEF EndsInv, Users, Side
<1>10. pc[a] # "off" /\ pc[b] # "off"
  BY <1>1, <1>4 DEF Waits
<1>11. a = b
  BY <1>1, <1>3, <1>9, <1>10, OneEnd DEF p
<1>. QED BY <1>1, <1>4, <1>11 DEF Waits

\* Fselect only sleeps where nobody else does, and leaves as it came.
LEMMA SelectServes ==
    ASSUME EndsInv, ~wild, NEW a \in App, NEW w \in BOOLEAN,
           Select(a, w) \/ SelectRet(a, w)
    PROVE  Users' /\ OneCreator' /\ OneClient' /\ NoSleeperForgotten'
<1>1. PICK new \in {"open", "rsel", "wsel"} :
         /\ pc[a] # "off" /\ pc' = [pc EXCEPT ![a] = new]
         /\ new = "rsel" => a \in party.readers
         /\ new = "wsel" => a \in party.writers
         /\ notes' = notes \/ (notes' = notes \ {a} /\ new = "open")
         /\ UNCHANGED << party, data, refcnt, flag, creator >>
  <2>1. CASE Select(a, w)
    BY <2>1 DEF Select
  <2>2. CASE SelectRet(a, w)
    BY <2>2 DEF SelectRet
  <2>. QED BY <2>1, <2>2
<1>2. /\ pc \in [App -> {"off", "open"} \cup Waits] /\ creator \subseteq App /\ PipeTypeOK
      /\ waiting \in [PIPE -> App \cup {NONE}] /\ NONE \notin App
  BY PipeAssumption DEF EndsInv, SleepInv, CountInv, PipeTypeOK
<1>3. pc'[a] = new /\ \A b \in App \ {a} : pc'[b] = pc[b]
  BY <1>1, <1>2
<1>4. Users'
  BY <1>1, <1>3 DEF EndsInv, Users
<1>5. OneCreator' /\ OneClient'
  <2>1. \A b \in App : pc'[b] # "off" <=> pc[b] # "off"
    BY <1>1, <1>3
  <2>. QED BY <1>1, <1>2, <2>1 DEF EndsInv, OneCreator, OneClient, Private
<1>6. ASSUME NEW b \in App, Private', pc'[b] \in Waits, b \notin notes'
      PROVE  /\ waiting'[Side(b)'] = b
             /\ pc'[b] \in {"rwait", "rsel"} => data'[Side(b)'] = << >>
             /\ pc'[b] \in {"wwait", "wsel"} => Len(data'[Side(b)']) = PipeSize
             /\ pc'[b] \in {"rwait", "wwait"} => refcnt' > 1
  <2>1. CASE b = a
    <3>1. Select(a, w)
      BY <1>2, <1>6, <2>1 DEF SelectRet, Waits
    <3>. DEFINE p == PipeOf(a, w)
    <3>2. /\ IF w THEN Len(data[p]) >= PipeSize ELSE Len(data[p]) = 0
          /\ waiting' = [waiting EXCEPT ![p] = IF waiting[p] = NONE THEN a ELSE @]
          /\ new = (IF w THEN "wsel" ELSE "rsel") /\ p \in PIPE
      BY <1>2, <1>3, <3>1, PipeOfIs DEF Select
    <3>3. Side(a)' = p
      BY <1>1, <1>3, <3>2 DEF Side, PipeOf
    <3>7. waiting[p] = NONE
      <4>1. Private
        BY <1>1, <1>6 DEF Private
      <4>. QED BY <3>1, <4>1, NobodyElse
    <3>. HIDE DEF p
    <3>4. /\ waiting'[p] = a /\ data[p] \in Seq(Nat) /\ Len(data[p]) \in 0..PipeSize
      BY <1>2, <3>2, <3>7 DEF PipeTypeOK
    <3>5. /\ ~w => data[p] = << >>
      BY <3>2, <3>4
    <3>6. w => Len(data[p]) = PipeSize
      BY <3>2, <3>4, Sizes
    <3>. QED BY <1>1, <1>3, <2>1, <3>2, <3>3, <3>4, <3>5, <3>6
  <2>2. CASE b # a
    <3>1. Private /\ pc'[b] = pc[b] /\ b \notin notes /\ Side(b) \in PIPE
      BY <1>1, <1>3, <1>6, <2>2, PipeOfIs DEF Private, Side
    <3>2. Side(b)' = Side(b)
      BY <1>1, <3>1, SideKept
    <3>3. /\ waiting[Side(b)] = b
          /\ pc[b] \in {"rwait", "rsel"} => data[Side(b)] = << >>
          /\ pc[b] \in {"wwait", "wsel"} => Len(data[Side(b)]) = PipeSize
          /\ pc[b] \in {"rwait", "wwait"} => refcnt > 1
      BY <1>6, <3>1, AllServed DEF EndsInv, Served
    <3>4. waiting'[Side(b)] = b
      <4>1. CASE Select(a, w)
        <5>1. waiting' = [waiting EXCEPT ![PipeOf(a, w)] =
                            IF waiting[PipeOf(a, w)] = NONE THEN a ELSE @]
          BY <4>1 DEF Select
        <5>2. b # NONE
          BY <1>2
        <5>. QED BY <1>2, <3>1, <3>3, <5>1, <5>2
      <4>2. CASE SelectRet(a, w)
        <5>1. /\ pc[a] \in {"rsel", "wsel"}
              /\ waiting' = IF unsel[a] = "armed" /\ pc[a] = "rsel"
                            THEN [waiting EXCEPT ![PipeOf(a, pc[a] = "wsel")] = NONE] ELSE waiting
          BY <4>2 DEF SelectRet
        <5>2. CASE unsel[a] = "armed" /\ pc[a] = "rsel"
          <6>1. a \notin notes /\ pc[a] \in Waits
            BY <5>2 DEF EndsInv, SleepInv, Notified, Waits
          <6>2. waiting[Side(a)] = a
            BY <3>1, <6>1, AllServed DEF EndsInv, Served
          <6>3. Side(a) = PipeOf(a, pc[a] = "wsel")
            BY <5>1 DEF Side
          <6>4. Side(b) # Side(a)
            BY <2>2, <3>3, <6>2
          <6>. QED BY <1>2, <3>1, <3>3, <5>1, <5>2, <6>3, <6>4
        <5>3. CASE ~(unsel[a] = "armed" /\ pc[a] = "rsel")
          BY <3>3, <5>1, <5>3
        <5>. QED BY <5>2, <5>3
      <4>. QED BY <4>1, <4>2
    <3>. QED BY <1>1, <3>1, <3>2, <3>3, <3>4
  <2>. QED BY <2>1, <2>2
<1>7. NoSleeperForgotten'
  BY <1>6 DEF NoSleeperForgotten, Side
<1>. QED BY <1>4, <1>5, <1>7

\* In a pipe between two, with no client after the creator has left, nobody is
\* forgotten: who sleeps without an IOcomplete on its way is in pipe_waiting, and
\* has a reason to wait, up to the step in which an unselect goes wild.
THEOREM NobodyForgotten ==
    ASSUME Rejoin = FALSE PROVE Spec => []NoSleeperForgotten
<1>1. Init => EndsInv
  <2>. SUFFICES ASSUME Init PROVE Users /\ OneCreator /\ OneClient /\ NoSleeperForgotten
    BY InitSleep DEF EndsInv
  <2>1. \A a \in App : pc[a] = "off"
    BY DEF Init
  <2>2. Users /\ OneCreator /\ OneClient
    BY <2>1 DEF Init, Users, OneCreator, OneClient
  <2>. QED BY <2>1, <2>2 DEF NoSleeperForgotten, Waits
<1>2. EndsInv /\ [Next]_vars => EndsInv'
  <2>. DEFINE Goal == Users' /\ OneCreator' /\ OneClient' /\ NoSleeperForgotten'
  <2>. SUFFICES ASSUME EndsInv, [Next]_vars PROVE Goal
    BY NextSleep DEF EndsInv
  <2>1. ASSUME UNCHANGED << party, data, waiting, refcnt, flag, pc, creator, notes >>
        PROVE  Goal
    BY <2>1 DEF EndsInv, Users, OneCreator, OneClient, NoSleeperForgotten, Private, PipeOf
  <2>2. CASE Create
    <3>1. /\ ~exists /\ flag' = party'.bi /\ refcnt' = 0 /\ UNCHANGED << pc, creator >>
      BY <2>2 DEF Create
    <3>2. refcnt = 0
      BY <3>1 DEF EndsInv, SleepInv, CountInv, RefCounted
    <3>3. Openers = {}
      BY <3>2, OpenersCount, FS_EmptySet DEF EndsInv, SleepInv
    <3>4. \A a \in App : pc'[a] = "off"
      BY <3>1, <3>3 DEF Openers
    <3>5. creator' = {}
      BY <3>1, <3>4 DEF EndsInv, SleepInv, CountInv, PipeTypeOK, OneCreator
    <3>6. Users' /\ OneCreator' /\ OneClient'
      BY <3>1, <3>4, <3>5 DEF Users, OneCreator, OneClient
    <3>. QED BY <3>4, <3>6 DEF NoSleeperForgotten, Waits
  <2>3. ASSUME ~wild, NEW a \in App, AppStep(a) PROVE Goal
    <3>1. CASE Close(a) \/ Kill(a)
      <4>1. pc[a] # "off" /\ CloseFd(a)
        BY <3>1 DEF Close, Kill, Waits
      <4>. QED BY <4>1, CloseServes
    <3>2. CASE ReadAgain(a) \/ WriteAgain(a)
               \/ \E count \in 1..MaxCount : Read(a, count) \/ Write(a, count)
      BY <3>2, Turns, TurnServes DEF EndsInv, SleepInv
    <3>3. CASE Open(a)
      BY <3>3, OpenServes
    <3>4. CASE \E b \in BOOLEAN : Select(a, b) \/ SelectRet(a, b)
      BY <2>3, <3>4, SelectServes
    <3>5. CASE SelectJumps(a)
      BY <2>1, <3>5 DEF SelectJumps
    <3>. QED BY <2>3, <3>1, <3>2, <3>3, <3>4, <3>5 DEF AppStep
  <2>. QED BY <2>1, <2>2, <2>3 DEF Next, vars
<1>3. EndsInv => NoSleeperForgotten
  BY DEF EndsInv
<1>. QED BY <1>1, <1>2, <1>3, PTL DEF Spec
=============================================================================
