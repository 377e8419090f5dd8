------------------------------ MODULE Message -------------------------------
(***************************************************************************)
(* Messages between applications (src/kernel/aes/aesevt.s): appl_write     *)
(* puts a message into the buffer of its destination, where rw_ap_buf      *)
(* merges some of them, or hands it over at once when the destination      *)
(* waits; appl_read, evnt_mesag and evnt_xmesag fetch the oldest one or    *)
(* wait. The scheduler is the one of Kernel.                               *)
(*                                                                         *)
(* All messages have 16 bytes (the word for a longer message is always 0,  *)
(* says the header of appl_write). What they mean to the applications:     *)
(*   redraw  WM_REDRAW, a part of a window is to be drawn                  *)
(*   slid    WM_ARROWED, WM_HSLID, WM_VSLID, WM_ONTOP or one sent with the *)
(*           unique flag: only the latest counts                           *)
(*   plain   any other; these are numbered                                 *)
(* A rectangle is given by one of its two dimensions, from lo to hi; the   *)
(* other one is treated in the same way.                                   *)
(***************************************************************************)
EXTENDS Kernel, FiniteSetsExt

CONSTANTS MSG, TIM,         \* EV_MSG, EV_TIM
          NONE,
          Dst,              \* applications that get messages
          Window, Cells,    \* windows, and the positions in one
          Redraws,          \* what is asked to be redrawn: a window, a rectangle
          Smart,            \* Smart Redraw: the values of its bit in config_status
          MaxMsgs,          \* ap_buflen / 16
          MaxPlain, MaxSlid \* bounds on the numbering of messages

ASSUME MessageAssumption ==
    /\ {MSG, TIM, RESVD} \subseteq Event
    /\ MSG # TIM /\ MSG # RESVD /\ TIM # RESVD
    /\ Dst \subseteq App /\ Cells \subseteq Int /\ Smart \subseteq BOOLEAN
    /\ Redraws \subseteq Window \X {r \in [lo : Cells, hi : Cells] : r.lo <= r.hi}
    /\ MaxMsgs \in Nat \ {0} /\ MaxPlain \in Nat /\ MaxSlid \in Nat

VARIABLES
    k, mode, live,   \* as in Sched
    pc,       \* "user", or "wait": in the appl_wait of appl_read or evnt_xmesag
    tim,      \* applications with an entry in timer_evlist
    buf,      \* ap_buf, ap_len
    box,      \* the message in the buffer that ap_evparm points to
    sent, rcvd,      \* last plain message accepted for, given to an application
    slid,     \* last slid message accepted for it
    dirty     \* cells others asked it to redraw, as far as it has not fetched that

vars == << k, mode, live, pc, tim, buf, box, sent, rcvd, slid, dirty >>
msgs == << buf, box, sent, rcvd, slid, dirty >>

Plain(n) == [kind |-> "plain", id |-> n]
Slid(n) == [kind |-> "slid", id |-> n]
Redraw(w, r) == [kind |-> "redraw", win |-> w, rect |-> r]

Msg == {Plain(n) : n \in 1..MaxPlain} \cup {Slid(n) : n \in 1..MaxSlid}
       \cup {Redraw(w, r) : w \in Window, r \in [lo : Cells, hi : Cells]}

ASSUME NoneAssumption == NONE \notin Msg

\* ap_buf holds whole messages and never more than ap_buflen bytes; only
\* applications that exist have a timer.
MsgTypeOK ==
    /\ k \in KState /\ mode \in {"run", "kernel"}
    /\ live \subseteq App /\ tim \subseteq live
    /\ pc \in [App -> {"user", "wait"}]
    /\ buf \in [App -> Seq(Msg)] /\ \A a \in App : Len(buf[a]) <= MaxMsgs
    /\ box \in [App -> Msg \cup {NONE}]
    /\ sent \in [App -> 0..MaxPlain] /\ rcvd \in [App -> 0..MaxPlain]
    /\ slid \in [App -> 0..MaxSlid]
    /\ dirty \in [App -> [Window -> SUBSET Cells]]

Clean == [w \in Window |-> {}]

Init ==
    /\ \E a \in App :
          /\ k = [ready |-> << a >>, notready |-> {}, susp |-> << >>,
                  status |-> [b \in App |-> "READY"], rbits |-> [b \in App |-> {}],
                  hbits |-> [b \in App |-> {}], unsusp |-> UnSusp]
          /\ live = {a}
    /\ mode = "run" /\ pc = [a \in App |-> "user"] /\ tim = {}
    /\ buf = [a \in App |-> << >>] /\ box = [a \in App |-> NONE]
    /\ sent = [a \in App |-> 0] /\ rcvd = [a \in App |-> 0] /\ slid = [a \in App |-> 0]
    /\ dirty = [a \in App |-> Clean]

-----------------------------------------------------------------------------
(* The message buffer *)

\* the cells of a rectangle; grects_union: the smallest rectangle around two;
\* grects_intersect: do they have cells in common
CellsOf(r) == {c \in Cells : r.lo <= c /\ c <= r.hi}
Union(r, s) == [lo |-> Min({r.lo, s.lo}), hi |-> Max({r.hi, s.hi})]
Intersect(r, s) == r.lo <= s.hi /\ s.lo <= r.hi

Without(b, i) == SubSeq(b, 1, i - 1) \o SubSeq(b, i + 1, Len(b))

\* the messages that scan_loop stops at for the new message m
Alike(b, m) ==
    {i \in DOMAIN b : /\ b[i].kind = m.kind /\ m.kind # "plain"
                      /\ m.kind = "redraw" => b[i].win = m.win}

\* Mutant: the second of two redraws is removed without being merged
MergeForgets(b, m, smart) ==
    LET i == Min(Alike(b, m))
        j == Min(Alike(b, m) \ {i})
        Into(r) == [b EXCEPT ![i].rect = Union(@, r)]
    IN  IF Alike(b, m) = {} THEN Append(b, m)
        ELSE IF m.kind = "slid" THEN [b EXCEPT ![i] = m]
        ELSE IF Cardinality(Alike(b, m)) > 1 THEN Without(Into(m.rect), j)
        ELSE IF smart /\ ~Intersect(b[i].rect, m.rect) THEN Append(b, m)
        ELSE Into(m.rect)

\* rw_ap_buf, writing: the new message overwrites the first one of its kind; a
\* redraw is merged with the one of its window if they overlap, or, if there
\* are two already, all are merged into the first one and the second is removed
Merge(b, m, smart) ==
    LET i == Min(Alike(b, m))
        j == Min(Alike(b, m) \ {i})
        Into(r) == [b EXCEPT ![i].rect = Union(@, r)]
    IN  IF Alike(b, m) = {} THEN Append(b, m)
        ELSE IF m.kind = "slid" THEN [b EXCEPT ![i] = m]
        ELSE IF Cardinality(Alike(b, m)) > 1
             THEN Without(Into(Union(m.rect, b[j].rect)), j)
        ELSE IF smart /\ ~Intersect(b[i].rect, m.rect) THEN Append(b, m)
        ELSE Into(m.rect)

-----------------------------------------------------------------------------
(* appl_write and appl_read *)

Running(a, where) == mode = "run" /\ a = Act(k) /\ pc[a] = where

ApplYield(n) == k' = YieldLists(n) /\ mode' = "kernel"

\* application a has fetched message m
Fetched(a, m) ==
    /\ rcvd' = [rcvd EXCEPT ![a] = IF m.kind = "plain" THEN m.id ELSE @]
    /\ dirty' = IF m.kind = "redraw" THEN [dirty EXCEPT ![a][m.win] = @ \ CellsOf(m.rect)] ELSE dirty

\* Mutant: a message that was handed over is overwritten by the next one
HandOverTwice(d, b) ==
    IF MSG \in k.rbits[d]
    THEN /\ box' = [box EXCEPT ![d] = Head(b)] /\ buf' = [buf EXCEPT ![d] = Tail(b)]
         /\ k' = EventHappened(k, d, MSG)
    ELSE buf' = [buf EXCEPT ![d] = b] /\ UNCHANGED << k, box >>

\* the end of appl_write: if d waits for a message, and has not been given one
\* yet, it gets its oldest one
HandOver(d, b) ==
    IF MSG \in k.rbits[d] \ k.hbits[d]
    THEN /\ box' = [box EXCEPT ![d] = Head(b)] /\ buf' = [buf EXCEPT ![d] = Tail(b)]
         /\ k' = EventHappened(k, d, MSG)
    ELSE buf' = [buf EXCEPT ![d] = b] /\ UNCHANGED << k, box >>

\* Mutant: the free room is not looked at
ApplWriteUnchecked(a, d, m) ==
    /\ Running(a, "user") /\ d \in live
    /\ \E smart \in Smart : HandOver(d, Merge(buf[d], m, smart))
    /\ sent' = [sent EXCEPT ![d] = IF m.kind = "plain" THEN m.id ELSE @]
    /\ slid' = [slid EXCEPT ![d] = IF m.kind = "slid" THEN m.id ELSE @]
    /\ dirty' = IF m.kind = "redraw" THEN [dirty EXCEPT ![d][m.win] = @ \cup CellsOf(m.rect)] ELSE dirty
    /\ UNCHANGED << mode, live, pc, tim, rcvd >>

\* appl_write of message m to d. When the buffer is full, or nobody has the
\* number d, it returns an error and changes nothing
ApplWrite(a, d, m) ==
    /\ Running(a, "user") /\ d \in live /\ Len(buf[d]) < MaxMsgs
    /\ \E smart \in Smart : HandOver(d, Merge(buf[d], m, smart))
    /\ sent' = [sent EXCEPT ![d] = IF m.kind = "plain" THEN m.id ELSE @]
    /\ slid' = [slid EXCEPT ![d] = IF m.kind = "slid" THEN m.id ELSE @]
    /\ dirty' = IF m.kind = "redraw" THEN [dirty EXCEPT ![d][m.win] = @ \cup CellsOf(m.rect)] ELSE dirty
    /\ UNCHANGED << mode, live, pc, tim, rcvd >>

SendPlain(a, d) == sent[d] < MaxPlain /\ ApplWrite(a, d, Plain(sent[d] + 1))
SendSlid(a, d) == slid[d] < MaxSlid /\ ApplWrite(a, d, Slid(slid[d] + 1))
SendRedraw(a, d, w, r) == ApplWrite(a, d, Redraw(w, r))

\* appl_read, evnt_mesag, evnt_xmesag, evnt_multi: the oldest message
ReadNow(a) ==
    /\ Running(a, "user") /\ a \in Dst /\ buf[a] # << >>
    /\ buf' = [buf EXCEPT ![a] = Tail(@)]
    /\ Fetched(a, Head(buf[a]))
    /\ UNCHANGED << k, mode, live, pc, tim, box, sent, slid >>

\* Mutant: evnt_xmesag does not look into the buffer
ReadWaitAlways(a, withTimeout) ==
    /\ Running(a, "user") /\ a \in Dst
    /\ tim' = IF withTimeout THEN tim \cup {a} ELSE tim
    /\ ApplYield(BeginWait(k, a, IF withTimeout THEN {MSG, TIM} ELSE {MSG}))
    /\ pc' = [pc EXCEPT ![a] = "wait"]
    /\ UNCHANGED << live, msgs >>

\* the same when there is none, with or without a timeout
ReadWait(a, withTimeout) ==
    /\ Running(a, "user") /\ a \in Dst /\ buf[a] = << >>
    /\ tim' = IF withTimeout THEN tim \cup {a} ELSE tim
    /\ ApplYield(BeginWait(k, a, IF withTimeout THEN {MSG, TIM} ELSE {MSG}))
    /\ pc' = [pc EXCEPT ![a] = "wait"]
    /\ UNCHANGED << live, msgs >>

\* appl_wait is over: the message is there, or the time is up
ReadRet(a) ==
    /\ Running(a, "wait")
    /\ k' = EndWait(k, a)
    /\ tim' = tim \ {a}
    /\ box' = [box EXCEPT ![a] = NONE]
    /\ IF box[a] = NONE THEN UNCHANGED << rcvd, dirty >> ELSE Fetched(a, box[a])
    /\ pc' = [pc EXCEPT ![a] = "user"]
    /\ UNCHANGED << mode, live, buf, sent, slid >>

\* flush_msgbuf, in appl_exit: what is in the buffer is thrown away
FlushMsgbuf(a) ==
    /\ Running(a, "user") /\ a \in Dst /\ buf[a] # << >>
    /\ buf' = [buf EXCEPT ![a] = << >>]
    /\ rcvd' = [rcvd EXCEPT ![a] = sent[a]]
    /\ dirty' = [dirty EXCEPT ![a] = Clean]
    /\ UNCHANGED << k, mode, live, pc, tim, box, sent, slid >>

-----------------------------------------------------------------------------
(* The applications and the kernel loop, as in Sched *)

ApplSuspend(a) ==
    /\ Running(a, "user")
    /\ ApplYield([k EXCEPT !.status[a] = "SUSPENDED"])
    /\ UNCHANGED << live, pc, tim, msgs >>

StopThread(a, b) ==
    /\ Running(a, "user") /\ b \in live /\ k.status[b] # "STOPPED"
    /\ ApplYield(StpThr(k, b))
    /\ UNCHANGED << live, pc, tim, msgs >>

ContThread(a, b) ==
    /\ Running(a, "user") /\ b \in live /\ k.status[b] = "STOPPED"
    /\ k' = CntThr(k, b)
    /\ UNCHANGED << mode, live, pc, tim, msgs >>

\* an application ends by itself; its APPL is freed
EndThread(a) ==
    /\ Running(a, "user")
    /\ k' = [k EXCEPT !.ready = Tail(@)] /\ mode' = "kernel"
    /\ live' = live \ {a}
    /\ UNCHANGED << pc, tim, msgs >>

\* init_APPL: a new application with an APPL of zeros
InitAPPL(a, b) ==
    /\ Running(a, "user") /\ b \notin live
    /\ k' = ApToLastReady(k, b) /\ live' = live \cup {b}
    /\ buf' = [buf EXCEPT ![b] = << >>] /\ box' = [box EXCEPT ![b] = NONE]
    /\ sent' = [sent EXCEPT ![b] = 0] /\ rcvd' = [rcvd EXCEPT ![b] = 0]
    /\ slid' = [slid EXCEPT ![b] = 0] /\ dirty' = [dirty EXCEPT ![b] = Clean]
    /\ UNCHANGED << mode, pc, tim >>

\* handle_tim: the time of b is up
HandleTim(b) ==
    /\ mode = "kernel" /\ b \in tim
    /\ tim' = tim \ {b}
    /\ k' = EventHappened(k, b, TIM)
    /\ UNCHANGED << mode, live, pc, msgs >>

Switch ==
    /\ mode = "kernel" /\ CanSwitch(k)
    /\ k' = SwitchTo(k) /\ mode' = "run"
    /\ UNCHANGED << live, pc, tim, msgs >>

-----------------------------------------------------------------------------
AppStep(a) ==
    \/ ReadNow(a) \/ ReadRet(a) \/ FlushMsgbuf(a) \/ ApplSuspend(a) \/ EndThread(a)
    \/ \E b \in BOOLEAN : ReadWait(a, b)
    \/ \E d \in Dst : \/ SendPlain(a, d) \/ SendSlid(a, d)
                      \/ \E r \in Redraws : SendRedraw(a, d, r[1], r[2])
    \/ \E b \in App : StopThread(a, b) \/ ContThread(a, b) \/ InitAPPL(a, b)

Next == Switch \/ (\E b \in App : HandleTim(b)) \/ \E a \in App : AppStep(a)

Spec == Init /\ [][Next]_vars

\* The kernel loop goes on, int_hz_200 ends a time slice, and a system call
\* that has the CPU returns (see Sched)
Fairness ==
    /\ WF_vars(Switch)
    /\ \A a \in App : WF_vars(ReadRet(a)) /\ SF_vars(ApplSuspend(a))

FairSpec == Spec /\ Fairness

-----------------------------------------------------------------------------
(* Correctness *)

\* An application never waits while a message for it is in its buffer: every
\* message that arrives during the wait, before or behind a timeout, while the
\* application is stopped or already woken up, is handed over or wakes it.
NoMessageMissed ==
    \A a \in Dst \cap live : MSG \in k.rbits[a] =>
        /\ MSG \notin k.hbits[a] => buf[a] = << >> /\ box[a] = NONE
        /\ MSG \in k.hbits[a] => box[a] # NONE /\ k.status[a] \in {"READY", "STOPPED"}

\* the messages a has been sent and not fetched
Unfetched(a) == ({box[a]} \ {NONE}) \cup Members(buf[a])

\* the last plain message before those in the buffer of a
Given(a) == rcvd[a] + (IF box[a] # NONE /\ box[a].kind = "plain" THEN 1 ELSE 0)

\* the plain messages in buffer b are the ones numbered lo + 1 to hi, in this order
Numbered(b, lo, hi) ==
    /\ lo <= hi
    /\ \A i \in DOMAIN b : b[i].kind = "plain" => b[i].id \in (lo + 1)..hi
    /\ \A i, j \in DOMAIN b : b[i].kind = "plain" /\ b[j].kind = "plain" /\ i < j => b[i].id < b[j].id
    /\ \A n \in (lo + 1)..hi : Plain(n) \in Members(b)

\* Messages that are not merged reach an application in the order they were
\* accepted, each once, whatever is merged or removed around them and however
\* many arrive before a woken application runs.
InOrder ==
    \A a \in Dst \cap live :
        /\ box[a] # NONE /\ box[a].kind = "plain" => box[a] = Plain(rcvd[a] + 1)
        /\ Numbered(buf[a], Given(a), sent[a])

\* everything in the cells of d is covered by a redraw among the messages ms
Covered(ms, d) ==
    \A w \in Window : \A c \in d[w] :
        \E m \in ms : m.kind = "redraw" /\ m.win = w /\ c \in CellsOf(m.rect)

\* the redraws of window w in buffer b
RedrawsOf(b, w) == {i \in DOMAIN b : b[i].kind = "redraw" /\ b[i].win = w}

\* only the latest slid message, number n, is in buffer b
OnlyLatest(b, n) ==
    \A i, j \in DOMAIN b : b[i].kind = "slid" /\ b[j].kind = "slid" => i = j /\ b[i].id = n

\* Merging forgets nothing that was to be redrawn, it lies in a rectangle that
\* the application has not fetched yet; and it keeps the buffer from filling
\* up: at most two redraws for a window, and of the other merged messages only
\* the latest one.
Merged ==
    \A a \in Dst \cap live :
        /\ Covered(Unfetched(a), dirty[a])
        /\ \A w \in Window : Cardinality(RedrawsOf(buf[a], w)) <= 2
        /\ OnlyLatest(buf[a], slid[a])

\* An application that was given its message goes on with it, unless it is
\* stopped.
MessageReceived ==
    \A a \in Dst : (a \in live /\ box[a] # NONE) ~> (box[a] = NONE \/ k.status[a] = "STOPPED")

-----------------------------------------------------------------------------
(* The rest of the inductive invariant of Message_proofs *)

\* every application is in the list its status names and somebody has the CPU
\* unless the kernel loop runs; who waits exists, waits for a message and is
\* not suspended; who does not wait has no timer and no message behind ap_evparm
WaitInv ==
    /\ ListsMatch(k, live) /\ (mode = "run" => k.ready # << >>)
    /\ \A a \in App :
          /\ pc[a] = "wait" => /\ a \in Dst \cap live /\ k.rbits[a] \in {{MSG}, {MSG, TIM}}
                              /\ k.status[a] # "SUSPENDED"
          /\ pc[a] = "user" => k.rbits[a] = {} /\ box[a] = NONE /\ a \notin tim
=============================================================================
