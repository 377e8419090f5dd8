------------------------------- MODULE Timer --------------------------------
(***************************************************************************)
(* The timer events of MagiC (src/kernel/aes/aesevt.s): wait_timer,        *)
(* timer_int, handle_tim and rmv_ap_timer. The applications that wait are  *)
(* in timer_evlist, each with the number of ticks (ap_ms) it has to wait   *)
(* longer than the one before it. The interrupt counts timer_cntdown down  *)
(* and timer_cntup up, and leaves a note in the ring buffer when the       *)
(* countdown ends; the kernel loop reads the note later.                   *)
(***************************************************************************)
EXTENDS Integers, Sequences

CONSTANTS App,       \* applications
          MaxMs,     \* longest wait, in ticks
          RngBfLen,  \* RNGBFLEN, entries of the ring buffer
          MaxUp      \* bound on timer_cntup while the ring buffer is full

ASSUME TimerAssumption ==
    /\ MaxMs \in Nat \ {0} /\ RngBfLen \in Nat \ {0} /\ MaxUp \in Nat

VARIABLES
    evlist,   \* timer_evlist
    ms,       \* ap_ms
    cntdown,  \* timer_cntdown, 0: no countdown
    cntup,    \* timer_cntup
    ring,     \* the notes in the ring buffer, each with its timer_cntup
    waits,    \* applications in evnt_timer or in a wait with a timeout
    due       \* ticks until the wait of an application is really over

vars == << evlist, ms, cntdown, cntup, ring, waits, due >>

\* No ap_ms is negative, which would let everybody behind it in the list wait
\* too short; the countdown never runs below zero, and the ring buffer keeps
\* its length.
TimerTypeOK ==
    /\ evlist \in Seq(App)
    /\ ms \in [App -> Nat]
    /\ cntdown \in Nat /\ cntup \in Nat
    /\ ring \in Seq(Nat) /\ Len(ring) <= RngBfLen
    /\ waits \subseteq App
    /\ due \in [App -> Nat]

Init ==
    /\ evlist = << >> /\ ms = [a \in App |-> 0]
    /\ cntdown = 0 /\ cntup = 0 /\ ring = << >>
    /\ waits = {} /\ due = [a \in App |-> 0]

-----------------------------------------------------------------------------
\* the ticks the first i applications of the list have to wait, as wait_timer
\* adds them up: the head has waited for timer_cntup ticks already
Offset(i, up) ==
    LET sum[j \in 0..Len(evlist)] == IF j = 0 THEN 0 - up ELSE sum[j - 1] + ms[evlist[j]]
    IN  sum[i]

\* Mutant: the new application always goes to the end of the list
PlaceLast(t, up) == Len(evlist)

\* wt_sort: t is inserted behind the first p applications, the ones that are
\* all due before it
Place(t, up) ==
    CHOOSE p \in 0..Len(evlist) :
       /\ \A i \in 1..p : t > Offset(i, up)
       /\ p < Len(evlist) => t <= Offset(p + 1, up)

\* wait_timer by application a, for t ticks
WaitTimer(a, t) ==
    /\ a \notin waits /\ t > 0
    /\ cntdown' = IF cntdown = 0 \/ t <= cntdown THEN t ELSE cntdown
    /\ cntup' = IF cntdown = 0 THEN 0 ELSE cntup
    /\ LET p == Place(t, cntup')
           d == IF p = 0 THEN t ELSE t - Offset(p, cntup')
       IN  /\ evlist' = SubSeq(evlist, 1, p) \o << a >> \o SubSeq(evlist, p + 1, Len(evlist))
           /\ ms' = [b \in App |-> IF b = a THEN d
                                   ELSE IF p < Len(evlist) /\ b = evlist[p + 1] THEN ms[b] - d
                                   ELSE ms[b]]
    /\ waits' = waits \cup {a}
    /\ due' = [due EXCEPT ![a] = t]
    /\ UNCHANGED ring

\* Mutant: the application stays in the list
RmvApTimerNot(a) ==
    /\ a \in waits
    /\ waits' = waits \ {a} /\ due' = [due EXCEPT ![a] = 0]
    /\ UNCHANGED << evlist, ms, cntdown, cntup, ring >>

\* Mutant: the countdown is stopped although others still wait
RmvApTimerStops(a) ==
    /\ a \in waits
    /\ LET p == CHOOSE i \in DOMAIN evlist : evlist[i] = a
       IN  /\ evlist' = SubSeq(evlist, 1, p - 1) \o SubSeq(evlist, p + 1, Len(evlist))
           /\ ms' = IF p < Len(evlist) THEN [ms EXCEPT ![evlist[p + 1]] = @ + ms[a], ![a] = 0]
                    ELSE [ms EXCEPT ![a] = 0]
    /\ cntdown' = 0
    /\ waits' = waits \ {a} /\ due' = [due EXCEPT ![a] = 0]
    /\ UNCHANGED << cntup, ring >>

\* rmv_ap_timer: a has been woken up by another event, or is terminated
RmvApTimer(a) ==
    /\ a \in waits
    /\ LET p == CHOOSE i \in DOMAIN evlist : evlist[i] = a
       IN  /\ evlist' = SubSeq(evlist, 1, p - 1) \o SubSeq(evlist, p + 1, Len(evlist))
           /\ ms' = IF p < Len(evlist) THEN [ms EXCEPT ![evlist[p + 1]] = @ + ms[a], ![a] = 0]
                    ELSE [ms EXCEPT ![a] = 0]
    /\ cntdown' = IF Len(evlist) = 1 THEN 0 ELSE cntdown
    /\ waits' = waits \ {a}
    /\ due' = [due EXCEPT ![a] = 0]
    /\ UNCHANGED << cntup, ring >>

\* timer_int: one tick
TimerInt ==
    /\ Len(ring) = RngBfLen => cntup < MaxUp
    /\ due' = [a \in App |-> IF due[a] > 0 THEN due[a] - 1 ELSE 0]
    /\ cntup' = IF cntdown > 0 THEN cntup + 1 ELSE cntup
    /\ IF cntdown = 1
       THEN IF Len(ring) < RngBfLen
            THEN ring' = Append(ring, cntup + 1) /\ cntdown' = 0
            ELSE UNCHANGED << ring, cntdown >>
       ELSE ring' = ring /\ cntdown' = IF cntdown = 0 THEN 0 ELSE cntdown - 1
    /\ UNCHANGED << evlist, ms, waits >>

\* how many applications handle_tim finds to be due after so many ticks
Expired(clicks) ==
    CHOOSE n \in 0..Len(evlist) :
       /\ \A i \in 1..n : Offset(i, 0) <= clicks
       /\ n < Len(evlist) => Offset(n + 1, 0) > clicks

\* Mutant: the countdown is not started for the next application
HandleTimNoRestart ==
    /\ ring # << >>
    /\ ring' = Tail(ring)
    /\ LET n == Expired(Head(ring))
           out == {evlist[i] : i \in 1..n}
       IN  /\ evlist' = SubSeq(evlist, n + 1, Len(evlist))
           /\ ms' = [b \in App |-> IF b \in out THEN 0
                                   ELSE IF n < Len(evlist) /\ b = evlist[n + 1]
                                        THEN Offset(n + 1, 0) - Head(ring) ELSE ms[b]]
           /\ waits' = waits \ out
           /\ due' = [b \in App |-> IF b \in out THEN 0 ELSE due[b]]
    /\ UNCHANGED << cntdown, cntup >>

\* handle_tim: the applications that are due leave the list and wake up, and
\* the countdown for the next one starts
HandleTim ==
    /\ ring # << >>
    /\ ring' = Tail(ring)
    /\ LET n == Expired(Head(ring))
           out == {evlist[i] : i \in 1..n}
           next == IF n < Len(evlist) THEN Offset(n + 1, 0) - Head(ring) ELSE 0
       IN  /\ evlist' = SubSeq(evlist, n + 1, Len(evlist))
           /\ ms' = [b \in App |-> IF b \in out THEN 0
                                   ELSE IF n < Len(evlist) /\ b = evlist[n + 1] THEN next ELSE ms[b]]
           /\ waits' = waits \ out
           /\ cntdown' = IF n < Len(evlist) THEN next ELSE cntdown
           /\ cntup' = IF n < Len(evlist) THEN 0 ELSE cntup
           /\ due' = [b \in App |-> IF b \in out THEN 0 ELSE due[b]]

Next ==
    \/ TimerInt \/ HandleTim
    \/ \E a \in App : RmvApTimer(a) \/ \E t \in 1..MaxMs : WaitTimer(a, t)

Spec == Init /\ [][Next]_vars

\* the timer ticks, and the kernel loop reads its notes
FairSpec == Spec /\ WF_vars(TimerInt) /\ WF_vars(HandleTim)

-----------------------------------------------------------------------------
\* timer_evlist holds exactly the applications that wait, each once, although
\* list, counters and notes are changed by interrupts, kernel and applications
\* at different times.
ListedOnce ==
    /\ waits = {evlist[i] : i \in DOMAIN evlist}
    /\ \A i, j \in DOMAIN evlist : evlist[i] = evlist[j] => i = j

\* Nobody waits in vain: as long as an application is in timer_evlist, a note
\* is on its way to handle_tim, or the countdown runs and ends no later than the
\* wait of the first application (counted from the start of the countdown).
CountdownRuns == evlist # << >> /\ ring = << >> => cntdown \in 1..ms[evlist[1]]

\* Every wait for a timer ends.
TimerFires == \A a \in App : (a \in waits) ~> (a \notin waits)

\* An application that waits for a number of ticks is not woken up by its timer
\* before they are over.
NeverEarly == [][HandleTim => \A a \in waits \ waits' : due[a] = 0]_vars
=============================================================================
