----------------------------- MODULE Semaphore ------------------------------
(***************************************************************************)
(* The semaphores of MagiC: evnt_sem and wind_update with its semaphore    *)
(* _SCR (src/kernel/aes/aesevt.s), Psemaphore (src/kernel/dos/magidos.s)   *)
(* and what the end of an application does to the semaphores it has or     *)
(* waits for (PDkill, appl_kill_events, wind_new).                         *)
(*                                                                         *)
(* The waiting list of a semaphore is kept as the code keeps it, a pointer *)
(* in the BLOCKAGE and one in each APPL. As in Sched, what an application  *)
(* does between two appl_yields is atomic; preemption and interrupts do    *)
(* not touch semaphores and are reduced to Yield and the expiry of timers. *)
(* Applications use wind_update as documented: they end only updates they  *)
(* have begun, and Psemaphore is not used on _SCR. Files are closed at the  *)
(* end of a process without waiting.                                       *)
(***************************************************************************)
EXTENDS Kernel, FiniteSets, FiniteSetsExt

CONSTANTS NONE,         \* null pointer
          SCR,          \* upd_blockage, the semaphore _SCR of wind_update
          Named,        \* semaphores of Psemaphore and of the kernel itself
          SEM, TIM,     \* EV_SEM, EV_TIM
          MaxNest,      \* bound on nested wind_update(BEG_UPDATE)
          Timeouts      \* the waits SEM_SET is called with: TRUE with a timeout

Sem == {SCR} \cup Named

ASSUME SemaphoreAssumption ==
    /\ IsFiniteSet(App) /\ IsFiniteSet(Named)
    /\ NONE \notin App \cup Named \cup {SCR} /\ SCR \notin Named
    /\ {SEM, TIM, RESVD} \subseteq Event /\ SEM \notin {TIM, RESVD}
    /\ MaxNest \in Nat \ {0}
    /\ Timeouts \subseteq BOOLEAN

VARIABLES
    k,       \* kernel state, see Kernel
    mode,    \* "run": Act(k) has the CPU; "kernel": in the kernel loop
    live,    \* slots of applx[] in use
    pc,      \* where an application goes on when it gets the CPU
    bl,      \* the BLOCKAGEs: bl_app, bl_pd, bl_cnt, bl_waiting; valid: in the
             \* list that starts at first_sem
    nxtsem,  \* ap_nxtsem
    semaph,  \* ap_semaph
    tim,     \* applications with an entry in timer_evlist
    held     \* how often an application was told that it got a semaphore,
             \* minus its own releases

vars == << k, mode, live, pc, bl, nxtsem, semaph, tim, held >>

Ptr == App \cup {NONE}
Blockage == [app: Ptr, pd: Ptr, cnt: 0..MaxNest, waiting: Ptr, valid: BOOLEAN]

\* user: user code; sem: in the appl_wait of SEM_SET or BEG_UPDATE; break: at
\* appl_break; events, new, fall: the next steps of the termination; upd: its
\* update_1 waits
Pc == {"user", "sem", "break", "events", "upd", "new", "fall"}

\* BLOCKAGEs and links name applications, and bl_cnt stays between 0 and MaxNest.
TypeOK ==
    /\ k \in KState
    /\ mode \in {"run", "kernel"}
    /\ live \subseteq App
    /\ pc \in [App -> Pc]
    /\ bl \in [Sem -> Blockage]
    /\ nxtsem \in [App -> Ptr]
    /\ semaph \in [App -> Sem \cup {NONE}]
    /\ tim \subseteq App
    /\ held \in [App -> [Sem -> 0..MaxNest]]

Init ==
    /\ \E a \in App :
          /\ k = [ready |-> << a >>, notready |-> {}, susp |-> << >>,
                  status |-> [b \in App |-> "READY"], rbits |-> [b \in App |-> {}],
                  hbits |-> [b \in App |-> {}], unsusp |-> UnSusp]
          /\ live = {a}
    /\ mode = "run"
    /\ pc = [b \in App |-> "user"]
    /\ bl = [s \in Sem |-> [app |-> NONE, pd |-> NONE, cnt |-> 0, waiting |-> NONE, valid |-> TRUE]]
    /\ nxtsem = [b \in App |-> NONE]
    /\ semaph = [b \in App |-> NONE]
    /\ tim = {}
    /\ held = [b \in App |-> [s \in Sem |-> 0]]

-----------------------------------------------------------------------------
(* Waiting lists *)

\* the waiting list that starts with pointer p, as far as a loop over it gets
\* in so many steps as there are applications
Walk(p, nx) ==
    LET at[i \in 0..Cardinality(App)] ==
          IF i = 0 THEN p ELSE IF at[i - 1] = NONE THEN NONE ELSE nx[at[i - 1]]
    IN  at

Linked(p, nx) == {Walk(p, nx)[i] : i \in 0..Cardinality(App)} \ {NONE}

\* a loop over the list comes to its end
Ends(p, nx) == Walk(p, nx)[Cardinality(App)] = NONE

\* the list as a sequence, longest waiting application first
WaitOrder(p, nx) ==
    LET n == Cardinality(Linked(p, nx))
    IN  [i \in 1..n |-> Walk(p, nx)[n - i]]

\* Mutant: whoever waits behind b is lost
SetLinkToNone(st, s, b, q) ==
    IF st.bl[s].waiting = b THEN [st EXCEPT !.bl[s].waiting = NONE]
    ELSE LET pred == CHOOSE c \in Linked(st.bl[s].waiting, st.nxtsem) : st.nxtsem[c] = b
         IN  [st EXCEPT !.nxtsem[pred] = NONE]

\* Unlink: the pointer to b, in bl_waiting or in an ap_nxtsem, becomes q
SetLinkTo(st, s, b, q) ==
    IF st.bl[s].waiting = b THEN [st EXCEPT !.bl[s].waiting = q]
    ELSE LET pred == CHOOSE c \in Linked(st.bl[s].waiting, st.nxtsem) : st.nxtsem[c] = b
         IN  [st EXCEPT !.nxtsem[pred] = q]

\* Mutant: the application that came last becomes the owner
FreeSemaphoreLast(st, s) ==
    IF st.bl[s].waiting = NONE THEN [st EXCEPT !.bl[s].app = NONE]
    ELSE LET b == st.bl[s].waiting
             u == SetLinkTo(st, s, b, st.nxtsem[b])
         IN  [u EXCEPT !.bl[s].app = b, !.bl[s].pd = b, !.bl[s].cnt = IF s = SCR THEN 1 ELSE 0,
                       !.k = EventHappened(st.k, b, SEM)]

\* free_semaphore: the application that waits longest becomes the owner. st is
\* a record of k, bl and nxtsem. bl_cnt means something for _SCR only
FreeSemaphore(st, s) ==
    IF st.bl[s].waiting = NONE THEN [st EXCEPT !.bl[s].app = NONE]
    ELSE LET b == Head(WaitOrder(st.bl[s].waiting, st.nxtsem))
             u == SetLinkTo(st, s, b, NONE)
         IN  [u EXCEPT !.bl[s].app = b, !.bl[s].pd = b, !.bl[s].cnt = IF s = SCR THEN 1 ELSE 0,
                       !.k = EventHappened(st.k, b, SEM)]

\* SEM_FREE for every semaphore of a set of valid ones
FreeAll(st, S) == FoldSet(LAMBDA s, x : FreeSemaphore(x, s), st, S)

State == [k |-> k, bl |-> bl, nxtsem |-> nxtsem]

-----------------------------------------------------------------------------
(* evnt_sem and wind_update *)

Running(a, where) == mode = "run" /\ a = Act(k) /\ pc[a] = where

ApplYield(n) == k' = YieldLists(n) /\ mode' = "kernel"

\* the system call of a goes on with kernel state, BLOCKAGEs and links st
Return(st) ==
    k' = st.k /\ bl' = st.bl /\ nxtsem' = st.nxtsem /\ UNCHANGED << mode, live >>

\* a no longer waits, and nothing looks at its ap_semaph until it waits again
Forget(a) == semaph' = [semaph EXCEPT ![a] = NONE]

\* the common part of SEM_SET and BEG_UPDATE: a goes to the front of the
\* waiting list of s and waits
WaitFor(a, s, evs, where) ==
    /\ nxtsem' = [nxtsem EXCEPT ![a] = bl[s].waiting]
    /\ bl' = [bl EXCEPT ![s].waiting = a]
    /\ semaph' = [semaph EXCEPT ![a] = s]
    /\ ApplYield(BeginWait(k, a, evs))
    /\ pc' = [pc EXCEPT ![a] = where]
    /\ UNCHANGED live

\* SEM_SET and SEM_CSET of a free semaphore
SemSet(a, s) ==
    /\ Running(a, "user") /\ bl[s].valid /\ bl[s].app = NONE
    /\ bl' = [bl EXCEPT ![s].app = a, ![s].pd = a]
    /\ held' = [held EXCEPT ![a][s] = 1]
    /\ UNCHANGED << k, mode, live, pc, nxtsem, semaph, tim >>

\* SEM_SET of a semaphore that somebody else has
SemSetWait(a, s) ==
    /\ Running(a, "user") /\ bl[s].valid /\ bl[s].app \notin {NONE, a}
    /\ \E t \in Timeouts : /\ tim' = IF t THEN tim \cup {a} ELSE tim
                           /\ WaitFor(a, s, IF t THEN {SEM, TIM} ELSE {SEM}, "sem")
    /\ UNCHANGED held

\* SEM_SET and BEG_UPDATE after appl_wait: a has got the semaphore unless the
\* time is over or the semaphore has been removed
WaitRet(a) ==
    /\ Running(a, "sem")
    /\ k' = EndWait(k, a)
    /\ tim' = IF TIM \in k.hbits[a] THEN tim ELSE tim \ {a}
    /\ held' = IF SEM \in k.hbits[a] /\ semaph[a] # NONE
               THEN [held EXCEPT ![a][semaph[a]] = 1] ELSE held
    /\ pc' = [pc EXCEPT ![a] = "user"]
    /\ Forget(a)
    /\ UNCHANGED << mode, live, bl, nxtsem >>

\* SEM_FREE by the owner
SemFree(a, s) ==
    /\ Running(a, "user") /\ bl[s].valid /\ bl[s].app = a
    /\ Return(FreeSemaphore(State, s))
    /\ held' = [held EXCEPT ![a][s] = 0]
    /\ UNCHANGED << pc, semaph, tim >>

\* Psemaphore(PSEM_CRGET): create a semaphore and take it
SemCreate(a, s) ==
    /\ Running(a, "user") /\ ~bl[s].valid
    /\ bl' = [bl EXCEPT ![s] = [app |-> a, pd |-> a, cnt |-> 0, waiting |-> NONE, valid |-> TRUE]]
    /\ held' = [held EXCEPT ![a][s] = 1]
    /\ UNCHANGED << k, mode, live, pc, nxtsem, semaph, tim >>

\* Psemaphore(PSEM_DESTROY), SEM_DEL: all waiting applications go on
SemDel(a, s) ==
    /\ Running(a, "user")
    /\ bl[s].valid /\ bl[s].pd = a /\ bl[s].app \in {NONE, a}
    /\ LET w == WaitOrder(bl[s].waiting, nxtsem)
           wake[i \in 0..Len(w)] ==
              IF i = 0 THEN k ELSE EventHappened(wake[i - 1], w[Len(w) + 1 - i], SEM)
       IN  k' = wake[Len(w)]
    /\ semaph' = [b \in App |-> IF b \in Linked(bl[s].waiting, nxtsem) THEN NONE ELSE semaph[b]]
    /\ bl' = [bl EXCEPT ![s] = [app |-> NONE, pd |-> NONE, cnt |-> 0, waiting |-> NONE, valid |-> FALSE]]
    /\ held' = [held EXCEPT ![a][s] = 0]
    /\ UNCHANGED << mode, live, pc, nxtsem, tim >>

\* Mutant: the counter is compared after it has been incremented
BegUpdateGetsLate(a) == bl[SCR].app = a \/ bl[SCR].cnt <= 1

\* _beg_update gets the semaphore: it is the caller's, or its counter was 0
BegUpdateGets(a) == bl[SCR].app = a \/ bl[SCR].cnt = 0

\* wind_update(BEG_UPDATE) without waiting
BegUpdate(a) ==
    /\ Running(a, "user") /\ BegUpdateGets(a) /\ bl[SCR].cnt < MaxNest
    /\ bl' = [bl EXCEPT ![SCR].cnt = @ + 1, ![SCR].app = a, ![SCR].pd = a]
    /\ held' = [held EXCEPT ![a][SCR] = @ + 1]
    /\ UNCHANGED << k, mode, live, pc, nxtsem, semaph, tim >>

\* wind_update(BEG_UPDATE) when another application has the screen
BegUpdateWait(a) ==
    /\ Running(a, "user") /\ ~BegUpdateGets(a)
    /\ WaitFor(a, SCR, {SEM}, "sem")
    /\ UNCHANGED << tim, held >>

\* Mutant: the counter is decremented once too often
EndUpdateTwice(st) ==
    LET d == [st EXCEPT !.bl[SCR].cnt = @ - 2]
    IN  IF d.bl[SCR].cnt = 0 THEN FreeSemaphore(d, SCR) ELSE d

\* end_update: the last one frees the semaphore and yields
EndUpdateState(st) ==
    LET d == [st EXCEPT !.bl[SCR].cnt = @ - 1]
    IN  IF d.bl[SCR].cnt = 0 THEN FreeSemaphore(d, SCR) ELSE d

EndUpdate(a) ==
    /\ Running(a, "user") /\ held[a][SCR] > 0 /\ bl[SCR].cnt > 0
    /\ LET st == EndUpdateState(State)
       IN  /\ bl' = st.bl /\ nxtsem' = st.nxtsem
           /\ IF bl[SCR].cnt = 1 THEN ApplYield(st.k) ELSE UNCHANGED << k, mode >>
    /\ held' = [held EXCEPT ![a][SCR] = @ - 1]
    /\ UNCHANGED << live, pc, semaph, tim >>

\* sigreturn for the main thread a of a process: SEM_FALL releases what a owns,
\* _SCR included, but leaves bl_cnt alone
SigReturn(a) ==
    /\ Running(a, "user")
    /\ \E s \in Sem : bl[s].valid /\ bl[s].app = a
    /\ Return(FreeAll(State, {s \in Sem : bl[s].valid /\ bl[s].app = a}))
    /\ held' = [held EXCEPT ![a] = [s \in Sem |-> 0]]
    /\ UNCHANGED << pc, semaph, tim >>

-----------------------------------------------------------------------------
(* Applications come and go *)

\* a gives up the CPU in user code
Yield(a) ==
    /\ Running(a, "user")
    /\ ApplYield(k)
    /\ UNCHANGED << live, pc, bl, nxtsem, semaph, tim, held >>

\* init_APPL: a starts an application in the free slot b
InitAPPL(a, b) ==
    /\ Running(a, "user") /\ b \notin live
    /\ k' = ApToLastReady(k, b)
    /\ live' = live \cup {b}
    /\ UNCHANGED << mode, pc, bl, nxtsem, semaph, tim, held >>

\* Pterm by a itself, or kill_thread of b, which goes on at appl_break. The
\* process is no longer in procx[] when it terminates, so it is not hit twice
Kill(a, b) ==
    /\ Running(a, "user") /\ b \in live /\ pc[b] \in {"user", "sem"}
    /\ pc' = [pc EXCEPT ![b] = "break"]
    /\ k' = IF a = b THEN k ELSE App2Ready(k, b)
    /\ UNCHANGED << mode, live, bl, nxtsem, semaph, tim, held >>

\* Mutant: SEM_FPD does not reset bl_cnt
TermFpdNoCnt(a) ==
    /\ Running(a, "break")
    /\ Return(FreeAll(State, {s \in Sem : bl[s].valid /\ bl[s].app # NONE /\ bl[s].pd = a}))
    /\ held' = [held EXCEPT ![a] = [s \in Sem |-> 0]]
    /\ pc' = [pc EXCEPT ![a] = "events"]
    /\ UNCHANGED << semaph, tim >>

\* the end of PDkill: SEM_FPD releases every semaphore of the process
TermFpd(a) ==
    /\ Running(a, "break")
    /\ LET S == {s \in Sem : bl[s].valid /\ bl[s].app # NONE /\ bl[s].pd = a}
           zero == [s \in Sem |-> IF s \in S THEN [bl[s] EXCEPT !.cnt = 0] ELSE bl[s]]
       IN  Return(FreeAll([State EXCEPT !.bl = zero], S))
    /\ held' = [held EXCEPT ![a] = [s \in Sem |-> 0]]
    /\ pc' = [pc EXCEPT ![a] = "events"]
    /\ UNCHANGED << semaph, tim >>

\* Mutant: a terminated application stays in the waiting list
RmvApSemNot(a) == State

\* rmv_ap_sem: take a out of the waiting list it is in
RmvApSem(a) ==
    IF SEM \in k.rbits[a] \ k.hbits[a] /\ a \in Linked(bl[semaph[a]].waiting, nxtsem)
    THEN SetLinkTo(State, semaph[a], a, nxtsem[a]) ELSE State

\* appl_kill_events: rmv_ap_timer and rmv_ap_sem
TermEvents(a) ==
    /\ Running(a, "events")
    /\ tim' = IF TIM \in k.rbits[a] \ k.hbits[a] THEN tim \ {a} ELSE tim
    /\ Return([RmvApSem(a) EXCEPT !.k = EndWait(k, a)])
    /\ pc' = [pc EXCEPT ![a] = "new"]
    /\ Forget(a)
    /\ UNCHANGED held

\* update_1 in appl_wind_new, when it has to wait
TermUpdWait(a) ==
    /\ Running(a, "new") /\ ~BegUpdateGets(a)
    /\ WaitFor(a, SCR, {SEM}, "upd")
    /\ UNCHANGED << tim, held >>

\* wind_new after update_1: end_update with the counter set to 1
TermWindNew(a) ==
    /\ Running(a, "upd") \/ (Running(a, "new") /\ BegUpdateGets(a))
    /\ LET got == [State EXCEPT !.k = EndWait(k, a), !.bl[SCR].app = a, !.bl[SCR].pd = a,
                                !.bl[SCR].cnt = 1]
           st == EndUpdateState(got)
       IN  bl' = st.bl /\ nxtsem' = st.nxtsem /\ ApplYield(st.k)
    /\ pc' = [pc EXCEPT ![a] = "fall"]
    /\ Forget(a)
    /\ UNCHANGED << live, tim, held >>

\* SEM_FALL at the end of wind_new, and the end of the application
TermEnd(a) ==
    /\ Running(a, "fall")
    /\ LET st == FreeAll(State, {s \in Sem : bl[s].valid /\ bl[s].app = a})
       IN  /\ bl' = st.bl /\ nxtsem' = st.nxtsem
           /\ k' = [st.k EXCEPT !.ready = Tail(@), !.rbits[a] = {}, !.hbits[a] = {}]
    /\ mode' = "kernel" /\ live' = live \ {a}
    /\ pc' = [pc EXCEPT ![a] = "user"]
    /\ UNCHANGED << semaph, tim, held >>

-----------------------------------------------------------------------------
(* The kernel loop *)

\* handle_tim: the timer of b has run out
HandleTim(b) ==
    /\ mode = "kernel" /\ b \in tim
    /\ tim' = tim \ {b}
    /\ k' = IF TIM \in k.rbits[b] \ k.hbits[b] THEN EventHappened(k, b, TIM) ELSE k
    /\ UNCHANGED << mode, live, pc, bl, nxtsem, semaph, held >>

Switch ==
    /\ mode = "kernel" /\ CanSwitch(k)
    /\ k' = SwitchTo(k) /\ mode' = "run"
    /\ UNCHANGED << live, pc, bl, nxtsem, semaph, tim, held >>

AppStep(a) ==
    \/ Yield(a) \/ WaitRet(a) \/ BegUpdate(a) \/ BegUpdateWait(a) \/ EndUpdate(a)
    \/ TermFpd(a) \/ TermEvents(a) \/ TermUpdWait(a) \/ TermWindNew(a) \/ TermEnd(a)
    \/ \E s \in Named : \/ SemSet(a, s) \/ SemSetWait(a, s) \/ SemFree(a, s)
                        \/ SemCreate(a, s) \/ SemDel(a, s)
    \/ \E b \in App : InitAPPL(a, b) \/ Kill(a, b)

Next == Switch \/ \E a \in App : AppStep(a)

Spec == Init /\ [][Next]_vars

\* The two things the semaphores do not survive: waits that time out, and
\* signal handlers that end with Psigreturn
NextTimeout == Next \/ \E b \in App : HandleTim(b)

NextSignal == Next \/ \E a \in App : SigReturn(a)

SpecTimeout == Init /\ [][NextTimeout]_vars

SpecSignal == Init /\ [][NextSignal]_vars

\* The kernel loop, system calls and terminations go on by themselves, the time
\* slice of an application ends, and applications end their updates
Fairness ==
    /\ WF_vars(Switch)
    /\ \A a \in App : /\ WF_vars(WaitRet(a)) /\ SF_vars(Yield(a)) /\ SF_vars(EndUpdate(a))
                      /\ WF_vars(TermFpd(a)) /\ WF_vars(TermEvents(a)) /\ WF_vars(TermUpdWait(a))
                      /\ WF_vars(TermWindNew(a)) /\ WF_vars(TermEnd(a))

FairSpec == Spec /\ Fairness

-----------------------------------------------------------------------------
(* Correctness *)

\* An application that was told it has a semaphore has it: nobody else becomes
\* bl_app before it releases the semaphore or ends, not through hand-over,
\* nesting, removal or the termination of others. This is so in Spec, where no
\* wait runs out; under SpecTimeout an application that is still linked after its
\* timeout (aesevt.s:1272) takes the hand-over for that of its next wait.
HolderIsOwner ==
    \A a \in live, s \in Sem : held[a][s] > 0 =>
       bl[s].valid /\ bl[s].app = a /\ (s = SCR => bl[s].cnt = held[a][s])

\* Conversely no semaphore is owned by an application that does not know of it
\* and would never release it: the owner was told, is just being told, or is
\* terminating.
OwnerKnows ==
    \A s \in Sem : bl[s].app # NONE =>
       LET a == bl[s].app
       IN  /\ a \in live
           /\ \/ held[a][s] > 0
              \/ pc[a] \in {"sem", "upd"} /\ SEM \in k.hbits[a] /\ semaph[a] = s
              \/ pc[a] \in {"break", "events"}

\* The waiting list of a semaphore is a proper list of exactly the applications
\* that wait for it, whatever has been linked and unlinked: evs_set puts an
\* application in front, free_semaphore takes the last one, rmv_ap_sem one out
\* of the middle.
WaitersLinked ==
    \A s \in Sem :
       /\ Ends(bl[s].waiting, nxtsem)
       /\ Linked(bl[s].waiting, nxtsem) =
             {a \in live : SEM \in k.rbits[a] \ k.hbits[a] /\ semaph[a] = s}

\* A semaphore that nobody has can be taken: no application is left waiting for
\* it, and the counter by which _beg_update decides is 0.
FreeIsFree ==
    \A s \in Sem : bl[s].app = NONE => bl[s].waiting = NONE /\ (s = SCR => bl[s].cnt = 0)

\* Every application that waits for the screen in wind_update gets it, or is
\* terminated, as long as every owner ends its updates: newcomers cannot
\* overtake it for ever, since free_semaphore serves who waits longest.
ScreenGranted ==
    \A a \in App : (pc[a] = "sem") ~> (held[a][SCR] > 0 \/ pc[a] \notin {"sem", "user"})

\* evnt_sem, wind_update and the termination of applications implement the
\* abstract semaphores: one owner, first come first served.
Abstract == INSTANCE SemSpec WITH
    owner <- [s \in Sem |-> bl[s].app],
    queue <- [s \in Sem |-> WaitOrder(bl[s].waiting, nxtsem)]

ImplementsSemSpec == Abstract!SemSpecification

-----------------------------------------------------------------------------
(* The rest of the inductive invariant of Semaphore_proofs *)

Queue(s) == WaitOrder(bl[s].waiting, nxtsem)

\* q is the list that starts with pointer p, its last member in front
IsList(q, p, nx) ==
    /\ q \in Seq(App) /\ NoDup(q)
    /\ p = IF q = << >> THEN NONE ELSE q[Len(q)]
    /\ \A i \in DOMAIN q : nx[q[i]] = IF i = 1 THEN NONE ELSE q[i - 1]

Waiters(s) == {a \in live : SEM \in k.rbits[a] \ k.hbits[a] /\ semaph[a] = s}

\* the waiting lists are lists of those who wait
Queues == \A s \in Sem : IsList(Queue(s), bl[s].waiting, nxtsem) /\ Members(Queue(s)) = Waiters(s)

\* the lists of the scheduler are right, the running application is in one, and
\* suspended applications wait for nothing
Lists ==
    /\ ListsMatch(k, live)
    /\ mode = "run" => k.ready # << >>
    /\ \A a \in App : k.status[a] = "SUSPENDED" => k.rbits[a] = {}

\* who waits, for what, and what has happened to it
WaitInv ==
    \A a \in App :
       /\ pc[a] \in {"user", "new", "fall"} => /\ k.rbits[a] = {} /\ k.hbits[a] = {}
                                             /\ semaph[a] = NONE
       /\ pc[a] \in {"sem", "upd"} => /\ SEM \in k.rbits[a] /\ k.hbits[a] \subseteq {SEM}
                                     /\ (k.status[a] = "READY" => SEM \in k.hbits[a])
       /\ pc[a] = "upd" => semaph[a] = SCR
       /\ SEM \in k.rbits[a] \ k.hbits[a] => semaph[a] # NONE
       /\ pc[a] \in {"events", "new"} => mode = "run" /\ a = Act(k)

\* an application that is ending or has ended has given back what it had
GaveBack ==
    \A a \in App :
       /\ a \notin live => pc[a] = "user"
       /\ a \notin live \/ pc[a] \in {"events", "new", "upd", "fall"} =>
             \A s \in Sem : held[a][s] = 0

\* an application that got a semaphore while it waited finds it its own when it
\* runs
Told ==
    \A a \in App : pc[a] \in {"sem", "upd"} /\ SEM \in k.hbits[a] /\ semaph[a] # NONE =>
       bl[semaph[a]].app = a /\ (semaph[a] = SCR => bl[SCR].cnt = 1)

\* the owner of a semaphore is live and knows of it, or has yet to be terminated;
\* _SCR is never removed
Owned ==
    /\ bl[SCR].valid
    /\ \A s \in Sem : bl[s].app # NONE =>
          /\ bl[s].valid /\ bl[s].pd = bl[s].app /\ bl[s].app \in live
          /\ s = SCR => bl[s].cnt > 0
          /\ bl[s].app \notin Waiters(s)
          /\ \/ held[bl[s].app][s] > 0
             \/ /\ pc[bl[s].app] \in {"sem", "upd"}
                /\ SEM \in k.hbits[bl[s].app] /\ semaph[bl[s].app] = s
             \/ pc[bl[s].app] = "break"

SemInv ==
    /\ TypeOK /\ Queues /\ Lists /\ WaitInv /\ GaveBack /\ Told /\ Owned
    /\ FreeIsFree /\ HolderIsOwner

=============================================================================
