------------------------------- MODULE Kernel -------------------------------
(***************************************************************************)
(* The data structure of the MagiC scheduler and the routines that move an *)
(* application between its lists (src/kernel/aes/aesevt.s).                *)
(*                                                                         *)
(* A kernel state k is a record:                                           *)
(*   ready    the list that starts at act_appl: its head is the running    *)
(*            application, the others are ready to run, first come first   *)
(*   notready the applications that wait for an event. The code keeps a    *)
(*            list, but only ever looks an element up in it, so its order  *)
(*            cannot be observed and a set is enough                       *)
(*   susp     suspend_list: applications that used up their time slice     *)
(*   status   ap_status                                                    *)
(*   rbits    ap_rbits, the events an application waits for                *)
(*   hbits    ap_hbits, the events that have arrived                       *)
(*   unsusp   pe_unsuspcnt, calls of appl_yield until the first suspended  *)
(*            application becomes ready again                              *)
(*                                                                         *)
(* Every operator takes a kernel state to the state the routine leaves     *)
(* behind. The routines run in supervisor mode, where no application can   *)
(* be preempted, and interrupts never touch these fields, so each of them  *)
(* is atomic.                                                              *)
(***************************************************************************)
EXTENDS Integers, Sequences

CONSTANTS App,      \* slots of applx[], identified by ap_id
          Event,    \* EV_xxx bits
          RESVD,    \* EV_RESVD, the fictitious event of app2ready
          UnSusp    \* pe_un_susp, reload value of pe_unsuspcnt

ASSUME KernelAssumption == RESVD \in Event /\ UnSusp \in Nat

Status == {"READY", "WAITING", "SUSPENDED", "STOPPED"}

KState == [ready: Seq(App), notready: SUBSET App, susp: Seq(App),
           status: [App -> Status], rbits: [App -> SUBSET Event],
           hbits: [App -> SUBSET Event], unsusp: 0..UnSusp]

\* act_appl, the running application
Act(k) == Head(k.ready)

\* the members of a list
Members(list) == {list[i] : i \in DOMAIN list}

\* rmv_lstelm: the list without application a, unchanged if a is not in it
RmvLstElm(list, a) ==
    IF a \in Members(list)
    THEN LET p == CHOOSE i \in DOMAIN list : list[i] = a
         IN  [j \in 1..(Len(list) - 1) |-> IF j < p THEN list[j] ELSE list[j + 1]]
    ELSE list

\* ap_to_lastready: a becomes ready and goes to the end of the ready list
ApToLastReady(k, a) ==
    [k EXCEPT !.status[a] = "READY", !.ready = Append(@, a)]

\* Mutant: event_happened records the event and wakes nobody up
EventHappenedNoWake(k, a, e) == [k EXCEPT !.hbits[a] = @ \cup {e}]

\* event_happened: record event e for a, wake a up if it waits for e
EventHappened(k, a, e) ==
    LET h == k.hbits[a] \cup {e}
        n == [k EXCEPT !.hbits[a] = h]
    IN  IF k.status[a] \in {"READY", "STOPPED"} \/ h \cap k.rbits[a] = {} THEN n
        ELSE IF a \in k.notready
             THEN ApToLastReady([n EXCEPT !.notready = @ \ {a}], a)
             ELSE [n EXCEPT !.status[a] = "READY"]

\* Mutant: stp_thr forgets suspend_list
StpThrKeepsSusp(k, a) ==
    [k EXCEPT !.status[a] = "STOPPED",
              !.ready = IF k.status[a] = "READY" /\ a # Act(k) THEN RmvLstElm(@, a) ELSE @,
              !.notready = IF k.status[a] = "WAITING" THEN @ \ {a} ELSE @]

\* stp_thr: take a out of its list (unless it is the running one) and stop it
StpThr(k, a) ==
    [k EXCEPT !.status[a] = "STOPPED",
              !.ready = IF k.status[a] = "READY" /\ a # Act(k) THEN RmvLstElm(@, a) ELSE @,
              !.notready = IF k.status[a] = "WAITING" THEN @ \ {a} ELSE @,
              !.susp = IF k.status[a] = "SUSPENDED" THEN RmvLstElm(@, a) ELSE @]

\* cnt_thr: a stopped application becomes ready, or waits on if nothing it
\* waits for has arrived meanwhile
CntThr(k, a) ==
    IF k.status[a] # "STOPPED" THEN k
    ELSE IF k.rbits[a] = {} \/ k.rbits[a] \cap k.hbits[a] # {}
         THEN ApToLastReady(k, a)
         ELSE [k EXCEPT !.status[a] = "WAITING", !.notready = @ \cup {a}]

\* Mutant: app2ready leaves a waiting application alone
App2ReadyStopped(k, a) == CntThr(k, a)

\* app2ready: make a run again whatever it waits for
App2Ready(k, a) ==
    LET c == CntThr(k, a)
    IN  IF c.status[a] # "WAITING" THEN c
        ELSE EventHappened([c EXCEPT !.rbits[a] = @ \cup {RESVD}], a, RESVD)

\* first part of appl_wait: forget old events and wait for the events in evs
BeginWait(k, a, evs) ==
    [k EXCEPT !.hbits[a] = {}, !.rbits[a] = evs, !.status[a] = "WAITING"]

\* last part of appl_wait, when a runs again. Its caller has read ap_hbits by
\* then; nobody does so again before the next appl_wait clears them, so they
\* are cleared here already
EndWait(k, a) == [k EXCEPT !.rbits[a] = {}, !.hbits[a] = {}]

\* Mutant: the counter is not tested before it is decremented
UnSuspendNoTest(k) == [k EXCEPT !.unsusp = @ - 1]

\* appl_yield up to ad_no_unsus: every UnSusp+1 calls the first suspended
\* application becomes ready
UnSuspend(k) ==
    IF k.unsusp # 0 THEN [k EXCEPT !.unsusp = @ - 1]
    ELSE LET n == [k EXCEPT !.unsusp = UnSusp]
         IN  IF k.susp = << >> THEN n
             ELSE ApToLastReady([n EXCEPT !.susp = Tail(@)], Head(k.susp))

\* appl_yield up to ad__kernel: move the running application to the list its
\* status calls for
YieldLists(k) ==
    LET u == UnSuspend(k)
        a == Act(u)
        n == [u EXCEPT !.ready = Tail(@)]
    IN  IF u.status[a] = "READY" \/ (u.status[a] = "WAITING" /\ u.rbits[a] \cap u.hbits[a] # {})
        THEN ApToLastReady(n, a)
        ELSE IF u.status[a] = "WAITING" THEN [n EXCEPT !.notready = @ \cup {a}]
        ELSE IF u.status[a] = "SUSPENDED" THEN [n EXCEPT !.susp = Append(@, a)]
        ELSE n

\* Mutant: the kernel loop does not look at suspend_list
CanSwitchReady(k) == k.ready # << >>

\* ad_newready / ad_newsuspend: there is an application that can run, and it
\* becomes the head of the ready list
CanSwitch(k) == k.ready # << >> \/ k.susp # << >>

SwitchTo(k) ==
    IF k.ready # << >> THEN k
    ELSE [k EXCEPT !.susp = Tail(@), !.ready = << Head(k.susp) >>,
                   !.status[Head(k.susp)] = "READY"]

-----------------------------------------------------------------------------
(* What the lists mean *)

NoDup(list) == \A i, j \in DOMAIN list : list[i] = list[j] => i = j

\* every application is in the list that its ap_status names, and only there
ListsMatch(k, live) ==
    /\ NoDup(k.ready) /\ NoDup(k.susp)
    /\ Members(k.ready) = {a \in live : k.status[a] = "READY"}
    /\ Members(k.susp) = {a \in live : k.status[a] = "SUSPENDED"}
    /\ k.notready = {a \in live : k.status[a] = "WAITING"}

\* the same inside a system call of the running application c, whose status
\* already says where appl_yield is going to put it
ListsMatchBut(k, live, c) ==
    /\ NoDup(k.ready) /\ NoDup(k.susp)
    /\ k.ready # << >> /\ c = Act(k) /\ c \in live
    /\ Members(k.ready) = {c} \cup {a \in live : k.status[a] = "READY"}
    /\ Members(k.susp) = {a \in live \ {c} : k.status[a] = "SUSPENDED"}
    /\ k.notready = {a \in live \ {c} : k.status[a] = "WAITING"}
=============================================================================
