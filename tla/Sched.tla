------------------------------- MODULE Sched --------------------------------
(***************************************************************************)
(* The event manager of MagiC: one CPU, the applications that share it,    *)
(* and the interrupts that wake them up (src/kernel/aes/aesevt.s, thread   *)
(* control from src/kernel/aes/aesmain.s).                                 *)
(*                                                                         *)
(* An application leaves the CPU only inside appl_yield: by itself, or     *)
(* through int_hz_200, which calls appl_suspend when its time slice is     *)
(* used up and it runs in user mode. Everything a system call does between *)
(* two appl_yields is therefore atomic for the other applications, and is  *)
(* one action here; interrupts come between any two actions. They only     *)
(* leave a note (iocpbuf, ring buffer) that the kernel loop reads.         *)
(*                                                                         *)
(* Each application is a process with one thread.                          *)
(***************************************************************************)
EXTENDS Kernel

CONSTANTS IO, TIM,       \* EV_IO, EV_TIM
          RngBfLen,      \* RNGBFLEN, entries of the ring buffer
          MaxCritic,     \* bound on the nesting of critical sections
          Timeouts       \* the waits evnt_IO is called with: TRUE with a timeout

ASSUME SchedAssumption ==
    /\ {IO, TIM, RESVD} \subseteq Event
    /\ IO # TIM /\ IO # RESVD /\ TIM # RESVD
    /\ RngBfLen \in Nat \ {0}
    /\ MaxCritic \in Nat
    /\ Timeouts \subseteq BOOLEAN

VARIABLES
    k,        \* kernel state, see Kernel
    mode,     \* "run": Act(k) has the CPU; "kernel": in the loop at
              \* ad__kernel; "scan": in refr_loop2, with interrupts masked
    live,     \* slots of applx[] in use
    pc,       \* where an application goes on when it gets the CPU
    iocp,     \* iocpbuf: slots with an IOcomplete the kernel has not read
    lost,     \* history variable: applications whose IOcomplete the end of
              \* another one has cleared (see RmvApIO), until their next operation
    iocnt,    \* iocpbuf_cnt
    scan,     \* slots refr_loop2 has not yet looked at
    ringcnt,  \* ringbuf_cnt: timer expiries the kernel has not read
    tim,      \* entry of the application in timer_evlist
    unsel,    \* *unsel: "armed" holds the unselect routine, "done" is 1
    critic,   \* ap_critic
    critAct,  \* ap_crit_act
    stpsig    \* ap_stpsig

vars == << k, mode, live, pc, iocp, lost, iocnt, scan, ringcnt, tim, unsel,
           critic, critAct, stpsig >>
ints == << iocp, lost, iocnt, scan, ringcnt, tim, unsel >>
ctrl == << critic, critAct, stpsig >>

\* user:  user code;   sel: a driver has started an operation and enabled its
\* interrupt;   io: in the appl_wait of evnt_IO;   break: at appl_break
Pc == {"user", "sel", "io", "break"}

\* The lists name applications, no counter exceeds its bound, and the ring buffer
\* its length.
TypeOK ==
    /\ k \in KState
    /\ mode \in {"run", "kernel", "scan"}
    /\ live \subseteq App
    /\ pc \in [App -> Pc]
    /\ iocp \subseteq App
    /\ lost \subseteq App
    /\ iocnt \in Nat
    /\ scan \subseteq App
    /\ ringcnt \in 0..RngBfLen
    /\ tim \in [App -> {"off", "running", "expired"}]
    /\ unsel \in [App -> {"none", "armed", "done"}]
    /\ critic \in [App -> 0..MaxCritic]
    /\ critAct \in [App -> SUBSET {"kill", "stop"}]
    /\ stpsig \in [App -> BOOLEAN]

Init ==
    /\ \E a \in App :
          k = [ready |-> << a >>, notready |-> {}, susp |-> << >>,
               status |-> [b \in App |-> "READY"], rbits |-> [b \in App |-> {}],
               hbits |-> [b \in App |-> {}], unsusp |-> UnSusp]
          /\ live = {a}
    /\ mode = "run"
    /\ pc = [b \in App |-> "user"]
    /\ iocp = {} /\ lost = {} /\ iocnt = 0 /\ scan = {} /\ ringcnt = 0
    /\ tim = [b \in App |-> "off"]
    /\ unsel = [b \in App |-> "none"]
    /\ critic = [b \in App |-> 0]
    /\ critAct = [b \in App |-> {}]
    /\ stpsig = [b \in App |-> FALSE]

-----------------------------------------------------------------------------
(* Running applications *)

Running(a, where) == mode = "run" /\ a = Act(k) /\ pc[a] = where

\* appl_yield: the caller gives up the CPU in kernel state n
ApplYield(n) == k' = YieldLists(n) /\ mode' = "kernel"

\* trap_yield, exec_yield, and the appl_yields on the way from appl_break to
\* the end of the application
Yield(a) ==
    /\ Running(a, "user") \/ Running(a, "break")
    /\ ApplYield(k)
    /\ UNCHANGED << live, pc, ints, ctrl >>

\* int_hz_200 in user mode: the time slice is used up (appl_suspend)
ApplSuspend(a) ==
    /\ Running(a, "user") /\ critic[a] = 0
    /\ ApplYield([k EXCEPT !.status[a] = "SUSPENDED"])
    /\ UNCHANGED << live, pc, ints, ctrl >>

\* a driver starts an operation for a, puts its unselect routine into *unsel
\* and enables the interrupt
StartIO(a) ==
    /\ Running(a, "user")
    /\ pc' = [pc EXCEPT ![a] = "sel"]
    /\ unsel' = [unsel EXCEPT ![a] = "armed"]
    /\ lost' = lost \ {a}
    /\ UNCHANGED << k, mode, live, iocp, iocnt, scan, ringcnt, tim, ctrl >>

\* evnt_IO up to the appl_yield of appl_wait
EvntIO(a) ==
    /\ Running(a, "sel")
    /\ \E withTimeout \in Timeouts :
          /\ tim' = IF withTimeout THEN [tim EXCEPT ![a] = "running"] ELSE tim
          /\ ApplYield(BeginWait(k, a, IF withTimeout THEN {IO, TIM} ELSE {IO}))
    /\ pc' = [pc EXCEPT ![a] = "io"]
    /\ UNCHANGED << live, iocp, lost, iocnt, scan, ringcnt, unsel, ctrl >>

\* _rmv_ap_timer: drop a's entry of the timer list if the timer did not fire
RmvApTimer(a) ==
    IF TIM \in k.hbits[a] THEN tim ELSE [tim EXCEPT ![a] = "off"]

\* evnt_IO from the end of appl_wait to its return. After a timeout the
\* interrupt is switched off and an IOcomplete that came too late is dropped,
\* but not when the interrupt has already written its result into *unsel,
\* which the caller then gets
EvntIORet(a) ==
    /\ Running(a, "io")
    /\ k' = EndWait(k, a)
    /\ tim' = RmvApTimer(a)
    /\ iocp' = IF IO \notin k.hbits[a] /\ unsel[a] = "armed" THEN iocp \ {a} ELSE iocp
    /\ unsel' = [unsel EXCEPT ![a] = IF IO \in k.hbits[a] /\ @ = "armed" THEN @ ELSE "none"]
    /\ pc' = [pc EXCEPT ![a] = "user"]
    /\ UNCHANGED << mode, live, lost, iocnt, scan, ringcnt, ctrl >>

\* appl_begcritic
BegCritic(a) ==
    /\ Running(a, "user") /\ critic[a] < MaxCritic
    /\ critic' = [critic EXCEPT ![a] = @ + 1]
    /\ UNCHANGED << k, mode, live, pc, ints, critAct, stpsig >>

\* appl_endcritic: at the end of the outermost section the requests that came
\* meanwhile are carried out
EndCritic(a) ==
    /\ Running(a, "user") /\ critic[a] > 0
    /\ critic' = [critic EXCEPT ![a] = @ - 1]
    /\ IF critic[a] > 1 \/ critAct[a] = {}
       THEN UNCHANGED << k, mode, pc, critAct, stpsig >>
       ELSE /\ critAct' = [critAct EXCEPT ![a] = {}]
            /\ IF "kill" \in critAct[a]
               THEN pc' = [pc EXCEPT ![a] = "break"] /\ UNCHANGED << k, mode, stpsig >>
               ELSE /\ stpsig' = [stpsig EXCEPT ![a] = TRUE]
                    /\ ApplYield(StpThr(k, a))
                    /\ UNCHANGED pc
    /\ UNCHANGED << live, ints >>

\* Mutant: an application in a critical section is stopped at once
StopInCritic(a, b) ==
    /\ Running(a, "user") /\ b \in live
    /\ IF stpsig[b] THEN ApplYield(k) /\ UNCHANGED << critAct, stpsig >>
       ELSE /\ stpsig' = [stpsig EXCEPT ![b] = TRUE]
            /\ ApplYield(StpThr(k, b)) /\ UNCHANGED critAct
    /\ UNCHANGED << live, pc, ints, critic >>

\* dosig_stop: stop_pd_threads for the process of b, with its appl_yield
StopPdThreads(a, b) ==
    /\ Running(a, "user") /\ b \in live
    /\ IF stpsig[b] THEN ApplYield(k) /\ UNCHANGED << critAct, stpsig >>
       ELSE IF critic[b] > 0
       THEN /\ critAct' = [critAct EXCEPT ![b] = @ \cup {"stop"}]
            /\ ApplYield(k) /\ UNCHANGED stpsig
       ELSE /\ stpsig' = [stpsig EXCEPT ![b] = TRUE]
            /\ ApplYield(StpThr(k, b)) /\ UNCHANGED critAct
    /\ UNCHANGED << live, pc, ints, critic >>

\* dosig_cont: cont_thread for the process of b
ContThread(a, b) ==
    /\ Running(a, "user") /\ b \in live
    /\ critAct' = [critAct EXCEPT ![b] = @ \ {"stop"}]
    /\ IF stpsig[b]
       THEN k' = CntThr(k, b) /\ stpsig' = [stpsig EXCEPT ![b] = @ /\ k.status[b] # "STOPPED"]
       ELSE UNCHANGED << k, stpsig >>
    /\ UNCHANGED << mode, live, pc, ints, critic >>

\* dosig_term: kill_thread for b, which will go on at appl_break
KillThread(a, b) ==
    /\ Running(a, "user") /\ b \in live
    /\ IF critic[b] > 0
       THEN /\ critAct' = [critAct EXCEPT ![b] = @ \cup {"kill"}]
            /\ UNCHANGED << k, pc, stpsig >>
       ELSE /\ pc' = [pc EXCEPT ![b] = "break"]
            /\ IF a = b THEN UNCHANGED << k, stpsig >>
               ELSE /\ k' = App2Ready(k, b)
                    /\ stpsig' = [stpsig EXCEPT ![b] = @ /\ k.status[b] # "STOPPED"]
            /\ UNCHANGED critAct
    /\ UNCHANGED << mode, live, ints, critic >>

\* Mutant: the interrupt of a terminated application stays enabled
RmvApIONot(a) == UNCHANGED << unsel, iocp >>

\* rmv_ap_io: funselect switches off the interrupt a still waits for and drops
\* its IOcomplete. evnt_emIO is then called again, with the address of the
\* unselect table instead of the APPL, and clears the slot whose number it
\* finds there: that of any application, or none
RmvApIO(a) ==
    IF IO \in k.rbits[a] \ k.hbits[a]
    THEN /\ unsel' = [unsel EXCEPT ![a] = IF @ = "armed" THEN "none" ELSE @]
         /\ \E stray \in {{}} \cup {{b} : b \in App} : iocp' = iocp \ ({a} \cup stray)
    ELSE UNCHANGED << unsel, iocp >>

\* appl_break, end_thread, pgml_term_thread: the running application removes
\* its pending events and its slot, and another one takes over. Its APPL is
\* freed, of which rbits, hbits and pc are reset here
EndThread(a) ==
    /\ Running(a, "break")
    /\ RmvApIO(a)
    /\ lost' = (lost \cup (iocp \ iocp')) \ {a}
    /\ tim' = IF TIM \in k.rbits[a] THEN RmvApTimer(a) ELSE tim
    /\ k' = [k EXCEPT !.ready = Tail(@), !.rbits[a] = {}, !.hbits[a] = {}]
    /\ pc' = [pc EXCEPT ![a] = "user"]
    /\ live' = live \ {a}
    /\ mode' = "kernel"
    /\ UNCHANGED << iocnt, scan, ringcnt, ctrl >>

\* init_APPL: a starts an application in the free slot b, with a new APPL
InitAPPL(a, b) ==
    /\ Running(a, "user") /\ b \notin live
    /\ k' = ApToLastReady(k, b)
    /\ live' = live \cup {b}
    /\ unsel' = [unsel EXCEPT ![b] = "none"]
    /\ tim' = [tim EXCEPT ![b] = "off"]
    /\ UNCHANGED << mode, pc, iocp, lost, iocnt, scan, ringcnt, ctrl >>

-----------------------------------------------------------------------------
(* The kernel loop *)


\* something has happened that the loop has not looked at: tst.l iocpbuf_cnt
\* tests ringbuf_cnt as well, the two counters are neighbours in memory
Pending == iocnt # 0 \/ ringcnt # 0

\* refr_loop: take a timer expiry from the ring buffer; handle_tim wakes up an
\* application whose entry in timer_evlist has run out, if there still is one
HandleTim ==
    /\ mode = "kernel" /\ ringcnt > 0
    /\ ringcnt' = ringcnt - 1
    /\ LET out == {b \in App : tim[b] = "expired"}
       IN  IF out = {} THEN UNCHANGED << k, tim >>
           ELSE \E b \in out :
                   /\ tim' = [tim EXCEPT ![b] = "off"]
                   /\ k' = IF TIM \in k.rbits[b] \ k.hbits[b]
                           THEN EventHappened(k, b, TIM) ELSE k
    /\ UNCHANGED << mode, live, pc, iocp, lost, iocnt, scan, unsel, ctrl >>

\* refr_loop2 starts: interrupts are masked until all slots are scanned
ScanBegin ==
    /\ mode = "kernel" /\ ringcnt = 0 /\ iocnt # 0
    /\ mode' = "scan" /\ scan' = App
    /\ UNCHANGED << k, live, pc, iocp, lost, iocnt, ringcnt, tim, unsel, ctrl >>

\* refr_loop2 for one slot
ScanSlot(b) ==
    /\ mode = "scan" /\ b \in scan
    /\ scan' = scan \ {b}
    /\ iocp' = iocp \ {b}
    /\ k' = IF b \in iocp \cap live THEN EventHappened(k, b, IO) ELSE k
    /\ UNCHANGED << mode, live, pc, lost, iocnt, ringcnt, tim, unsel, ctrl >>

\* the end of refr_loop2
ScanEnd ==
    /\ mode = "scan" /\ scan = {}
    /\ mode' = "kernel" /\ iocnt' = 0
    /\ UNCHANGED << k, live, pc, iocp, lost, ringcnt, tim, scan, unsel, ctrl >>

\* ad_newready, ad_newsuspend: nothing is pending and somebody can run
Switch ==
    /\ mode = "kernel" /\ ~Pending /\ CanSwitch(k)
    /\ k' = SwitchTo(k) /\ mode' = "run"
    /\ UNCHANGED << live, pc, ints, ctrl >>

-----------------------------------------------------------------------------
(* Interrupts *)

\* Mutant: refr_loop2 does not mask interrupts
IrqAlways == TRUE

\* interrupts come at any time unless the kernel has masked them
IrqEnabled == mode # "scan"

\* the device has finished the operation of b: its interrupt routine writes
\* the result into *unsel and calls appl_IOcomplete
ApplIOcomplete(b) ==
    /\ IrqEnabled /\ unsel[b] = "armed"
    /\ unsel' = [unsel EXCEPT ![b] = "done"]
    /\ iocp' = iocp \cup {b}
    /\ iocnt' = IF b \in iocp THEN iocnt ELSE iocnt + 1
    /\ UNCHANGED << k, mode, live, pc, lost, ringcnt, tim, scan, ctrl >>

\* timer_int: the countdown of b reaches 0 and a note goes into the ring
\* buffer; when that is full the expiry is put off to the next tick
TimerInt(b) ==
    /\ IrqEnabled /\ tim[b] = "running" /\ ringcnt < RngBfLen
    /\ tim' = [tim EXCEPT ![b] = "expired"]
    /\ ringcnt' = ringcnt + 1
    /\ UNCHANGED << k, mode, live, pc, iocp, lost, iocnt, scan, unsel, ctrl >>

-----------------------------------------------------------------------------
AppStep(a) ==
    \/ Yield(a) \/ ApplSuspend(a) \/ StartIO(a) \/ EvntIO(a) \/ EvntIORet(a)
    \/ BegCritic(a) \/ EndCritic(a) \/ EndThread(a)
    \/ \E b \in App : \/ StopPdThreads(a, b) \/ ContThread(a, b)
                      \/ KillThread(a, b) \/ InitAPPL(a, b)

KernelStep ==
    \/ HandleTim \/ ScanBegin \/ ScanEnd \/ Switch
    \/ \E b \in App : ScanSlot(b)

Interrupt == \E b \in App : ApplIOcomplete(b) \/ TimerInt(b)

Next == KernelStep \/ Interrupt \/ \E a \in App : AppStep(a)

Spec == Init /\ [][Next]_vars

\* The kernel loop and the code of a system call go on by themselves. An
\* application that computes in user mode is found there by int_hz_200 sooner
\* or later, since a tick that finds it in a system call leaves pe_timer at 0
\* and the next ticks try again
Fairness ==
    /\ WF_vars(KernelStep)
    /\ \A a \in App : /\ WF_vars(EvntIO(a)) /\ WF_vars(EvntIORet(a))
                      /\ WF_vars(EndCritic(a))
                      /\ SF_vars(ApplSuspend(a)) /\ SF_vars(EndThread(a))

FairSpec == Spec /\ Fairness

-----------------------------------------------------------------------------
(* Safety *)

\* Whatever the applications, signals and interrupts do, every application is
\* in exactly the list its ap_status names (act_appl, notready_list,
\* suspend_list, none when stopped), once; and outside the kernel loop there is
\* a running application. All of appl_yield, event_happened, stp_thr, cnt_thr
\* and the termination of an application move applications between these lists.
ListsMatchStatus ==
    /\ ListsMatch(k, live)
    /\ mode = "run" => k.ready # << >>

\* No wakeup is lost between an interrupt and the sleeper: an application is
\* never in notready_list while an event it waits for is in its ap_hbits, and
\* as long as the result of a finished operation in *unsel has not been turned
\* into EV_IO, iocpbuf and iocpbuf_cnt still make the kernel loop look at it. The
\* one thing in the code that takes a note away from a sleeper is the second
\* evnt_emIO of rmv_ap_io, at the end of another application (lost).
NoLostWakeup ==
    \A a \in live :
       /\ k.status[a] = "WAITING" => k.rbits[a] \cap k.hbits[a] = {}
       /\ (pc[a] = "io" /\ unsel[a] = "done" /\ IO \notin k.hbits[a] /\ a \notin lost)
             => a \in iocp /\ iocnt > 0

\* An application is stopped exactly when ap_stpsig says so. cont_thread only
\* continues an application whose ap_stpsig is set, so one that is stopped
\* without it could never run again, and stop_thread ignores one that has it.
StoppedHaveSig == \A a \in live : stpsig[a] <=> k.status[a] = "STOPPED"

\* Between appl_begcritic and appl_endcritic an application is neither stopped
\* nor sent to appl_break by another one, not even when it waits or is ready
\* in its section; a request put off in ap_crit_act is not left behind when
\* the section ends.
CriticProtected ==
    \A a \in live : /\ critic[a] > 0 => k.status[a] # "STOPPED" /\ pc[a] # "break"
                    /\ critAct[a] # {} => critic[a] > 0

\* An application that has ended leaves nothing behind that would write to its
\* freed APPL: its timer is off the timer list and no interrupt routine still
\* holds its *unsel (rmv_ap_timer, rmv_ap_io).
NoEventForDead == \A a \in App \ live : tim[a] = "off" /\ unsel[a] # "armed"

\* evnt_IO does not report EV_IO before the interrupt routine has written its
\* result into *unsel ("Rueckgabe: Das, was die Interruptroutine in *unsel
\* reingeschrieben hat").
NoSpuriousIO == \A a \in live : pc[a] = "io" /\ IO \in k.hbits[a] => unsel[a] = "done"

-----------------------------------------------------------------------------
(* The rest of the inductive invariant behind the theorems of Sched_proofs *)

\* only an application inside an appl_wait waits for events: user code that is
\* suspended waits for none, which is what event_happened relies on
Quiet == \A a \in App : k.rbits[a] # {} =>
            a \in live /\ pc[a] \in {"io", "break"} /\ k.status[a] # "SUSPENDED"

\* a free slot starts from a clean APPL
DeadClean == \A a \in App \ live : /\ pc[a] = "user" /\ critic[a] = 0
                                   /\ critAct[a] = {} /\ ~stpsig[a]

\* nobody sleeps on an event that is there
Asleep == \A a \in live : k.status[a] = "WAITING" => k.rbits[a] \cap k.hbits[a] = {}

\* an application between the driver's start and evnt_IO has the CPU
SelRunning == \A a \in App : pc[a] = "sel" => mode = "run" /\ a = Act(k)

\* iocpbuf_cnt is 0 only if iocpbuf is empty, and the scan misses no slot
Counted == (iocp # {} => iocnt > 0) /\ (mode = "scan" => iocp \subseteq scan)

\* a finished operation not yet turned into EV_IO is on record, or cleared from it
IOFlagged == \A a \in App : unsel[a] = "done" /\
                (pc[a] = "sel" \/ (pc[a] = "io" /\ IO \notin k.hbits[a])) => a \in iocp \cup lost

ListInv == TypeOK /\ ListsMatchStatus /\ Quiet /\ DeadClean /\ StoppedHaveSig /\ CriticProtected

IOInv == ListInv /\ Asleep /\ SelRunning /\ Counted /\ IOFlagged

\* a timer on the list belongs to an appl_wait that still waits for it
TimerHeld == \A a \in App : tim[a] # "off" =>
                a \in live /\ pc[a] \in {"io", "break"} /\ TIM \in k.rbits[a] \ k.hbits[a]

\* without timeouts only the interrupt ends an evnt_IO
OnlyIO == \A a \in App : pc[a] = "io" =>
             k.rbits[a] = {IO} /\ (k.status[a] = "READY" => IO \in k.hbits[a])

\* an operation that is under way, or finished and not yet turned into EV_IO
Open(a) == unsel[a] = "armed" \/ a \in iocp

\* an open operation belongs to an application that is about to wait for it, or
\* to a wait that has not got its EV_IO; and it is under way or finished
OpenHeld == \A a \in App : Open(a) =>
               /\ a \in live
               /\ pc[a] = "sel" \/ (pc[a] \in {"io", "break"} /\ IO \in k.rbits[a] \ k.hbits[a])
               /\ ~(unsel[a] = "armed" /\ a \in iocp)

DeadInv == ListInv /\ SelRunning /\ OnlyIO /\ OpenHeld

-----------------------------------------------------------------------------
(* Liveness *)

HasCPU(a) == mode = "run" /\ Act(k) = a
Gone(a) == a \notin live \/ k.status[a] = "STOPPED"

\* When the interrupt has finished the operation an application waits for in
\* evnt_IO, the application gets the CPU again, unless a signal stops it or
\* rmv_ap_io clears its note: the note in iocpbuf passes through the kernel loop,
\* event_happened and the ready list before the application runs.
IOWakesUp ==
    \A a \in App : (pc[a] = "io" /\ unsel[a] = "done")
                       ~> (HasCPU(a) \/ Gone(a) \/ a \in lost)

\* Every application that can run gets the CPU, suspended ones included,
\* although ready applications go before suspended ones: appl_yield makes a
\* suspended one ready every pe_un_susp + 1 calls.
NoStarvation ==
    \A a \in App : (a \in live /\ k.status[a] \in {"READY", "SUSPENDED"}) ~> (HasCPU(a) \/ Gone(a))

\* A terminated application really ends, or is stopped by a signal on its way:
\* kill_thread gets it out of whatever it waits for.
KillTakesEffect ==
    \A a \in App : (a \in live /\ pc[a] = "break") ~> (Gone(a))
=============================================================================
