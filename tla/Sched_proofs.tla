---------------------------- MODULE Sched_proofs ----------------------------
(***************************************************************************)
(* The safety invariants of Sched for any number of applications, any      *)
(* nesting of critical sections and any size of the ring buffer.           *)
(***************************************************************************)
EXTENDS Sched, Kernel_proofs

\* The application that has the CPU is alive, ready and at the head of the
\* ready list, and the lists are as its next system call expects them.
LEMMA RunningFacts ==
    ASSUME ListInv, NEW a, mode = "run", a = Act(k)
    PROVE  /\ a \in live /\ a \in App /\ k.status[a] = "READY" /\ ~stpsig[a]
           /\ ListsMatchBut(k, live, a)
           /\ k \in KState /\ live \in SUBSET App /\ ListsMatch(k, live) /\ k.ready # << >>
<1>1. k \in KState /\ live \in SUBSET App /\ ListsMatch(k, live) /\ k.ready # << >>
  BY DEF ListInv, TypeOK, ListsMatchStatus
<1>2. ListsMatchBut(k, live, Act(k)) /\ Act(k) \in live /\ k.status[Act(k)] = "READY"
  BY <1>1, EnterCall
<1>. QED BY <1>1, <1>2 DEF ListInv, StoppedHaveSig

\* appl_yield in a kernel state n that the running application a has prepared:
\* the invariant survives if a's new status is consistent with its flags.
LEMMA YieldInv ==
    ASSUME ListInv, NEW a, mode = "run", a = Act(k),
           NEW n \in KState, ListsMatchBut(n, live, a), ApplYield(n), live' = live,
           pc' \in [App -> Pc], critAct' \in [App -> SUBSET {"kill", "stop"}],
           critic' \in [App -> 0..MaxCritic], stpsig' \in [App -> BOOLEAN],
           UNCHANGED << iocp, lost, iocnt, scan, ringcnt, unsel >>,
           tim' \in [App -> {"off", "running", "expired"}],
           \A b \in App : n.rbits[b] # {} =>
                 b \in live /\ pc'[b] \in {"io", "break"} /\ n.status[b] # "SUSPENDED",
           \A b \in App \ live : pc'[b] = "user" /\ critic'[b] = 0 /\ critAct'[b] = {} /\ ~stpsig'[b],
           \A b \in live : stpsig'[b] <=> n.status[b] = "STOPPED",
           \A b \in live : /\ critic'[b] > 0 => n.status[b] # "STOPPED" /\ pc'[b] # "break"
                           /\ critAct'[b] # {} => critic'[b] > 0
    PROVE  ListInv'
<1>1. live \in SUBSET App
  BY DEF ListInv, TypeOK
<1>. DEFINE y == YieldLists(n)
<1>0. /\ y \in KState /\ ListsMatch(y, live)
      /\ y.rbits = n.rbits /\ y.hbits = n.hbits
      /\ y.status[a] = n.status[a] \/ (y.status[a] = "READY" /\ n.status[a] = "WAITING")
      /\ \A b \in App \ {a} : y.status[b] = n.status[b]
                              \/ (n.status[b] = "SUSPENDED" /\ y.status[b] = "READY")
  BY <1>1, YieldListsOK
<1>. HIDE DEF y
<1>2. /\ k' \in KState /\ ListsMatch(k', live)
      /\ k'.rbits = n.rbits /\ k'.hbits = n.hbits
      /\ k'.status[a] = n.status[a] \/ (k'.status[a] = "READY" /\ n.status[a] = "WAITING")
      /\ \A b \in App \ {a} : k'.status[b] = n.status[b]
                              \/ (n.status[b] = "SUSPENDED" /\ k'.status[b] = "READY")
  BY <1>0 DEF ApplYield, y
<1>3. \A b \in App : /\ k'.status[b] = "SUSPENDED" => n.status[b] = "SUSPENDED"
                     /\ k'.status[b] = "STOPPED" <=> n.status[b] = "STOPPED"
  BY <1>2
<1>4. TypeOK'
  BY <1>2 DEF ListInv, TypeOK, ApplYield
<1>5. ListsMatchStatus'
  BY <1>2 DEF ListsMatchStatus, ApplYield
<1>6. Quiet'
  BY <1>2, <1>3 DEF Quiet
<1>7. DeadClean'
  BY DEF DeadClean
<1>8. StoppedHaveSig'
  BY <1>1, <1>3 DEF StoppedHaveSig
<1>9. CriticProtected'
  BY <1>1, <1>3 DEF CriticProtected
<1>. QED BY <1>4, <1>5, <1>6, <1>7, <1>8, <1>9 DEF ListInv

\* The running application yields in user code or on its way out.
LEMMA YieldStep ==
    ASSUME ListInv, NEW a \in App, Yield(a) PROVE ListInv'
<1>1. /\ mode = "run" /\ a = Act(k) /\ ApplYield(k) /\ live' = live
      /\ UNCHANGED << pc, critic, critAct, stpsig, tim, iocp, lost, iocnt, scan, ringcnt, unsel >>
  BY DEF Yield, Running, ints, ctrl
<1>2. k \in KState /\ ListsMatchBut(k, live, a)
  BY <1>1, RunningFacts
<1>. QED BY <1>1, <1>2, YieldInv
         DEF ListInv, TypeOK, Quiet, DeadClean, StoppedHaveSig, CriticProtected

\* The time slice is used up: the running application is suspended, and since
\* it runs user code it waits for nothing.
LEMMA ApplSuspendStep ==
    ASSUME ListInv, NEW a \in App, ApplSuspend(a) PROVE ListInv'
<1>. DEFINE n == [k EXCEPT !.status[a] = "SUSPENDED"]
<1>1. /\ mode = "run" /\ a = Act(k) /\ pc[a] = "user" /\ critic[a] = 0
      /\ ApplYield(n) /\ live' = live
      /\ UNCHANGED << pc, critic, critAct, stpsig, tim, iocp, lost, iocnt, scan, ringcnt, unsel >>
  BY DEF ApplSuspend, Running, ints, ctrl
<1>2. /\ k \in KState /\ ListsMatch(k, live) /\ k.ready # << >> /\ live \in SUBSET App
      /\ k.status[a] = "READY" /\ a \in live /\ ~stpsig[a]
  BY <1>1, RunningFacts
<1>3. /\ n \in KState /\ n.ready = k.ready /\ n.susp = k.susp /\ n.notready = k.notready
      /\ n.status = [k.status EXCEPT ![a] = "SUSPENDED"]
      /\ n.rbits = k.rbits
  BY <1>2 DEF KState, Status
<1>. HIDE DEF n
<1>4. ListsMatchBut(n, live, a)
  BY <1>1, <1>2, <1>3, SetStatusOK DEF Status
<1>5. k.status \in [App -> Status] /\ k.rbits[a] = {}
  BY <1>1, <1>2 DEF KState, ListInv, Quiet
<1>6. n.status[a] = "SUSPENDED" /\ \A b \in App \ {a} : n.status[b] = k.status[b]
  BY <1>3, <1>5
<1>7. /\ \A b \in App : n.rbits[b] # {} =>
             b \in live /\ pc'[b] \in {"io", "break"} /\ n.status[b] # "SUSPENDED"
      /\ \A b \in live : stpsig'[b] <=> n.status[b] = "STOPPED"
      /\ \A b \in live : /\ critic'[b] > 0 => n.status[b] # "STOPPED" /\ pc'[b] # "break"
                         /\ critAct'[b] # {} => critic'[b] > 0
  BY <1>1, <1>2, <1>3, <1>5, <1>6 DEF ListInv, TypeOK, Quiet, StoppedHaveSig, CriticProtected
<1>8. \A b \in App \ live : pc'[b] = "user" /\ critic'[b] = 0 /\ critAct'[b] = {} /\ ~stpsig'[b]
  BY <1>1 DEF ListInv, DeadClean
<1>. QED BY <1>1, <1>3, <1>4, <1>7, <1>8, YieldInv DEF ListInv, TypeOK

\* The running application starts to wait in evnt_IO.
LEMMA EvntIOStep ==
    ASSUME ListInv, NEW a \in App, EvntIO(a) PROVE ListInv'
<1>1. PICK w \in Timeouts :
          /\ tim' = IF w THEN [tim EXCEPT ![a] = "running"] ELSE tim
          /\ ApplYield(BeginWait(k, a, IF w THEN {IO, TIM} ELSE {IO}))
  BY DEF EvntIO
<1>. DEFINE evs == IF w THEN {IO, TIM} ELSE {IO}
            n == BeginWait(k, a, evs)
<1>2. /\ mode = "run" /\ a = Act(k) /\ pc[a] = "sel" /\ live' = live
      /\ pc' = [pc EXCEPT ![a] = "io"] /\ ApplYield(n)
      /\ UNCHANGED << critic, critAct, stpsig, iocp, lost, iocnt, scan, ringcnt, unsel >>
  BY <1>1 DEF EvntIO, Running, ctrl
<1>3. /\ k \in KState /\ ListsMatch(k, live) /\ k.ready # << >> /\ live \in SUBSET App
      /\ k.status[a] = "READY" /\ a \in live /\ ~stpsig[a]
  BY <1>2, RunningFacts
<1>4. evs \in SUBSET Event
  BY SchedAssumption
<1>. HIDE DEF evs
<1>5. /\ n \in KState /\ n.ready = k.ready /\ n.susp = k.susp /\ n.notready = k.notready
      /\ n.status = [k.status EXCEPT ![a] = "WAITING"]
      /\ n.rbits = [k.rbits EXCEPT ![a] = evs]
  BY <1>3, <1>4 DEF KState, Status, BeginWait
<1>. HIDE DEF n
<1>6. ListsMatchBut(n, live, a)
  BY <1>2, <1>3, <1>5, SetStatusOK DEF Status
<1>7. k.status \in [App -> Status] /\ k.rbits \in [App -> SUBSET Event]
  BY <1>3 DEF KState
<1>8. /\ n.status[a] = "WAITING" /\ \A b \in App \ {a} : n.status[b] = k.status[b]
      /\ \A b \in App \ {a} : n.rbits[b] = k.rbits[b]
  BY <1>5, <1>7
<1>9. tim' \in [App -> {"off", "running", "expired"}]
  BY <1>1 DEF ListInv, TypeOK
<1>10. pc' \in [App -> Pc] /\ pc'[a] = "io" /\ \A b \in App \ {a} : pc'[b] = pc[b]
  BY <1>2 DEF ListInv, TypeOK, Pc
<1>11. \A b \in App : n.rbits[b] # {} =>
             b \in live /\ pc'[b] \in {"io", "break"} /\ n.status[b] # "SUSPENDED"
  BY <1>3, <1>8, <1>10 DEF ListInv, Quiet
<1>12. /\ \A b \in live : stpsig'[b] <=> n.status[b] = "STOPPED"
       /\ \A b \in live : /\ critic'[b] > 0 => n.status[b] # "STOPPED" /\ pc'[b] # "break"
                          /\ critAct'[b] # {} => critic'[b] > 0
  <2>1. \A b \in live : b \in App /\ critic[b] = critic'[b] /\ critAct[b] = critAct'[b]
                        /\ (stpsig'[b] <=> stpsig[b])
    BY <1>2 DEF ListInv, TypeOK
  <2>2. \A b \in live : (k.status[b] = "STOPPED" <=> n.status[b] = "STOPPED")
                        /\ (pc'[b] = "break" => pc[b] = "break")
    BY <1>3, <1>8, <1>10, <2>1
  <2>. QED BY <2>1, <2>2 DEF ListInv, StoppedHaveSig, CriticProtected
<1>13. \A b \in App \ live : pc'[b] = "user" /\ critic'[b] = 0 /\ critAct'[b] = {} /\ ~stpsig'[b]
  BY <1>2, <1>3, <1>10 DEF ListInv, DeadClean
<1>. QED BY <1>2, <1>5, <1>6, <1>9, <1>10, <1>11, <1>12, <1>13, YieldInv DEF ListInv, TypeOK

\* evnt_IO returns: the application waits for nothing any more.
LEMMA EvntIORetStep ==
    ASSUME ListInv, NEW a \in App, EvntIORet(a) PROVE ListInv'
<1>1. /\ mode = "run" /\ a = Act(k) /\ pc[a] = "io" /\ live' = live /\ mode' = mode
      /\ k' = EndWait(k, a) /\ pc' = [pc EXCEPT ![a] = "user"]
      /\ UNCHANGED << critic, critAct, stpsig, lost, iocnt, scan, ringcnt >>
  BY DEF EvntIORet, Running, ctrl
<1>2. /\ k \in KState /\ ListsMatch(k, live) /\ k.ready # << >> /\ live \in SUBSET App
      /\ a \in live
  BY <1>1, RunningFacts
<1>3. /\ k' \in KState /\ k'.ready = k.ready /\ k'.susp = k.susp /\ k'.notready = k.notready
      /\ k'.status = k.status /\ k'.rbits = [k.rbits EXCEPT ![a] = {}]
      /\ k.rbits \in [App -> SUBSET Event]
  BY <1>1, <1>2 DEF KState, EndWait
<1>4. /\ tim' \in [App -> {"off", "running", "expired"}] /\ iocp' \subseteq App
      /\ unsel' \in [App -> {"none", "armed", "done"}]
  BY DEF EvntIORet, RmvApTimer, ListInv, TypeOK
<1>5. TypeOK'
  BY <1>1, <1>3, <1>4 DEF ListInv, TypeOK, Pc
<1>6. ListsMatchStatus'
  BY <1>1, <1>2, <1>3 DEF ListsMatchStatus, ListsMatch
<1>7. Quiet'
  BY <1>1, <1>3 DEF ListInv, TypeOK, Quiet
<1>8. DeadClean' /\ StoppedHaveSig' /\ CriticProtected'
  BY <1>1, <1>2, <1>3 DEF ListInv, TypeOK, DeadClean, StoppedHaveSig, CriticProtected
<1>. QED BY <1>5, <1>6, <1>7, <1>8 DEF ListInv

\* Steps that leave the kernel state and the flags of all applications alone.
LEMMA StartIOStep ==
    ASSUME ListInv, NEW a \in App, StartIO(a) PROVE ListInv'
<1>1. /\ pc[a] = "user" /\ pc' = [pc EXCEPT ![a] = "sel"] /\ mode = "run" /\ a = Act(k)
      /\ UNCHANGED << k, mode, live, iocp, iocnt, scan, ringcnt, tim, critic, critAct, stpsig >>
      /\ lost' = lost \ {a}
  BY DEF StartIO, Running, ctrl
<1>2. a \in live
  BY <1>1, RunningFacts
<1>3. TypeOK'
  BY <1>1 DEF ListInv, TypeOK, Pc, StartIO
<1>4. ListsMatchStatus'
  BY <1>1 DEF ListInv, ListsMatchStatus
<1>5. Quiet' /\ DeadClean' /\ StoppedHaveSig' /\ CriticProtected'
  BY <1>1, <1>2 DEF ListInv, TypeOK, Quiet, DeadClean, StoppedHaveSig, CriticProtected
<1>. QED BY <1>3, <1>4, <1>5 DEF ListInv

\* A critical section begins.
LEMMA BegCriticStep ==
    ASSUME ListInv, NEW a \in App, BegCritic(a) PROVE ListInv'
<1>1. /\ mode = "run" /\ a = Act(k) /\ critic[a] < MaxCritic /\ pc[a] = "user"
      /\ critic' = [critic EXCEPT ![a] = @ + 1]
      /\ UNCHANGED << k, mode, live, pc, iocp, lost, iocnt, scan, ringcnt, tim, unsel, critAct, stpsig >>
  BY DEF BegCritic, Running, ints
<1>2. a \in live /\ k.status[a] = "READY"
  BY <1>1, RunningFacts
<1>3. critic' \in [App -> 0..MaxCritic]
  BY <1>1, SchedAssumption DEF ListInv, TypeOK
<1>4. TypeOK' /\ ListsMatchStatus'
  BY <1>1, <1>3 DEF ListInv, TypeOK, ListsMatchStatus
<1>5. Quiet' /\ DeadClean' /\ StoppedHaveSig'
  BY <1>1, <1>2 DEF ListInv, TypeOK, Quiet, DeadClean, StoppedHaveSig
<1>6. CriticProtected'
  <2>1. \A b \in App : critic[b] \in 0..MaxCritic /\ critic'[b] = IF b = a THEN critic[b] + 1 ELSE critic[b]
    BY <1>1 DEF ListInv, TypeOK
  <2>2. live \subseteq App
    BY DEF ListInv, TypeOK
  <2>. QED BY <1>1, <1>2, <2>1, <2>2, SchedAssumption DEF ListInv, CriticProtected
<1>. QED BY <1>4, <1>5, <1>6 DEF ListInv

\* stp_thr followed by appl_yield, for any live application outside its
\* critical section.
LEMMA StopYield ==
    ASSUME ListInv, NEW a, mode = "run", a = Act(k), NEW b \in live,
           ApplYield(StpThr(k, b)), stpsig' = [stpsig EXCEPT ![b] = TRUE],
           UNCHANGED << live, pc, iocp, lost, iocnt, scan, ringcnt, tim, unsel >>,
           critic' \in [App -> 0..MaxCritic], critAct' \in [App -> SUBSET {"kill", "stop"}],
           critic'[b] = 0, critAct'[b] = {},
           \A c \in App \ {b} : critic'[c] = critic[c] /\ critAct'[c] = critAct[c]
    PROVE  ListInv'
<1>. DEFINE n == StpThr(k, b)
<1>1. /\ k \in KState /\ ListsMatch(k, live) /\ k.ready # << >> /\ live \in SUBSET App /\ b \in App
  BY RunningFacts
<1>2. /\ n \in KState /\ ListsMatchBut(n, live, a)
      /\ n.rbits = k.rbits /\ n.status = [k.status EXCEPT ![b] = "STOPPED"]
  BY <1>1, StpThrOK
<1>. HIDE DEF n
<1>3. k.status \in [App -> Status] /\ stpsig \in [App -> BOOLEAN] /\ stpsig' \in [App -> BOOLEAN]
  BY <1>1 DEF KState, ListInv, TypeOK
<1>4. /\ n.status[b] = "STOPPED" /\ stpsig'[b]
      /\ \A c \in App \ {b} : n.status[c] = k.status[c] /\ (stpsig'[c] <=> stpsig[c])
  BY <1>1, <1>2, <1>3
<1>5. /\ \A c \in App : n.rbits[c] # {} =>
             c \in live /\ pc'[c] \in {"io", "break"} /\ n.status[c] # "SUSPENDED"
      /\ \A c \in live : stpsig'[c] <=> n.status[c] = "STOPPED"
  BY <1>1, <1>2, <1>4 DEF ListInv, Quiet, StoppedHaveSig
<1>6. \A c \in live : /\ critic'[c] > 0 => n.status[c] # "STOPPED" /\ pc'[c] # "break"
                      /\ critAct'[c] # {} => critic'[c] > 0
  BY <1>1, <1>4 DEF ListInv, CriticProtected
<1>7. \A c \in App \ live : pc'[c] = "user" /\ critic'[c] = 0 /\ critAct'[c] = {} /\ ~stpsig'[c]
  BY <1>4 DEF ListInv, DeadClean
<1>8. ApplYield(n)
  BY DEF n
<1>. QED BY <1>2, <1>3, <1>5, <1>6, <1>7, <1>8, YieldInv DEF ListInv, TypeOK

\* A critical section ends; a stop or kill that was put off is carried out.
LEMMA EndCriticStep ==
    ASSUME ListInv, NEW a \in App, EndCritic(a) PROVE ListInv'
<1>1. /\ mode = "run" /\ a = Act(k) /\ pc[a] = "user" /\ critic[a] > 0
      /\ critic' = [critic EXCEPT ![a] = @ - 1]
      /\ UNCHANGED << live, iocp, lost, iocnt, scan, ringcnt, tim, unsel >>
  BY DEF EndCritic, Running, ints
<1>2. a \in live /\ k.status[a] = "READY"
  BY <1>1, RunningFacts
<1>3. /\ critic' \in [App -> 0..MaxCritic] /\ critic'[a] = critic[a] - 1 /\ critic[a] \in Nat
      /\ \A b \in App \ {a} : critic'[b] = critic[b]
  BY <1>1, SchedAssumption DEF ListInv, TypeOK
<1>4. CASE critic[a] > 1 \/ critAct[a] = {}
  <2>1. UNCHANGED << k, mode, pc, critAct, stpsig >>
    BY <1>4 DEF EndCritic
  <2>2. TypeOK' /\ ListsMatchStatus'
    BY <1>1, <1>3, <2>1 DEF ListInv, TypeOK, ListsMatchStatus
  <2>3. Quiet' /\ DeadClean' /\ StoppedHaveSig'
    BY <1>1, <1>2, <1>3, <2>1 DEF ListInv, TypeOK, Quiet, DeadClean, StoppedHaveSig
  <2>4. CriticProtected'
    <3>1. \A b \in App : (b # a => critic'[b] = critic[b]) /\ (critic'[b] > 0 => critic[b] > 0)
      BY <1>1, <1>3
    <3>2. critAct[a] # {} => critic'[a] > 0
      BY <1>3, <1>4
    <3>3. live \subseteq App
      BY DEF ListInv, TypeOK
    <3>. QED BY <1>1, <2>1, <3>1, <3>2, <3>3 DEF ListInv, CriticProtected
  <2>. QED BY <2>2, <2>3, <2>4 DEF ListInv
<1>5. CASE ~(critic[a] > 1 \/ critAct[a] = {})
  <2>1. critAct' = [critAct EXCEPT ![a] = {}] /\ critic'[a] = 0
    BY <1>1, <1>3, <1>5 DEF EndCritic
  <2>2. /\ critAct' \in [App -> SUBSET {"kill", "stop"}] /\ critAct'[a] = {}
        /\ \A b \in App \ {a} : critAct'[b] = critAct[b]
    BY <2>1 DEF ListInv, TypeOK
  <2>3. CASE "kill" \in critAct[a]
    <3>1. pc' = [pc EXCEPT ![a] = "break"] /\ UNCHANGED << k, mode, stpsig >>
      BY <1>5, <2>3 DEF EndCritic
    <3>2. TypeOK' /\ ListsMatchStatus'
      BY <1>1, <1>3, <2>2, <3>1 DEF ListInv, TypeOK, ListsMatchStatus, Pc
    <3>3. Quiet' /\ DeadClean' /\ StoppedHaveSig'
      BY <1>1, <1>2, <1>3, <2>2, <3>1 DEF ListInv, TypeOK, Quiet, DeadClean, StoppedHaveSig
    <3>4. CriticProtected'
      <4>1. live \subseteq App /\ \A b \in App \ {a} : pc'[b] = pc[b]
        BY <3>1 DEF ListInv, TypeOK
      <4>. QED BY <1>1, <1>3, <2>1, <2>2, <3>1, <4>1 DEF ListInv, CriticProtected
    <3>. QED BY <3>2, <3>3, <3>4 DEF ListInv
  <2>4. CASE "kill" \notin critAct[a]
    <3>1. /\ stpsig' = [stpsig EXCEPT ![a] = TRUE] /\ ApplYield(StpThr(k, a)) /\ UNCHANGED pc
      BY <1>5, <2>4 DEF EndCritic
    <3>. QED BY <1>1, <1>2, <1>3, <2>1, <2>2, <3>1, StopYield
  <2>. QED BY <2>3, <2>4
<1>. QED BY <1>4, <1>5

\* An application stops another one, itself, or one that cannot be stopped now.
LEMMA StopPdThreadsStep ==
    ASSUME ListInv, NEW a \in App, NEW b \in App, StopPdThreads(a, b) PROVE ListInv'
<1>1. /\ mode = "run" /\ a = Act(k) /\ b \in live
      /\ UNCHANGED << live, pc, critic, iocp, lost, iocnt, scan, ringcnt, tim, unsel >>
  BY DEF StopPdThreads, Running, ints
<1>2. k \in KState /\ ListsMatchBut(k, live, a) /\ live \in SUBSET App
  BY <1>1, RunningFacts
<1>3. CASE stpsig[b]
  <2>1. ApplYield(k) /\ UNCHANGED << critAct, stpsig >>
    BY <1>3 DEF StopPdThreads
  <2>. QED BY <1>1, <1>2, <2>1, YieldInv
           DEF ListInv, TypeOK, Quiet, DeadClean, StoppedHaveSig, CriticProtected
<1>4. CASE ~stpsig[b] /\ critic[b] > 0
  <2>1. ApplYield(k) /\ UNCHANGED stpsig /\ critAct' = [critAct EXCEPT ![b] = @ \cup {"stop"}]
    BY <1>4 DEF StopPdThreads
  <2>2. critAct' \in [App -> SUBSET {"kill", "stop"}] /\ \A c \in App \ {b} : critAct'[c] = critAct[c]
    BY <2>1 DEF ListInv, TypeOK
  <2>3. \A c \in live : /\ critic'[c] > 0 => k.status[c] # "STOPPED" /\ pc'[c] # "break"
                        /\ critAct'[c] # {} => critic'[c] > 0
    BY <1>1, <1>2, <1>4, <2>2 DEF ListInv, CriticProtected
  <2>. QED BY <1>1, <1>2, <2>1, <2>2, <2>3, YieldInv
           DEF ListInv, TypeOK, Quiet, DeadClean, StoppedHaveSig
<1>5. CASE ~stpsig[b] /\ ~(critic[b] > 0)
  <2>1. /\ stpsig' = [stpsig EXCEPT ![b] = TRUE] /\ ApplYield(StpThr(k, b)) /\ UNCHANGED critAct
    BY <1>5 DEF StopPdThreads
  <2>2. critic[b] = 0 /\ critAct[b] = {}
    BY <1>1, <1>5, SchedAssumption DEF ListInv, TypeOK, CriticProtected
  <2>. QED BY <1>1, <1>2, <2>1, <2>2, StopYield DEF ListInv, TypeOK
<1>. QED BY <1>3, <1>4, <1>5

\* A stopped application continues, as ready or as waiting.
LEMMA ContThreadStep ==
    ASSUME ListInv, NEW a \in App, NEW b \in App, ContThread(a, b) PROVE ListInv'
<1>1. /\ mode = "run" /\ a = Act(k) /\ b \in live
      /\ critAct' = [critAct EXCEPT ![b] = @ \ {"stop"}]
      /\ UNCHANGED << mode, live, pc, critic, iocp, lost, iocnt, scan, ringcnt, tim, unsel >>
  BY DEF ContThread, Running, ints
<1>2. /\ k \in KState /\ live \in SUBSET App /\ ListsMatch(k, live) /\ k.ready # << >>
  BY <1>1, RunningFacts
<1>3. /\ critAct' \in [App -> SUBSET {"kill", "stop"}] /\ critAct'[b] \subseteq critAct[b]
      /\ \A c \in App \ {b} : critAct'[c] = critAct[c]
  BY <1>1 DEF ListInv, TypeOK
<1>4. DeadClean' <=> \A c \in App \ live : ~stpsig'[c]
  BY <1>1, <1>3 DEF ListInv, DeadClean
<1>5. CASE ~stpsig[b]
  <2>1. UNCHANGED << k, stpsig >>
    BY <1>5 DEF ContThread
  <2>2. TypeOK' /\ ListsMatchStatus' /\ Quiet' /\ StoppedHaveSig'
    BY <1>1, <1>3, <2>1 DEF ListInv, TypeOK, ListsMatchStatus, Quiet, StoppedHaveSig
  <2>3. DeadClean'
    BY <1>4, <2>1 DEF ListInv, DeadClean
  <2>4. CriticProtected'
    BY <1>1, <1>2, <1>3, <2>1 DEF ListInv, CriticProtected
  <2>. QED BY <2>2, <2>3, <2>4 DEF ListInv
<1>6. CASE stpsig[b]
  <2>1. k.status[b] = "STOPPED"
    BY <1>1, <1>6 DEF ListInv, StoppedHaveSig
  <2>2. k' = CntThr(k, b) /\ stpsig' = [stpsig EXCEPT ![b] = FALSE]
    BY <1>6, <2>1 DEF ContThread
  <2>3. /\ k' \in KState /\ ListsMatch(k', live) /\ k'.rbits = k.rbits /\ k'.ready # << >>
        /\ k'.status[b] # "STOPPED" /\ k'.status[b] # "SUSPENDED"
        /\ \A c \in App \ {b} : k'.status[c] = k.status[c]
    BY <1>1, <1>2, <2>1, <2>2, CntThrOK
  <2>4. /\ stpsig' \in [App -> BOOLEAN] /\ ~stpsig'[b]
        /\ \A c \in App \ {b} : stpsig'[c] <=> stpsig[c]
    BY <2>2 DEF ListInv, TypeOK
  <2>5. TypeOK' /\ ListsMatchStatus'
    BY <1>1, <1>3, <2>3, <2>4 DEF ListInv, TypeOK, ListsMatchStatus
  <2>6. Quiet'
    BY <1>1, <2>3 DEF ListInv, Quiet
  <2>7. StoppedHaveSig'
    BY <1>1, <1>2, <2>3, <2>4 DEF ListInv, StoppedHaveSig
  <2>8. DeadClean'
    BY <1>1, <1>4, <2>4 DEF ListInv, DeadClean
  <2>9. CriticProtected'
    BY <1>1, <1>2, <1>3, <2>3 DEF ListInv, CriticProtected
  <2>. QED BY <2>5, <2>6, <2>7, <2>8, <2>9 DEF ListInv
<1>. QED BY <1>5, <1>6

\* An application is sent to appl_break, out of whatever list it is in.
LEMMA KillThreadStep ==
    ASSUME ListInv, NEW a \in App, NEW b \in App, KillThread(a, b) PROVE ListInv'
<1>1. /\ mode = "run" /\ a = Act(k) /\ b \in live
      /\ UNCHANGED << mode, live, critic, iocp, lost, iocnt, scan, ringcnt, tim, unsel >>
  BY DEF KillThread, Running, ints
<1>2. /\ k \in KState /\ live \in SUBSET App /\ ListsMatch(k, live) /\ k.ready # << >>
      /\ a \in live /\ k.status[a] = "READY"
  BY <1>1, RunningFacts
<1>3. CASE critic[b] > 0
  <2>1. UNCHANGED << k, pc, stpsig >> /\ critAct' = [critAct EXCEPT ![b] = @ \cup {"kill"}]
    BY <1>3 DEF KillThread
  <2>2. critAct' \in [App -> SUBSET {"kill", "stop"}] /\ \A c \in App \ {b} : critAct'[c] = critAct[c]
    BY <2>1 DEF ListInv, TypeOK
  <2>3. TypeOK' /\ ListsMatchStatus' /\ Quiet' /\ StoppedHaveSig' /\ DeadClean'
    BY <1>1, <2>1, <2>2 DEF ListInv, TypeOK, ListsMatchStatus, Quiet, StoppedHaveSig, DeadClean
  <2>4. CriticProtected'
    BY <1>1, <1>2, <1>3, <2>1, <2>2 DEF ListInv, CriticProtected
  <2>. QED BY <2>3, <2>4 DEF ListInv
<1>4. CASE ~(critic[b] > 0)
  <2>1. /\ pc' = [pc EXCEPT ![b] = "break"] /\ UNCHANGED critAct
        /\ a = b => UNCHANGED << k, stpsig >>
        /\ a # b => /\ k' = App2Ready(k, b)
                    /\ stpsig' = [stpsig EXCEPT ![b] = @ /\ k.status[b] # "STOPPED"]
    BY <1>4 DEF KillThread
  <2>2. /\ pc' \in [App -> Pc] /\ pc'[b] = "break" /\ \A c \in App \ {b} : pc'[c] = pc[c]
    BY <2>1 DEF ListInv, TypeOK, Pc
  <2>3. CASE a = b
    <3>1. UNCHANGED << k, stpsig, critAct >>
      BY <2>1, <2>3
    <3>2. TypeOK' /\ ListsMatchStatus' /\ StoppedHaveSig' /\ DeadClean'
      BY <1>1, <2>2, <3>1 DEF ListInv, TypeOK, ListsMatchStatus, StoppedHaveSig, DeadClean
    <3>3. Quiet'
      BY <1>1, <2>2, <3>1 DEF ListInv, Quiet
    <3>4. CriticProtected'
      BY <1>1, <1>2, <1>4, <2>2, <3>1 DEF ListInv, CriticProtected
    <3>. QED BY <3>2, <3>3, <3>4 DEF ListInv
  <2>4. CASE a # b
    <3>1. k.status[b] = "SUSPENDED" => k.rbits[b] = {}
      BY DEF ListInv, Quiet
    <3>2. /\ k' \in KState /\ ListsMatch(k', live) /\ k'.ready # << >>
          /\ k'.status[b] \in {"READY", "SUSPENDED"}
          /\ k'.status[b] = "SUSPENDED" => k'.rbits[b] = {}
          /\ \A c \in App \ {b} : k'.status[c] = k.status[c] /\ k'.rbits[c] = k.rbits[c]
      BY <1>1, <1>2, <2>1, <2>4, <3>1, App2ReadyOK
    <3>3. stpsig' \in [App -> BOOLEAN] /\ \A c \in App \ {b} : stpsig'[c] <=> stpsig[c]
      BY <2>1, <2>4 DEF ListInv, TypeOK
    <3>4. ~stpsig'[b]
      BY <1>1, <2>1, <2>4 DEF ListInv, TypeOK, StoppedHaveSig
    <3>5. TypeOK' /\ ListsMatchStatus'
      BY <1>1, <2>1, <2>2, <3>2, <3>3 DEF ListInv, TypeOK, ListsMatchStatus
    <3>6. Quiet'
      BY <1>1, <2>2, <3>2 DEF ListInv, Quiet
    <3>7. StoppedHaveSig' /\ DeadClean'
      BY <1>1, <1>2, <2>1, <2>2, <3>2, <3>3, <3>4 DEF ListInv, StoppedHaveSig, DeadClean
    <3>8. CriticProtected'
      BY <1>1, <1>2, <1>4, <2>1, <2>2, <3>2 DEF ListInv, CriticProtected
    <3>. QED BY <3>5, <3>6, <3>7, <3>8 DEF ListInv
  <2>. QED BY <2>3, <2>4
<1>. QED BY <1>3, <1>4

\* The running application ends and leaves every list.
LEMMA EndThreadStep ==
    ASSUME ListInv, NEW a \in App, EndThread(a) PROVE ListInv'
<1>1. /\ mode = "run" /\ a = Act(k) /\ pc[a] = "break" /\ RmvApIO(a)
      /\ tim' = IF TIM \in k.rbits[a] THEN RmvApTimer(a) ELSE tim
      /\ k' = [k EXCEPT !.ready = Tail(@), !.rbits[a] = {}, !.hbits[a] = {}]
      /\ pc' = [pc EXCEPT ![a] = "user"] /\ live' = live \ {a} /\ mode' = "kernel"
      /\ UNCHANGED << critic, critAct, stpsig, iocnt, scan, ringcnt >>
  BY DEF EndThread, Running, ctrl
<1>2. /\ k \in KState /\ live \in SUBSET App /\ ListsMatch(k, live) /\ k.ready # << >>
      /\ a \in live /\ k.status[a] = "READY" /\ ~stpsig[a]
  BY <1>1, RunningFacts
<1>3. k.ready \in Seq(App) /\ NoDup(k.ready) /\ k.rbits \in [App -> SUBSET Event]
  BY <1>2 DEF KState, ListsMatch
<1>4. /\ Tail(k.ready) \in Seq(App) /\ NoDup(Tail(k.ready))
      /\ Members(Tail(k.ready)) = Members(k.ready) \ {a}
  BY <1>1, <1>2, <1>3, TailMembers DEF Act
<1>5. /\ k' \in KState /\ k'.ready = Tail(k.ready) /\ k'.susp = k.susp
      /\ k'.notready = k.notready /\ k'.status = k.status
      /\ k'.rbits = [k.rbits EXCEPT ![a] = {}]
  BY <1>1, <1>2, <1>4 DEF KState
<1>6. k'.rbits[a] = {} /\ \A b \in App \ {a} : k'.rbits[b] = k.rbits[b]
  BY <1>3, <1>5
<1>7. /\ tim' \in [App -> {"off", "running", "expired"}]
      /\ unsel' \in [App -> {"none", "armed", "done"}] /\ iocp' \subseteq App /\ lost' \subseteq App
  BY <1>1 DEF ListInv, TypeOK, RmvApIO, RmvApTimer, EndThread
<1>8. pc' \in [App -> Pc] /\ pc'[a] = "user" /\ \A b \in App \ {a} : pc'[b] = pc[b]
  BY <1>1 DEF ListInv, TypeOK, Pc
<1>9. critic[a] = 0 /\ critAct[a] = {}
  BY <1>1, <1>2, SchedAssumption DEF ListInv, TypeOK, CriticProtected
<1>10. TypeOK'
  BY <1>1, <1>2, <1>5, <1>7, <1>8 DEF ListInv, TypeOK
<1>11. ListsMatchStatus'
  BY <1>1, <1>2, <1>3, <1>4, <1>5 DEF ListsMatchStatus, ListsMatch
<1>12. Quiet'
  BY <1>1, <1>5, <1>6, <1>8 DEF ListInv, Quiet
<1>13. DeadClean' /\ StoppedHaveSig' /\ CriticProtected'
  BY <1>1, <1>2, <1>5, <1>8, <1>9 DEF ListInv, DeadClean, StoppedHaveSig, CriticProtected
<1>. QED BY <1>10, <1>11, <1>12, <1>13 DEF ListInv

\* A new application starts in a free slot.
LEMMA InitAPPLStep ==
    ASSUME ListInv, NEW a \in App, NEW b \in App, InitAPPL(a, b) PROVE ListInv'
<1>1. /\ mode = "run" /\ a = Act(k) /\ b \notin live
      /\ k' = ApToLastReady(k, b) /\ live' = live \cup {b}
      /\ UNCHANGED << mode, pc, critic, critAct, stpsig, iocp, lost, iocnt, scan, ringcnt >>
  BY DEF InitAPPL, Running, ctrl
<1>2. /\ k \in KState /\ live \in SUBSET App /\ ListsMatch(k, live) /\ k.ready # << >>
  BY <1>1, RunningFacts
<1>3. NoDup(k.ready) /\ b \notin Members(k.ready)
  BY <1>1, <1>2 DEF ListsMatch
<1>4. /\ k' \in KState /\ NoDup(k'.ready) /\ k'.ready # << >>
      /\ Members(k'.ready) = Members(k.ready) \cup {b}
      /\ k'.status = [k.status EXCEPT ![b] = "READY"]
      /\ k'.susp = k.susp /\ k'.notready = k.notready /\ k'.rbits = k.rbits
  BY <1>1, <1>2, <1>3, ApToLastReadyOK
<1>5. k'.status[b] = "READY" /\ \A c \in App \ {b} : k'.status[c] = k.status[c]
  BY <1>2, <1>4 DEF KState
<1>6. unsel' \in [App -> {"none", "armed", "done"}] /\ tim' \in [App -> {"off", "running", "expired"}]
  BY DEF InitAPPL, ListInv, TypeOK
<1>7. TypeOK'
  BY <1>1, <1>2, <1>4, <1>6 DEF ListInv, TypeOK
<1>8. ListsMatchStatus'
  BY <1>1, <1>2, <1>4, <1>5 DEF ListsMatchStatus, ListsMatch
<1>9. Quiet' /\ DeadClean'
  BY <1>1, <1>4, <1>5 DEF ListInv, Quiet, DeadClean
<1>10. StoppedHaveSig' /\ CriticProtected'
  BY <1>1, <1>2, <1>5 DEF ListInv, StoppedHaveSig, CriticProtected, DeadClean
<1>. QED BY <1>7, <1>8, <1>9, <1>10 DEF ListInv

\* event_happened as the kernel loop calls it, outside every application.
LEMMA EventInv ==
    ASSUME ListInv, NEW b \in live, NEW e \in Event, k' = EventHappened(k, b, e),
           mode # "run",
           UNCHANGED << mode, live, pc, critic, critAct, stpsig, unsel, lost, iocnt >>,
           tim' \in [App -> {"off", "running", "expired"}], iocp' \subseteq App,
           scan' \subseteq App, ringcnt' \in 0..RngBfLen
    PROVE  ListInv'
<1>1. k \in KState /\ live \in SUBSET App /\ ListsMatch(k, live) /\ b \in App
  BY DEF ListInv, TypeOK, ListsMatchStatus
<1>2. k.status[b] = "SUSPENDED" => k.rbits[b] = {}
  BY <1>1 DEF ListInv, Quiet
<1>. DEFINE wake == k.status[b] = "WAITING" /\ (k.hbits[b] \cup {e}) \cap k.rbits[b] # {}
            n == EventHappened(k, b, e)
<1>0. /\ n \in KState /\ ListsMatch(n, live) /\ n.rbits = k.rbits
      /\ n.hbits = [k.hbits EXCEPT ![b] = @ \cup {e}]
      /\ wake => n.status = [k.status EXCEPT ![b] = "READY"]
      /\ ~wake => n.status = k.status
  BY <1>1, <1>2, EventHappenedOK
<1>. HIDE DEF n
<1>3. /\ k' \in KState /\ ListsMatch(k', live) /\ k'.rbits = k.rbits
      /\ wake => k'.status = [k.status EXCEPT ![b] = "READY"]
      /\ ~wake => k'.status = k.status
  BY <1>0 DEF n
<1>4. k.status \in [App -> Status]
  BY <1>1 DEF KState
<1>5. \A c \in App : /\ k'.status[c] = "SUSPENDED" => k.status[c] = "SUSPENDED"
                     /\ k'.status[c] = "STOPPED" <=> k.status[c] = "STOPPED"
  BY <1>1, <1>3, <1>4
<1>6. TypeOK' /\ ListsMatchStatus'
  BY <1>3 DEF ListInv, TypeOK, ListsMatchStatus
<1>7. Quiet' /\ DeadClean'
  BY <1>3, <1>5 DEF ListInv, Quiet, DeadClean
<1>8. StoppedHaveSig' /\ CriticProtected'
  BY <1>1, <1>5 DEF ListInv, StoppedHaveSig, CriticProtected
<1>. QED BY <1>6, <1>7, <1>8 DEF ListInv

\* Steps that touch neither the kernel state nor an application.
LEMMA NoteInv ==
    ASSUME ListInv, mode \in {"run", "kernel", "scan"},
           UNCHANGED << k, live, pc, critic, critAct, stpsig, lost >>,
           mode' \in {"kernel", "scan", mode},
           tim' \in [App -> {"off", "running", "expired"}], iocp' \subseteq App, iocnt' \in Nat,
           unsel' \in [App -> {"none", "armed", "done"}],
           scan' \subseteq App, ringcnt' \in 0..RngBfLen
    PROVE  ListInv'
BY DEF ListInv, TypeOK, ListsMatchStatus, Quiet, DeadClean, StoppedHaveSig, CriticProtected

\* The kernel loop handles an expired timer.
LEMMA HandleTimStep ==
    ASSUME ListInv, HandleTim PROVE ListInv'
<1>1. /\ mode = "kernel" /\ ringcnt > 0 /\ ringcnt' = ringcnt - 1
      /\ UNCHANGED << mode, live, pc, iocp, lost, iocnt, scan, unsel, critic, critAct, stpsig >>
  BY DEF HandleTim, ctrl
<1>2. ringcnt' \in 0..RngBfLen
  BY <1>1, SchedAssumption DEF ListInv, TypeOK
<1>3. CASE k' = k /\ tim' \in [App -> {"off", "running", "expired"}]
  BY <1>1, <1>2, <1>3, NoteInv DEF ListInv, TypeOK
<1>4. CASE {b \in App : tim[b] = "expired"} = {}
  BY <1>3, <1>4 DEF HandleTim, ListInv, TypeOK
<1>5. CASE {b \in App : tim[b] = "expired"} # {}
  <2>1. PICK b \in App : /\ tim' = [tim EXCEPT ![b] = "off"]
                         /\ k' = IF TIM \in k.rbits[b] \ k.hbits[b]
                                 THEN EventHappened(k, b, TIM) ELSE k
    BY <1>5 DEF HandleTim
  <2>2. tim' \in [App -> {"off", "running", "expired"}]
    BY <2>1 DEF ListInv, TypeOK
  <2>3. CASE TIM \in k.rbits[b] \ k.hbits[b]
    <3>1. k' = EventHappened(k, b, TIM) /\ b \in live /\ TIM \in Event
      BY <2>1, <2>3, SchedAssumption DEF ListInv, Quiet
    <3>. QED BY <1>1, <1>2, <2>2, <3>1, EventInv DEF ListInv, TypeOK
  <2>4. CASE TIM \notin k.rbits[b] \ k.hbits[b]
    BY <1>3, <2>1, <2>2, <2>4
  <2>. QED BY <2>3, <2>4
<1>. QED BY <1>4, <1>5

\* The kernel loop handles the IOcomplete of one slot.
LEMMA ScanSlotStep ==
    ASSUME ListInv, NEW b \in App, ScanSlot(b) PROVE ListInv'
<1>1. /\ mode = "scan" /\ scan' = scan \ {b} /\ iocp' = iocp \ {b}
      /\ k' = IF b \in iocp \cap live THEN EventHappened(k, b, IO) ELSE k
      /\ UNCHANGED << mode, live, pc, lost, iocnt, ringcnt, tim, unsel, critic, critAct, stpsig >>
  BY DEF ScanSlot, ctrl
<1>2. CASE b \in iocp \cap live
  <2>1. IO \in Event /\ b \in live /\ k' = EventHappened(k, b, IO)
    BY <1>1, <1>2, SchedAssumption
  <2>. QED BY <1>1, <2>1, EventInv DEF ListInv, TypeOK
<1>3. CASE b \notin iocp \cap live
  BY <1>1, <1>3, NoteInv DEF ListInv, TypeOK
<1>. QED BY <1>2, <1>3

\* The kernel loop hands the CPU over.
LEMMA SwitchStep ==
    ASSUME ListInv, Switch PROVE ListInv'
<1>1. /\ CanSwitch(k) /\ k' = SwitchTo(k) /\ mode' = "run"
      /\ UNCHANGED << live, pc, iocp, lost, iocnt, scan, ringcnt, tim, unsel, critic, critAct, stpsig >>
  BY DEF Switch, ints, ctrl
<1>2. k \in KState /\ live \in SUBSET App /\ ListsMatch(k, live)
  BY DEF ListInv, TypeOK, ListsMatchStatus
<1>3. /\ k' \in KState /\ ListsMatch(k', live) /\ k'.ready # << >> /\ k'.rbits = k.rbits
      /\ \A b \in App : k'.status[b] = k.status[b]
                        \/ (k.status[b] = "SUSPENDED" /\ k'.status[b] = "READY")
  BY <1>1, <1>2, SwitchToOK
<1>4. TypeOK' /\ ListsMatchStatus'
  BY <1>1, <1>3 DEF ListInv, TypeOK, ListsMatchStatus
<1>7. \A b \in App : /\ k'.status[b] = "SUSPENDED" => k.status[b] = "SUSPENDED"
                     /\ k'.status[b] = "STOPPED" <=> k.status[b] = "STOPPED"
  BY <1>3
<1>5. Quiet' /\ DeadClean'
  BY <1>1, <1>3, <1>7 DEF ListInv, Quiet, DeadClean
<1>6. StoppedHaveSig' /\ CriticProtected'
  BY <1>1, <1>2, <1>7 DEF ListInv, StoppedHaveSig, CriticProtected
<1>. QED BY <1>4, <1>5, <1>6 DEF ListInv

\* Interrupts and the bookkeeping of the kernel loop move no application.
LEMMA NoteSteps ==
    ASSUME ListInv, ScanBegin \/ ScanEnd \/ (\E b \in App : ApplIOcomplete(b) \/ TimerInt(b))
    PROVE  ListInv'
<1>1. CASE ScanBegin
  BY <1>1, NoteInv DEF ScanBegin, ctrl, ListInv, TypeOK
<1>2. CASE ScanEnd
  BY <1>2, NoteInv DEF ScanEnd, ctrl, ListInv, TypeOK
<1>3. ASSUME NEW b \in App, ApplIOcomplete(b) PROVE ListInv'
  <2>1. unsel' \in [App -> {"none", "armed", "done"}] /\ iocp' \subseteq App /\ iocnt' \in Nat
    BY <1>3 DEF ApplIOcomplete, ListInv, TypeOK
  <2>. QED BY <1>3, <2>1, NoteInv DEF ApplIOcomplete, ctrl, ListInv, TypeOK
<1>4. ASSUME NEW b \in App, TimerInt(b) PROVE ListInv'
  <2>1. tim' \in [App -> {"off", "running", "expired"}] /\ ringcnt' \in 0..RngBfLen
    BY <1>4, SchedAssumption DEF TimerInt, ListInv, TypeOK
  <2>. QED BY <1>4, <2>1, NoteInv DEF TimerInt, ctrl, ListInv, TypeOK
<1>. QED BY <1>1, <1>2, <1>3, <1>4

\* The invariant holds when the first application has the CPU.
LEMMA InitListInv == Init => ListInv
<1>. SUFFICES ASSUME Init PROVE ListInv
  OBVIOUS
<1>1. PICK a \in App :
         /\ k = [ready |-> << a >>, notready |-> {}, susp |-> << >>,
                 status |-> [b \in App |-> "READY"], rbits |-> [b \in App |-> {}],
                 hbits |-> [b \in App |-> {}], unsusp |-> UnSusp]
         /\ live = {a}
  BY DEF Init
<1>2. /\ k.ready = << a >> /\ k.notready = {} /\ k.susp = << >>
      /\ k.status = [b \in App |-> "READY"] /\ k.rbits = [b \in App |-> {}]
  BY <1>1
<1>3. k \in KState
  BY <1>1, KernelAssumption DEF KState, Status
<1>4. TypeOK
  BY <1>1, <1>3, SchedAssumption DEF Init, TypeOK, Pc
<1>5. ListsMatchStatus
  BY <1>1, <1>2 DEF ListsMatchStatus, ListsMatch, NoDup, Members
<1>6. Quiet /\ DeadClean /\ StoppedHaveSig /\ CriticProtected
  BY <1>1, <1>2 DEF Init, Quiet, DeadClean, StoppedHaveSig, CriticProtected
<1>. QED BY <1>4, <1>5, <1>6 DEF ListInv

\* Every step keeps the invariant.
LEMMA NextListInv == ListInv /\ [Next]_vars => ListInv'
<1>. SUFFICES ASSUME ListInv, [Next]_vars PROVE ListInv'
  OBVIOUS
<1>1. CASE UNCHANGED vars
  BY <1>1 DEF vars, ListInv, TypeOK, ListsMatchStatus, Quiet, DeadClean, StoppedHaveSig,
              CriticProtected
<1>2. CASE KernelStep
  BY <1>2, HandleTimStep, ScanSlotStep, SwitchStep, NoteSteps DEF KernelStep
<1>3. CASE Interrupt
  BY <1>3, NoteSteps DEF Interrupt
<1>4. ASSUME NEW a \in App, AppStep(a) PROVE ListInv'
  BY <1>4, YieldStep, ApplSuspendStep, StartIOStep, EvntIOStep, EvntIORetStep, BegCriticStep,
     EndCriticStep, EndThreadStep, StopPdThreadsStep, ContThreadStep, KillThreadStep,
     InitAPPLStep DEF AppStep
<1>. QED BY <1>1, <1>2, <1>3, <1>4 DEF Next

\* In every reachable state every application is in exactly the scheduler list
\* its ap_status names, stopped applications are the ones with ap_stpsig, and
\* critical sections keep stop and kill requests away: for any number of
\* applications and any interleaving of system calls, signals and interrupts.
THEOREM ListsCorrect ==
    Spec => [](TypeOK /\ ListsMatchStatus /\ StoppedHaveSig /\ CriticProtected)
<1>1. ListInv => TypeOK /\ ListsMatchStatus /\ StoppedHaveSig /\ CriticProtected
  BY DEF ListInv
<1>. QED BY <1>1, InitListInv, NextListInv, PTL DEF Spec

-----------------------------------------------------------------------------
(* Wakeups *)

\* appl_yield loses no wakeup: the caller a is asleep afterwards only if none of
\* its events has arrived, and nobody else falls asleep.
LEMMA YieldIO ==
    ASSUME IOInv, NEW a, mode = "run", a = Act(k),
           NEW n \in KState, ListsMatchBut(n, live, a), ApplYield(n), live' = live,
           UNCHANGED << iocp, lost, iocnt, unsel >>,
           \A b \in App \ {a} : /\ n.rbits[b] = k.rbits[b] /\ n.hbits[b] = k.hbits[b]
                                /\ n.status[b] = "WAITING" => k.status[b] = "WAITING"
                                /\ pc'[b] = pc[b],
           pc'[a] # "sel",
           pc'[a] = "io" /\ unsel[a] = "done" /\ IO \notin n.hbits[a] => a \in iocp \cup lost
    PROVE  Asleep' /\ SelRunning' /\ Counted' /\ IOFlagged'
<1>1. live \in SUBSET App /\ \A b \in App \ {a} : pc[b] # "sel"
  BY DEF IOInv, ListInv, TypeOK, SelRunning
<1>. DEFINE y == YieldLists(n)
<1>0. /\ y.rbits = n.rbits /\ y.hbits = n.hbits
      /\ y.status[a] = "WAITING" => n.rbits[a] \cap n.hbits[a] = {}
      /\ \A b \in App \ {a} : y.status[b] = n.status[b]
                              \/ (n.status[b] = "SUSPENDED" /\ y.status[b] = "READY")
  BY <1>1, YieldListsOK
<1>. HIDE DEF y
<1>2. /\ k'.rbits = n.rbits /\ k'.hbits = n.hbits
      /\ k'.status[a] = "WAITING" => n.rbits[a] \cap n.hbits[a] = {}
      /\ \A b \in App \ {a} : k'.status[b] = n.status[b]
                              \/ (n.status[b] = "SUSPENDED" /\ k'.status[b] = "READY")
  BY <1>0 DEF ApplYield, y
<1>3. Asleep'
  <2>1. ASSUME NEW b \in live, k'.status[b] = "WAITING" PROVE k'.rbits[b] \cap k'.hbits[b] = {}
    <3>1. CASE b = a
      BY <1>2, <2>1, <3>1
    <3>2. CASE b # a
      <4>1. b \in App \ {a} /\ k.status[b] = "WAITING"
        BY <1>1, <1>2, <2>1, <3>2
      <4>. QED BY <1>2, <4>1 DEF IOInv, Asleep
    <3>. QED BY <3>1, <3>2
  <2>. QED BY <2>1 DEF Asleep
<1>4. SelRunning'
  BY <1>1 DEF SelRunning
<1>5. Counted'
  BY DEF IOInv, Counted, ApplYield
<1>6. IOFlagged'
  BY <1>1, <1>2 DEF IOInv, IOFlagged
<1>. QED BY <1>3, <1>4, <1>5, <1>6

\* System calls that end in appl_yield keep the notes of finished operations.
LEMMA YieldingIO ==
    ASSUME IOInv, NEW a \in App,
           Yield(a) \/ ApplSuspend(a) \/ EvntIO(a) \/ (EndCritic(a) /\ mode' = "kernel")
           \/ \E b \in App : StopPdThreads(a, b)
    PROVE  Asleep' /\ SelRunning' /\ Counted' /\ IOFlagged'
<1>. DEFINE Goal == Asleep' /\ SelRunning' /\ Counted' /\ IOFlagged'
<1>0. /\ mode = "run" /\ a = Act(k) /\ UNCHANGED << live, iocp, lost, iocnt, unsel >>
  BY DEF Yield, ApplSuspend, EvntIO, EndCritic, StopPdThreads, Running, ints
<1>1. /\ k \in KState /\ live \in SUBSET App /\ ListsMatch(k, live) /\ k.ready # << >>
      /\ ListsMatchBut(k, live, a) /\ a \in live
  BY <1>0, RunningFacts DEF IOInv
<1>2. /\ k.status \in [App -> Status] /\ k.rbits \in [App -> SUBSET Event]
      /\ k.hbits \in [App -> SUBSET Event]
  BY <1>1 DEF KState
<1>3. ASSUME ApplYield(k), UNCHANGED pc, pc[a] # "sel" PROVE Goal
  <2>1. pc'[a] = "io" /\ unsel[a] = "done" /\ IO \notin k.hbits[a] => a \in iocp \cup lost
    BY <1>3 DEF IOInv, IOFlagged
  <2>. QED BY <1>0, <1>1, <1>3, <2>1, YieldIO
<1>4. ASSUME NEW b \in live, ApplYield(StpThr(k, b)), UNCHANGED pc, pc[a] = "user" PROVE Goal
  <2>. DEFINE n == StpThr(k, b)
  <2>1. /\ n \in KState /\ ListsMatchBut(n, live, a) /\ n.rbits = k.rbits /\ n.hbits = k.hbits
        /\ n.status = [k.status EXCEPT ![b] = "STOPPED"]
    BY <1>0, <1>1, <1>4, StpThrOK
  <2>. HIDE DEF n
  <2>2. \A c \in App : n.status[c] = "WAITING" => k.status[c] = "WAITING"
    BY <1>1, <1>2, <2>1
  <2>3. ApplYield(n)
    BY <1>4 DEF n
  <2>. QED BY <1>0, <1>4, <2>1, <2>2, <2>3, YieldIO
<1>5. CASE Yield(a)
  BY <1>3, <1>5 DEF Yield, Running
<1>6. CASE ApplSuspend(a)
  <2>. DEFINE n == [k EXCEPT !.status[a] = "SUSPENDED"]
  <2>1. /\ n \in KState /\ n.ready = k.ready /\ n.susp = k.susp /\ n.notready = k.notready
        /\ n.status = [k.status EXCEPT ![a] = "SUSPENDED"]
        /\ n.rbits = k.rbits /\ n.hbits = k.hbits
    BY <1>1 DEF KState, Status
  <2>2. ApplYield(n) /\ UNCHANGED pc /\ pc[a] = "user"
    BY <1>6 DEF ApplSuspend, Running
  <2>. HIDE DEF n
  <2>3. ListsMatchBut(n, live, a)
    BY <1>0, <1>1, <2>1, SetStatusOK DEF Status
  <2>4. \A c \in App \ {a} : n.status[c] = k.status[c]
    BY <1>2, <2>1
  <2>. QED BY <1>0, <2>1, <2>2, <2>3, <2>4, YieldIO
<1>7. CASE EvntIO(a)
  <2>1. PICK w \in Timeouts : ApplYield(BeginWait(k, a, IF w THEN {IO, TIM} ELSE {IO}))
    BY <1>7 DEF EvntIO
  <2>. DEFINE evs == IF w THEN {IO, TIM} ELSE {IO}
              n == BeginWait(k, a, evs)
  <2>2. pc[a] = "sel" /\ pc' = [pc EXCEPT ![a] = "io"] /\ ApplYield(n) /\ evs \in SUBSET Event
    BY <1>7, <2>1, SchedAssumption DEF EvntIO, Running
  <2>. HIDE DEF evs
  <2>3. /\ n \in KState /\ n.ready = k.ready /\ n.susp = k.susp /\ n.notready = k.notready
        /\ n.status = [k.status EXCEPT ![a] = "WAITING"]
        /\ n.rbits = [k.rbits EXCEPT ![a] = evs] /\ n.hbits = [k.hbits EXCEPT ![a] = {}]
    BY <1>1, <2>2 DEF KState, Status, BeginWait
  <2>. HIDE DEF n
  <2>4. ListsMatchBut(n, live, a)
    BY <1>0, <1>1, <2>3, SetStatusOK DEF Status
  <2>5. /\ \A b \in App \ {a} : /\ n.rbits[b] = k.rbits[b] /\ n.hbits[b] = k.hbits[b]
                                /\ n.status[b] = "WAITING" => k.status[b] = "WAITING"
    BY <1>2, <2>3
  <2>6. pc'[a] = "io" /\ \A b \in App \ {a} : pc'[b] = pc[b]
    BY <2>2 DEF IOInv, ListInv, TypeOK
  <2>7. unsel[a] = "done" => a \in iocp \cup lost
    BY <2>2 DEF IOInv, IOFlagged
  <2>. QED BY <1>0, <2>2, <2>3, <2>4, <2>5, <2>6, <2>7, YieldIO
<1>8. CASE EndCritic(a) /\ mode' = "kernel"
  <2>1. ApplYield(StpThr(k, a)) /\ UNCHANGED pc /\ pc[a] = "user"
    BY <1>0, <1>8 DEF EndCritic, Running
  <2>. QED BY <1>1, <1>4, <2>1
<1>9. ASSUME NEW b \in App, StopPdThreads(a, b) PROVE Goal
  <2>1. b \in live /\ UNCHANGED pc /\ pc[a] = "user"
        /\ (ApplYield(k) \/ ApplYield(StpThr(k, b)))
    BY <1>9 DEF StopPdThreads, Running
  <2>. QED BY <1>3, <1>4, <2>1
<1>. QED BY <1>5, <1>6, <1>7, <1>8, <1>9

\* System calls that return to their caller a without appl_yield.
LEMMA CallingIO ==
    ASSUME IOInv, NEW a \in App,
           StartIO(a) \/ EvntIORet(a) \/ BegCritic(a) \/ (EndCritic(a) /\ mode' = "run")
           \/ \E b \in App : ContThread(a, b) \/ KillThread(a, b) \/ InitAPPL(a, b)
    PROVE  Asleep' /\ SelRunning' /\ Counted' /\ IOFlagged'
<1>. DEFINE Goal == Asleep' /\ SelRunning' /\ Counted' /\ IOFlagged'
<1>0. mode = "run" /\ a = Act(k) /\ mode' = "run"
  BY DEF StartIO, EvntIORet, BegCritic, EndCritic, ContThread, KillThread, InitAPPL, Running
<1>1. /\ k \in KState /\ live \in SUBSET App /\ ListsMatch(k, live) /\ k.ready # << >>
      /\ a \in live /\ k.status[a] = "READY" /\ pc \in [App -> Pc]
      /\ unsel \in [App -> {"none", "armed", "done"}]
  BY <1>0, RunningFacts DEF IOInv, ListInv, TypeOK
<1>2. /\ k.status \in [App -> Status] /\ k.rbits \in [App -> SUBSET Event]
      /\ k.hbits \in [App -> SUBSET Event]
  BY <1>1 DEF KState
<1>3. CASE StartIO(a)
  <2>1. /\ UNCHANGED << k, mode, live, iocp, iocnt, scan >> /\ lost' = lost \ {a}
        /\ unsel' = [unsel EXCEPT ![a] = "armed"] /\ pc' = [pc EXCEPT ![a] = "sel"]
    BY <1>3 DEF StartIO
  <2>2. unsel'[a] = "armed" /\ \A b \in App \ {a} : unsel'[b] = unsel[b] /\ pc'[b] = pc[b]
    BY <1>1, <2>1
  <2>. QED BY <1>0, <2>1, <2>2 DEF IOInv, Asleep, SelRunning, Counted, IOFlagged
<1>4. CASE EvntIORet(a)
  <2>1. /\ UNCHANGED << mode, live, lost, iocnt, scan >> /\ k' = EndWait(k, a)
        /\ pc' = [pc EXCEPT ![a] = "user"]
        /\ iocp' \subseteq iocp /\ \A b \in App \ {a} : b \in iocp => b \in iocp'
        /\ unsel' = [unsel EXCEPT ![a] = IF IO \in k.hbits[a] /\ @ = "armed" THEN @ ELSE "none"]
    BY <1>4 DEF EvntIORet
  <2>2. /\ k'.ready = k.ready /\ k'.status = k.status /\ k'.hbits = [k.hbits EXCEPT ![a] = {}]
        /\ k'.rbits = [k.rbits EXCEPT ![a] = {}]
    BY <1>1, <2>1 DEF KState, EndWait
  <2>3. /\ pc'[a] = "user"
        /\ \A b \in App \ {a} : /\ unsel'[b] = unsel[b] /\ pc'[b] = pc[b]
                                /\ k'.rbits[b] = k.rbits[b] /\ k'.hbits[b] = k.hbits[b]
    BY <1>1, <1>2, <2>1, <2>2
  <2>4. Act(k') = Act(k)
    BY <2>2 DEF Act
  <2>5. Asleep' /\ SelRunning'
    BY <1>0, <1>1, <2>1, <2>2, <2>3, <2>4 DEF IOInv, Asleep, SelRunning
  <2>6. Counted' /\ IOFlagged'
    BY <1>0, <2>1, <2>2, <2>3 DEF IOInv, Counted, IOFlagged
  <2>. QED BY <2>5, <2>6
<1>5. CASE BegCritic(a)
  BY <1>5 DEF BegCritic, ints, IOInv, Asleep, SelRunning, Counted, IOFlagged
<1>6. CASE EndCritic(a) /\ mode' = "run"
  <2>1. UNCHANGED << k, mode, live, iocp, lost, iocnt, scan, unsel >>
        /\ (pc' = pc \/ pc' = [pc EXCEPT ![a] = "break"])
    BY <1>0, <1>6 DEF EndCritic, ints, ApplYield
  <2>2. \A b \in App : pc'[b] = pc[b] \/ pc'[b] = "break"
    BY <1>1, <2>1
  <2>. QED BY <2>1, <2>2 DEF IOInv, Asleep, SelRunning, Counted, IOFlagged
<1>7. ASSUME NEW b \in App, ContThread(a, b) PROVE Goal
  <2>1. /\ UNCHANGED << mode, live, pc, iocp, lost, iocnt, scan, unsel >> /\ b \in live
        /\ k' = k \/ k' = CntThr(k, b)
    BY <1>7 DEF ContThread, ints
  <2>2. CASE k' = k
    BY <2>1, <2>2 DEF IOInv, Asleep, SelRunning, Counted, IOFlagged
  <2>3. CASE k' = CntThr(k, b)
    <3>. DEFINE n == CntThr(k, b)
    <3>1. /\ n.rbits = k.rbits /\ n.hbits = k.hbits /\ Act(n) = Act(k)
          /\ k.status[b] # "STOPPED" => n.status = k.status
          /\ \A c \in App \ {b} : n.status[c] = k.status[c]
          /\ n.status[b] = "WAITING" /\ k.status[b] = "STOPPED" => k.rbits[b] \cap k.hbits[b] = {}
      BY <1>1, <2>1, CntThrOK
    <3>. HIDE DEF n
    <3>2. k' = n
      BY <2>3 DEF n
    <3>3. Asleep'
      BY <1>1, <2>1, <3>1, <3>2 DEF IOInv, Asleep
    <3>. QED BY <2>1, <3>1, <3>2, <3>3 DEF IOInv, SelRunning, Counted, IOFlagged
  <2>. QED BY <2>1, <2>2, <2>3
<1>8. ASSUME NEW b \in App, KillThread(a, b) PROVE Goal
  <2>1. /\ UNCHANGED << mode, live, iocp, lost, iocnt, scan, unsel >> /\ b \in live
        /\ pc' = pc \/ pc' = [pc EXCEPT ![b] = "break"]
        /\ k' = k \/ (k' = App2Ready(k, b) /\ pc' = [pc EXCEPT ![b] = "break"])
    BY <1>8 DEF KillThread, ints
  <2>2. \A c \in App : pc'[c] = pc[c] \/ pc'[c] = "break"
    BY <1>1, <2>1
  <2>3. CASE k' = k
    BY <2>1, <2>2, <2>3 DEF IOInv, Asleep, SelRunning, Counted, IOFlagged
  <2>4. CASE k' = App2Ready(k, b) /\ pc' = [pc EXCEPT ![b] = "break"]
    <3>. DEFINE n == App2Ready(k, b)
    <3>1. k.status[b] = "SUSPENDED" => k.rbits[b] = {}
      BY DEF IOInv, ListInv, Quiet
    <3>2. /\ n.status[b] \in {"READY", "SUSPENDED"} /\ Act(n) = Act(k)
          /\ \A c \in App \ {b} : /\ n.status[c] = k.status[c]
                                  /\ n.rbits[c] = k.rbits[c] /\ n.hbits[c] = k.hbits[c]
      BY <1>1, <2>1, <3>1, App2ReadyOK
    <3>. HIDE DEF n
    <3>3. k' = n /\ pc'[b] = "break"
      BY <1>1, <2>4 DEF n
    <3>4. Asleep'
      BY <1>1, <2>1, <3>2, <3>3 DEF IOInv, Asleep
    <3>. QED BY <2>1, <2>2, <3>2, <3>3, <3>4 DEF IOInv, SelRunning, Counted, IOFlagged
  <2>. QED BY <2>1, <2>3, <2>4
<1>9. ASSUME NEW b \in App, InitAPPL(a, b) PROVE Goal
  <2>1. /\ UNCHANGED << mode, pc, iocp, lost, iocnt, scan >> /\ k' = ApToLastReady(k, b)
        /\ b \notin live /\ live' = live \cup {b} /\ unsel' = [unsel EXCEPT ![b] = "none"]
    BY <1>9 DEF InitAPPL
  <2>. DEFINE n == ApToLastReady(k, b)
  <2>2. NoDup(k.ready) /\ b \notin Members(k.ready)
    BY <1>1, <2>1 DEF ListsMatch
  <2>3. /\ n.status = [k.status EXCEPT ![b] = "READY"]
        /\ n.rbits = k.rbits /\ n.hbits = k.hbits /\ Act(n) = Act(k)
    BY <1>1, <2>2, ApToLastReadyOK
  <2>. HIDE DEF n
  <2>4. k' = n
    BY <2>1 DEF n
  <2>5. /\ k'.status[b] = "READY" /\ \A c \in App \ {b} : k'.status[c] = k.status[c]
        /\ unsel'[b] = "none" /\ \A c \in App \ {b} : unsel'[c] = unsel[c]
    BY <1>1, <1>2, <2>1, <2>3, <2>4
  <2>6. Asleep'
    BY <1>1, <2>1, <2>3, <2>4, <2>5 DEF IOInv, Asleep
  <2>. QED BY <2>1, <2>3, <2>4, <2>5, <2>6 DEF IOInv, SelRunning, Counted, IOFlagged
<1>. QED BY <1>3, <1>4, <1>5, <1>6, <1>7, <1>8, <1>9

\* The end of an application: a note that rmv_ap_io clears is in lost.
LEMMA EndThreadIO ==
    ASSUME IOInv, NEW a \in App, EndThread(a)
    PROVE  Asleep' /\ SelRunning' /\ Counted' /\ IOFlagged'
<1>1. /\ mode = "run" /\ a = Act(k) /\ pc[a] = "break" /\ RmvApIO(a) /\ mode' = "kernel"
      /\ k' = [k EXCEPT !.ready = Tail(@), !.rbits[a] = {}, !.hbits[a] = {}]
      /\ pc' = [pc EXCEPT ![a] = "user"] /\ live' = live \ {a} /\ UNCHANGED << iocnt, scan >>
  BY DEF EndThread, Running
<1>2. /\ k \in KState /\ live \in SUBSET App /\ pc \in [App -> Pc]
      /\ unsel \in [App -> {"none", "armed", "done"}]
  BY DEF IOInv, ListInv, TypeOK
<1>3. k.rbits \in [App -> SUBSET Event] /\ k.hbits \in [App -> SUBSET Event]
  BY <1>2 DEF KState
<1>4. /\ k'.status = k.status /\ k'.rbits = [k.rbits EXCEPT ![a] = {}]
      /\ k'.hbits = [k.hbits EXCEPT ![a] = {}]
  BY <1>1, <1>2 DEF KState
<1>5. iocp' \subseteq iocp /\ (iocp \cup lost) \ {a} \subseteq iocp' \cup lost'
  BY <1>1 DEF RmvApIO, EndThread
<1>6. /\ pc'[a] = "user"
      /\ \A b \in App \ {a} : /\ pc'[b] = pc[b] /\ unsel'[b] = unsel[b]
                              /\ k'.rbits[b] = k.rbits[b] /\ k'.hbits[b] = k.hbits[b]
  BY <1>1, <1>2, <1>3, <1>4 DEF RmvApIO
<1>7. Asleep' /\ SelRunning'
  BY <1>1, <1>2, <1>4, <1>6 DEF IOInv, Asleep, SelRunning
<1>8. Counted' /\ IOFlagged'
  BY <1>1, <1>5, <1>6 DEF IOInv, Counted, IOFlagged
<1>. QED BY <1>7, <1>8

\* event_happened in the kernel loop wakes whom it should: nobody is left
\* asleep on event e.
LEMMA EventIO ==
    ASSUME IOInv, NEW b \in live, NEW e \in Event, k' = EventHappened(k, b, e), UNCHANGED live
    PROVE  /\ Asleep' /\ e \in k'.hbits[b]
           /\ \A c \in App : k.hbits[c] \subseteq k'.hbits[c]
<1>1. k \in KState /\ live \in SUBSET App /\ ListsMatch(k, live) /\ b \in App
  BY DEF IOInv, ListInv, TypeOK, ListsMatchStatus
<1>2. k.status[b] = "SUSPENDED" => k.rbits[b] = {}
  BY <1>1 DEF IOInv, ListInv, Quiet
<1>. DEFINE wake == k.status[b] = "WAITING" /\ (k.hbits[b] \cup {e}) \cap k.rbits[b] # {}
            n == EventHappened(k, b, e)
<1>3. /\ n.rbits = k.rbits /\ n.hbits = [k.hbits EXCEPT ![b] = @ \cup {e}]
      /\ wake => n.status = [k.status EXCEPT ![b] = "READY"]
      /\ ~wake => n.status = k.status
  BY <1>1, <1>2, EventHappenedOK
<1>. HIDE DEF n
<1>4. k' = n /\ k.status \in [App -> Status] /\ k.hbits \in [App -> SUBSET Event]
  BY <1>1 DEF n, KState
<1>5. n.hbits[b] = k.hbits[b] \cup {e} /\ \A c \in App \ {b} : n.hbits[c] = k.hbits[c]
  BY <1>1, <1>3, <1>4
<1>6. ASSUME NEW c \in live, n.status[c] = "WAITING" PROVE n.rbits[c] \cap n.hbits[c] = {}
  <2>1. CASE c = b
    BY <1>1, <1>3, <1>4, <1>5, <1>6, <2>1
  <2>2. CASE c # b
    BY <1>1, <1>3, <1>4, <1>5, <1>6, <2>2 DEF IOInv, Asleep
  <2>. QED BY <2>1, <2>2
<1>. QED BY <1>4, <1>5, <1>6 DEF Asleep

\* The kernel loop turns every note into an event before it forgets it.
LEMMA KernelIO ==
    ASSUME IOInv, KernelStep PROVE Asleep' /\ SelRunning' /\ Counted' /\ IOFlagged'
<1>. DEFINE Goal == Asleep' /\ SelRunning' /\ Counted' /\ IOFlagged'
<1>0. mode # "run" /\ UNCHANGED << pc, unsel, live, lost >>
  BY DEF KernelStep, HandleTim, ScanBegin, ScanEnd, Switch, ScanSlot, ints
<1>1. \A a \in App : pc[a] # "sel"
  BY <1>0 DEF IOInv, SelRunning
<1>2. /\ k \in KState /\ live \in SUBSET App /\ ListsMatch(k, live) /\ iocp \subseteq App
  BY DEF IOInv, ListInv, TypeOK, ListsMatchStatus
<1>3. SelRunning'
  BY <1>0, <1>1 DEF SelRunning
<1>4. ASSUME k' = k, iocp' = iocp PROVE Asleep' /\ IOFlagged'
  BY <1>0, <1>4 DEF IOInv, Asleep, IOFlagged
<1>5. CASE HandleTim
  <2>1. mode = "kernel" /\ UNCHANGED << mode, iocp, lost, iocnt, scan >>
        /\ (k' = k \/ \E b \in App : TIM \in k.rbits[b] /\ k' = EventHappened(k, b, TIM))
    BY <1>5 DEF HandleTim
  <2>2. Counted'
    BY <2>1 DEF IOInv, Counted
  <2>3. ASSUME NEW b \in App, TIM \in k.rbits[b], k' = EventHappened(k, b, TIM) PROVE Goal
    <3>1. b \in live /\ TIM \in Event
      BY <2>3, SchedAssumption DEF IOInv, ListInv, Quiet
    <3>2. Asleep' /\ \A c \in App : k.hbits[c] \subseteq k'.hbits[c]
      BY <1>0, <2>3, <3>1, EventIO
    <3>3. IOFlagged'
      BY <1>0, <2>1, <3>2 DEF IOInv, IOFlagged
    <3>. QED BY <1>3, <2>2, <3>2, <3>3
  <2>. QED BY <1>3, <1>4, <2>1, <2>2, <2>3
<1>6. CASE ScanBegin
  <2>1. Counted'
    BY <1>2, <1>6 DEF ScanBegin, IOInv, Counted
  <2>. QED BY <1>3, <1>4, <1>6, <2>1 DEF ScanBegin
<1>7. CASE ScanEnd
  <2>1. Counted'
    BY <1>7 DEF ScanEnd, IOInv, Counted
  <2>. QED BY <1>3, <1>4, <1>7, <2>1 DEF ScanEnd
<1>8. CASE Switch
  <2>. DEFINE n == SwitchTo(k)
  <2>1. mode = "kernel" /\ CanSwitch(k) /\ mode' = "run" /\ UNCHANGED << iocp, lost, iocnt, scan >>
    BY <1>8 DEF Switch, ints
  <2>2. /\ n.rbits = k.rbits /\ n.hbits = k.hbits
        /\ \A b \in App : n.status[b] = k.status[b]
                          \/ (k.status[b] = "SUSPENDED" /\ n.status[b] = "READY")
    BY <1>2, <2>1, SwitchToOK
  <2>. HIDE DEF n
  <2>3. k' = n
    BY <1>8 DEF Switch, n
  <2>4. ASSUME NEW b \in live, k'.status[b] = "WAITING" PROVE k'.rbits[b] \cap k'.hbits[b] = {}
    <3>1. k.status[b] = "WAITING"
      BY <1>2, <2>2, <2>3, <2>4
    <3>. QED BY <2>2, <2>3, <3>1 DEF IOInv, Asleep
  <2>5. Asleep'
    BY <1>0, <2>4 DEF Asleep
  <2>6. Counted' /\ IOFlagged'
    BY <1>0, <2>1, <2>2, <2>3 DEF IOInv, Counted, IOFlagged
  <2>. QED BY <1>3, <2>5, <2>6
<1>9. ASSUME NEW b \in App, ScanSlot(b) PROVE Goal
  <2>1. /\ mode = "scan" /\ mode' = mode /\ scan' = scan \ {b} /\ iocp' = iocp \ {b}
        /\ k' = IF b \in iocp \cap live THEN EventHappened(k, b, IO) ELSE k
        /\ UNCHANGED iocnt
    BY <1>9 DEF ScanSlot
  <2>2. Counted'
    BY <2>1 DEF IOInv, Counted
  <2>3. CASE b \in iocp \cap live
    <3>1. /\ Asleep' /\ IO \in k'.hbits[b]
          /\ \A c \in App : k.hbits[c] \subseteq k'.hbits[c]
      <4>1. IO \in Event /\ b \in live /\ k' = EventHappened(k, b, IO)
        BY <2>1, <2>3, SchedAssumption
      <4>. QED BY <1>0, <4>1, EventIO
    <3>2. IOFlagged'
      BY <1>0, <1>1, <2>1, <3>1 DEF IOInv, IOFlagged
    <3>. QED BY <1>3, <2>2, <3>1, <3>2
  <2>4. CASE b \notin iocp \cap live
    <3>1. k' = k
      BY <2>1, <2>4
    <3>2. b \in iocp => pc[b] = "user"
      BY <2>4 DEF IOInv, ListInv, DeadClean
    <3>3. Asleep' /\ IOFlagged'
      BY <1>0, <2>1, <3>1, <3>2 DEF IOInv, Asleep, IOFlagged
    <3>. QED BY <1>3, <2>2, <3>3
  <2>. QED BY <2>3, <2>4
<1>. QED BY <1>5, <1>6, <1>7, <1>8, <1>9 DEF KernelStep

\* An interrupt leaves a note for the operation it finishes.
LEMMA InterruptIO ==
    ASSUME IOInv, Interrupt PROVE Asleep' /\ SelRunning' /\ Counted' /\ IOFlagged'
<1>1. ASSUME NEW b \in App, ApplIOcomplete(b) PROVE Asleep' /\ SelRunning' /\ Counted' /\ IOFlagged'
  <2>1. /\ mode # "scan" /\ unsel' = [unsel EXCEPT ![b] = "done"] /\ iocp' = iocp \cup {b}
        /\ iocnt' = IF b \in iocp THEN iocnt ELSE iocnt + 1
        /\ UNCHANGED << k, mode, live, pc, lost, scan >>
    BY <1>1 DEF ApplIOcomplete, IrqEnabled
  <2>2. iocnt \in Nat /\ unsel \in [App -> {"none", "armed", "done"}]
    BY DEF IOInv, ListInv, TypeOK
  <2>3. Counted'
    BY <2>1, <2>2 DEF IOInv, Counted
  <2>4. IOFlagged'
    <3>1. \A c \in App \ {b} : unsel'[c] = unsel[c]
      BY <2>1, <2>2
    <3>. QED BY <2>1, <3>1 DEF IOInv, IOFlagged
  <2>. QED BY <2>1, <2>3, <2>4 DEF IOInv, Asleep, SelRunning
<1>2. ASSUME NEW b \in App, TimerInt(b) PROVE Asleep' /\ SelRunning' /\ Counted' /\ IOFlagged'
  BY <1>2 DEF TimerInt, IOInv, Asleep, SelRunning, Counted, IOFlagged
<1>. QED BY <1>1, <1>2 DEF Interrupt

\* No application sleeps on an event that has been reported to it, and no
\* completed operation is forgotten before evnt_IO has seen it, whatever
\* interrupts come between the steps of the kernel loop, except the one whose
\* slot of iocpbuf rmv_ap_io clears at the end of another application.
THEOREM WakeupsKept == Spec => []NoLostWakeup
<1>1. Init => IOInv
  <2>1. ASSUME Init PROVE Asleep /\ SelRunning /\ Counted /\ IOFlagged
    BY <2>1 DEF Init, Asleep, SelRunning, Counted, IOFlagged
  <2>. QED BY <2>1, InitListInv DEF IOInv
<1>2. IOInv /\ [Next]_vars => IOInv'
  <2>. SUFFICES ASSUME IOInv, [Next]_vars PROVE Asleep' /\ SelRunning' /\ Counted' /\ IOFlagged'
    BY NextListInv DEF IOInv
  <2>1. CASE UNCHANGED vars
    BY <2>1 DEF vars, IOInv, Asleep, SelRunning, Counted, IOFlagged
  <2>2. CASE KernelStep
    BY <2>2, KernelIO
  <2>3. CASE Interrupt
    BY <2>3, InterruptIO
  <2>4. ASSUME NEW a \in App, AppStep(a) PROVE Asleep' /\ SelRunning' /\ Counted' /\ IOFlagged'
    <3>1. EndCritic(a) => mode' \in {"run", "kernel"}
      BY DEF EndCritic, Running, ApplYield
    <3>. QED BY <2>4, <3>1, YieldingIO, CallingIO, EndThreadIO DEF AppStep
  <2>. QED BY <2>1, <2>2, <2>3, <2>4 DEF Next
<1>3. IOInv => NoLostWakeup
  BY DEF IOInv, ListInv, TypeOK, Asleep, Counted, IOFlagged, NoLostWakeup
<1>. QED BY <1>1, <1>2, <1>3, PTL DEF Spec

-----------------------------------------------------------------------------
(* What is left behind by an application that has ended *)

\* The list theorem again, one property of the runs at a time: no counter or
\* list leaves its type (iocpbuf_cnt, pe_unsuspcnt, ap_critic),
THEOREM SchedTyped == Spec => []TypeOK
BY ListsCorrect, PTL

\* and a critical section (appl_begcritic) is neither stopped nor broken off,
\* for any nesting.
THEOREM CriticsProtected == Spec => []CriticProtected
BY ListsCorrect, PTL

\* What appl_yield in the kernel state n does to the events of the
\* applications: nothing, and it makes nobody ready who waits in vain.
LEMMA YieldBits ==
    ASSUME ListInv, NEW a, mode = "run", a = Act(k),
           NEW n \in KState, ListsMatchBut(n, live, a), ApplYield(n)
    PROVE  /\ k'.rbits = n.rbits /\ k'.hbits = n.hbits
           /\ \A b \in App : k'.status[b] = "READY" =>
                 n.status[b] \in {"READY", "SUSPENDED"} \/ n.rbits[b] \cap n.hbits[b] # {}
<1>1. live \in SUBSET App
  BY DEF ListInv, TypeOK
<1>. DEFINE y == YieldLists(n)
<1>2. /\ y.rbits = n.rbits /\ y.hbits = n.hbits
      /\ \A b \in App \ {a} : y.status[b] = n.status[b]
                              \/ (n.status[b] = "SUSPENDED" /\ y.status[b] = "READY")
  BY <1>1, YieldListsOK
<1>4. y.status[a] = "READY" => n.status[a] = "READY" \/ n.rbits[a] \cap n.hbits[a] # {}
  BY <1>1, YieldReady
<1>. HIDE DEF y
<1>3. k' = y
  BY DEF ApplYield, y
<1>. QED BY <1>2, <1>3, <1>4

\* What the events of an application c are after a system call of a that gives
\* up the CPU: those it had, except that EvntIO starts a wait.
LEMMA YieldingBits ==
    ASSUME ListInv, NEW a \in App,
           Yield(a) \/ ApplSuspend(a) \/ (EndCritic(a) /\ mode' = "kernel")
           \/ \E b \in App : StopPdThreads(a, b)
    PROVE  /\ k'.rbits = k.rbits /\ k'.hbits = k.hbits
           /\ pc[a] # "sel" /\ mode' = "kernel" /\ UNCHANGED << live, pc, iocp, unsel, tim >>
           /\ \A b \in App : k'.status[b] = "READY" =>
                 k.status[b] \in {"READY", "SUSPENDED"} \/ k.rbits[b] \cap k.hbits[b] # {}
<1>. DEFINE Goal == /\ k'.rbits = k.rbits /\ k'.hbits = k.hbits
                    /\ \A b \in App : k'.status[b] = "READY" =>
                         k.status[b] \in {"READY", "SUSPENDED"} \/ k.rbits[b] \cap k.hbits[b] # {}
<1>0. mode = "run" /\ a = Act(k)
  BY DEF Yield, ApplSuspend, EndCritic, StopPdThreads, Running
<1>1. /\ k \in KState /\ live \in SUBSET App /\ ListsMatch(k, live) /\ k.ready # << >>
      /\ ListsMatchBut(k, live, a) /\ a \in live /\ k.status[a] = "READY"
  BY <1>0, RunningFacts
<1>2. k.status \in [App -> Status]
  BY <1>1 DEF KState
<1>3. ASSUME ApplYield(k) PROVE Goal
  BY <1>0, <1>1, <1>3, YieldBits
<1>4. ASSUME NEW b \in live, ApplYield(StpThr(k, b)) PROVE Goal
  <2>. DEFINE n == StpThr(k, b)
  <2>1. /\ n \in KState /\ ListsMatchBut(n, live, a)
        /\ n.rbits = k.rbits /\ n.hbits = k.hbits
        /\ n.status = [k.status EXCEPT ![b] = "STOPPED"]
    BY <1>0, <1>1, <1>4, StpThrOK
  <2>. HIDE DEF n
  <2>2. ApplYield(n)
    BY <1>4 DEF n
  <2>3. /\ k'.rbits = n.rbits /\ k'.hbits = n.hbits
        /\ \A c \in App : k'.status[c] = "READY" =>
              n.status[c] \in {"READY", "SUSPENDED"} \/ n.rbits[c] \cap n.hbits[c] # {}
    BY <1>0, <2>1, <2>2, YieldBits
  <2>4. \A c \in App : n.status[c] \in {"READY", "SUSPENDED"} => k.status[c] = n.status[c]
    BY <1>1, <1>2, <2>1
  <2>. QED BY <2>1, <2>3, <2>4
<1>5. CASE Yield(a)
  BY <1>3, <1>5 DEF Yield, Running, ApplYield, ints
<1>6. CASE ApplSuspend(a)
  <2>. DEFINE n == [k EXCEPT !.status[a] = "SUSPENDED"]
  <2>1. /\ n \in KState /\ n.ready = k.ready /\ n.susp = k.susp /\ n.notready = k.notready
        /\ n.status = [k.status EXCEPT ![a] = "SUSPENDED"]
        /\ n.rbits = k.rbits /\ n.hbits = k.hbits
    BY <1>1 DEF KState, Status
  <2>2. /\ ApplYield(n) /\ pc[a] = "user" /\ mode' = "kernel"
        /\ UNCHANGED << live, pc, iocp, unsel, tim >>
    BY <1>6 DEF ApplSuspend, Running, ApplYield, ints
  <2>. HIDE DEF n
  <2>3. ListsMatchBut(n, live, a)
    BY <1>0, <1>1, <2>1, SetStatusOK DEF Status
  <2>4. /\ k'.rbits = n.rbits /\ k'.hbits = n.hbits
        /\ \A c \in App : k'.status[c] = "READY" =>
              n.status[c] \in {"READY", "SUSPENDED"} \/ n.rbits[c] \cap n.hbits[c] # {}
    BY <1>0, <2>1, <2>2, <2>3, YieldBits
  <2>5. \A c \in App : n.status[c] \in {"READY", "SUSPENDED"} => k.status[c] \in {"READY", "SUSPENDED"}
    BY <1>1, <1>2, <2>1
  <2>. QED BY <2>1, <2>2, <2>4, <2>5
<1>7. CASE EndCritic(a) /\ mode' = "kernel"
  <2>1. /\ ApplYield(StpThr(k, a)) /\ pc[a] = "user"
        /\ UNCHANGED << live, pc, iocp, unsel, tim >>
    BY <1>0, <1>7 DEF EndCritic, Running, ints
  <2>. QED BY <1>1, <1>4, <1>7, <2>1
<1>8. ASSUME NEW b \in App, StopPdThreads(a, b)
      PROVE  Goal /\ pc[a] = "user" /\ mode' = "kernel" /\ UNCHANGED << live, pc, iocp, unsel, tim >>
  <2>1. /\ b \in live /\ pc[a] = "user" /\ mode' = "kernel"
        /\ ApplYield(k) \/ ApplYield(StpThr(k, b))
        /\ UNCHANGED << live, pc, iocp, unsel, tim >>
    BY <1>8 DEF StopPdThreads, Running, ApplYield, ints
  <2>. QED BY <1>3, <1>4, <2>1
<1>. QED BY <1>5, <1>6, <1>7, <1>8

\* The events of evnt_IO after its appl_yield: a waits for IO, perhaps also for
\* the timer, and no event has come.
LEMMA EvntIOBits ==
    ASSUME ListInv, NEW a \in App, EvntIO(a)
    PROVE  /\ mode = "run" /\ a = Act(k) /\ a \in live /\ mode' = "kernel" /\ pc[a] = "sel" /\ pc' = [pc EXCEPT ![a] = "io"]
           /\ k'.hbits = [k.hbits EXCEPT ![a] = {}] /\ k'.status[a] # "READY"
           /\ UNCHANGED << live, iocp, unsel >>
           /\ \E w \in Timeouts :
                 /\ k'.rbits = [k.rbits EXCEPT ![a] = IF w THEN {IO, TIM} ELSE {IO}]
                 /\ tim' = IF w THEN [tim EXCEPT ![a] = "running"] ELSE tim
           /\ \A b \in App \ {a} : k'.status[b] = "READY" =>
                 k.status[b] \in {"READY", "SUSPENDED"} \/ k.rbits[b] \cap k.hbits[b] # {}
<1>0. /\ mode = "run" /\ a = Act(k) /\ pc[a] = "sel" /\ pc' = [pc EXCEPT ![a] = "io"]
      /\ UNCHANGED << live, iocp, unsel >> /\ mode' = "kernel"
  BY DEF EvntIO, Running, ApplYield
<1>1. /\ k \in KState /\ live \in SUBSET App /\ ListsMatch(k, live) /\ k.ready # << >>
      /\ a \in live
  BY <1>0, RunningFacts
<1>2. /\ k.status \in [App -> Status] /\ k.rbits \in [App -> SUBSET Event]
      /\ k.hbits \in [App -> SUBSET Event]
  BY <1>1 DEF KState
<1>3. PICK w \in Timeouts : /\ ApplYield(BeginWait(k, a, IF w THEN {IO, TIM} ELSE {IO}))
                            /\ tim' = IF w THEN [tim EXCEPT ![a] = "running"] ELSE tim
  BY DEF EvntIO
<1>. DEFINE evs == IF w THEN {IO, TIM} ELSE {IO}
            n == BeginWait(k, a, evs)
<1>4. ApplYield(n) /\ evs \in SUBSET Event
  BY <1>3, SchedAssumption
<1>. HIDE DEF evs
<1>5. /\ n \in KState /\ n.ready = k.ready /\ n.susp = k.susp /\ n.notready = k.notready
      /\ n.status = [k.status EXCEPT ![a] = "WAITING"]
      /\ n.rbits = [k.rbits EXCEPT ![a] = evs] /\ n.hbits = [k.hbits EXCEPT ![a] = {}]
  BY <1>1, <1>4 DEF KState, Status, BeginWait
<1>. HIDE DEF n
<1>6. ListsMatchBut(n, live, a)
  BY <1>0, <1>1, <1>5, SetStatusOK DEF Status
<1>7. /\ k'.rbits = n.rbits /\ k'.hbits = n.hbits
      /\ \A b \in App : k'.status[b] = "READY" =>
            n.status[b] \in {"READY", "SUSPENDED"} \/ n.rbits[b] \cap n.hbits[b] # {}
  BY <1>0, <1>4, <1>5, <1>6, YieldBits
<1>8. n.status[a] = "WAITING" /\ n.hbits[a] = {}
  BY <1>2, <1>5
<1>9. \A b \in App \ {a} : /\ n.status[b] = k.status[b] /\ n.rbits[b] = k.rbits[b]
                           /\ n.hbits[b] = k.hbits[b]
  BY <1>2, <1>5
<1>10. k'.rbits = [k.rbits EXCEPT ![a] = IF w THEN {IO, TIM} ELSE {IO}]
  BY <1>5, <1>7 DEF evs
<1>11. k'.status[a] # "READY"
  BY <1>7, <1>8
<1>12. \A b \in App \ {a} : k'.status[b] = "READY" =>
          k.status[b] \in {"READY", "SUSPENDED"} \/ k.rbits[b] \cap k.hbits[b] # {}
  BY <1>7, <1>9
<1>. QED BY <1>0, <1>1, <1>3, <1>5, <1>7, <1>10, <1>11, <1>12

\* event_happened in the kernel loop or in app2ready changes one bit of the
\* events of one application.
LEMMA EventBits ==
    ASSUME ListInv, NEW b \in live, NEW e \in Event, k' = EventHappened(k, b, e)
    PROVE  /\ k'.rbits = k.rbits
           /\ k'.hbits[b] = k.hbits[b] \cup {e} /\ \A c \in App \ {b} : k'.hbits[c] = k.hbits[c]
           /\ \A c \in App \ {b} : k'.status[c] = k.status[c]
           /\ k'.status[b] = "READY" =>
                 k.status[b] = "READY" \/ (k.hbits[b] \cup {e}) \cap k.rbits[b] # {}
<1>1. k \in KState /\ live \in SUBSET App /\ ListsMatch(k, live) /\ b \in App
  BY DEF ListInv, TypeOK, ListsMatchStatus
<1>2. k.status[b] = "SUSPENDED" => k.rbits[b] = {}
  BY <1>1 DEF ListInv, Quiet
<1>. DEFINE wake == k.status[b] = "WAITING" /\ (k.hbits[b] \cup {e}) \cap k.rbits[b] # {}
            n == EventHappened(k, b, e)
<1>3. /\ n.rbits = k.rbits /\ n.hbits = [k.hbits EXCEPT ![b] = @ \cup {e}]
      /\ wake => n.status = [k.status EXCEPT ![b] = "READY"]
      /\ ~wake => n.status = k.status
  BY <1>1, <1>2, EventHappenedOK
<1>. HIDE DEF n
<1>4. k' = n /\ k.status \in [App -> Status] /\ k.hbits \in [App -> SUBSET Event]
  BY <1>1 DEF n, KState
<1>5. n.hbits[b] = k.hbits[b] \cup {e} /\ \A c \in App \ {b} : n.hbits[c] = k.hbits[c]
  BY <1>1, <1>3, <1>4
<1>6. \A c \in App \ {b} : n.status[c] = k.status[c]
  BY <1>1, <1>3, <1>4
<1>7. n.status[b] = "READY" => k.status[b] = "READY" \/ (k.hbits[b] \cup {e}) \cap k.rbits[b] # {}
  BY <1>3
<1>. QED BY <1>3, <1>4, <1>5, <1>6, <1>7

\* kill_thread changes at most the fictitious event of the application b.
LEMMA KillBits ==
    ASSUME ListInv, NEW a \in App, NEW b \in App, KillThread(a, b)
    PROVE  /\ mode = "run" /\ a = Act(k) /\ mode' = mode /\ Act(k') = Act(k)
           /\ b \in live /\ UNCHANGED << live, iocp, unsel, tim >>
           /\ \/ pc' = pc /\ k' = k
              \/ pc' = [pc EXCEPT ![b] = "break"] /\ (a = b => pc[a] = "user")
           /\ k'.rbits[b] \in {k.rbits[b], k.rbits[b] \cup {RESVD}}
           /\ k'.hbits[b] \in {k.hbits[b], k.hbits[b] \cup {RESVD}}
           /\ \A c \in App \ {b} : /\ k'.status[c] = k.status[c]
                                   /\ k'.rbits[c] = k.rbits[c] /\ k'.hbits[c] = k.hbits[c]
<1>0. mode = "run" /\ a = Act(k) /\ pc[a] = "user" /\ b \in live
  BY DEF KillThread, Running
<1>1. k \in KState /\ live \in SUBSET App /\ ListsMatch(k, live) /\ k.ready # << >>
  BY <1>0, RunningFacts
<1>2. /\ UNCHANGED << mode, live, iocp, unsel, tim >>
      /\ \/ pc' = pc /\ k' = k
         \/ pc' = [pc EXCEPT ![b] = "break"] /\ k' \in {k, App2Ready(k, b)}
  BY DEF KillThread, ints
<1>3. CASE k' = k
  BY <1>0, <1>2, <1>3
<1>4. CASE k' = App2Ready(k, b) /\ k' # k
  <2>. DEFINE n == App2Ready(k, b)
  <2>1. k.status[b] = "SUSPENDED" => k.rbits[b] = {}
    BY <1>0 DEF ListInv, Quiet
  <2>2. /\ n.rbits[b] \in {k.rbits[b], k.rbits[b] \cup {RESVD}}
        /\ n.hbits[b] \in {k.hbits[b], k.hbits[b] \cup {RESVD}}
        /\ \A c \in App \ {b} : /\ n.status[c] = k.status[c]
                                /\ n.rbits[c] = k.rbits[c] /\ n.hbits[c] = k.hbits[c]
        /\ Act(n) = Act(k)
    BY <1>0, <1>1, <2>1, App2ReadyOK
  <2>. HIDE DEF n
  <2>3. k' = n
    BY <1>4 DEF n
  <2>. QED BY <1>0, <1>2, <1>4, <2>2, <2>3
<1>. QED BY <1>2, <1>3, <1>4

\* The other system calls leave the events alone, those of a new application
\* included.
LEMMA CallingBits ==
    ASSUME ListInv, NEW a \in App,
           StartIO(a) \/ BegCritic(a) \/ (EndCritic(a) /\ mode' = "run")
           \/ \E b \in App : ContThread(a, b) \/ InitAPPL(a, b)
    PROVE  /\ mode = "run" /\ a = Act(k) /\ mode' = mode /\ Act(k') = Act(k) /\ pc[a] = "user"
           /\ k'.rbits = k.rbits /\ k'.hbits = k.hbits /\ a \in live
           /\ \A c \in live : k'.status[c] = "READY" =>
                 k.status[c] = "READY" \/ k.rbits[c] = {} \/ k.rbits[c] \cap k.hbits[c] # {}
<1>0. mode = "run" /\ a = Act(k) /\ mode' = mode /\ pc[a] = "user"
  BY DEF StartIO, BegCritic, EndCritic, ContThread, InitAPPL, Running
<1>1. /\ k \in KState /\ live \in SUBSET App /\ ListsMatch(k, live) /\ k.ready # << >> /\ a \in live
      /\ k.status \in [App -> Status]
  BY <1>0, RunningFacts DEF KState
<1>2. CASE StartIO(a) \/ BegCritic(a) \/ (EndCritic(a) /\ mode' = "run")
  <2>1. k' = k
    BY <1>2 DEF StartIO, BegCritic, EndCritic, ApplYield
  <2>. QED BY <1>0, <1>1, <2>1
<1>3. ASSUME NEW b \in App, ContThread(a, b), k' # k
      PROVE  /\ Act(k') = Act(k) /\ k'.rbits = k.rbits /\ k'.hbits = k.hbits
             /\ \A c \in live : k'.status[c] = "READY" =>
                   k.status[c] = "READY" \/ k.rbits[c] = {} \/ k.rbits[c] \cap k.hbits[c] # {}
  <2>. DEFINE n == CntThr(k, b)
  <2>1. b \in live /\ k' = n
    BY <1>3 DEF ContThread
  <2>2. /\ n.rbits = k.rbits /\ n.hbits = k.hbits /\ Act(n) = Act(k)
        /\ k.status[b] # "STOPPED" => n.status = k.status
        /\ \A c \in App \ {b} : n.status[c] = k.status[c]
        /\ n.status[b] = "READY" /\ k.status[b] = "STOPPED" =>
              k.rbits[b] = {} \/ k.rbits[b] \cap k.hbits[b] # {}
    BY <1>1, <2>1, CntThrOK
  <2>. HIDE DEF n
  <2>. QED BY <1>1, <2>1, <2>2
<1>4. ASSUME NEW b \in App, InitAPPL(a, b)
      PROVE  /\ Act(k') = Act(k) /\ k'.rbits = k.rbits /\ k'.hbits = k.hbits
             /\ \A c \in live : k'.status[c] = k.status[c]
  <2>. DEFINE n == ApToLastReady(k, b)
  <2>1. b \notin live /\ k' = n
    BY <1>4 DEF InitAPPL
  <2>2. NoDup(k.ready) /\ b \notin Members(k.ready)
    BY <1>1, <2>1 DEF ListsMatch
  <2>3. /\ n.status = [k.status EXCEPT ![b] = "READY"]
        /\ n.rbits = k.rbits /\ n.hbits = k.hbits /\ Act(n) = Act(k)
    BY <1>1, <2>2, ApToLastReadyOK
  <2>. HIDE DEF n
  <2>. QED BY <1>1, <2>1, <2>3
<1>. QED BY <1>0, <1>1, <1>2, <1>3, <1>4

\* The switch to another application leaves all events alone.
LEMMA SwitchBits ==
    ASSUME ListInv, Switch
    PROVE  /\ k'.rbits = k.rbits /\ k'.hbits = k.hbits
           /\ UNCHANGED << live, pc, iocp, unsel, tim >> /\ mode # "run"
           /\ \A b \in App : k'.status[b] = "READY" => k.status[b] \in {"READY", "SUSPENDED"}
<1>1. /\ k \in KState /\ live \in SUBSET App /\ ListsMatch(k, live) /\ CanSwitch(k)
      /\ UNCHANGED << live, pc, iocp, unsel, tim >> /\ mode # "run"
  BY DEF ListInv, TypeOK, ListsMatchStatus, Switch, ints
<1>. DEFINE n == SwitchTo(k)
<1>2. /\ n.rbits = k.rbits /\ n.hbits = k.hbits
      /\ \A b \in App : n.status[b] = k.status[b]
                        \/ (k.status[b] = "SUSPENDED" /\ n.status[b] = "READY")
  BY <1>1, SwitchToOK
<1>. HIDE DEF n
<1>3. k' = n
  BY DEF Switch, n
<1>. QED BY <1>1, <1>2, <1>3

\* The end of an application clears its events.
LEMMA EndThreadBits ==
    ASSUME ListInv, NEW a \in App, EndThread(a)
    PROVE  /\ k'.status = k.status /\ k'.rbits[a] = {} /\ k'.hbits[a] = {} /\ a \in live
           /\ \A c \in App \ {a} : /\ k'.rbits[c] = k.rbits[c] /\ k'.hbits[c] = k.hbits[c]
                                   /\ pc'[c] = pc[c]
           /\ pc[a] = "break" /\ pc'[a] = "user" /\ live' = live \ {a} /\ mode = "run" /\ a = Act(k)
<1>1. /\ mode = "run" /\ a = Act(k) /\ pc[a] = "break"
      /\ k' = [k EXCEPT !.ready = Tail(@), !.rbits[a] = {}, !.hbits[a] = {}]
      /\ pc' = [pc EXCEPT ![a] = "user"] /\ live' = live \ {a}
  BY DEF EndThread, Running
<1>2. k \in KState /\ pc \in [App -> Pc] /\ a \in live
  BY <1>1, RunningFacts DEF ListInv, TypeOK
<1>3. k.rbits \in [App -> SUBSET Event] /\ k.hbits \in [App -> SUBSET Event]
  BY <1>2 DEF KState
<1>4. /\ k'.status = k.status /\ k'.rbits = [k.rbits EXCEPT ![a] = {}]
      /\ k'.hbits = [k.hbits EXCEPT ![a] = {}]
  BY <1>1, <1>2 DEF KState
<1>. QED BY <1>1, <1>2, <1>3, <1>4

\* evnt_IO returns with the events of its caller cleared.
LEMMA EvntIORetBits ==
    ASSUME ListInv, NEW a \in App, EvntIORet(a)
    PROVE  /\ k'.status = k.status /\ k'.rbits[a] = {} /\ k'.hbits[a] = {}
           /\ \A c \in App \ {a} : /\ k'.rbits[c] = k.rbits[c] /\ k'.hbits[c] = k.hbits[c]
                                   /\ pc'[c] = pc[c]
           /\ pc[a] = "io" /\ pc'[a] = "user" /\ live' = live /\ mode = "run" /\ a = Act(k)
           /\ mode' = mode /\ Act(k') = Act(k) /\ a \in live /\ k.status[a] = "READY"
<1>1. /\ mode = "run" /\ a = Act(k) /\ pc[a] = "io" /\ k' = EndWait(k, a)
      /\ pc' = [pc EXCEPT ![a] = "user"] /\ live' = live /\ mode' = mode
  BY DEF EvntIORet, Running
<1>2. k \in KState /\ pc \in [App -> Pc] /\ a \in live /\ k.status[a] = "READY"
  BY <1>1, RunningFacts DEF ListInv, TypeOK
<1>3. k.rbits \in [App -> SUBSET Event] /\ k.hbits \in [App -> SUBSET Event]
  BY <1>2 DEF KState
<1>4. /\ k'.status = k.status /\ k'.rbits = [k.rbits EXCEPT ![a] = {}]
      /\ k'.hbits = [k.hbits EXCEPT ![a] = {}] /\ k'.ready = k.ready
  BY <1>1, <1>2 DEF KState, EndWait
<1>5. Act(k') = Act(k)
  BY <1>4 DEF Act
<1>. QED BY <1>1, <1>2, <1>3, <1>4, <1>5

\* A step that leaves the timer list, the applications and their events alone,
\* and at most sends some of them to appl_break, keeps every timer with its wait.
LEMMA SameTimers ==
    ASSUME ListInv, TimerHeld, UNCHANGED << live, tim >>, k'.rbits = k.rbits, k'.hbits = k.hbits,
           \A c \in App : pc'[c] = pc[c] \/ pc[c] = "user" \/ pc'[c] = "break"
    PROVE  TimerHeld'
BY DEF TimerHeld

\* Every timer on the list belongs to a wait that has not got EV_TIM, after
\* every step.
LEMMA NextTimerHeld == ListInv /\ TimerHeld /\ [Next]_vars => TimerHeld'
<1>. SUFFICES ASSUME ListInv, TimerHeld, [Next]_vars PROVE TimerHeld'
  OBVIOUS
<1>0. /\ tim \in [App -> {"off", "running", "expired"}] /\ pc \in [App -> Pc] /\ live \subseteq App
      /\ k \in KState
  BY DEF ListInv, TypeOK
<1>00. k.rbits \in [App -> SUBSET Event] /\ k.hbits \in [App -> SUBSET Event]
  BY <1>0 DEF KState
<1>1. CASE UNCHANGED vars
  BY <1>1 DEF vars, TimerHeld
<1>2. CASE HandleTim
  <2>1. UNCHANGED << live, pc >>
    BY <1>2 DEF HandleTim
  <2>2. CASE UNCHANGED << k, tim >>
    BY <2>1, <2>2, SameTimers
  <2>3. ASSUME NEW b \in App, tim' = [tim EXCEPT ![b] = "off"],
               k' = IF TIM \in k.rbits[b] \ k.hbits[b] THEN EventHappened(k, b, TIM) ELSE k
        PROVE  TimerHeld'
    <3>1. tim'[b] = "off" /\ \A c \in App \ {b} : tim'[c] = tim[c]
      BY <1>0, <2>3
    <3>2. \A c \in App \ {b} : k'.rbits[c] = k.rbits[c] /\ k'.hbits[c] = k.hbits[c]
      <4>1. CASE TIM \in k.rbits[b]
        <5>1. b \in live /\ TIM \in Event
          BY <4>1, SchedAssumption DEF ListInv, Quiet
        <5>. QED BY <2>3, <5>1, EventBits
      <4>. QED BY <2>3, <4>1
    <3>. QED BY <2>1, <3>1, <3>2 DEF TimerHeld
  <2>. QED BY <1>2, <2>2, <2>3 DEF HandleTim
<1>3. CASE ScanBegin \/ ScanEnd
  BY <1>3, SameTimers DEF ScanBegin, ScanEnd
<1>4. CASE Switch
  BY <1>4, SwitchBits, SameTimers
<1>5. ASSUME NEW b \in App, ScanSlot(b) PROVE TimerHeld'
  <2>1. UNCHANGED << live, pc, tim >> /\ k' \in {k, EventHappened(k, b, IO)}
        /\ (k' # k => b \in live)
    BY <1>5 DEF ScanSlot
  <2>2. CASE k' = k
    BY <2>1, <2>2, SameTimers
  <2>3. CASE k' # k
    <3>1. /\ k'.rbits = k.rbits /\ k'.hbits[b] = k.hbits[b] \cup {IO}
          /\ \A c \in App \ {b} : k'.hbits[c] = k.hbits[c]
      BY <2>1, <2>3, EventBits, SchedAssumption
    <3>2. \A c \in App : TIM \notin k.hbits[c] => TIM \notin k'.hbits[c]
      BY <3>1, SchedAssumption
    <3>. QED BY <2>1, <3>1, <3>2 DEF TimerHeld
  <2>. QED BY <2>2, <2>3
<1>6. ASSUME NEW b \in App, ApplIOcomplete(b) PROVE TimerHeld'
  BY <1>6, SameTimers DEF ApplIOcomplete
<1>7. ASSUME NEW b \in App, TimerInt(b) PROVE TimerHeld'
  <2>1. tim[b] = "running" /\ tim' = [tim EXCEPT ![b] = "expired"] /\ UNCHANGED << k, live, pc >>
    BY <1>7 DEF TimerInt
  <2>2. \A c \in App : tim'[c] # "off" => tim[c] # "off"
    BY <1>0, <2>1
  <2>. QED BY <2>1, <2>2 DEF TimerHeld
<1>8. ASSUME NEW a \in App, AppStep(a) PROVE TimerHeld'
  <2>1. CASE Yield(a) \/ ApplSuspend(a) \/ (EndCritic(a) /\ mode' = "kernel")
             \/ \E b \in App : StopPdThreads(a, b)
    <3>1. /\ k'.rbits = k.rbits /\ k'.hbits = k.hbits /\ UNCHANGED << live, pc, tim >>
      BY <2>1, YieldingBits
    <3>. QED BY <3>1, SameTimers
  <2>2. CASE EvntIO(a)
    <3>1. /\ a \in live /\ pc[a] = "sel" /\ pc' = [pc EXCEPT ![a] = "io"]
          /\ k'.hbits = [k.hbits EXCEPT ![a] = {}] /\ UNCHANGED live
      BY <2>2, EvntIOBits
    <3>2. PICK w \in Timeouts : /\ k'.rbits = [k.rbits EXCEPT ![a] = IF w THEN {IO, TIM} ELSE {IO}]
                                /\ tim' = IF w THEN [tim EXCEPT ![a] = "running"] ELSE tim
      BY <2>2, EvntIOBits
    <3>3. tim[a] = "off"
      BY <3>1 DEF TimerHeld
    <3>4. ASSUME NEW c \in App, tim'[c] # "off"
          PROVE  c \in live' /\ pc'[c] \in {"io", "break"} /\ TIM \in k'.rbits[c] \ k'.hbits[c]
      <4>1. CASE c = a
        <5>1. w
          BY <3>2, <3>3, <3>4, <4>1
        <5>2. k'.rbits[a] = {IO, TIM} /\ k'.hbits[a] = {} /\ pc'[a] = "io"
          BY <1>0, <1>00, <3>1, <3>2, <5>1
        <5>. QED BY <3>1, <4>1, <5>2
      <4>2. CASE c # a
        <5>1. /\ tim'[c] = tim[c] /\ pc'[c] = pc[c]
          BY <1>0, <3>1, <3>2, <4>2
        <5>2. k'.rbits[c] = k.rbits[c] /\ k'.hbits[c] = k.hbits[c]
          BY <1>00, <3>1, <3>2, <4>2
        <5>. QED BY <3>1, <3>4, <5>1, <5>2 DEF TimerHeld
      <4>. QED BY <4>1, <4>2
    <3>. QED BY <3>4 DEF TimerHeld
  <2>3. CASE EvntIORet(a)
    <3>1. tim' = RmvApTimer(a)
      BY <2>3 DEF EvntIORet
    <3>2. tim'[a] = "off" /\ \A c \in App \ {a} : tim'[c] = tim[c]
      BY <1>0, <3>1 DEF RmvApTimer, TimerHeld
    <3>. QED BY <2>3, <3>2, EvntIORetBits DEF TimerHeld
  <2>4. CASE EndThread(a)
    <3>1. tim' = IF TIM \in k.rbits[a] THEN RmvApTimer(a) ELSE tim
      BY <2>4 DEF EndThread
    <3>2. tim'[a] = "off" /\ \A c \in App \ {a} : tim'[c] = tim[c]
      BY <1>0, <3>1 DEF RmvApTimer, TimerHeld
    <3>. QED BY <2>4, <3>2, EndThreadBits DEF TimerHeld
  <2>5. ASSUME NEW b \in App, KillThread(a, b) PROVE TimerHeld'
    <3>1. /\ UNCHANGED << live, tim >> /\ b \in live
          /\ pc' = pc \/ pc' = [pc EXCEPT ![b] = "break"]
          /\ k'.rbits[b] \in {k.rbits[b], k.rbits[b] \cup {RESVD}}
          /\ k'.hbits[b] \in {k.hbits[b], k.hbits[b] \cup {RESVD}}
          /\ \A c \in App \ {b} : k'.rbits[c] = k.rbits[c] /\ k'.hbits[c] = k.hbits[c]
      BY <2>5, KillBits
    <3>2. \A c \in App : TIM \in k.rbits[c] \ k.hbits[c] => TIM \in k'.rbits[c] \ k'.hbits[c]
      BY <3>1, SchedAssumption
    <3>3. \A c \in App : pc'[c] = pc[c] \/ pc'[c] = "break"
      BY <1>0, <3>1
    <3>. QED BY <3>1, <3>2, <3>3 DEF TimerHeld
  <2>6. CASE StartIO(a) \/ BegCritic(a) \/ (EndCritic(a) /\ mode' = "run")
             \/ \E b \in App : ContThread(a, b)
    <3>1. k'.rbits = k.rbits /\ k'.hbits = k.hbits /\ pc[a] = "user"
      BY <2>6, CallingBits
    <3>2. UNCHANGED << live, tim >> /\ (pc' = pc \/ pc' = [pc EXCEPT ![a] = "sel"]
                                        \/ pc' = [pc EXCEPT ![a] = "break"])
      BY <2>6 DEF StartIO, BegCritic, EndCritic, ContThread, ints
    <3>3. \A c \in App : pc'[c] = pc[c] \/ pc[c] = "user"
      BY <1>0, <3>1, <3>2
    <3>. QED BY <3>1, <3>2, <3>3, SameTimers
  <2>7. ASSUME NEW b \in App, InitAPPL(a, b) PROVE TimerHeld'
    <3>1. k'.rbits = k.rbits /\ k'.hbits = k.hbits
      BY <2>7, CallingBits
    <3>2. UNCHANGED pc /\ live' = live \cup {b} /\ tim' = [tim EXCEPT ![b] = "off"]
      BY <2>7 DEF InitAPPL
    <3>3. \A c \in App : tim'[c] # "off" => tim[c] # "off"
      BY <1>0, <3>2
    <3>. QED BY <3>1, <3>2, <3>3 DEF TimerHeld
  <2>8. EndCritic(a) => mode' \in {"run", "kernel"}
    BY DEF EndCritic, Running, ApplYield
  <2>. QED BY <1>8, <2>1, <2>2, <2>3, <2>4, <2>5, <2>6, <2>7, <2>8 DEF AppStep
<1>. QED BY <1>1, <1>2, <1>3, <1>4, <1>5, <1>6, <1>7, <1>8 DEF Next, KernelStep, Interrupt

\* An application that has ended has no entry in timer_evlist, whatever waits
\* with and without timeouts it was in when it was killed: handle_tim never
\* finds a freed APPL.
THEOREM NoTimerForDead == Spec => [](\A a \in App \ live : tim[a] = "off")
<1>1. Init => ListInv /\ TimerHeld
  BY InitListInv DEF Init, TimerHeld
<1>2. ListInv /\ TimerHeld /\ [Next]_vars => (ListInv /\ TimerHeld)'
  BY NextListInv, NextTimerHeld
<1>3. ListInv /\ TimerHeld => \A a \in App \ live : tim[a] = "off"
  BY DEF TimerHeld
<1>. QED BY <1>1, <1>2, <1>3, PTL DEF Spec

\* A step outside the running application's own wait that changes neither
\* events nor operations: nobody becomes ready in evnt_IO without EV_IO.
LEMMA SameIO ==
    ASSUME DeadInv, UNCHANGED << unsel >>, iocp' \subseteq iocp, live' = live,
           k'.rbits = k.rbits, k'.hbits = k.hbits,
           \A c \in App : pc'[c] = pc[c] \/ (pc[c] = "user" /\ pc'[c] = "break"),
           \A c \in live : k'.status[c] = "READY" =>
              k.status[c] \in {"READY", "SUSPENDED"} \/ k.rbits[c] = {} \/ k.rbits[c] \cap k.hbits[c] # {}
    PROVE  OnlyIO' /\ OpenHeld'
<1>1. OpenHeld'
  BY DEF DeadInv, OpenHeld, Open
<1>2. ASSUME NEW c \in App, pc'[c] = "io"
      PROVE  k'.rbits[c] = {IO} /\ (k'.status[c] = "READY" => IO \in k'.hbits[c])
  <2>1. pc[c] = "io" /\ k.rbits[c] = {IO} /\ (k.status[c] = "READY" => IO \in k.hbits[c])
    BY <1>2 DEF DeadInv, OnlyIO
  <2>2. k.status[c] # "SUSPENDED" /\ c \in live
    BY <2>1 DEF DeadInv, ListInv, Quiet
  <2>. QED BY <2>1, <2>2
<1>. QED BY <1>1, <1>2 DEF OnlyIO

\* Without timeouts every open operation stays with its wait, and every wait
\* ends with EV_IO or at appl_break, after every step.
LEMMA NextDeadInv ==
    ASSUME Timeouts \subseteq {FALSE} PROVE DeadInv /\ [Next]_vars => DeadInv'
<1>. SUFFICES ASSUME DeadInv, [Next]_vars PROVE SelRunning' /\ OnlyIO' /\ OpenHeld'
  BY NextListInv DEF DeadInv
<1>0. /\ pc \in [App -> Pc] /\ live \subseteq App /\ iocp \subseteq App
      /\ unsel \in [App -> {"none", "armed", "done"}] /\ k \in KState /\ ListInv
  BY DEF DeadInv, ListInv, TypeOK
<1>00. k.rbits \in [App -> SUBSET Event] /\ k.hbits \in [App -> SUBSET Event]
  BY <1>0 DEF KState
<1>. DEFINE Goal == SelRunning' /\ OnlyIO' /\ OpenHeld'
<1>1. CASE UNCHANGED vars
  BY <1>1 DEF vars, DeadInv, SelRunning, OnlyIO, OpenHeld, Open
<1>2. ASSUME mode # "run", pc' = pc PROVE SelRunning'
  BY <1>2 DEF DeadInv, SelRunning
<1>3. CASE HandleTim
  <2>1. mode # "run" /\ UNCHANGED << live, pc, unsel, iocp >>
    BY <1>3 DEF HandleTim
  <2>2. CASE k' = k
    BY <1>2, <2>1, <2>2, SameIO
  <2>3. ASSUME NEW b \in App, TIM \in k.rbits[b], k' = EventHappened(k, b, TIM) PROVE Goal
    <3>1. b \in live /\ TIM \in Event /\ pc[b] # "io"
      BY <2>3, SchedAssumption DEF ListInv, Quiet, DeadInv, OnlyIO
    <3>2. /\ k'.rbits = k.rbits
          /\ k'.hbits[b] = k.hbits[b] \cup {TIM} /\ \A c \in App \ {b} : k'.hbits[c] = k.hbits[c]
          /\ \A c \in App \ {b} : k'.status[c] = k.status[c]
      BY <1>0, <2>3, <3>1, EventBits
    <3>3. \A c \in App : IO \in k'.hbits[c] <=> IO \in k.hbits[c]
      BY <3>2, SchedAssumption
    <3>4. OnlyIO'
      BY <2>1, <3>1, <3>2 DEF DeadInv, OnlyIO
    <3>5. OpenHeld'
      BY <2>1, <3>2, <3>3 DEF DeadInv, OpenHeld, Open
    <3>. QED BY <1>2, <2>1, <3>4, <3>5
  <2>4. k' = k \/ \E b \in App : TIM \in k.rbits[b] /\ k' = EventHappened(k, b, TIM)
    BY <1>3 DEF HandleTim
  <2>. QED BY <2>2, <2>3, <2>4
<1>4. CASE ScanBegin \/ ScanEnd
  BY <1>2, <1>4, SameIO DEF ScanBegin, ScanEnd
<1>5. CASE Switch
  BY <1>0, <1>2, <1>5, SwitchBits, SameIO
<1>6. ASSUME NEW b \in App, ScanSlot(b) PROVE Goal
  <2>1. /\ UNCHANGED << live, pc, unsel >> /\ iocp' = iocp \ {b} /\ mode # "run"
        /\ k' = IF b \in iocp \cap live THEN EventHappened(k, b, IO) ELSE k
    BY <1>6 DEF ScanSlot
  <2>2. CASE b \notin iocp \cap live
    BY <1>2, <2>1, <2>2, SameIO
  <2>3. CASE b \in iocp \cap live
    <3>1. /\ k'.rbits = k.rbits /\ k'.hbits[b] = k.hbits[b] \cup {IO}
          /\ \A c \in App \ {b} : k'.hbits[c] = k.hbits[c] /\ k'.status[c] = k.status[c]
      BY <1>0, <2>1, <2>3, EventBits, SchedAssumption
    <3>2. unsel[b] # "armed"
      BY <1>0, <2>3 DEF DeadInv, OpenHeld, Open
    <3>3. OnlyIO'
      BY <2>1, <3>1 DEF DeadInv, OnlyIO
    <3>4. OpenHeld'
      BY <2>1, <3>1, <3>2 DEF DeadInv, OpenHeld, Open
    <3>. QED BY <1>2, <2>1, <3>3, <3>4
  <2>. QED BY <2>2, <2>3
<1>7. ASSUME NEW b \in App, ApplIOcomplete(b) PROVE Goal
  <2>1. /\ UNCHANGED << k, mode, live, pc >> /\ unsel[b] = "armed"
        /\ unsel' = [unsel EXCEPT ![b] = "done"] /\ iocp' = iocp \cup {b}
    BY <1>7 DEF ApplIOcomplete
  <2>2. unsel'[b] = "done" /\ \A c \in App \ {b} : unsel'[c] = unsel[c]
    BY <1>0, <2>1
  <2>3. OpenHeld'
    BY <2>1, <2>2 DEF DeadInv, OpenHeld, Open
  <2>. QED BY <2>1, <2>3 DEF DeadInv, SelRunning, OnlyIO
<1>8. ASSUME NEW b \in App, TimerInt(b) PROVE Goal
  BY <1>8 DEF TimerInt, DeadInv, SelRunning, OnlyIO, OpenHeld, Open
<1>9. ASSUME NEW a \in App, AppStep(a) PROVE Goal
  <2>1. CASE Yield(a) \/ ApplSuspend(a) \/ (EndCritic(a) /\ mode' = "kernel")
             \/ \E b \in App : StopPdThreads(a, b)
    <3>0. mode = "run" /\ a = Act(k)
      BY <2>1 DEF Yield, ApplSuspend, EndCritic, StopPdThreads, Running
    <3>1. /\ k'.rbits = k.rbits /\ k'.hbits = k.hbits
          /\ pc[a] # "sel" /\ UNCHANGED << live, pc, iocp, unsel >>
          /\ \A b \in App : k'.status[b] = "READY" =>
                k.status[b] \in {"READY", "SUSPENDED"} \/ k.rbits[b] \cap k.hbits[b] # {}
      BY <1>0, <2>1, YieldingBits
    <3>2. SelRunning'
      BY <3>0, <3>1 DEF DeadInv, SelRunning
    <3>. QED BY <1>0, <3>1, <3>2, SameIO
  <2>2. CASE EvntIO(a)
    <3>1. /\ mode = "run" /\ a = Act(k)
          /\ a \in live /\ pc[a] = "sel" /\ pc' = [pc EXCEPT ![a] = "io"]
          /\ k'.hbits = [k.hbits EXCEPT ![a] = {}] /\ UNCHANGED << live, iocp, unsel >>
          /\ k'.status[a] # "READY"
          /\ \A b \in App \ {a} : k'.status[b] = "READY" =>
                k.status[b] \in {"READY", "SUSPENDED"} \/ k.rbits[b] \cap k.hbits[b] # {}
      BY <1>0, <2>2, EvntIOBits
    <3>2. PICK w \in Timeouts : /\ k'.rbits = [k.rbits EXCEPT ![a] = IF w THEN {IO, TIM} ELSE {IO}]
                                /\ tim' = IF w THEN [tim EXCEPT ![a] = "running"] ELSE tim
      BY <1>0, <2>2, EvntIOBits
    <3>3. /\ k'.rbits[a] = {IO} /\ k'.hbits[a] = {} /\ pc'[a] = "io"
          /\ \A c \in App \ {a} : /\ k'.rbits[c] = k.rbits[c] /\ k'.hbits[c] = k.hbits[c]
                                  /\ pc'[c] = pc[c]
      <4>1. w = FALSE
        BY <3>2
      <4>2. k'.rbits = [k.rbits EXCEPT ![a] = {IO}]
        BY <3>2, <4>1
      <4>. QED BY <1>0, <1>00, <3>1, <4>2
    <3>4. SelRunning'
      BY <3>1, <3>3 DEF DeadInv, SelRunning
    <3>5. OpenHeld'
      BY <3>1, <3>3 DEF DeadInv, OpenHeld, Open
    <3>6. ASSUME NEW c \in App, pc'[c] = "io"
          PROVE  k'.rbits[c] = {IO} /\ (k'.status[c] = "READY" => IO \in k'.hbits[c])
      <4>1. CASE c = a
        BY <3>1, <3>3, <4>1
      <4>2. CASE c # a
        <5>1. pc[c] = "io" /\ k.rbits[c] = {IO} /\ (k.status[c] = "READY" => IO \in k.hbits[c])
          BY <3>3, <3>6, <4>2 DEF DeadInv, OnlyIO
        <5>2. k.status[c] # "SUSPENDED"
          BY <5>1 DEF DeadInv, ListInv, Quiet
        <5>. QED BY <3>1, <3>3, <4>2, <5>1, <5>2
      <4>. QED BY <4>1, <4>2
    <3>. QED BY <3>4, <3>5, <3>6 DEF OnlyIO
  <2>3. CASE EvntIORet(a)
    <3>1. /\ iocp' \subseteq iocp
          /\ unsel' = [unsel EXCEPT ![a] = IF IO \in k.hbits[a] /\ @ = "armed" THEN @ ELSE "none"]
      BY <2>3 DEF EvntIORet
    <3>2. /\ k'.status = k.status /\ k'.rbits[a] = {} /\ k'.hbits[a] = {}
          /\ \A c \in App \ {a} : /\ k'.rbits[c] = k.rbits[c] /\ k'.hbits[c] = k.hbits[c]
                                  /\ pc'[c] = pc[c]
          /\ pc[a] = "io" /\ pc'[a] = "user" /\ live' = live /\ mode = "run" /\ a = Act(k)
          /\ mode' = mode /\ Act(k') = Act(k) /\ a \in live /\ k.status[a] = "READY"
      BY <1>0, <2>3, EvntIORetBits
    <3>3. IO \in k.hbits[a]
      BY <3>2 DEF DeadInv, OnlyIO
    <3>4. unsel[a] # "armed" /\ a \notin iocp
      BY <3>2, <3>3 DEF DeadInv, OpenHeld, Open
    <3>5. unsel'[a] = "none" /\ \A c \in App \ {a} : unsel'[c] = unsel[c]
      BY <1>0, <3>1, <3>4
    <3>6. OpenHeld'
      BY <3>1, <3>2, <3>4, <3>5 DEF DeadInv, OpenHeld, Open
    <3>. QED BY <3>2, <3>6 DEF DeadInv, SelRunning, OnlyIO
  <2>4. CASE EndThread(a)
    <3>1. RmvApIO(a)
      BY <2>4 DEF EndThread
    <3>2. /\ k'.status = k.status /\ k'.rbits[a] = {} /\ k'.hbits[a] = {} /\ a \in live
          /\ \A c \in App \ {a} : /\ k'.rbits[c] = k.rbits[c] /\ k'.hbits[c] = k.hbits[c]
                                  /\ pc'[c] = pc[c]
          /\ pc[a] = "break" /\ pc'[a] = "user" /\ live' = live \ {a} /\ mode = "run" /\ a = Act(k)
      BY <1>0, <2>4, EndThreadBits
    <3>3. /\ unsel'[a] # "armed" /\ a \notin iocp' /\ iocp' \subseteq iocp
          /\ \A c \in App \ {a} : unsel'[c] = unsel[c]
      <4>1. CASE IO \in k.rbits[a] \ k.hbits[a]
        BY <1>0, <3>1, <4>1 DEF RmvApIO
      <4>2. CASE IO \notin k.rbits[a] \ k.hbits[a]
        <5>1. unsel[a] # "armed" /\ a \notin iocp
          BY <3>2, <4>2 DEF DeadInv, OpenHeld, Open
        <5>. QED BY <3>1, <4>2, <5>1 DEF RmvApIO
      <4>. QED BY <4>1, <4>2
    <3>4. OpenHeld'
      BY <3>2, <3>3 DEF DeadInv, OpenHeld, Open
    <3>. QED BY <3>2, <3>4 DEF DeadInv, SelRunning, OnlyIO
  <2>5. ASSUME NEW b \in App, KillThread(a, b) PROVE Goal
    <3>1. /\ mode = "run" /\ a = Act(k) /\ mode' = mode /\ Act(k') = Act(k)
          /\ UNCHANGED << live, unsel, iocp >> /\ b \in live
          /\ \/ pc' = pc /\ k' = k
             \/ pc' = [pc EXCEPT ![b] = "break"] /\ (a = b => pc[a] = "user")
          /\ k'.rbits[b] \in {k.rbits[b], k.rbits[b] \cup {RESVD}}
          /\ k'.hbits[b] \in {k.hbits[b], k.hbits[b] \cup {RESVD}}
          /\ \A c \in App \ {b} : /\ k'.status[c] = k.status[c]
                                  /\ k'.rbits[c] = k.rbits[c] /\ k'.hbits[c] = k.hbits[c]
      BY <1>0, <2>5, KillBits
    <3>2. CASE pc' = pc /\ k' = k
      BY <3>1, <3>2 DEF DeadInv, SelRunning, OnlyIO, OpenHeld, Open
    <3>3. CASE pc' = [pc EXCEPT ![b] = "break"] /\ (a = b => pc[a] = "user")
      <4>1. pc'[b] = "break" /\ \A c \in App \ {b} : pc'[c] = pc[c]
        BY <1>0, <3>3
      <4>2. pc[b] # "sel"
        BY <3>1, <3>3 DEF DeadInv, SelRunning
      <4>3. \A c \in App : IO \in k.rbits[c] \ k.hbits[c] => IO \in k'.rbits[c] \ k'.hbits[c]
        BY <3>1, SchedAssumption
      <4>4. OpenHeld'
        BY <3>1, <4>1, <4>2, <4>3 DEF DeadInv, OpenHeld, Open
      <4>. QED BY <3>1, <4>1, <4>4 DEF DeadInv, SelRunning, OnlyIO
    <3>. QED BY <3>1, <3>2, <3>3
  <2>6. CASE BegCritic(a) \/ (EndCritic(a) /\ mode' = "run")
             \/ \E b \in App : ContThread(a, b)
    <3>1. /\ mode = "run" /\ a = Act(k) /\ mode' = mode /\ Act(k') = Act(k) /\ pc[a] = "user"
          /\ k'.rbits = k.rbits /\ k'.hbits = k.hbits
          /\ \A c \in live : k'.status[c] = "READY" =>
                k.status[c] = "READY" \/ k.rbits[c] = {} \/ k.rbits[c] \cap k.hbits[c] # {}
      BY <1>0, <2>6, CallingBits
    <3>2. UNCHANGED << live, iocp, unsel >> /\ (pc' = pc \/ pc' = [pc EXCEPT ![a] = "break"])
      BY <2>6 DEF BegCritic, EndCritic, ContThread, ints
    <3>3. \A c \in App : pc'[c] = pc[c] \/ (pc[c] = "user" /\ pc'[c] = "break")
      BY <1>0, <3>1, <3>2
    <3>4. SelRunning'
      BY <3>1, <3>3 DEF DeadInv, SelRunning
    <3>. QED BY <3>1, <3>2, <3>3, <3>4, SameIO
  <2>7. CASE StartIO(a)
    <3>1. /\ mode = "run" /\ a = Act(k) /\ mode' = mode /\ a \in live /\ pc[a] = "user"
      BY <1>0, <2>7, CallingBits
    <3>2. /\ UNCHANGED << k, live, iocp >> /\ pc' = [pc EXCEPT ![a] = "sel"]
          /\ unsel' = [unsel EXCEPT ![a] = "armed"]
      BY <2>7 DEF StartIO
    <3>3. a \notin iocp
      BY <3>1 DEF DeadInv, OpenHeld, Open
    <3>4. pc'[a] = "sel" /\ \A c \in App \ {a} : pc'[c] = pc[c] /\ unsel'[c] = unsel[c]
      BY <1>0, <3>2
    <3>5. OpenHeld'
      BY <3>1, <3>2, <3>3, <3>4 DEF DeadInv, OpenHeld, Open
    <3>. QED BY <3>1, <3>2, <3>4, <3>5 DEF DeadInv, SelRunning, OnlyIO
  <2>8. ASSUME NEW b \in App, InitAPPL(a, b) PROVE Goal
    <3>1. /\ mode = "run" /\ a = Act(k) /\ mode' = mode /\ Act(k') = Act(k) /\ pc[a] = "user"
          /\ k'.rbits = k.rbits /\ k'.hbits = k.hbits
          /\ \A c \in live : k'.status[c] = "READY" =>
                k.status[c] = "READY" \/ k.rbits[c] = {} \/ k.rbits[c] \cap k.hbits[c] # {}
      BY <1>0, <2>8, CallingBits
    <3>2. /\ UNCHANGED << pc, iocp >> /\ live' = live \cup {b} /\ b \notin live
          /\ unsel' = [unsel EXCEPT ![b] = "none"]
      BY <2>8 DEF InitAPPL
    <3>3. /\ \A c \in App : unsel'[c] = "armed" => unsel[c] = "armed"
      BY <1>0, <3>2
    <3>4. OpenHeld'
      BY <3>1, <3>2, <3>3 DEF DeadInv, OpenHeld, Open
    <3>5. ASSUME NEW c \in App, pc'[c] = "io"
          PROVE  k'.rbits[c] = {IO} /\ (k'.status[c] = "READY" => IO \in k'.hbits[c])
      <4>1. pc[c] = "io" /\ k.rbits[c] = {IO} /\ (k.status[c] = "READY" => IO \in k.hbits[c])
        BY <3>2, <3>5 DEF DeadInv, OnlyIO
      <4>2. c \in live
        BY <4>1 DEF DeadInv, ListInv, Quiet
      <4>. QED BY <3>1, <4>1, <4>2
    <3>6. SelRunning'
      BY <3>1, <3>2 DEF DeadInv, SelRunning
    <3>. QED BY <3>4, <3>5, <3>6 DEF OnlyIO
  <2>9. EndCritic(a) => mode' \in {"run", "kernel"}
    BY DEF EndCritic, Running, ApplYield
  <2>. QED BY <1>9, <2>1, <2>2, <2>3, <2>4, <2>5, <2>6, <2>7, <2>8, <2>9 DEF AppStep
<1>. QED BY <1>1, <1>3, <1>4, <1>5, <1>6, <1>7, <1>8, <1>9 DEF Next, KernelStep, Interrupt

\* An application that has ended has left no entry in the timer list and no
\* interrupt routine that would write to its freed APPL, whatever was killed
\* when and whichever slot rmv_ap_io clears by mistake; provided that evnt_IO is
\* called without a timeout, because a late IOcomplete would end the next wait.
THEOREM DeadLeaveNothing ==
    ASSUME Timeouts \subseteq {FALSE} PROVE Spec => []NoEventForDead
<1>1. Init => DeadInv
  <2>1. Init => SelRunning /\ OnlyIO /\ OpenHeld
    BY DEF Init, SelRunning, OnlyIO, OpenHeld, Open
  <2>. QED BY <2>1, InitListInv DEF DeadInv
<1>2. DeadInv /\ [Next]_vars => DeadInv'
  BY NextDeadInv
<1>3. DeadInv => \A a \in App \ live : unsel[a] # "armed"
  BY DEF DeadInv, OpenHeld, Open
<1>4. (\A a \in App \ live : tim[a] = "off") /\ (\A a \in App \ live : unsel[a] # "armed")
      => NoEventForDead
  BY DEF NoEventForDead
<1>. QED BY <1>1, <1>2, <1>3, <1>4, NoTimerForDead, PTL DEF Spec
=============================================================================
