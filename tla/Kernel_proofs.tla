--------------------------- MODULE Kernel_proofs ----------------------------
(***************************************************************************)
(* Lemmas about the list operations of Kernel: what each routine does to   *)
(* the correspondence between ap_status and the scheduler's lists.         *)
(***************************************************************************)
EXTENDS Kernel, TLAPS

-----------------------------------------------------------------------------
(* Lists *)

\* An element appended to a list that does not contain it becomes its only
\* new member (_ap_to_last).
LEMMA AppendMembers ==
    ASSUME NEW S, NEW s \in Seq(S), NEW a \in S
    PROVE  /\ Append(s, a) \in Seq(S) /\ Append(s, a) # << >>
           /\ Members(Append(s, a)) = Members(s) \cup {a}
           /\ a \notin Members(s) /\ NoDup(s) => NoDup(Append(s, a))
           /\ s # << >> => Head(Append(s, a)) = Head(s)
           /\ s = << >> => Head(Append(s, a)) = a
<1>. DEFINE t == Append(s, a)
<1>1. /\ t \in Seq(S) /\ Len(t) = Len(s) + 1 /\ Len(s) \in Nat
      /\ \A i \in 1..Len(s) : t[i] = s[i]
      /\ t[Len(s) + 1] = a
      /\ DOMAIN t = 1..(Len(s) + 1) /\ DOMAIN s = 1..Len(s)
  OBVIOUS
<1>2. Members(t) = Members(s) \cup {a}
  <2>1. ASSUME NEW x \in Members(t) PROVE x \in Members(s) \cup {a}
    BY <1>1 DEF Members
  <2>2. ASSUME NEW x \in Members(s) PROVE x \in Members(t)
    <3>1. PICK i \in 1..Len(s) : x = s[i]
      BY <1>1 DEF Members
    <3>2. i \in DOMAIN t /\ t[i] = x
      BY <1>1, <3>1
    <3>. QED BY <3>2 DEF Members
  <2>3. a \in Members(t)
    <3>1. Len(s) + 1 \in DOMAIN t
      BY <1>1
    <3>. QED BY <1>1, <3>1 DEF Members
  <2>. QED BY <2>1, <2>2, <2>3
<1>3. ASSUME a \notin Members(s), NoDup(s) PROVE NoDup(t)
  BY <1>1, <1>3 DEF Members, NoDup
<1>4. t # << >>
  BY <1>1
<1>5. s # << >> => Head(t) = Head(s)
  OBVIOUS
<1>6. s = << >> => Head(t) = a
  OBVIOUS
<1>. QED BY <1>1, <1>2, <1>3, <1>4, <1>5, <1>6

\* Taking the head off a list without duplicates removes exactly that member.
LEMMA TailMembers ==
    ASSUME NEW S, NEW s \in Seq(S), s # << >>, NoDup(s)
    PROVE  /\ Tail(s) \in Seq(S) /\ NoDup(Tail(s))
           /\ Head(s) \in Members(s) /\ Head(s) \in S
           /\ Members(Tail(s)) = Members(s) \ {Head(s)}
<1>. DEFINE t == Tail(s)
<1>1. /\ t \in Seq(S) /\ Len(t) = Len(s) - 1 /\ Len(s) \in Nat /\ Len(s) > 0
      /\ \A i \in 1..Len(t) : t[i] = s[i + 1]
      /\ DOMAIN t = 1..(Len(s) - 1) /\ DOMAIN s = 1..Len(s)
      /\ Head(s) = s[1] /\ Head(s) \in S
  OBVIOUS
<1>2. Head(s) \in Members(s)
  BY <1>1 DEF Members
<1>3. Members(t) \subseteq Members(s) \ {Head(s)}
  BY <1>1 DEF Members, NoDup
<1>4. ASSUME NEW x \in Members(s), x # Head(s) PROVE x \in Members(t)
  <2>1. PICK i \in 1..Len(s) : x = s[i]
    BY <1>1 DEF Members
  <2>2. i # 1 /\ i - 1 \in 1..Len(t) /\ t[i - 1] = x
    BY <1>1, <1>4, <2>1
  <2>. QED BY <1>1, <2>2 DEF Members
<1>5. NoDup(t)
  BY <1>1 DEF NoDup
<1>. QED BY <1>1, <1>2, <1>3, <1>4, <1>5

\* rmv_lstelm removes exactly the given element and keeps the head of the list
\* when that is another one.
LEMMA RmvMembers ==
    ASSUME NEW S, NEW s \in Seq(S), NoDup(s), NEW a
    PROVE  /\ RmvLstElm(s, a) \in Seq(S) /\ NoDup(RmvLstElm(s, a))
           /\ Members(RmvLstElm(s, a)) = Members(s) \ {a}
           /\ s # << >> /\ a # Head(s) =>
                 RmvLstElm(s, a) # << >> /\ Head(RmvLstElm(s, a)) = Head(s)
<1>1. CASE a \notin Members(s)
  BY <1>1 DEF RmvLstElm
<1>2. CASE a \in Members(s)
  <2>. DEFINE p == CHOOSE i \in DOMAIN s : s[i] = a
              r == [j \in 1..(Len(s) - 1) |-> IF j < p THEN s[j] ELSE s[j + 1]]
  <2>1. RmvLstElm(s, a) = r
    BY <1>2 DEF RmvLstElm
  <2>2. p \in 1..Len(s) /\ s[p] = a /\ Len(s) \in Nat /\ DOMAIN s = 1..Len(s)
    BY <1>2 DEF Members
  <2>. HIDE DEF p
  <2>3. r \in Seq(S) /\ Len(r) = Len(s) - 1 /\ DOMAIN r = 1..(Len(s) - 1)
    <3>1. \A j \in 1..(Len(s) - 1) : j \in 1..Len(s) /\ j + 1 \in 1..Len(s)
      BY <2>2
    <3>2. \A j \in 1..(Len(s) - 1) : r[j] \in S
      BY <2>2, <3>1
    <3>3. Len(s) - 1 \in Nat
      BY <2>2
    <3>. QED BY <3>2, <3>3
  <2>4. NoDup(r)
    BY <2>2, <2>3 DEF NoDup
  <2>5. Members(r) \subseteq Members(s) \ {a}
    BY <2>2, <2>3 DEF Members, NoDup
  <2>6. ASSUME NEW x \in Members(s), x # a PROVE x \in Members(r)
    <3>1. PICK i \in 1..Len(s) : x = s[i]
      BY <2>2 DEF Members
    <3>2. CASE i < p
      <4>1. i \in DOMAIN r /\ r[i] = x
        BY <2>2, <2>3, <3>1, <3>2
      <4>. QED BY <4>1 DEF Members
    <3>3. CASE i > p
      <4>1. i - 1 \in DOMAIN r /\ r[i - 1] = x
        BY <2>2, <2>3, <3>1, <3>3
      <4>. QED BY <4>1 DEF Members
    <3>. QED BY <2>2, <2>6, <3>1, <3>2, <3>3
  <2>7. ASSUME s # << >>, a # Head(s) PROVE r # << >> /\ Head(r) = Head(s)
    <3>1. Head(s) = s[1] /\ p > 1 /\ Len(s) > 1
      BY <2>2, <2>7
    <3>2. 1 \in DOMAIN r /\ r[1] = s[1]
      BY <2>2, <2>3, <3>1
    <3>. HIDE DEF r
    <3>3. r # << >> /\ Head(r) = r[1]
      BY <2>3, <3>1
    <3>. QED BY <3>1, <3>2, <3>3
  <2>. QED BY <2>1, <2>3, <2>4, <2>5, <2>6, <2>7
<1>. QED BY <1>1, <1>2

-----------------------------------------------------------------------------
(* Routines of the scheduler *)

\* Outside appl_yield the running application is ready, so the lists are also
\* in the state a system call starts from.
LEMMA EnterCall ==
    ASSUME NEW k \in KState, NEW live \in SUBSET App, ListsMatch(k, live), k.ready # << >>
    PROVE  /\ ListsMatchBut(k, live, Act(k))
           /\ Act(k) \in live /\ k.status[Act(k)] = "READY"
<1>1. Act(k) \in Members(k.ready)
  BY TailMembers DEF ListsMatch, KState, Act
<1>. QED BY <1>1 DEF ListsMatch, ListsMatchBut

\* ap_to_lastready of an application that is in no list.
LEMMA ApToLastReadyOK ==
    ASSUME NEW k \in KState, NEW live \in SUBSET App, NEW a \in App,
           NoDup(k.ready), a \notin Members(k.ready)
    PROVE  LET n == ApToLastReady(k, a)
           IN  /\ n \in KState /\ NoDup(n.ready) /\ n.ready # << >>
               /\ Members(n.ready) = Members(k.ready) \cup {a}
               /\ n.status = [k.status EXCEPT ![a] = "READY"]
               /\ n.susp = k.susp /\ n.notready = k.notready
               /\ n.rbits = k.rbits /\ n.hbits = k.hbits /\ n.unsusp = k.unsusp
               /\ k.ready # << >> => Act(n) = Act(k)
<1>1. k.ready \in Seq(App)
  BY DEF KState
<1>2. /\ Append(k.ready, a) \in Seq(App) /\ NoDup(Append(k.ready, a))
      /\ Append(k.ready, a) # << >>
      /\ Members(Append(k.ready, a)) = Members(k.ready) \cup {a}
      /\ k.ready # << >> => Head(Append(k.ready, a)) = Head(k.ready)
  BY <1>1, AppendMembers
<1>. QED BY <1>2 DEF ApToLastReady, KState, Status, Act

\* event_happened keeps the lists right: an application that can match an
\* event is in notready_list, because suspended ones wait for nothing.
LEMMA EventHappenedOK ==
    ASSUME NEW k \in KState, NEW live \in SUBSET App, ListsMatch(k, live),
           NEW a \in live, NEW e \in Event,
           k.status[a] = "SUSPENDED" => k.rbits[a] = {}
    PROVE  LET n == EventHappened(k, a, e)
           IN  /\ n \in KState /\ ListsMatch(n, live)
               /\ n.rbits = k.rbits
               /\ n.hbits = [k.hbits EXCEPT ![a] = @ \cup {e}]
               /\ n.susp = k.susp /\ n.unsusp = k.unsusp
               /\ k.status[a] = "WAITING" /\ (k.hbits[a] \cup {e}) \cap k.rbits[a] # {} =>
                     n.status = [k.status EXCEPT ![a] = "READY"]
               /\ ~(k.status[a] = "WAITING" /\ (k.hbits[a] \cup {e}) \cap k.rbits[a] # {}) =>
                     n.status = k.status
               /\ k.ready # << >> => n.ready # << >> /\ Act(n) = Act(k)
<1>. DEFINE h == k.hbits[a] \cup {e}
            m == [k EXCEPT !.hbits[a] = h]
            q == [m EXCEPT !.notready = @ \ {a}]
            wake == ~(k.status[a] \in {"READY", "STOPPED"} \/ h \cap k.rbits[a] = {})
<1>1. /\ m \in KState /\ m.ready = k.ready /\ m.susp = k.susp /\ m.notready = k.notready
      /\ m.status = k.status /\ m.rbits = k.rbits /\ m.unsusp = k.unsusp
      /\ m.hbits = [k.hbits EXCEPT ![a] = @ \cup {e}]
  BY DEF KState
<1>2. CASE ~wake
  <2>1. EventHappened(k, a, e) = m
    BY <1>2 DEF EventHappened
  <2>. QED BY <1>1, <1>2, <2>1 DEF ListsMatch, Act
<1>3. CASE wake
  <2>1. k.status[a] = "WAITING" /\ a \in k.notready
    BY <1>3 DEF KState, Status, ListsMatch
  <2>2. EventHappened(k, a, e) = ApToLastReady(q, a)
    BY <1>3, <2>1 DEF EventHappened
  <2>3. /\ q \in KState /\ q.ready = k.ready /\ q.susp = k.susp /\ q.notready = k.notready \ {a}
        /\ q.status = k.status /\ q.rbits = k.rbits /\ q.unsusp = k.unsusp /\ q.hbits = m.hbits
    BY <1>1 DEF KState
  <2>4. NoDup(q.ready) /\ a \notin Members(q.ready) /\ a \in App
    BY <2>1, <2>3 DEF ListsMatch
  <2>. DEFINE n == ApToLastReady(q, a)
  <2>5. /\ n \in KState /\ NoDup(n.ready) /\ n.ready # << >>
        /\ Members(n.ready) = Members(q.ready) \cup {a}
        /\ n.status = [q.status EXCEPT ![a] = "READY"]
        /\ n.susp = q.susp /\ n.notready = q.notready
        /\ n.rbits = q.rbits /\ n.hbits = q.hbits /\ n.unsusp = q.unsusp
        /\ q.ready # << >> => Act(n) = Act(q)
    BY <2>3, <2>4, ApToLastReadyOK
  <2>. HIDE DEF n, q, m
  <2>6. k.status \in [App -> Status]
    BY DEF KState
  <2>7. ListsMatch(n, live)
    BY <2>1, <2>3, <2>5, <2>6 DEF ListsMatch
  <2>8. k.ready # << >> => Act(n) = Act(k)
    BY <2>3, <2>5 DEF Act
  <2>9. n = EventHappened(k, a, e)
    BY <2>2 DEF n
  <2>. QED BY <1>1, <1>3, <2>1, <2>3, <2>5, <2>7, <2>8, <2>9
<1>. QED BY <1>2, <1>3

\* cnt_thr puts a stopped application back into the list its events call for.
LEMMA CntThrOK ==
    ASSUME NEW k \in KState, NEW live \in SUBSET App, ListsMatch(k, live), NEW a \in live
    PROVE  LET n == CntThr(k, a)
           IN  /\ n \in KState /\ ListsMatch(n, live)
               /\ n.rbits = k.rbits /\ n.hbits = k.hbits /\ n.susp = k.susp
               /\ n.unsusp = k.unsusp
               /\ n.status[a] # "STOPPED"
               /\ k.status[a] # "STOPPED" => n.status = k.status
               /\ \A b \in App \ {a} : n.status[b] = k.status[b]
               /\ n.status[a] = "WAITING" /\ k.status[a] = "STOPPED" =>
                     k.rbits[a] \cap k.hbits[a] = {}
               /\ n.status[a] = "READY" /\ k.status[a] = "STOPPED" =>
                     k.rbits[a] = {} \/ k.rbits[a] \cap k.hbits[a] # {}
               /\ n.status[a] = "SUSPENDED" => k.status[a] = "SUSPENDED"
               /\ k.ready # << >> => n.ready # << >> /\ Act(n) = Act(k)
<1>. DEFINE rdy == k.rbits[a] = {} \/ k.rbits[a] \cap k.hbits[a] # {}
<1>0. a \in App /\ k.status \in [App -> Status]
  BY DEF KState
<1>1. CASE k.status[a] # "STOPPED"
  BY <1>1 DEF CntThr
<1>2. CASE k.status[a] = "STOPPED" /\ rdy
  <2>. DEFINE n == ApToLastReady(k, a)
  <2>1. CntThr(k, a) = n
    BY <1>2 DEF CntThr
  <2>2. NoDup(k.ready) /\ a \notin Members(k.ready)
    BY <1>2 DEF ListsMatch
  <2>3. /\ n \in KState /\ NoDup(n.ready) /\ n.ready # << >>
        /\ Members(n.ready) = Members(k.ready) \cup {a}
        /\ n.status = [k.status EXCEPT ![a] = "READY"]
        /\ n.susp = k.susp /\ n.notready = k.notready
        /\ n.rbits = k.rbits /\ n.hbits = k.hbits /\ n.unsusp = k.unsusp
        /\ k.ready # << >> => Act(n) = Act(k)
    BY <1>0, <2>2, ApToLastReadyOK
  <2>. HIDE DEF n
  <2>4. ListsMatch(n, live)
    BY <1>0, <1>2, <2>3 DEF ListsMatch
  <2>. QED BY <1>0, <1>2, <2>1, <2>3, <2>4
<1>3. CASE k.status[a] = "STOPPED" /\ ~rdy
  <2>. DEFINE n == [k EXCEPT !.status[a] = "WAITING", !.notready = @ \cup {a}]
  <2>1. CntThr(k, a) = n
    BY <1>3 DEF CntThr
  <2>2. /\ n \in KState /\ n.ready = k.ready /\ n.susp = k.susp
        /\ n.notready = k.notready \cup {a}
        /\ n.status = [k.status EXCEPT ![a] = "WAITING"]
        /\ n.rbits = k.rbits /\ n.hbits = k.hbits /\ n.unsusp = k.unsusp
    BY DEF KState, Status
  <2>. HIDE DEF n
  <2>3. ListsMatch(n, live)
    BY <1>0, <1>3, <2>2 DEF ListsMatch
  <2>. QED BY <1>0, <1>3, <2>1, <2>2, <2>3 DEF Act
<1>. QED BY <1>1, <1>2, <1>3

\* app2ready leaves the lists right and the application not waiting.
LEMMA App2ReadyOK ==
    ASSUME NEW k \in KState, NEW live \in SUBSET App, ListsMatch(k, live), NEW a \in live,
           k.status[a] = "SUSPENDED" => k.rbits[a] = {}
    PROVE  LET n == App2Ready(k, a)
           IN  /\ n \in KState /\ ListsMatch(n, live)
               /\ n.status[a] \in {"READY", "SUSPENDED"}
               /\ n.status[a] = "SUSPENDED" => n.rbits[a] = {}
               /\ n.rbits[a] \in {k.rbits[a], k.rbits[a] \cup {RESVD}}
               /\ n.hbits[a] \in {k.hbits[a], k.hbits[a] \cup {RESVD}}
               /\ \A b \in App \ {a} : /\ n.status[b] = k.status[b]
                                       /\ n.rbits[b] = k.rbits[b] /\ n.hbits[b] = k.hbits[b]
               /\ k.ready # << >> => n.ready # << >> /\ Act(n) = Act(k)
<1>. DEFINE c == CntThr(k, a)
            d == [c EXCEPT !.rbits[a] = @ \cup {RESVD}]
            n == EventHappened(d, a, RESVD)
<1>1. /\ c \in KState /\ ListsMatch(c, live)
      /\ c.rbits = k.rbits /\ c.hbits = k.hbits
      /\ c.status[a] # "STOPPED"
      /\ \A b \in App \ {a} : c.status[b] = k.status[b]
      /\ c.status[a] = "SUSPENDED" => k.status[a] = "SUSPENDED"
      /\ k.ready # << >> => c.ready # << >> /\ Act(c) = Act(k)
  BY CntThrOK
<1>2. a \in App /\ c.status[a] \in Status
  BY <1>1 DEF KState
<1>. HIDE DEF c
<1>3. CASE c.status[a] # "WAITING"
  <2>1. App2Ready(k, a) = c
    BY <1>3 DEF App2Ready, c
  <2>. QED BY <1>1, <1>2, <1>3, <2>1 DEF Status
<1>4. CASE c.status[a] = "WAITING"
  <2>1. App2Ready(k, a) = n
    BY <1>4 DEF App2Ready, c
  <2>2. /\ d \in KState /\ d.ready = c.ready /\ d.susp = c.susp /\ d.notready = c.notready
        /\ d.status = c.status /\ d.hbits = c.hbits
        /\ d.rbits = [c.rbits EXCEPT ![a] = @ \cup {RESVD}]
    BY <1>1, <1>2, KernelAssumption DEF KState
  <2>3. ListsMatch(d, live)
    BY <1>1, <2>2 DEF ListsMatch
  <2>. HIDE DEF d
  <2>4. d.status[a] = "SUSPENDED" => d.rbits[a] = {}
    BY <1>4, <2>2
  <2>5. /\ n \in KState /\ ListsMatch(n, live)
        /\ n.rbits = d.rbits
        /\ n.hbits = [d.hbits EXCEPT ![a] = @ \cup {RESVD}]
        /\ d.status[a] = "WAITING" /\ (d.hbits[a] \cup {RESVD}) \cap d.rbits[a] # {} =>
              n.status = [d.status EXCEPT ![a] = "READY"]
        /\ d.ready # << >> => n.ready # << >> /\ Act(n) = Act(d)
    <3>1. d \in KState /\ RESVD \in Event
      BY <2>2, KernelAssumption
    <3>. QED BY <2>3, <2>4, <3>1, EventHappenedOK
  <2>. HIDE DEF n
  <2>6. RESVD \in (d.hbits[a] \cup {RESVD}) \cap d.rbits[a]
    BY <1>1, <1>2, <2>2 DEF KState
  <2>7. n.status = [d.status EXCEPT ![a] = "READY"]
    BY <1>4, <2>2, <2>5, <2>6
  <2>8. d.status \in [App -> Status] /\ c.rbits \in [App -> SUBSET Event] /\ d.hbits \in [App -> SUBSET Event]
    BY <1>1, <2>2 DEF KState
  <2>9. n.status[a] = "READY" /\ \A b \in App \ {a} : n.status[b] = k.status[b]
    BY <1>1, <1>2, <2>2, <2>7, <2>8
  <2>10. ASSUME NEW b \in App \ {a} PROVE n.rbits[b] = k.rbits[b] /\ n.hbits[b] = k.hbits[b]
    <3>1. n.rbits[b] = c.rbits[b]
      BY <2>2, <2>5, <2>8
    <3>2. n.hbits[b] = c.hbits[b]
      BY <2>2, <2>5, <2>8
    <3>. QED BY <1>1, <3>1, <3>2
  <2>11. k.ready # << >> => n.ready # << >> /\ Act(n) = Act(k)
    BY <1>1, <2>2, <2>5 DEF Act
  <2>12. n.rbits[a] = k.rbits[a] \cup {RESVD} /\ n.hbits[a] = k.hbits[a] \cup {RESVD}
    <3>1. n.rbits[a] = c.rbits[a] \cup {RESVD}
      BY <1>2, <2>2, <2>5, <2>8
    <3>2. n.hbits[a] = d.hbits[a] \cup {RESVD}
      BY <1>2, <2>5, <2>8
    <3>. QED BY <1>1, <2>2, <3>1, <3>2
  <2>. QED BY <2>1, <2>5, <2>9, <2>10, <2>11, <2>12
<1>. QED BY <1>3, <1>4

\* stp_thr takes an application out of every list, except that the running
\* one stays at the head of the ready list until it yields.
LEMMA StpThrOK ==
    ASSUME NEW k \in KState, NEW live \in SUBSET App, ListsMatch(k, live), k.ready # << >>,
           NEW a \in live
    PROVE  LET n == StpThr(k, a)
           IN  /\ n \in KState /\ ListsMatchBut(n, live, Act(k))
               /\ n.rbits = k.rbits /\ n.hbits = k.hbits
               /\ n.status = [k.status EXCEPT ![a] = "STOPPED"]
<1>. DEFINE n == StpThr(k, a)
            c == Act(k)
<1>1. /\ k.ready \in Seq(App) /\ k.susp \in Seq(App) /\ k.status \in [App -> Status]
      /\ a \in App
  BY DEF KState
<1>2. c \in live /\ c \in Members(k.ready) /\ k.status[c] = "READY"
  BY EnterCall, TailMembers, <1>1 DEF ListsMatch, Act
<1>3. /\ RmvLstElm(k.ready, a) \in Seq(App) /\ NoDup(RmvLstElm(k.ready, a))
      /\ Members(RmvLstElm(k.ready, a)) = Members(k.ready) \ {a}
      /\ a # c => RmvLstElm(k.ready, a) # << >> /\ Head(RmvLstElm(k.ready, a)) = c
      /\ RmvLstElm(k.susp, a) \in Seq(App) /\ NoDup(RmvLstElm(k.susp, a))
      /\ Members(RmvLstElm(k.susp, a)) = Members(k.susp) \ {a}
  BY <1>1, RmvMembers DEF ListsMatch, Act
<1>4. /\ n.status = [k.status EXCEPT ![a] = "STOPPED"]
      /\ n.ready = IF k.status[a] = "READY" /\ a # c THEN RmvLstElm(k.ready, a) ELSE k.ready
      /\ n.notready = IF k.status[a] = "WAITING" THEN k.notready \ {a} ELSE k.notready
      /\ n.susp = IF k.status[a] = "SUSPENDED" THEN RmvLstElm(k.susp, a) ELSE k.susp
      /\ n.rbits = k.rbits /\ n.hbits = k.hbits /\ n.unsusp = k.unsusp
      /\ n \in KState
  BY <1>1, <1>3 DEF KState, Status, StpThr
<1>. HIDE DEF n
<1>5. n.ready # << >> /\ c = Act(n) /\ NoDup(n.ready) /\ NoDup(n.susp)
  BY <1>3, <1>4 DEF Act, ListsMatch
<1>6. Members(n.ready) = {c} \cup {b \in live : n.status[b] = "READY"}
  <2>1. CASE k.status[a] = "READY" /\ a # c
    BY <1>1, <1>2, <1>3, <1>4, <2>1 DEF ListsMatch
  <2>2. CASE k.status[a] # "READY"
    BY <1>1, <1>2, <1>3, <1>4, <2>2 DEF ListsMatch
  <2>3. CASE a = c
    BY <1>1, <1>2, <1>3, <1>4, <2>3 DEF ListsMatch
  <2>. QED BY <2>1, <2>2, <2>3
<1>7. Members(n.susp) = {b \in live \ {c} : n.status[b] = "SUSPENDED"}
  BY <1>1, <1>2, <1>3, <1>4 DEF ListsMatch
<1>8. n.notready = {b \in live \ {c} : n.status[b] = "WAITING"}
  BY <1>1, <1>2, <1>3, <1>4 DEF ListsMatch
<1>9. ListsMatchBut(n, live, c)
  BY <1>2, <1>5, <1>6, <1>7, <1>8 DEF ListsMatchBut
<1>. QED BY <1>4, <1>9 DEF n

\* Changing the status of the running application alone keeps the lists as a
\* system call may leave them (appl_suspend, appl_wait).
LEMMA SetStatusOK ==
    ASSUME NEW k \in KState, NEW live \in SUBSET App, ListsMatch(k, live), k.ready # << >>,
           NEW n \in KState, NEW st \in Status,
           n.ready = k.ready, n.susp = k.susp, n.notready = k.notready,
           n.status = [k.status EXCEPT ![Act(k)] = st]
    PROVE  ListsMatchBut(n, live, Act(k))
<1>1. Act(k) \in live /\ k.status[Act(k)] = "READY"
  BY EnterCall
<1>2. k.status \in [App -> Status]
  BY DEF KState
<1>. QED BY <1>1, <1>2 DEF ListsMatchBut, ListsMatch, Act

\* The periodic step of appl_yield that makes a suspended application ready
\* does not touch the running one.
LEMMA UnSuspendOK ==
    ASSUME NEW k \in KState, NEW live \in SUBSET App, NEW c, ListsMatchBut(k, live, c)
    PROVE  LET u == UnSuspend(k)
           IN  /\ u \in KState /\ ListsMatchBut(u, live, c)
               /\ u.rbits = k.rbits /\ u.hbits = k.hbits
               /\ u.status[c] = k.status[c]
               /\ \A b \in App : u.status[b] = k.status[b]
                                 \/ (k.status[b] = "SUSPENDED" /\ u.status[b] = "READY")
<1>. DEFINE m == [k EXCEPT !.unsusp = UnSusp]
            h == Head(k.susp)
            q == [m EXCEPT !.susp = Tail(@)]
            n == ApToLastReady(q, h)
<1>0. /\ k.ready \in Seq(App) /\ k.susp \in Seq(App) /\ k.status \in [App -> Status]
      /\ k.unsusp \in 0..UnSusp /\ UnSusp \in Nat
  BY KernelAssumption DEF KState
<1>1. CASE k.unsusp # 0
  <2>. DEFINE v == [k EXCEPT !.unsusp = @ - 1]
  <2>1. UnSuspend(k) = v
    BY <1>1 DEF UnSuspend
  <2>2. k.unsusp - 1 \in 0..UnSusp
    BY <1>0, <1>1
  <2>3. /\ v \in KState /\ v.ready = k.ready /\ v.susp = k.susp /\ v.notready = k.notready
        /\ v.status = k.status /\ v.rbits = k.rbits /\ v.hbits = k.hbits
    BY <2>2 DEF KState
  <2>. HIDE DEF v
  <2>. QED BY <2>1, <2>3 DEF ListsMatchBut, Act
<1>2. /\ m \in KState /\ m.ready = k.ready /\ m.susp = k.susp /\ m.notready = k.notready
      /\ m.status = k.status /\ m.rbits = k.rbits /\ m.hbits = k.hbits
  BY <1>0 DEF KState
<1>3. CASE k.unsusp = 0 /\ k.susp = << >>
  <2>1. UnSuspend(k) = m
    BY <1>3 DEF UnSuspend
  <2>. HIDE DEF m
  <2>. QED BY <1>2, <2>1 DEF ListsMatchBut, Act
<1>4. CASE k.unsusp = 0 /\ k.susp # << >>
  <2>1. UnSuspend(k) = n
    BY <1>4 DEF UnSuspend
  <2>2. /\ Tail(k.susp) \in Seq(App) /\ NoDup(Tail(k.susp)) /\ h \in Members(k.susp) /\ h \in App
        /\ Members(Tail(k.susp)) = Members(k.susp) \ {h}
    BY <1>0, <1>4, TailMembers DEF ListsMatchBut
  <2>3. /\ q \in KState /\ q.ready = k.ready /\ q.susp = Tail(k.susp) /\ q.notready = k.notready
        /\ q.status = k.status /\ q.rbits = k.rbits /\ q.hbits = k.hbits
    BY <1>2, <2>2 DEF KState
  <2>4. h \in live /\ h # c /\ k.status[h] = "SUSPENDED"
    BY <2>2 DEF ListsMatchBut
  <2>. HIDE DEF q, m, h
  <2>5. NoDup(q.ready) /\ h \notin Members(q.ready)
    BY <2>3, <2>4 DEF ListsMatchBut
  <2>6. /\ n \in KState /\ NoDup(n.ready) /\ n.ready # << >>
        /\ Members(n.ready) = Members(q.ready) \cup {h}
        /\ n.status = [q.status EXCEPT ![h] = "READY"]
        /\ n.susp = q.susp /\ n.notready = q.notready
        /\ n.rbits = q.rbits /\ n.hbits = q.hbits
        /\ q.ready # << >> => Act(n) = Act(q)
    <3>1. q \in KState /\ h \in App
      BY <2>2, <2>3
    <3>. QED BY <2>5, <3>1, ApToLastReadyOK
  <2>. HIDE DEF n
  <2>7. Act(n) = c /\ c \in live
    BY <2>3, <2>6 DEF ListsMatchBut, Act
  <2>8. n.status = [k.status EXCEPT ![h] = "READY"]
    BY <2>3, <2>6
  <2>9. ListsMatchBut(n, live, c)
    <3>1. Members(n.ready) = {c} \cup {b \in live : n.status[b] = "READY"}
      BY <1>0, <2>3, <2>4, <2>6, <2>8 DEF ListsMatchBut
    <3>2. Members(n.susp) = {b \in live \ {c} : n.status[b] = "SUSPENDED"}
      BY <1>0, <2>2, <2>3, <2>4, <2>6, <2>8 DEF ListsMatchBut
    <3>3. n.notready = {b \in live \ {c} : n.status[b] = "WAITING"}
      BY <1>0, <2>3, <2>4, <2>6, <2>8 DEF ListsMatchBut
    <3>4. NoDup(n.susp)
      BY <2>2, <2>3, <2>6
    <3>. QED BY <2>6, <2>7, <3>1, <3>2, <3>3, <3>4 DEF ListsMatchBut
  <2>10. n.status[c] = k.status[c]
    BY <1>0, <2>4, <2>7, <2>8
  <2>11. \A b \in App : n.status[b] = k.status[b] \/ (k.status[b] = "SUSPENDED" /\ n.status[b] = "READY")
    BY <1>0, <2>4, <2>8
  <2>. QED BY <2>1, <2>3, <2>6, <2>9, <2>10, <2>11
<1>. QED BY <1>1, <1>3, <1>4

\* appl_yield: whatever status the running application has given itself, it
\* ends up in the right list, and no other application is lost or moved twice.
LEMMA YieldListsOK ==
    ASSUME NEW k \in KState, NEW live \in SUBSET App, NEW c, ListsMatchBut(k, live, c)
    PROVE  LET y == YieldLists(k)
           IN  /\ y \in KState /\ ListsMatch(y, live)
               /\ y.rbits = k.rbits /\ y.hbits = k.hbits
               /\ y.status[c] = k.status[c] \/ (y.status[c] = "READY" /\ k.status[c] = "WAITING")
               /\ y.status[c] = "WAITING" => k.rbits[c] \cap k.hbits[c] = {}
               /\ \A b \in App \ {c} : y.status[b] = k.status[b]
                                 \/ (k.status[b] = "SUSPENDED" /\ y.status[b] = "READY")
<1>. DEFINE u == UnSuspend(k)
            n == [u EXCEPT !.ready = Tail(@)]
            go == u.status[c] = "READY" \/ (u.status[c] = "WAITING" /\ u.rbits[c] \cap u.hbits[c] # {})
<1>1. /\ u \in KState /\ ListsMatchBut(u, live, c)
      /\ u.rbits = k.rbits /\ u.hbits = k.hbits
      /\ u.status[c] = k.status[c]
      /\ \A b \in App : u.status[b] = k.status[b]
                        \/ (k.status[b] = "SUSPENDED" /\ u.status[b] = "READY")
  BY UnSuspendOK
<1>. HIDE DEF u
<1>2. /\ u.ready \in Seq(App) /\ u.susp \in Seq(App) /\ u.status \in [App -> Status]
      /\ c \in live /\ c \in App /\ c = Act(u) /\ u.ready # << >> /\ NoDup(u.ready)
  BY <1>1 DEF KState, ListsMatchBut
<1>3. /\ Tail(u.ready) \in Seq(App) /\ NoDup(Tail(u.ready))
      /\ Members(Tail(u.ready)) = Members(u.ready) \ {c}
  BY <1>2, TailMembers DEF Act
<1>4. /\ n \in KState /\ n.ready = Tail(u.ready) /\ n.susp = u.susp /\ n.notready = u.notready
      /\ n.status = u.status /\ n.rbits = u.rbits /\ n.hbits = u.hbits
  BY <1>1, <1>3 DEF KState
<1>5. Members(n.ready) = {b \in live \ {c} : u.status[b] = "READY"}
  BY <1>1, <1>3, <1>4 DEF ListsMatchBut
<1>. HIDE DEF n
<1>6. YieldLists(k) = IF go THEN ApToLastReady(n, c)
        ELSE IF u.status[c] = "WAITING" THEN [n EXCEPT !.notready = @ \cup {c}]
        ELSE IF u.status[c] = "SUSPENDED" THEN [n EXCEPT !.susp = Append(@, c)]
        ELSE n
  BY <1>2 DEF YieldLists, u, n
<1>7. CASE go
  <2>. DEFINE r == ApToLastReady(n, c)
  <2>1. NoDup(n.ready) /\ c \notin Members(n.ready)
    BY <1>3, <1>4, <1>5
  <2>2. /\ r \in KState /\ NoDup(r.ready) /\ r.ready # << >>
        /\ Members(r.ready) = Members(n.ready) \cup {c}
        /\ r.status = [n.status EXCEPT ![c] = "READY"]
        /\ r.susp = n.susp /\ r.notready = n.notready
        /\ r.rbits = n.rbits /\ r.hbits = n.hbits
    <3>1. n \in KState /\ c \in App
      BY <1>2, <1>4
    <3>. QED BY <2>1, <3>1, ApToLastReadyOK
  <2>. HIDE DEF r
  <2>3. ListsMatch(r, live)
    BY <1>1, <1>2, <1>4, <1>5, <2>2 DEF ListsMatch, ListsMatchBut
  <2>4. YieldLists(k) = r
    BY <1>6, <1>7 DEF r
  <2>5. r.status[c] = "READY" /\ \A b \in App \ {c} : r.status[b] = u.status[b]
    BY <1>2, <1>4, <2>2
  <2>. QED BY <1>1, <1>4, <1>7, <2>2, <2>3, <2>4, <2>5
<1>8. CASE ~go /\ u.status[c] = "WAITING"
  <2>. DEFINE r == [n EXCEPT !.notready = @ \cup {c}]
  <2>1. /\ r \in KState /\ r.ready = n.ready /\ r.susp = n.susp /\ r.notready = n.notready \cup {c}
        /\ r.status = n.status /\ r.rbits = n.rbits /\ r.hbits = n.hbits
    BY <1>2, <1>4 DEF KState
  <2>. HIDE DEF r
  <2>2. ListsMatch(r, live)
    BY <1>1, <1>2, <1>3, <1>4, <1>5, <1>8, <2>1 DEF ListsMatch, ListsMatchBut
  <2>3. YieldLists(k) = r
    BY <1>6, <1>8 DEF r
  <2>4. k.rbits[c] \cap k.hbits[c] = {}
    BY <1>1, <1>8
  <2>. QED BY <1>1, <1>4, <1>8, <2>1, <2>2, <2>3, <2>4
<1>9. CASE ~go /\ u.status[c] = "SUSPENDED"
  <2>. DEFINE r == [n EXCEPT !.susp = Append(@, c)]
  <2>0. c \notin Members(u.susp) /\ NoDup(u.susp)
    BY <1>1 DEF ListsMatchBut
  <2>1. /\ Append(n.susp, c) \in Seq(App) /\ NoDup(Append(n.susp, c))
        /\ Members(Append(n.susp, c)) = Members(n.susp) \cup {c}
    BY <1>2, <1>4, <2>0, AppendMembers
  <2>2. /\ r \in KState /\ r.ready = n.ready /\ r.susp = Append(n.susp, c) /\ r.notready = n.notready
        /\ r.status = n.status /\ r.rbits = n.rbits /\ r.hbits = n.hbits
    BY <1>4, <2>1 DEF KState
  <2>. HIDE DEF r
  <2>3. ListsMatch(r, live)
    BY <1>1, <1>2, <1>3, <1>4, <1>5, <1>9, <2>1, <2>2 DEF ListsMatch, ListsMatchBut
  <2>4. YieldLists(k) = r
    BY <1>6, <1>9 DEF r
  <2>. QED BY <1>1, <1>4, <1>9, <2>2, <2>3, <2>4
<1>10. CASE ~go /\ u.status[c] = "STOPPED"
  <2>1. YieldLists(k) = n
    BY <1>6, <1>10
  <2>2. ListsMatch(n, live)
    BY <1>1, <1>2, <1>3, <1>4, <1>5, <1>10 DEF ListsMatch, ListsMatchBut
  <2>. QED BY <1>1, <1>4, <1>10, <2>1, <2>2
<1>11. u.status[c] \in Status
  BY <1>2
<1>. QED BY <1>7, <1>8, <1>9, <1>10, <1>11 DEF Status

\* appl_yield makes its caller ready only if it was, or if one of the events it
\* waits for is there.
LEMMA YieldReady ==
    ASSUME NEW k \in KState, NEW live \in SUBSET App, NEW c, ListsMatchBut(k, live, c)
    PROVE  YieldLists(k).status[c] = "READY" =>
              k.status[c] = "READY" \/ k.rbits[c] \cap k.hbits[c] # {}
<1>. DEFINE u == UnSuspend(k)
            n == [u EXCEPT !.ready = Tail(@)]
<1>1. /\ u \in KState /\ c = Act(u) /\ c \in App
      /\ u.rbits = k.rbits /\ u.hbits = k.hbits /\ u.status[c] = k.status[c]
  BY UnSuspendOK DEF ListsMatchBut
<1>2. n.status = u.status
  BY <1>1 DEF KState
<1>. SUFFICES ASSUME k.status[c] # "READY", k.rbits[c] \cap k.hbits[c] = {}
              PROVE  YieldLists(k).status[c] # "READY"
  OBVIOUS
<1>3. YieldLists(k) \in {[n EXCEPT !.notready = @ \cup {c}], [n EXCEPT !.susp = Append(@, c)], n}
  BY <1>1 DEF YieldLists
<1>4. YieldLists(k).status = n.status
  BY <1>1, <1>3 DEF KState
<1>. QED BY <1>1, <1>2, <1>4

\* The switch hands the CPU to an application that is ready afterwards.
LEMMA SwitchToOK ==
    ASSUME NEW k \in KState, NEW live \in SUBSET App, ListsMatch(k, live), CanSwitch(k)
    PROVE  LET n == SwitchTo(k)
           IN  /\ n \in KState /\ ListsMatch(n, live) /\ n.ready # << >>
               /\ n.rbits = k.rbits /\ n.hbits = k.hbits
               /\ \A b \in App : n.status[b] = k.status[b]
                                 \/ (k.status[b] = "SUSPENDED" /\ n.status[b] = "READY")
<1>1. CASE k.ready # << >>
  BY <1>1 DEF SwitchTo
<1>2. CASE k.ready = << >>
  <2>. DEFINE h == Head(k.susp)
              n == [k EXCEPT !.susp = Tail(@), !.ready = << h >>, !.status[h] = "READY"]
  <2>1. SwitchTo(k) = n
    BY <1>2 DEF SwitchTo
  <2>2. k.susp # << >> /\ k.susp \in Seq(App) /\ k.status \in [App -> Status] /\ NoDup(k.susp)
    BY <1>2 DEF CanSwitch, KState, ListsMatch
  <2>3. /\ Tail(k.susp) \in Seq(App) /\ NoDup(Tail(k.susp)) /\ h \in Members(k.susp) /\ h \in App
        /\ Members(Tail(k.susp)) = Members(k.susp) \ {h}
    BY <2>2, TailMembers
  <2>4. h \in live /\ k.status[h] = "SUSPENDED"
    BY <2>3 DEF ListsMatch
  <2>. HIDE DEF h
  <2>5. /\ n \in KState /\ n.ready = << h >> /\ n.susp = Tail(k.susp) /\ n.notready = k.notready
        /\ n.status = [k.status EXCEPT ![h] = "READY"] /\ n.rbits = k.rbits /\ n.hbits = k.hbits
    <3>1. << h >> \in Seq(App)
      BY <2>3
    <3>2. [k.status EXCEPT ![h] = "READY"] \in [App -> Status]
      BY <2>2 DEF Status
    <3>. QED BY <2>3, <3>1, <3>2 DEF KState
  <2>. HIDE DEF n
  <2>6. n.ready # << >> /\ NoDup(n.ready) /\ Members(n.ready) = {h}
    BY <2>5 DEF NoDup, Members
  <2>7. {a \in live : k.status[a] = "READY"} = {}
    BY <1>2 DEF ListsMatch, Members
  <2>8. ListsMatch(n, live)
    <3>1. Members(n.ready) = {a \in live : n.status[a] = "READY"}
      BY <2>2, <2>4, <2>5, <2>6, <2>7
    <3>2. Members(n.susp) = {a \in live : n.status[a] = "SUSPENDED"}
      BY <2>2, <2>3, <2>4, <2>5 DEF ListsMatch
    <3>3. n.notready = {a \in live : n.status[a] = "WAITING"}
      BY <2>2, <2>4, <2>5 DEF ListsMatch
    <3>. QED BY <2>3, <2>5, <2>6, <3>1, <3>2, <3>3 DEF ListsMatch
  <2>9. \A b \in App : n.status[b] = k.status[b] \/ (k.status[b] = "SUSPENDED" /\ n.status[b] = "READY")
    BY <2>2, <2>4, <2>5
  <2>. QED BY <2>1, <2>5, <2>6, <2>8, <2>9
<1>. QED BY <1>1, <1>2
=============================================================================
