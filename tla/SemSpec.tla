------------------------------ MODULE SemSpec -------------------------------
(***************************************************************************)
(* What the semaphores of MagiC promise to their users: one owner at a     *)
(* time, and the application that has waited longest gets the semaphore    *)
(* when it is released. Semaphore implements this with the BLOCKAGE        *)
(* structures of src/kernel/aes/aesevt.s.                                  *)
(***************************************************************************)
EXTENDS Integers, Sequences

CONSTANTS App,    \* applications
          Sem,    \* semaphores
          NONE    \* no application

VARIABLES owner,  \* the application that has the semaphore, or NONE
          queue   \* the applications that wait for it, longest waiting first

specvars == << owner, queue >>

Queued(s) == {queue[s][i] : i \in DOMAIN queue[s]}

SpecTypeOK ==
    /\ owner \in [Sem -> App \cup {NONE}]
    /\ queue \in [Sem -> Seq(App)]

SpecInit ==
    /\ owner = [s \in Sem |-> NONE]
    /\ queue = [s \in Sem |-> << >>]

\* a gets the free semaphore s
Acquire(a, s) ==
    /\ owner[s] = NONE
    /\ owner' = [owner EXCEPT ![s] = a]
    /\ UNCHANGED queue

\* a starts to wait for s; it waits for one semaphore at a time
Enqueue(a, s) ==
    /\ owner[s] \notin {NONE, a}
    /\ \A t \in Sem : a \notin Queued(t)
    /\ queue' = [queue EXCEPT ![s] = Append(@, a)]
    /\ UNCHANGED owner

\* a gives the semaphores in S to the applications that wait longest
HandOver(a, S) ==
    /\ \A s \in S : owner[s] = a
    /\ owner' = [s \in Sem |-> IF s \notin S THEN owner[s]
                               ELSE IF queue[s] = << >> THEN NONE ELSE Head(queue[s])]
    /\ queue' = [s \in Sem |-> IF s \in S /\ queue[s] # << >> THEN Tail(queue[s]) ELSE queue[s]]

\* a, which is being terminated, stops waiting for s
Leave(a, s) ==
    \E i \in DOMAIN queue[s] :
       /\ queue[s][i] = a
       /\ queue' = [queue EXCEPT ![s] =
                      [j \in 1..(Len(@) - 1) |-> IF j < i THEN @[j] ELSE @[j + 1]]]
       /\ UNCHANGED owner

\* a removes the semaphore s, nobody waits for it any more
Delete(a, s) ==
    /\ owner[s] \in {NONE, a}
    /\ owner' = [owner EXCEPT ![s] = NONE]
    /\ queue' = [queue EXCEPT ![s] = << >>]

SpecNext ==
    \E a \in App :
       \/ \E s \in Sem : Acquire(a, s) \/ Enqueue(a, s) \/ Leave(a, s) \/ Delete(a, s)
       \/ \E S \in SUBSET Sem : HandOver(a, S)

SemSpecification == SpecInit /\ [][SpecNext]_specvars

-----------------------------------------------------------------------------
\* Nobody waits for a semaphore that is free, or for one it has itself.
NoNeedlessWait ==
    \A s \in Sem : /\ owner[s] = NONE => queue[s] = << >>
                   /\ owner[s] \notin Queued(s)

\* An application is in at most one waiting list, at one place: ap_nxtsem links
\* it only once.
WaitsOnce ==
    \A s, t \in Sem : \A i \in DOMAIN queue[s], j \in DOMAIN queue[t] :
       queue[s][i] = queue[t][j] => s = t /\ i = j

\* First come first served: an application that waits for a semaphore never
\* falls back in its queue, and nobody gets the semaphore past it.
FirstComeFirstServed ==
    [][\A s \in Sem : \A i \in DOMAIN queue[s] :
          \/ owner'[s] = queue[s][i] /\ i = 1
          \/ queue[s][i] \notin Queued(s)' /\ (owner'[s] = owner[s] \/ owner'[s] = NONE)
          \/ \E j \in DOMAIN queue'[s] : /\ queue'[s][j] = queue[s][i] /\ j <= i
                                         /\ owner'[s] \in {owner[s], queue[s][1]}]_specvars
=============================================================================
