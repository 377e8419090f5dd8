# A TLA+ model of the MagiC kernel

This directory holds TLA+ models of the multitasking core of MagiC (MagicMac /
MagicMacX), the TOS-compatible operating system in `src/kernel`, of its path
handling and of the RAM disk file system, together with TLC configurations that
check them and proofs that TLAPS checks. The kernel is 68k assembler, the RAM
disk is C; names in the models follow labels, functions and structure members
(`appl_yield` is `ApplYield`, `ap_rbits` is `rbits`, `ramdisk_freeDD` is
`freeDD`).

## The system

MagiC runs GEM applications on one CPU. Multitasking is part of the AES: an
application gives up the CPU only inside `appl_yield`, either because it waits
for an event or because the 200 Hz interrupt finds it in user mode with its
time slice used up and calls `appl_suspend` for it. Supervisor code is never
preempted. Interrupt routines do not touch the scheduler's lists; they leave a
note (an `IOcomplete` in `iocpbuf`, an entry in the ring buffer) that the
kernel loop `read_evnts` picks up before it selects the next application.

| Component | Source | State | Operations |
|---|---|---|---|
| scheduler, event manager | `kernel/aes/aesevt.s` | `act_appl` (ready list), `notready_list`, `suspend_list`, `ap_status`, `ap_rbits`, `ap_hbits`, `iocpbuf`, `iocpbuf_cnt`, `pe_unsuspcnt` | `appl_yield`, `appl_suspend`, `appl_wait`, `event_happened`, `evnt_IO`, `evnt_mIO`, `appl_IOcomplete`, `read_evnts` |
| thread control | `kernel/aes/aesmain.s`, `aesevt.s` | `ap_stpsig`, `ap_critic`, `ap_crit_act`, `applx[]` | `stp_thr`, `cnt_thr`, `app2ready`, `kill_thread`, `stop_pd_threads`, `cont_thread`, `appl_begcritic`, `appl_endcritic`, `init_APPL`, `end_thread` |
| semaphores, wind_update | `kernel/aes/aesevt.s`, `kernel/dos/magidos.s` | BLOCKAGE (`bl_app`, `bl_pd`, `bl_cnt`, `bl_waiting`), `ap_nxtsem`, `ap_semaph` | `evnt_sem` with its modes, `Psemaphore`, `_beg_update`, `end_update`, `rmv_ap_sem`, `sigreturn` |
| timer events | `kernel/aes/aesevt.s` | `timer_evlist` with `ap_ms`, `timer_cntdown`, `timer_cntup`, ring buffer | `wait_timer`, `timer_int`, `handle_tim`, `rmv_ap_timer` |
| pipes | `kernel/dos/dev_pipe.s` | `pipe_len`, data, `pipe_waiting`, `pipe_waitunsl`, reference counts | create, open, close, read, write, stat, unselect |
| AES messages | `kernel/aes/aesevt.s` | `ap_buf`, `ap_len`, `ap_evparm` of an APPL | `appl_write`, `appl_read`, `evnt_xmesag`, `flush_msgbuf`, `rw_ap_buf` with the merging of messages |
| GEMDOS paths | `kernel/dos/magidos.s` | `pathx`, `pathcntx`, `p_drvx`, file handles of the processes | `path_to_DD`, `Dsetpath`, `Dcreate`, `Ddelete`, `Fopen`, `Frename`, ..., inheritance and end of processes |
| RAM disk | `extensio/ramdisk/ramdisk.c`, `ramutil.c` | directory blocks, the table of DDs and FDs, directory handles, lists of FILEBLOCKs | the XFS functions (`path2DD`, `freeDD`, `fopen`, `fdelete`, `link`, `dcreate`, `ddelete`, ...) and the device functions (`read`, `write`, `seek`, `ioctl`, `getline`, `close`) |
| keyboard, mouse | `kernel/aes/aesevt.s` | ring buffer, click countdown | `but_int`, `mov_int`, `handle_key`, `_evnt_multi` |
| freeze | `kernel/aes/aesmain.s` | `ap_status`, saved lists | `appl_freeze`, `appl_unfreeze` |
| signals | `kernel/dos/magidos.s`, `aesmain.s` | masks, pending signals, handler threads | `Pkill`, `Psignal`, `sigreturn` |
| memory, FAT, drives, BIOS/XBIOS, VDI, windows and dialogs, applications | rest of `src/` | | sequential or user-interface code |

How the parts interact: semaphores, pipes, messages, timers and devices all end
waits through `event_happened` (pipes and devices by way of `appl_IOcomplete`
and the kernel loop, timers by way of the ring buffer). The end of a process
(`PDkill`, `appl_break`, `end_thread`) has to undo every one of those waits:
close files, release semaphores, leave waiting lists, cancel timers, switch off
interrupts. A file system is called by the kernel, never waits here, and shares
with it the reference counters of DDs and FDs: `path2DD` counts a DD up, the
kernel counts it down in `unlock_dd` and calls `freeDD` when nobody is left.

What is hard, and what makes each part correct:

* *Scheduler.* Stop, continue, kill, timeout, interrupt and preemption come in
  every order; each moves the application between lists. Correct means: an
  application is in the one list its status names, an event that has arrived is
  never slept through, a critical section is respected, and whoever can run
  eventually does.
* *Semaphores.* Ownership is handed over to a sleeper that may be killed before
  it learns of it; a semaphore may vanish under its waiters; `_SCR` is decided
  by a counter and not by its owner field. Correct means: one owner, who knows
  it; a proper waiting list; first come, first served; nobody waits for a free
  semaphore.
* *Timers.* A delta list is changed by applications while a countdown runs in an
  interrupt and its expiry is read late. Correct means: the list holds the
  waiters, the countdown runs while it is not empty, every wait ends, and none
  ends early.
* *Pipes.* A single slot for the sleeper holds a pointer into its stack frame.
  Correct means: bytes are not lost or doubled, nothing is written through a
  dead pointer, and sleepers that could go on are woken.
* *Messages.* A sender writes into the buffer of another application, or right
  into the place where it waits; `rw_ap_buf` overwrites and merges messages in
  the middle of the buffer. Correct means: nobody sleeps while a message is
  there, messages keep their order, each comes once, and whatever was to be
  redrawn still is.
* *Paths.* A call locks DDs on its way through links and gives them back on each
  of its error paths; processes share path handles and DDs. Correct means: the
  counters are the number of users, DDs and handles refer to what exists, no one
  loses its directory, and the directories form a tree.
* *Files of the RAM disk.* Positions at the boundary of blocks, memory that runs
  out in the middle of a write, several handles with one position. Correct
  means: a file is a sequence of bytes, and no block has two owners.

`PROJECT.json` lists these hazards line by line with the properties that guard
each of them.

## Modules

| Module | What it is |
|---|---|
| `Kernel` | The scheduler's record of lists and bits, and the routines on it as operators from kernel state to kernel state. Extended by `Sched`, `Semaphore` and `Message`. |
| `Sched` | Scheduler, interrupts, `evnt_IO`, stop/continue/kill, critical sections, start and end of applications. |
| `SemSpec` | Abstract specification of semaphores: an owner and a queue. |
| `Semaphore` | `evnt_sem`, `Psemaphore`, `wind_update` and termination on linked BLOCKAGEs; implements `SemSpec`. |
| `Pipe` | Both kinds of pipes with `Fselect`. |
| `Timer` | The timer list, its countdown and the notes in the ring buffer. |
| `Message` | `appl_write`, reading and waiting for messages, merging, on the scheduler of `Kernel`. |
| `RamDisk` | The directory side of the RAM disk as operators from disk to disk and answer. |
| `DosPath` | The GEMDOS calls of several processes on that disk: paths, links, default paths, handles. |
| `FileSpec` | Abstract specification of files: a sequence of bytes, a position, a capacity. |
| `RamFile` | The contents of files as lists of FILEBLOCKs; implements `FileSpec`. |
| `Kernel_proofs` | Lemmas about the list routines, used by `Sched_proofs`, `Semaphore_proofs` and `Message_proofs`. |
| `Sched_proofs`, `Semaphore_proofs`, `Timer_proofs`, `Pipe_proofs`, `Message_proofs`, `RamFile_proofs`, `DosPath_proofs` | Lemmas and theorems about the module of the same name; those about `SemSpec` are in `Semaphore_proofs`, those about the operators of `RamDisk` in `DosPath_proofs`. |
| `MCSched`, `MCSemaphore`, `MCPipe`, `MCMessage`, `MCDosPath`, `MCRamFile` | Instances for TLC: symmetry sets, paths, rectangles, parties of a pipe. |

### Kernel and Sched

The record `k` is the scheduler's part of the global variables and of all APPLs.
`ready` starts with the running application, as `act_appl` does. `notready` is a
set, because the code never looks at the order of `notready_list`. What an
application does between two `appl_yield`s is one action; `mode` says whether
the application at the head of `ready` runs, the kernel loop runs, or the loop
is inside `refr_loop2`, which masks interrupts. `ApplIOcomplete` and `TimerInt`
are enabled in every other state. `pc` has the four places at which an
application can be found by others: user code, between a driver's start of an
operation and `evnt_IO`, inside the wait, and at `appl_break`.

`tst.l iocpbuf_cnt` in the kernel loop tests two neighbouring 16-bit counters at
once; `Pending` says so. `EventHappened` keeps the behaviour for an application
that is in neither list. `RmvApIO` contains the second call of `evnt_emIO` with
a wrong register (see below), which clears any slot or none. The history variable
`lost` holds the applications it hits; `NoLostWakeup` excepts them and says that
nothing else takes a note away from a sleeper.

Timers are reduced here to running, expired and off. The delta list itself is
in `Timer`.

### SemSpec and Semaphore

`Semaphore` keeps the waiting list as the code does, as `bl_waiting` and a chain
of `ap_nxtsem` with the newest waiter in front; `WaitOrder` reads it as the
queue of `SemSpec`. The termination of an application is split into the steps
between which it can lose the CPU or between which others can see the state:
`SEM_FPD` at the end of `PDkill`, `appl_kill_events`, `wind_new` with its own
`wind_update`, and `SEM_FALL`. `held` is a history variable: what the calls told
the application. Applications use `wind_update` as documented (they end only
updates they have begun) and do not use `Psemaphore` on `_SCR`.

`Spec` is the system with waits that do not time out and without `Psigreturn`.
`SpecTimeout` adds the expiry of timers, `SpecSignal` adds `sigreturn`; the
code breaks under each (see Findings), which is why they are separate
specifications. Everything else is common.

### Pipe

One turn of the read or write loop is one action, up to `evnt_IO`, whose
behaviour is what `Sched` establishes: an `IOcomplete` ends the wait. Bytes are
numbered as they are written, so that loss, doubling and reordering all show in
`ByteStream`. `got` is a history variable. Who takes part (`party`) is chosen
when the pipe is created, so that one run has a pipe between two applications, a
pipe that four of them share, and a bidirectional one. `NoSleeperForgotten`
and `SleeperServed` speak of pipes between two applications (`Private`: one at
each end of a unidirectional pipe, two at a bidirectional one); the others of
all. `Rejoin` is a Boolean constant that switches on a behaviour the pipes do not
survive.

Two timeouts of `Fselect` end in a call with a wrong pointer, and both are in the
model. For a wait to write, `pipe_stat` leaves the APPL where `pipe_unsel`
expects the PIPE (`SelectRet`). And when somebody waits at the PIPE already,
`pipe_stat` returns with the APPL in `d0`, which `D_Fselect` takes for the address
of an unselect routine: the application goes to sleep without being in
`pipe_waiting`, and `funselect` jumps to its APPL when the time is over (`Select`,
`SelectJumps`). What the machine does then is not in the model: the history
variable `wild` becomes `TRUE`, and nothing follows. `SleeperWaits` therefore says
that until then nothing has left a dead pointer in `pipe_waiting`; no other
invariant has this condition. `SleeperServed` has it, as there is no next step
then.

### Timer

`WaitTimer`, `TimerInt`, `HandleTim` and `RmvApTimer` on the list, the two
counters and the ring buffer of notes. `due` is a history variable that counts
how many ticks an application still has to wait. The inputs of `WaitTimer` are
positive: `evnt_timer` with 0 does not come here. An expired countdown whose
note does not fit into the ring buffer tries again at the next tick, as in the
code.

### Message

`Merge` is the writing half of `rw_ap_buf`. Messages are of three kinds: redraws,
which are merged by rectangle; `slid`, which stands for `WM_ARROWED`, `WM_HSLID`,
`WM_VSLID`, `WM_ONTOP` and messages sent with the unique flag, of which a newer
one overwrites an older one; and plain ones, which are numbered. A rectangle has
one dimension; `grects_union` and `grects_intersect` treat the other one in the
same way. Smart Redraw is a bit of `config_status` that may change at any time,
so each merge chooses it. `box` is the buffer `ap_evparm` points to. `sent`,
`rcvd`, `slid` and `dirty` are history variables: what was accepted, what was
fetched, and what still has to be redrawn. An `appl_write` that is refused
changes nothing and is a stuttering step.

`InOrder` says that the plain messages in the buffer are exactly the numbers
after the last one handed out up to the last one accepted, in this order.
`Merged` says that every cell in `dirty` lies in a redraw not yet fetched, that
at most two redraws of a window are in the buffer, and that of the slider
messages only the latest one is.

### RamDisk and DosPath

A disk is a record of directory blocks, the common table of DDs and FDs, and the
directory handles. Entries are addressed by block and number, so that dangling
pointers can be told from good ones. Functions that allocate return a set of
answers, as `Kmalloc` may fail at any time (it leaves `leave_free` bytes to the
rest of the system). Names are model values with `Lower` (`strlwr`) and `Tos`
(`tostrunc`) given as functions, which is all that `findfile` needs to know.

A GEMDOS call is one step of `DosPath`, since the kernel is not preempted in
supervisor mode and the RAM disk never waits; the difficulty is in what the calls
of several processes leave behind. `path_to_DD` and `pthdd_loop` follow links as
the kernel does, with its counters against endless chains. The loops over
components and links are recursive functions, and so is the recursion of
`_path_to_DD`: `links[k]` answers for a link that lies `k` levels deep. The chain
of `fd_parent` is the smallest set of DDs that contains a DD and is closed under
`fd_parent` (`Chain`), for which no recursion is needed.

Three kinds of calls are in the model that the code does not survive: moving a
file or directory that is in use to another directory (`MayMove`), filling up a
directory that somebody has a pointer into, so that `new_file` moves its block
(`MayGrow`), and deleting a directory that is a default path (`Ddelete`). The
history variable `careful` says that none of them has been made yet, and the
properties of run `dospath` speak of what holds as long as it is `TRUE`: calls of
any other kind do no harm, in any order and by any number of processes. TLC goes
on from careful states only (`CONSTRAINT Careful`) and still checks the steps out
of them. When the condition `careful =>` is taken away, TLC refutes `RefCounts`,
`DDsLive`, `TreeOK`, `OpenLive` and `CwdKept` within one careless step. What a
deleted default path leaves behind is run `dos_stale`.

### FileSpec and RamFile

`Place` is the walk along the list of FILEBLOCKs in closed form, with its
treatment of a position at the end of a block. `Junk` is what memory holds that
no file has written; a read that returns it has left the file. `LMAX` is the
largest LONG, scaled down with the sizes of files, and `Long` is the addition of
the code with its overflow. `HugeReads` admits reads whose end is no LONG.
`Fwrite` takes any number of blocks up to the one it asks for.

`FileSpec` knows no blocks: a write may enlarge the capacity of the file, writes
as much as fits, and what `FIONWRITE` has promised is below the capacity.

## Runs

Properties and constants are in the `.cfg` of each run.

| Run | What it asks | Instance |
|---|---|---|
| `sched` | lists agree with `ap_status`; no wakeup is lost except through the wrong register in `rmv_ap_io`; critical sections hold | 2 applications, waits with and without timeout, ring buffer of 1, critical sections of depth 1, `pe_un_susp` = 1 |
| `sched_live` | a finished operation wakes its application, everyone runnable runs, a kill takes effect, the dead leave no interrupt behind | the same without timeouts |
| `semaphore` | in waits without timeout: ownership, counter, waiting lists, refinement of `SemSpec` (and with it first come, first served, see `ListsServedInOrder`); proved for any instance by `Semaphore_proofs` | 3 applications, `_SCR` nested up to 2, one named semaphore |
| `sem_live` | everyone who waits for the screen gets it | 3 applications, `_SCR` |
| `sem_timeout` | *violated:* the owner of a semaphore knows that it has it, with timeouts | 3 applications |
| `pipe` | byte stream, no dangling `pipe_waiting` before a wrong call of `funselect`, reference count; between two partners nobody sleeps who could go on, and everyone who can go on does | up to 2 readers and 2 writers, or both ends of a bidirectional pipe; room for 2 bytes, calls of up to 3, 5 bytes in all |
| `timer` | the list is right, offsets are not negative, the countdown runs and runs out in time for the first waiter, every wait ends | 3 applications, waits of 1 or 2 ticks, ring buffer of 2 |
| `message` | no message is slept through, order, merging forgets no redraw and keeps the buffer small, a message that was handed over is received | 2 applications, 2 windows, 4 rectangles, room for 3 messages, 2 plain and 2 overwritable ones |
| `dospath` | as long as applications are `careful`: locks are given back, counters are right, DDs, handles and default paths refer to what exists, tree, unique names | 2 processes of both domains, 3 blocks besides the root, 4 descriptors, 1 directory handle, 1 file handle each, 3 path handles, a link |
| `dos_stale` | *violated:* path handles refer to a path, also after the first deletion of a default path | as `dospath` |
| `ramfile` | no block with two owners, positions inside of files and files inside of blocks, refinement of `FileSpec` (`FIONWRITE` included) | 2 files, 3 blocks of 2 bytes, LONGs up to 15, 2 handles per FD |
| `ram_read_overflow` | *violated:* a read ends at the end of the file, with reads of any count | as `ramfile` |

Why the bounds are enough. The kernel has one CPU, so two applications show
every pair of a running one and another one in any state; the theorems below
remove that bound for the list invariants and for lost wakeups. With three
applications a waiting list has an owner, a first and a last waiter and one can
be taken out of the middle or either end. A pipe of 2 bytes with calls of 3
makes every call of full size block, partly succeed, or both, and 5 bytes fill
and empty it more than twice. Three timers give a head, a middle and an end; waits
of 1 and 2 ticks, begun at different times, meet equal, smaller and larger
offsets, and the ring buffer is full in many states. Room for three messages
lets a buffer hold two redraws for a window with another message between or
behind them, which is the largest pattern that `rw_ap_buf` looks for; the four
rectangles are apart, overlap, and belong to different windows. Four descriptors
are the root, two directories below each other and a file, or a table that is
full; with three blocks directories lie in each other, are moved, and grow. The
root has three entries, so that a directory can be moved into it while a link
leads somewhere else; three path handles are one for each process and one for
the process that changes its path. A file of three blocks has a first, a middle and a last one; positions lie at the
start, inside and at the end of each, and two files of three blocks together
make every allocation fail in some state.

`RamFile.cfg` uses a `VIEW` without `reply`. No action reads `reply`, so states
that differ in it have the same successors, and the properties of the run are
either about the other variables or about steps, which TLC evaluates for every
transition. `Symm` permutes blocks, whose identity no action looks at.

One limit of `sched_live`: with two applications a suspended one already gets
its turn when the other one's time slice ends, so `NoStarvation` is decided by
the kernel loop and `suspend_list`. That `pe_un_susp` also protects a suspended
application against two others that keep waking each other takes three
applications; that instance has few states but too many fairness conditions
for a short run, and is part of the plan.

Deadlock is not checked: the system may stop. All applications may wait for a
device that never answers, every application may have ended, and in `Pipe` all
bytes may have been written. In `dospath` and `ramfile` it is checked.

### Fairness

* `Sched`: `WF` of the kernel loop and of the code inside `evnt_IO`, which
  simply go on. `SF` of `ApplSuspend`: a tick that finds the application in
  supervisor mode leaves `pe_timer` at 0, so that the next ticks try again
  (`int_hz_200`); an application that keeps coming back to user mode is caught
  there. `SF` of `EndThread` for the same reason: an application at `appl_break`
  may yield on its way but goes on whenever it has the CPU. Applications leave
  their critical sections (`WF` of `EndCritic`): the sections are kernel code
  and short. There is no fairness on interrupts of devices; `IOWakesUp` starts
  from an operation that *has* finished.
* `Semaphore`: the kernel loop, system calls and terminations go on; time slices
  end; and every application ends its updates (`SF` of `EndUpdate`), which is
  what the documentation demands of applications. Without it nobody could
  promise anybody the screen.
* `Pipe`: a wait whose `IOcomplete` has been noted ends (`IOWakesUp`).
* `Timer`: the clock ticks, and the kernel loop reads its notes.
* `Message`: the kernel loop goes on, an application whose wait is over goes on
  when it has the CPU, and time slices end.

## Theorems

All are proved for arbitrary constants that satisfy the named assumptions of
the modules: any number of applications, any sizes of buffers, blocks and
lists. Every theorem of the form `Spec => []P` rests on an inductive invariant,
which the `.tla` file of the component states in a section of its own (that of
`DosPath` stands in front of its proof), and on one lemma per action.

* **`ListsCorrect`** (`Sched_proofs`): `Spec => []ListsMatchStatus` along with
  `StoppedHaveSig` and `CriticProtected`, for any number of applications. The
  inductive invariant is `ListInv`. `ListsMatchStatus` alone is not inductive:
  `event_happened` makes an application ready without touching `suspend_list`
  if it is not in `notready_list`, which is right only because a suspended
  application waits for nothing (`Quiet`); a stopped running application leaves
  the ready list only if `ap_stpsig` and status agree (`StoppedHaveSig`); and a
  new application must find a clean slot (`DeadClean`).
  `Kernel_proofs` has one lemma per list routine: what it does to
  `ListsMatch`, or to `ListsMatchBut`, which describes the lists inside a system
  call whose caller already has its new status but is still at the head of the
  ready list. The theorem has one step per action that cites these lemmas.
  `SchedTyped` and `CriticsProtected` are its parts that the runs check.
* **`WakeupsKept`** (`Sched_proofs`): `Spec => []NoLostWakeup`, without hypothesis,
  whatever slots the end of an application clears by mistake. `IOInv` adds to `ListInv` that nobody sleeps on an event that is
  there (`Asleep`), that an application between start of an operation and
  `evnt_IO` has the CPU (`SelRunning`), that `iocpbuf_cnt` is 0 only if
  `iocpbuf` is empty and the scan has yet to visit every flagged slot
  (`Counted`; this is where the masked interrupts of `refr_loop2` are needed),
  and that a finished operation is flagged until it becomes `EV_IO`
  (`IOFlagged`, but for applications in `lost`).
* **`NoTimerForDead`** and **`DeadLeaveNothing`** (`Sched_proofs`): an application
  that has ended is not in the timer list; and if `evnt_IO` is called without a
  timeout (`Timeouts \subseteq {FALSE}`), no interrupt routine is armed for it
  either. The first rests on `TimerHeld` (a timer that runs belongs to somebody
  inside `evnt_IO` who waits for `EV_TIM`, so `rmv_ap_timer` finds it), the second
  on `OpenHeld` and `DeadInv` (an armed routine belongs to somebody who still waits
  for `EV_IO`). With a timeout the code does not remove the routine, and the
  hypothesis is needed.
* **`SemSpecSafe`** and **`ServedInOrder`** (`Semaphore_proofs`, assuming only
  `NONE \notin App`): in the abstract semaphores nobody waits for a free
  semaphore or for its own, nobody is queued twice, and nobody is overtaken.
  **`NobodyWaitsNeedlessly`** and **`ListsServedInOrder`** state the same of the
  waiting lists of `Semaphore`, under the hypotheses of the next item. `Moves`
  lists what a step can do to one queue and its owner, and `MoveKeepsOrder` shows
  that each of these serves the queue in order; `PromiseMoves` and `ListMoves`
  show that the steps of `SemSpec` and of `Semaphore` are of this kind.
* **`SemaphoresTyped`**, **`HolderStaysOwner`**, **`OwnersKnow`**,
  **`WaitersStayLinked`**, **`FreeStaysFree`**, **`SemaphoreImplements`**
  (`Semaphore_proofs`, of `Spec`, in which no wait runs out and no signal handler
  returns through `Psigreturn`; assuming finitely many applications and semaphores,
  and that `NONE` and the events are distinct from everything else): the five
  invariants of the run and the refinement of `SemSpec`, with the inductive
  invariant `SemInv`. Ownership alone is not inductive: a semaphore is handed to
  somebody who still sleeps, so `Told` says what a sleeper will find when it runs,
  `Owned` that an owner is alive and knows of it or is about to be terminated,
  and `GaveBack` that an application past `SEM_FPD` has nothing left. `Queues` says
  that `bl_waiting` and `ap_nxtsem` form lists without repetition of exactly those
  whose status says they wait (`WaitInv`), which needs the scheduler's `Lists`.
  `ListWalk` shows that following the pointers yields such a list, `UnlinkList`
  and `SetLinkToOK` that `rmv_ap_sem` takes out one member wherever it stands,
  `FreeAllOK` that the loops of `SEM_FPD` and `SEM_FALL` give back each semaphore
  to the one who waited longest, and `WakeAll` that `SEM_DEL` wakes everybody. In
  the simulation every step is a take, an enqueue, a hand-over, a departure, a
  removal or a stutter of `SemSpec`.
* **`TimersTyped`**, **`TimersListedOnce`**, **`CountdownNeverLost`** (`Timer_proofs`):
  the three invariants of `Timer` together are inductive. The work is in
  `WaitTimer`, which inserts into a list of differences: the place it finds
  splits the difference of its successor, and the countdown is shortened only
  if the new application comes first.
* **`PipesTyped`**, **`PipesCounted`**, **`PipeIsStream`**, **`SleepersWait`**,
  **`NobodyForgotten`** (`Pipe_proofs`, assuming that there are finitely many
  applications): counting rests on `CountInv`; `ByteStream` is inductive with the
  types. `SleepersWait` has no hypothesis, since `SleeperWaits` speaks of states in
  which `wild` is `FALSE`; it rests on `SleepInv`: an `IOcomplete` is on its way
  only to somebody who still waits (`Notified`) and a wait has bytes left to move
  (`Unfinished`). `NobodyForgotten` needs that nobody opens the pipe after
  its creator has left (`Rejoin = FALSE`), as in the runs, without which it fails;
  `EndsInv` adds who can be at which end of a pipe between two (`Users`,
  `OneCreator`, `OneClient`). `NobodyElse` shows that in such a pipe `Fselect`
  never finds somebody waiting.
* **`MessagesTyped`**, **`MessagesNotMissed`**, **`MessagesInOrder`**,
  **`MergingForgetsNothing`** (`Message_proofs`, no hypotheses): the invariant adds
  `WaitInv` (who waits for a message, and that a message in `ap_evparm` belongs to
  somebody who has been woken up) to the properties. `MergeIs` reduces `rw_ap_buf`
  to three cases: the message is appended, it overwrites a `slid` message, or it
  is merged into a redraw and another redraw may disappear; each case is then
  shown to keep the numbering, the coverage and the number of redraws.
* **`FilesTyped`**, **`BlocksNeverShared`**, **`PositionsInside`** (`RamFile_proofs`, under
  `~HugeReads`, with `MemoryAssumption`: memory is finite and smaller than the
  largest LONG): the three together are inductive. Positions stay inside files
  because writes extend the size with the position, and sizes inside blocks
  because `ramdisk_write` cuts what it could not allocate.
* **`FilesImplementFileSpec`** (`RamFile_proofs`, under `~HugeReads`):
  `ImplementsFileSpec`, by a step simulation. `PlaceOK` shows that the walk along
  the FILEBLOCKs finds byte `p + i` of a transfer at position `p`; `WrittenOK`, that
  the loop of `ramdisk_write` changes these bytes and no others; from there every
  call is the call of `FileSpec` on the contents read block by block.
* **`DosTypes`**, **`DDsStayLive`**, **`TreeStays`**, **`OpenStaysLive`**,
  **`CwdStaysKept`**, **`CountsStayExact`** (`DosPath_proofs`): the five invariants and
  the action property of `dospath`, for any number of processes, names, paths,
  descriptors, blocks, handles and sizes of directories, and for every path and
  mode that the calls may be given. All of them speak of the time before the first
  careless call: each property has the condition `careful` (moving what is in use,
  filling up a directory in use and deleting a default path end it), and without
  it the code breaks them (see RamDisk and DosPath). `CarefulStep` shows that
  `careful` never comes back. `CountsStayExact` alone has hypotheses, which are the
  two places where the code keeps a lock: there are more path handles than
  processes (`N_STDPATHS` is not used up), and `ChainsEnd` always holds, that is,
  no `Fopen` gives up following links. Both hold in the run.

  The inductive invariant is `DosInv` (**`DosInvariant`**), which opens
  `DosPath_proofs`. `DiskOK(d, F)` speaks of a disk on which the descriptors `F` are
  files: the blocks form a tree (`HeapOK`), and the table of descriptors fits it
  (`FdOK`). That DDs in use are good is not inductive, since a call passes through
  states in which DDs are found and not yet counted; so every DD may have any
  parent, and only from a DD with a counter does the whole chain of `fd_parent`
  have to lie where it says (`LockedOK`), with `fd_is_parent` the exact number of
  DDs in use below (`ParentsOK`). `FreeOK` and `OneDD` say what `findfd` relies on.
  `KernelType`, `PathsOK` and `CountsOK` are the kernel's side: path handles are
  counted and distinct, and no counter is below the number of users.

  The lemmas follow the calls from the inside out. `increase_refcnts`, `freeDD`
  and `PutFd` each keep `DiskOK`; `path2DD` keeps it component by component, and
  locks the DD it answers with and nothing else (`Locks`); `unlock_dd` takes that
  back; `pthdd_loop` and `fop_again` are iterated, and the depth of links is an
  induction over a number. On top of these stand the XFS functions (`Make`, `Drop`,
  `Moved` and `Grow` with the tree of directories), then the calls, then the steps of
  processes. `TreeOK` asks that a set of directories which `..` does not leave
  contains the root, and `link` keeps that because no directory is moved
  below itself (`below`).
* **`ReadsInside`** (`RamFile_proofs`, under `~HugeReads`): a read returns only bytes
  that were written. The run `ram_read_overflow` refutes this without the hypothesis.

The inductive invariants are stated where TLC can evaluate them, and TLC has
found each of them to hold on the instance of the component's run. They are
kept out of the runs since the properties that follow from them are there.

Only model-checked: the liveness properties `IOWakesUp`, `NoStarvation`,
`KillTakesEffect`, `ScreenGranted`, `TimerFires`, `SleeperServed` and
`MessageReceived`, because fairness and `ENABLED` are out of the prover's reach.
Every other property of a passing run is stated by a theorem.

## Findings

Each of these is a run that TLC ends with a counterexample; `PROJECT.json`
quotes the line of the source that says otherwise.

1. `sem_timeout`. `SEM_SET` with a timeout returns without leaving the waiting
   list, and the application later becomes the owner of a semaphore it was told
   it did not get. With the same constants TLC refutes `HolderIsOwner` too: the
   application that is still linked waits for the screen, is woken up as owner of
   the other semaphore, and goes on as if it had the screen.
2. `dos_stale`. `free_stdpaths`, which is to make the path handles of a deleted
   default path invalid in all processes, ends its loop over the drives with
   `bcc` where it needs `bcs`: only drive A: is looked at. Processes keep a handle
   whose `pathx` is gone.
3. `ram_read_overflow`. `ramdisk_read` compares `fd_fpos + count` with the size of
   the file; with a huge count at a position above 0 the sum is negative, the
   count is not reduced, and the copy goes on behind the last block.

Seven more are stated in the modules and refuted by TLC when they are checked
with the constants given here; they have no run of their own:

* `NoSpuriousIO` (`Sched`, constants of `Sched.cfg`). The timeout of `evnt_IO` and
  the interrupt coincide. The interrupt has written its result, so the code
  returns it without clearing `iocpbuf`; the leftover note ends the application's
  *next* `evnt_IO` before its interrupt has come. That call returns with the
  interrupt still armed, and if the application then ends, `rmv_ap_io` does not
  know of it. `NoEventForDead` is therefore checked without timeouts, in
  `sched_live`.
* `FreeIsFree` under `SpecSignal` (`Semaphore`, constants of `Semaphore.cfg`).
  `sigreturn` frees `_SCR` with `SEM_FALL`, which does not reset `bl_cnt`; nobody
  has the screen and `_beg_update` gives it to nobody.
* `NoLostWakeup` without the exception for `lost` (`Sched`). `rmv_ap_io` ends in a
  second `evnt_emIO` with the address of the unselect table instead of the APPL
  and clears whatever slot it reads there, so that another application sleeps on.
* `SleeperWaits` without the condition `~wild` (`Pipe`). `pipe_stat` for writing
  stores the APPL where `pipe_unsel` expects the PIPE, so an `Fselect` that times
  out stays in `pipe_waiting` and memory of the APPL is cleared.
* `RefCounts`, `DDsLive`, `TreeOK`, `OpenLive` and `CwdKept` without the condition
  `careful` (`DosPath`). `new_file` moves a full directory and leaves pointers into
  the old block behind; `ramdisk_link` moves an entry under a descriptor that
  points to it; `Ddelete` of a default path forgets the handles.
* `NeverEarly` (`Timer`, `MaxMs = 3`). An application that becomes the head of the
  timer list, or that starts to wait while a note is unread, is charged ticks
  that passed before it came, and wakes up early.
* `NoFalseOpen` (`DosPath`, `DirPaths <- MCDeepPaths`). `path2DD` that fails at a
  later component leaves a DD without a user behind until the next `freeDD`; when
  its entry has become a file meanwhile, `fopen` and `fdelete` take it for open.

Seen in the code while modelling, without a run of their own:

* A second `Fselect` on a PIPE at which somebody waits already sleeps without
  being registered, and its timeout jumps to the address of an APPL
  (`dev_pipe.s:387`, where the comment says "kann eigentlich nicht sein",
  `magidos.s:4087`); `SelectJumps` of `Pipe`.
* A pipe has room for one sleeper. A second reader or writer that goes to sleep
  overwrites the first in `pipe_waiting`. `NoSleeperForgotten` therefore speaks of
  pipes with one reader and one writer per direction.
* Clients of a bidirectional pipe that stay or come after its creator has left
  count as each other's partners (`Rejoin`).
* `PDkill` closes files, and may wait for a file system's semaphore, while the
  application is still linked into the waiting list of another semaphore.
* `evnt_mIO` does not set `ap_unselx` and `ap_unselcnt`, which `rmv_ap_io` uses.
* `Psemaphore` looks only at the low 16 bits of its timeout.
* `read_evnts` skips the warm boot and `int_but_dirty` unless an `IOcomplete` is
  pending; `mclick_countdown` ignores a full ring buffer.
* `appl_write` looks for room before it merges; `WM_ARROWED` and its relatives are
  overwritten whichever window they are for; `appl_read` of more than there is
  makes `ap_len` negative; for an invalid id `appl_write` returns -1 where its
  header says 0.
* `Dsetpath` without a free path handle, and `Fopen` that gives up on a chain of
  links, leave a DD locked; both leaks are in `DosPath`.
* `Ddelete("\\")` removes the backslash and addresses the current directory.
* `Krealloc` clears one byte less than it adds.

## Not modelled

* Several threads per process, freezing, signal delivery and masks, alarms (a
  second copy of the timer code), keyboard and mouse: next in the plan.
* Messages of more than 16 bytes, attached memory (`Mchgown`), frozen receivers.
* Of the RAM disk: access rights, owners, attributes, times and labels, which are
  tests and copies of fields; `sfirst`/`snext` and the positions of `dreaddir`;
  `dfree`, `FTRUNCATE`, `O_APPEND`, `drv_close`, the cookie and the configuration.
  Of GEMDOS: disk change (`E_CHNG` and the other half of `free_pathx`), drive U,
  record locks, device handles, the FAT file system behind the same calls.
* Files that wait while they are closed at the end of a process; `BEG_MCTRL`,
  which is the same counter on a second BLOCKAGE; `ioctl` and `seek` on pipes,
  `Fselect` on several handles, out of memory in pipe creation.
* The memory manager and the FAT file system: sequential code under one
  semaphore, over data too large for these models.
* BIOS, XBIOS, VDI, drive U and device drivers: hardware access or pixel output.
  The one part that matters here, preemption in `int_hz_200`, is in `Sched`.
* Windows, menus, objects, forms, the file selector, and the applications and
  libraries around the kernel: user interface and clients of the modelled calls.

## Plan

1. Module `Mouse`: the ring buffer with clicks and movements, the double-click
   countdown, `_evnt_multi`. Properties: no button change is lost, a multi-click
   wait ends.
2. `Sched` extended by freezing, several threads per process and signal delivery
   with masks; module `Term` for the order of steps in the end of a process,
   with closes that wait (composing `Semaphore` and `Pipe`).
3. A liveness instance of `Sched` with three applications and without I/O, in
   which `pe_un_susp` decides. `Timer`: the alarm list; composition with `Sched`
   in place of its reduced timers.
4. Memory manager (block list of `Malloc`, `Mfree`, `Mshrink`) as pure operators.
