# TLA+ models of HujiOS

HujiOS is a set of operating-system exercises: a system-call timer (Ex1), a
user-level thread library (Ex2), a multi-threaded MapReduce framework (Ex3), a
hierarchical page table over a small RAM (Ex4), and a container launcher with a
socket command server (Ex5). This directory holds TLA+ modules translated from
that code, TLC configurations that check them on small instances, and proofs
checked by TLAPS.

## Inventory

| Part | State | Operations | Hard behaviour | What makes it correct |
|---|---|---|---|---|
| Ex2 `Scheduler` | threads by tid, ready queue, blocked set, multiset of sleepers, running tid, tid to free, quantum counters | spawn, terminate, block, resume, sleep, get quantums, timer expiration | the timer interleaves with the calls; lazy freeing and reuse of ids; a thread may be blocked and asleep at once; wake-ups are looked at only when a quantum expires | every live thread in exactly one place; the queue is never empty at a switch; no early wake-up; nobody overtaken; every sleep ends |
| Ex2 `uthreads` | the process's signal mask, the masks in jump buffers and signal frames, a pending signal | each `uthread_*` between `SigMask` and its end, the handler, `sigprocmask` by a thread | a jump brings back another thread's mask in the middle of a call; a tick pending across a switch | calls are atomic for the timer; a thread finds its own mask |
| Ex2 tests | flags and statuses the threads share, their locals | the calls each test makes, its waits, the answers it checks | a preemption at any instant its quanta allow; statuses indexed by ids used again; polls that miss a quantum | the answers expected; no wait-up lost |
| Ex3 `Barrier` | counter, mutex, condition variable | `barrier` | reuse, spurious wake-up | nobody leaves before all have entered |
| Ex3 `JobContext`, `ThreadContext` | input, shared index, stage and count in one atomic word, intermediate vectors, shuffled queue, output | start, map, sort, shuffle, reduce, emit2, emit3, getJobState, waitForJob | N threads on shared counters; thread creation racing the first threads' work; a job state read while it is reset | each key reduced once with all its pairs, the reported stage and count never go back, the job ends |
| Ex4 `VirtualMemory` | RAM frames, swap | VMinitialize, VMread, VMwrite | a page fault may reuse a table, take a new frame or evict a page, at each level of one walk | a read returns the last value written; frames form a tree |
| Ex4 `PhysicalMemory` | RAM array, swap map | PMread, PMwrite, PMevict, PMrestore | its assert on a page evicted twice | a page is in one place |
| Ex5 `container` | parent and child process, mounts, one cgroup directory, shared barrier | clone, configure, barrier, exec, wait, unmount, clean up | either process may fail at any step while the other waits; several launches share the directory | the child executes only when it is restricted; the parent cleans up |
| Ex5 `sockets` | listening socket, client sockets, select loop | connect, send a command, read, run, quit | partial commands, clients that keep a socket open | each command runs once and whole; the server answers everybody |
| Ex1 `osm` | - | three timing loops | rounding of the iteration count | the loop body runs as often as asked |

The parts of one exercise interact by direct calls; the exercises share nothing.
In Ex2 the timer signal interrupts whichever thread runs, and every API call is
masked against it. In Ex3 the workers share a job through an atomic counter, a
packed atomic state under a mutex, and a barrier. In Ex4 the page tables live in
the RAM they map. In Ex5 the container's two processes share a barrier and the
kernel's cgroup, and the command server shares only sockets with its clients.

## Modules

### Ex2: the thread library

`Scheduler.tla` is class `Scheduler`: each variable has the name of the member it
stands for, and each action that of its method, with the calls it makes
(`_deleteTerminatedThread`, `_preempt`, `_sleepToReady`) inside. A call is one
step; `Uthreads.tla` and its proofs say why. `front()` of an empty deque and the
lookup of an unknown tid end in `process = "undefined"`, so that
`NoUndefinedBehaviour` is the code's own "Assumption: the readyQueue_ is never
empty". The int sum of `sleepThread` wraps at `INT_MAX`.

`SchedulerHistory.tla` adds history variables: when the sleepers were last looked
at, and the quanta of freed threads.

`RoundRobin.tla` is the abstract scheduler: a queue, and for each sleeper what is
left of its sleep. It has no clock, so its state space is finite and liveness is
checked without a bound on time. `SchedulerRefinement.tla` maps the scheduler to
it. `SchedulerClaims.tla` states what comments say and the code does not do.

`Uthreads.tla` is `uthreads.cpp` around the Scheduler: `SigMask` and its end, the
kernel's delivery of the timer's signal with the mask of `sigaction`, the return
from the handler, and the masks that `sigsetjmp` saves and `siglongjmp` restores.
A call starts, is forwarded and ends in three steps, so a tick may come between
any two; one that comes while the signal is masked stays pending.

`Programs.tla` runs client programs over `Uthreads`. A program is data: for every
entry point, a sequence of the instructions of `Instructions.tla`, which are the
library calls, the checks of their answers, and the waits and flags of the
program's own threads. `TestPrograms.tla` holds the programs of `other_tests`,
`UnitTests.tla` those of `tests_to_be_ran_separately.cpp`. `MCPrograms.tla` gives
TLC all of them, and beside them a client of any calls in any order.

`SchedulerProofs.tla`, `SchedulingProofs.tla` and `UthreadsProofs.tla` hold the
proofs.

### Ex3: the MapReduce framework

`CyclicBarrier.tla` is the abstract reusable barrier: nobody leaves a round that
somebody has not entered. `Barrier.tla` is class `Barrier` at the grain of its
mutex: `Lock`, `Arrive` (the `if` and both its branches), `Relock` (the end of
`pthread_cond_wait`), `Unlock`. `SpuriousWakeup` is a wake-up without a
broadcast; `Next` leaves it out, `BarrierClaims.tla` adds it. `BarrierProofs.tla`
has its proofs.

`MapReduce.tla` is one job: workers as program counters over `_threadEntryPoint`,
the packed state word, the item counter, the intermediate vectors, the shuffle,
`outputVec_`, and the client's thread in `startMapReduceJob`, `waitForJob` and
`closeJobHandle`. It instantiates `Barrier`. A critical section is one step,
except that of `pthreadCreateMutex_`, which the constructor holds for many; the
shuffle is one step for each pair, which it moves and counts: a client may look in
between. The group that is built counts as the last of `shuffledQueue_`, since
nobody else reads either before the second barrier. A job is what the client's
map emits for each input, one of `Jobs`, chosen at the start. `MCMapReduce.tla` gives TLC the jobs; `MapReduceClaims.tla` has the sample
client's polling loop; `MapReduceProofs.tla` the proofs.

### Ex4: the virtual memory

`Memory.tla` is a flat memory. `VirtualMemory.tla` is `VirtualMemory.cpp` over
`PhysicalMemory.cpp`: a call is one step for each level of `findFrame` and one
for the access. A missing entry is filled by one of `moveUnusedTable`,
`takeFreeFrame` and `evictFrame`, the three outcomes of `createFrame`. The two
recursive searches visit the pages in ascending order, which makes their result a
choice among pages (the last unused table, the first of the farthest pages).
`MCVirtualMemory.tla` gives TLC the words written; `VirtualMemoryProofs.tla` holds
the proofs.

### Ex5: the container and the command server

`Container.tla` is `container.cpp` for a set of launches that run at a time. Every
call that is checked may fail and then ends its own process (`panic`); a write to
a cgroup file may be lost without a trace, because the streams are not checked.
The kernel's part is external: a new cgroup has no limit, `rmdir` fails while
processes are in it, a process that ends leaves it. `ContainerProofs.tla` has the
proofs.

`Server.tla` is `Server::loop` with its clients. `select` takes a snapshot that
`handleClients` uses later, connections wait in the kernel's backlog, and bytes
arrive in pieces. `MCServer.tla` gives TLC the lengths of the commands,
`ServerProofs.tla` has the proofs.

## Runs

| Run | Instance | What it shows |
|---|---|---|
| `scheduler` | 4 threads, 6 quanta, sleeps of 0, 1, 3 | every live thread in one place; no switch with an empty queue; sleepers in order and never early; no overtaking; sleepers are looked at at least every MAX_THREAD_NUM quanta; each quantum charged once; refinement of `RoundRobin` |
| `round_robin` | 5 threads, sleeps of 1 and 2, no bound on time | ready threads run, sleeps end |
| `client_programs` | 34 test programs and any calls of 7 threads | no tick inside a method; each thread finds its mask; a tick cuts one quantum; the tests' answers; no wait-up lost; no wait ended by somebody else's status |
| `claim_resume_makes_ready` | 3 threads | violated: a resumed thread that once slept goes back to the sleepers |
| `claim_sleep_lasts` | 3 threads, INT_MAX 7 | violated: the wake-up time overflows |
| `barrier` | 5 threads | the counter counts the waiters; refinement of `CyclicBarrier` with liveness; rounds do not overlap |
| `claim_multiple_use_barrier` | 3 threads | violated under spurious wake-ups |
| `map_reduce` | 3 workers, 2 inputs, 3 jobs | groups complete and reduced once, progress honest and never back, phases apart, contexts assigned before use, joins and deletion in order, termination |
| `claim_polling_ends` | 2 workers, 1 input | violated: no pair, 0/0, and the polling loop never ends |
| `virtual_memory` | pages of 2 words, 8 pages, 3 levels, 5 frames, 3 pages in use | a flat memory; one parent per frame; the walk's path stays linked; free frames clear; no page both in RAM and in swap |
| `container` | 2 launches | restricted before exec; a clean exit leaves nothing; who may wait for ever |
| `server` | 3 clients, buffer of 3, backlog of 2 | commands run whole and once; nobody forgotten |

### Bounds

- `MaxQuanta` ends the scheduler's run; 6 quanta are more than `MAX_THREAD_NUM`,
  so every thread can be created, sleep, be woken, be blocked and resumed, and
  the bound on the lateness of wake-ups is reached. The state depends on time
  only through the differences that `RoundRobin` keeps, whose run has no bound.
- `client_programs`: `Horizon` is the number of quanta a program is followed for.
  All but the client of any calls reach their end within it. `MinSteps`, next.
- Five threads at the barrier give two rounds at once with threads on both sides.
  Three workers give two that are not thread 0, in different phases; the three
  jobs have keys shared and not shared, repeated and out of order, and inputs
  that emit nothing.
- Five frames for three levels: the three pages used need nine, so tables are
  moved, pages are evicted at the last level and above it, and come back. The
  fourth address is out of range. Each write stores a word of its own, so that a
  word read tells where it came from.
- Two launches are enough for one to change the cgroup under the other. Three
  clients are one more than the backlog, and two commands just fit the buffer.

### How long a quantum has to be

`MinSteps` is the number of steps (calls, halves of calls, instructions of the
test) in which the timer does not expire after it is set. With 0 it may expire
before anything is done, which no real timer with these quanta does, and at which
some tests do fail. The run gives each test the least number with which all its
checks hold, and the properties are refuted with one less:

| Test | Steps | What a shorter quantum breaks |
|---|---|---|
| jona2 | 3 | a resume that comes before its block is lost, and main waits for ever |
| jona3, jona4 | 10, 8 | main resets a status after the thread has set it |
| jona5 (run: 4) | 3 | a status left by an earlier thread with the same id ends a wait too early |
| test1 | 7 | a poll for the thread's own quantum misses it |
| test3 | 32 | the function returns from its entry before main has ended it |
| test_switch_4_threads | 11 | ids are not yet those the literal arguments name |
| Test1, 2, 3 | 17, 11, 20 | the order of threads and quanta the test counts on |
| Test6, 7, 8, 9, 15, 16 | 7, 8, 12, 10, 14, 6 | `threadQuantumSleep` polls for an exact quantum and never ends once it is missed; the test's own comment says so |
| Test10 to 14 | 8 | the same |

The others hold with 0; jona1, jona6, test4 and Test4 have 1, 4, 3 and 8 in the
run only to keep it short.

### Fairness

- `RoundRobin`: for each thread, it is interrupted if it keeps the processor. The
  timer counts the process's virtual time and is set again at every switch, so a
  thread that always gives the processor up by itself may never be interrupted:
  the fairness is that of `running = t /\ Tick`, no more.
- `Barrier`: the operating system runs each thread, and each comes back for
  another round.
- `MapReduce`: the operating system runs some worker that can step, the
  constructor goes on, and a client that has begun to join goes on. It need not
  begin to wait or to close.
- `Container`: both processes run, and the container's program ends.
- `Server`: the server runs, each client connects, writes and exits or dies, and
  the commands end. Nobody has to quit. With clients that never stop arriving the
  loop would only accept (`server.h:82-89`); the model has finitely many, which
  connect once.

The scheduler, `Uthreads` with its programs and the virtual memory have no
fairness: their runs check safety. `AwaitedCanFinish` is the safety part of
"the test ends". `container` and `server` may stop, so their runs do not check
for deadlock.

## Proofs

All proofs are for every value of the constants that satisfies the named
assumptions, which TLC evaluates in the runs.

`SchedulerProofs.tla` proves `Spec => []Inv` for `Inv`, the conjunction of
`TypeOK`, `OnePlace`, `MainSchedulable` and `NoUndefinedBehaviour`. `OnePlace`
alone is not inductive: that a switch finds a known thread at the front of the
queue needs the queue to be non-empty, which is so because main is running or
ready, and a thread that gives up the processor is not main. That argument is
`MainSchedulable`. The lemmas before it say what appending to, removing from and
inserting into a sequence without duplicates does to its elements. The listed
theorems are the four conjuncts.

`SchedulingProofs.tla` adds the order. `SleepOrder` and `AwakeIsDue` are
inductive together with `Inv`: the first makes the due sleepers a prefix of the
multiset (`DueFacts`), the second holds because only that prefix becomes ready
and a blocked thread that once slept goes back among the sleepers. It needs no
bound on the wake-up times, so it covers sums that overflow. `NoOvertaking` is an
action property: `KeepsOrder` between the queue before and after is transitive,
and holds for appending, for taking the front and for deleting.

Next it proves `WakeUpLag` of the scheduler with its history. Nothing
bounds how often threads give up the processor early. The measure is the quanta
since the last look at the sleepers plus the threads whose quantum begins before
main's can expire: a switch that is not a tick raises the first by one and, since
nobody overtakes, lowers the second by one; main's own quantum ends by a tick; and
after a tick the second is less than `MAX_THREAD_NUM`.

`QuantumAccounting` is inductive but for the type of `freedQuanta`. Each step frees
at most one thread, whose count goes to `freedQuanta`, and then leaves the counts,
adds one quantum to one of them, or adds a new thread with none (`StepCharges`).
That the sum follows is `SumWithout`: `SumFunction` folds a set in the order
`CHOOSE` gives, and the lemmas before it, again by least counterexamples, say that
the fold exists and that any element may be taken first.

Then it proves that the scheduler implements `RoundRobin`, call by call: a switch
takes one quantum from every sleep that is left (`SwitchDispatches`), the prefix
that a tick wakes is the abstract set of those with nothing left, in some order
(`WokenFacts`), and the lazy freeing of a thread shows nothing. The theorem has
`NoOverflow` as its hypothesis: with a wake-up time that wraps, a sleeper would
have none left at once. The invariant adds to the one above that a sleeper has a wake-up
time, which a resume preserves because it tests for one.

`UthreadsProofs.tla` proves that `Uthreads` implements `Scheduler`, so all of the
above holds of the library as it is called, and the three properties of masks and
ticks. The invariant says which mask each thread that does not run will find: its
jump buffer holds the mask of the place it left, its own in its own code and that
with SIGVTALRM elsewhere. Without this nothing is known of the mask after a jump.

The same holds under every program, whatever tids it passes and however long it
sleeps. The steps of `Programs` are more than those of `Uthreads`, whose arguments
come from small sets: `AnyCall` is a call with any argument, and each lemma about
a method is stated for all of them. `ProgramStep` says that every step of a program
is such a call, a step of the masks or one that leaves the library alone, so
`ProgramsInvariant` carries `Inv`, the order of the sleepers and the masks over to
programs, and adds to them that no thread has more quanta than have begun, and
that each live thread is in a function of its program. `InstructionsAssumption`
says what a program is.

`LibraryMeetsExpectations` proves `ExpectedResults`, with any timing, of the programs
that rest on the library's promises alone. `RestsOnLibrary` says which they are: main
alone spawns, at most as many threads as there are ids, and the others alone sleep;
each expects of a call whatever the interface lets it answer to those arguments,
and of `sigprocmask` the mask it has made; nothing depends on when other threads
run. TLC evaluates that eleven of the test programs are such (`RestingOnLibrary` in
`MCPrograms.tla`). The
invariant, `Resting`, says of each thread that it is inside its function, that its
own mask is what the instructions before its place have blocked, and that the time
it will check after a sleep is over or is its wake-up time; and that the threads
live are no more than main has spawned, so that a spawn always finds an id.

`BarrierProofs.tla` proves `Spec => []Inv` for `TypeOK`, `MutexHeld` and
`CountsTheWaiters`, and from it that `Barrier` implements `CyclicBarrier`. The
step that matters is the last arrival: the counter is one less than the number of
threads, so by `CountsTheWaiters` all the others wait, in this round, and nobody
is left from the round before. `RoundsDoNotOverlap` follows in the abstract
barrier and is carried down by the refinement. `BarrierNeverDeadlocks` is the part
of liveness that is a state predicate: the counter is less than the number of
threads, so not all of them are held, and the holder of the mutex can go on. The
prover has no ENABLED, so `CanStep` writes the guards of `Step` out.

`MapReduceProofs.tla` proves `MInv`. Its core is `SamePhase`: each worker is in
one of three phases, which its program counter and its place in the barrier tell
together, and all workers are in the same one; the phase changes in the step in
which the last arrival lets the others go. `PhasesDoNotOverlap` follows. What the
constructor has stored and the client has joined is counted by the client's
index: `ContextsAssigned` follows because no worker leaves the first phase before
the constructor has released `pthreadCreateMutex_`, and `JoinedOnceThenDeleted`
because the workers joined are those before the index.

`WorkersNeverDeadlock` says the same of the whole job as `BarrierNeverDeadlocks` of
the barrier: until all workers have returned, one of them or the constructor can
take a step. It needs that of each mutex the holder is known and can go on
(`Locks`), that all workers exist when the constructor is through (`Created`), and
that of the workers at a barrier not all are held; by `SamePhase` one that is not
held is then at its barrier too, on its way in or out.

The data of a job are a second invariant, `DInv`, one formula for each phase:

- `MapData`: an input below the item counter is emitted or in the hands of one
  worker, and nothing of it is emitted before it is in its vector
  (`Fetched`, `Emitted`); the processed count and the workers that hold an input
  make up the counter, or all inputs (`MapReported`). So when all workers are at
  the first barrier every pair is in some vector, once (`Apart`).
- `ShuffleData`: a pair is in one of thread 0's vectors or in a group, and no key
  in the vectors is above one of the groups (`Unshuffled`); the count is the number
  of pairs in groups. So the pair taken next has the last group's key, or when no
  vector ends with one a key below all groups (`NextPairFacts`), which needs the
  vectors sorted.
- `ReduceData`: a group below the counter is in the output or in the hands of one
  worker, which has not reduced it while its label is `reduce` (`InHand`,
  `Output`); the count is the pairs of the groups in the output, but for those
  whose worker has still to count them (`Counted`).

The phases are what makes them inductive: the item counter means an input in one
and a group in the other, and only thread 0 touches it in between. `FirstRoundOver`
and `SecondRoundOver` are the step of the last arrival: the data invariant of one
phase, with every worker at its barrier, is that of the next. `GroupsPartitionThePairs`,
`ReducedOnce`, `ProgressIsHonest` and `EndIsReported` follow, and
`ProgressNeverFallsBack` with one case for each step that stores the packed word.
The operators over sequences are known to the provers only by what is proved of
them first: `Max` and the sum of lengths need an induction, so `MaxFacts`,
`Recursion` and `TotalFacts` go by the least counterexample.

`VirtualMemoryProofs.tla` proves that `VirtualMemory` implements `Memory`, for all
widths and all numbers of frames, and the five invariants. The invariant `VInv`
speaks of walks, not of entries:

- `Tree`: where two walks meet in a frame they have come the same way, by the same
  rows, and each entry of a table leads on to some page. `FramesFormATree` is not
  inductive by itself: it does not say that a table is met at one depth only.
- `Taken`: the frames that walks reach are the first ones, without a gap, and all
  others are clear. A frame that is taken goes after them and one that is moved or
  evicted stays in use, so no gap comes.
- `CallFollowsTree`: the walk to the page of the current call reaches, at the depth
  of the call, the frame of the call. The table that moves is empty and not that
  one, so it is not on the walk; the victim is a page, so it is not either.
- `PageInOnePlace` and, for what was written, `WrittenIsKept`: its page is in the
  RAM or in the swap file.

Moving a table and evicting a page are the same step to the proof (`Relink`): a
frame that leads nowhere leaves its entry (`RemoveEntry`), gets new words
(`SetFrame`) and is linked to the walk (`AddEntry`). An eviction finds a page
because no table is empty: the walk has taken at most `TABLES_DEPTH` frames, so by
`FramesAssumption` some frame is not on it, and the deepest such frame leads
nowhere though it is not empty. `MemoryConstants.h` has 64 frames and 4 levels.
That a page is what its rows say (`SameWayToPage`) is arithmetic of digits. The
provers know neither powers nor induction: `PowerOfSum` counts subsets, and where
a proof would go by induction over depths it takes the least counterexample
(`MinFacts`), which is how the recursive walk is unfolded (`WalkExists`).
For the refinement, `ContentStays` says that each way to find a frame leaves the
words of every page that is kept, wherever they are then.

`ContainerProofs.tla` proves `CInv`: once the parent is past a write that was not
lost, its child is in the cgroup and the cgroup has a limit until the child is
over. The limit stays because the only step that takes it away is `rmdir`, which
fails while a process is in the cgroup, and that is so whatever other launches
do. `RunsRestricted` needs besides that the barrier lets the child go only when
the parent has come to it, and `CleanExit` what each step on the way out undoes.

`ServerProofs.tla` proves `SInv`: each connection is in the backlog, accepted or
served, and in one of these once; and bytes received and unread are those sent.
`readDataFromSocket` returns at the end of the connection or with a full buffer;
in both cases nothing of a command that fits is left unread, so what is run is all
that was sent, and that is the whole command unless the client died.

Only model-checked:

- liveness, which is beyond the prover: `ReadyLeavesQueue`, `SleepEnds`,
  `JobFinishes`, `EveryLaunchEnds`, `EveryClientServed`;
- what holds of a test program only with quanta of `MinSteps` or because of what
  its threads do in turn: `ExpectedResults` beyond `RestsOnLibrary`,
  `AwaitedCanFinish`, `WaitsForItsOwn`. They are properties of those programs, not
  of the library, and follow from no promise of it.

## Where the code and its words differ

Shown by runs:

- `uthreads.h:66`, "moves it to the READY state": `resumeThread` tests
  `sleepUntil_`, which is never reset (Scheduler.cpp:353).
- `uthreads.h:76`, "Blocks the RUNNING thread for num_quantums quantums": the sum
  of Scheduler.cpp:382 overflows.
- `Barrier.h:5`, "a multiple use barrier": an `if` around `pthread_cond_wait`
  (Barrier.cpp:29).
- `SampleClient.cpp:86` polls for 100.0%: never reported without a pair
  (job_context.cpp:108).

Noticed, without a run of their own:

- Tests that hold only with long enough quanta, listed above.
- `thread.h:40`, "If it's not sleeping, this value equals -1": nothing resets
  `sleepUntil_` after a sleep.
- `Scheduler.h:167`, "Checks on every quantum": only when a quantum expires;
  `WakeUpLag` says how late that can be.
- `job_context.h:25` describes three fields in the packed word: there are two.
- Processed counts are compared in float, which is exact to 2^24 only.
- `VirtualMemory.h:14` promises 0 when an address cannot be mapped: with no more
  frames than levels `evictFrame` hands out the root frame and the call returns 1.
- `container.cpp:29`: the barrier orders the parent's writes before `execve`, but
  a write that fails is not noticed, and the limit of another launch overwrites
  this one's. `RunsRestricted` says what is left.
- `socket.h:175`, "Save one byte for the null-terminator": the read asks for `len`
  bytes.
- `osm.cpp:23`, "The number of iterations in total is #iterations as required":
  one iteration gives none.

## Not modelled

- Ex1: `osm` is time measurement but for its iteration count, a loop of one
  counter; `WhatIDo` has no source.
- Ex2: the machine context of a thread (stack, registers), so neither what runs on
  a stack that was freed; C library calls that fail, which end the process; the
  exception variant, which is not built; the demos. Of the tests, computations
  and prints are left out, and three programs are copies: `test5_no_out` of
  `jona1`, `test6_no_out` of `jona5`, `Some-ex2-tests-dunno-if-good` of
  `main_other_test`.
- Ex3: values of pairs, float arithmetic, counts beyond 2^32; several client
  threads in `waitForJob`; `systemError`, which ends the process; demos.
- Ex4: int casts of page numbers; the tests, which are sequences of reads and
  writes that `ImplementsMemory` covers.
- Ex5: the command line; the server's failing calls; commands longer than the
  buffer (`CommandsFit`): `readDataFromSocket` writes the terminator past the end of
  a full buffer, which is undefined.
