# libposix: a TLA+ verification project

libposix puts a POSIX interface (threads, mutexes, condition variables,
barriers, semaphores, message queues, timers, clocks) on top of the hyperC
kernel. The kernel itself (`mut_t`, `sem_t`, tasks, the tick counter) is not in
the repository; module `HcosKernel` and the actions marked *external* in
`PROJECT.json` say what is taken for granted about it, read off how `src/` uses it.

Paths below are relative to the repository (`src/...` here is the repository's
own `src/` directory). `M.tla` is checked with `tlc -config X.cfg M`, and
`MProofs.tla` with `tlapm MProofs.tla`.

## 1. Inventory

| Component | Source | State | Operations | Hard behaviour | What makes it correct |
|---|---|---|---|---|---|
| Mutexes | `posix_pthread_mutex.c` | `inited`, type, kernel mutex (owner) | attribute init/settype, init, lock, timedlock, trylock, unlock | checks made before the kernel call; ignored results; deadlines; an uninitialised tick count | a call that fails takes nothing; ERRORCHECK cannot block on itself; only owners release typed mutexes; deadlines end waits |
| Condition variables | `posix_pthread_cond.c` | `inited`, internal mutex, semaphore, `waiting` | init, wait, timedwait, signal, broadcast | unlocked test, timeout racing signal, failing unlock | no lost wake-up; sleepers do not hold the mutex; timed waits return |
| Barriers | `posix_pthread_barrier.c` | `cur_thread`, `threshold`, semaphore, mutex | init, wait | unlocked second test, several posters, single use | nobody early, nobody stranded, one serial thread |
| Semaphores | `posix_semaphore.c` | kernel semaphore; the tick counter | init, wait, timedwait, trywait | clock read before the sleep, wrap-around, past, invalid and far deadlines | never early, never late by a tick, no blocking without time |
| Time conversions | `utils.c`, `clock_gettime` of `posix_clock.c` | none | `abs_timespec2ticks`, `timespec2ticks`, `timespec_sub`, `timespec_cmp`, `nano2timespec`, `validate_timespec` | borrow, rounding, overflow | the least number of ticks that reaches the deadline |
| Thread lives | `posix_pthread.c` | `pthread_internal_t` on the heap, its stack, join mutex, two semaphores | create, exit, join | memory shared by the thread, its joiner and the heap | no use after free, no leak, return value delivered, join mutex given back |
| Thread attributes and priorities | `posix_pthread.c`, `posix_sched.c` | `stack_sz` and the packed `status`, a copy of them in each thread, the task's priority | attribute init and setters, `pthread_setschedparam` | two fields in 16 bits, rewritten without a lock; truncation | setters do not disturb each other; a thread's detach state is fixed; kernel and attributes agree |
| Message queues | `posix_mqueue.c` | list `allq` under `allq_mux`, `inited`, descriptors | open, close, unlink, send, receive, getattr | lazy initialisation, error paths with the mutex held, queues that are never linked | the lock is released on every path, calls return |
| Timers | `posix_timer.c` | kernel timer, event, period | create, delete, settime, gettime, expiry | the interrupt between any two accesses, a counter that wraps, restart before notification | not early, on its tick, running exactly when wanted |
| Clocks and sleeping | `posix_clock.c`, `posix_unistd.c` | none | clock_gettime, time, clock_nanosleep, nanosleep, sleep, usleep | overflow, rounding | not shorter than asked |
| Allocator hook, headers | `hcos_posix.[ch]`, `include/` | two function pointers | set once | — | — |

How they interact: condition variables call mutexes (`pthread_mutex_unlock`,
`pthread_mutex_lock`) and hand over the caller's mutex; mutexes, condition
variables, semaphores, message queues and timers call the conversions of
`utils.c` and `clock_gettime`; timers call `pthread_create`; everything that
allocates calls the hook. There are no messages or files. Concurrency is tasks of
the kernel preempting each other, and the timer interrupt.

The hazards, each at its line and with the properties that would catch it, are
in `PROJECT.json`.

## 2. Modules

    Integers
     ├─ HcosKernel ─┬─ MutexOps ─┬─ PthreadMutex ── KernelMutexProofs
     │              │            └─ PthreadCond ─── PthreadCondProofs
     │              ├─ PosixMqueue ── KernelMutexProofs
     │              ├─ PthreadBarrier ── PthreadBarrierProofs
     │              └─ PthreadLife ── MCPthreadLife, PthreadLifeProofs
     ├─ PthreadAttr ── PthreadAttrProofs
     └─ TimeUtils ── AbsTicks ─┬─ PosixSleep ── MCPosixSleep, AbsTicksProofs
                               ├─ PosixSem ──── MCPosixSem, PosixSemProofs
                               └─ PosixTimer ── MCPosixTimer, PosixTimerProofs

One module is instantiated, as an abstract specification: `Rendezvous` by
`PthreadBarrier`.
`PosixSemProofs` and `PosixTimerProofs` also extend `AbsTicksProofs`, whose lemmas
on the clock and the conversions they use.

**HcosKernel** (external). A blocking call is an operator giving the set of the
object's possible next values; the empty set means "blocked". The tasks that
share the objects are `Threads`. Ticks are
abstracted to `WAIT` and `ticks` (may give up) where the amount does not matter.
`RelockNests` says whether the kernel nests a relock by the owner: the
repository does not tell, so it is a constant, and the proofs hold for both.
`mut_unlock` by a task that is not the owner, which libposix can ask for, may
release the mutex or not.

**MutexOps, PthreadMutex**. `MutexOps` has the checks that
`pthread_mutex_timedlock` and `pthread_mutex_unlock` make before they call the
kernel, as operators on the value of a `pthread_mutex_t`. `PthreadMutex` is one
mutex and one attribute object: a lock call is two steps, the checks
(`TimedlockEnter`) and `mut_lock` (`TimedlockMutLock`). `pthread_mutex_lock`
leaves `sleep_ticks` uninitialised; `SleepChoices("null")` is therefore any tick
count. `claims` is a history variable: how many locks the thread was told it has.

**PthreadCond**. One condition variable, its waiters' mutex, and clients that
lock, unlock, wait, signal and broadcast in any order. Sections under
`cond->mux` are one step where they make one access that others can see and two
where they make two (`sem_post`, then `waiting`). It uses `MutexOps`, so the
wait really unlocks and relocks the mutex as modelled above. `owed` is a history
variable for the broadcast run: the threads a broadcast has counted and that have
not woken up yet.

**Rendezvous, PthreadBarrier**. `Rendezvous` is what a barrier promises: threads
arrive until the count is reached, and only then they go, each once.
`PthreadBarrier` has the counting under the lock, the unlocked test, the post
and the wait as separate steps, and is shown to implement it by
`arrived <- Inside \cup gone`, `count <- b.threshold`.

**TimeUtils, AbsTicks**. The functions of `utils.c` with C's truncating
division, an unsigned range `0..UINT_MAX`, and the result that is stored even
when the code is `EINVAL`. `AbsTicks` is the kernel's wrapping tick counter and
the set of timespecs an application uses, valid or not (`Timespecs`); it compares
the conversion of every deadline at every value of the counter with arithmetic on
whole nanoseconds. The counter may start anywhere.

**PosixSem**. Threads on one semaphore and the clock of `AbsTicks`. `sem_timedwait` is two steps (clock and conversion, then
`sem_get`), blocking by ticks, and the timer interrupt in between. `due` and
`elapsed` are history variables: nanoseconds to the deadline when the clock was
read, and ticks since then.

**PosixSleep**. The other functions of `posix_clock.c` and `posix_unistd.c` as
operators: each gives its result and the ticks of its `task_sleep`. They are
compared, for every member of `Timespecs`, with what `clock_gettime` read before
and after would show (`Measured`).

**PosixTimer**. One timer, one task and the timer interrupt, on the clock of `AbsTicks`. The interrupt can
come between any two accesses of `timer_settime` and `timer_gettime`, which are
therefore steps: the two loads of `expire - tmr_ticks`, the load of the active
flag, `tmr_of`, the conversion, `tmr_on`. `timer_do` is an operator on the
timer; it runs in the interrupt (`TickExpires`) or in the calling task
(`SettimeNow`), and a notification function that is called directly may disarm
the timer. `wish` is a history variable: what the application asked for, in
nanoseconds, and how long it has waited.

**PosixMqueue**. The list, its mutex, the flag `inited` and every call up to the
end of its lookup. `mq_open` initialises the list entry of a new queue and never
links it (`lle_init` at line 304 is all that happens to it), so no lookup ever
succeeds, not even with a descriptor `mq_open` returned: that is the finding of
`mqueue_doc`. The code behind a successful lookup cannot run and has no action.
Descriptors are the blocks `mq_open` returned. A second `mq_check_init` frees the
mutex under its owner, and the threads that are queued for it may be forgotten:
they are `Lost`, in `mut_lock` for ever. `kept` (threads that returned with the mutex) and
`raced` (a second initialisation) are history variables.

**PthreadLife**. Threads as heap blocks (object and stack), with every access to
a block that somebody else can reach a step of its own, and each failure of
`pthread_create` (object, stack, task) with its own frees. A detached thread frees
the stack it runs on (`ExitFreeStack`), then the object with its kernel task
(`ExitFreeThread`), and only then returns to the kernel (`RunThreadReturns`); in
between it runs on freed memory, which is recorded (`runsFreed`) and allowed to go on,
since nothing happens as long as nobody else uses that memory. The heap may hand
it out again meanwhile (`CreateAlloc`, `CreateStack`: `overwritten`). A call whose
thread somebody else frees becomes `Stale`, and its next step, waiting for a semaphore
included, is a use after free (`UseAfterFree`). After any of these errors, a double
free or a write through a null pointer the model stops, because nothing is known
about the program. The application may do anything;
the history variable `careful` says whether it has kept clear of the four things
that the library does not survive: a join by another thread before the task has
ended, a second join, the end of a detached thread, and a heap without room for a thread object.
`ids` are the joinable threads it has not joined yet.

**PthreadAttr**. An attribute object, a thread created from it, and tasks that
set that thread's priority. `status` is the set of its 1 bits, so that masks are
sets and `&`, `|` are intersection and union. On the attribute object, which one
task owns, a setter is one step; on the thread's copy each load and store is one.

Not visible in the models: null pointers as arguments, error wording, names of
tasks, destroy functions (they return 0 and change nothing).

## 3. Runs

| Run | Bounds | Shows |
|---|---|---|
| `mutex` | 2 threads, at most 2 claimed locks each | types; `NoOrphanLock`, `NoSelfDeadlock`, `OnlyOwnerReleases`; `DeadlineReturns` |
| `cond` | 2 threads, waits begin while `waiting + val < 3` | types (the semaphore never goes negative although `waiting` can); `NoLostWakeup`, `TimedWaitReturns` |
| `barrier` | 4 threads, counts 0, 2, 3 | types; `NoEarlyRelease`, `NoStranded`, `OneSerial`, refinement of `Rendezvous`, `AllReleased` |
| `sem` | 2 threads, 4 ns per second, 2 ticks per second, `UINT_MAX` 7, 7 deadlines, any start of the counter | types; `NeverEarly`, `NoTimeNoBlock`, `TimedCallReturns` |
| `deadline_exact` | 6 ns and µs per second, 3 ticks, `UINT_MAX` 101; all timespecs from -1 to 36 s, with nanoseconds up to two seconds out of range on either side | `AcceptedExact`, `ClassifiesValid`, `NanosleepCovers`, `UsleepWithinTick` |
| `life` | 2 threads and main | types; `NoLeak`; `JoinMutexHeld`; `MemorySafe` (the four ways to a memory error are the only ones), `RetvalDelivered` |
| `mqueue` | 3 threads, 1 block, 1 name | `MuxAccounted`, `CallsReturn` |
| `timer` | 4 ns per second, 2 ticks per second, `UINT_MAX` 4, 5 timespecs as value and as interval, any start of the counter, at most 1 tick during a conversion | types (never started with 0 ticks); `NeverEarly`, `ExpiresOnTime`, `ArmedAsWanted`, `GettimeExact`, `NotifiedInTime` |
| `attr` | 2 callers, 2 bits of priority, 3 priorities, 3 stack sizes | types; `AttrRemembers`, `PrioritiesAgree`, `JoinableFixed` |
| `mutex_trylock_doc` | 2 threads | refuted: `TrylockFailsIfLocked` |
| `cond_broadcast_doc` | 3 threads | refuted: `BroadcastUnblocksAll` |
| `mqueue_doc` | 2 threads, 2 blocks, 2 names | refuted: `NotFoundMeansBad` |

Why the bounds are enough. Two threads give a mutex an owner and a contender,
and the safety properties are proved for any number. Two threads
on a condition variable are a waiter that times out and a signaller or broadcaster
that races it, again and again; the bound on `waiting + val` lets the counter drift by one in
either direction before a wait begins, which is what the races do in one round.
More threads are too many for the liveness property; `NoLostWakeup` is proved for
any number. A barrier for three with a
fourth thread has several threads in the unlocked test and one that is turned
away. The time models keep every boundary: a tick that is not a nanosecond, a
second that is not a tick, a counter that wraps during a sleep, deadlines at, between
and beyond ticks, out of range on both sides. For threads, a join needs a joiner,
a target and a rival: main and the two threads, and
the same two blocks are used again for later threads. In `timer` the counter has five
values, so every request is made at every phase of it and a wait can span its
wrap; the lag during a conversion (`MaxLag`) is the one bound that the code does
not have, and a single late tick already shows in `ExpiresOnTime`. In `attr` three
of four patterns are priorities, so a mixture of two of them can be one that does
not exist. In `mqueue` one thread holds the mutex and
one waits for it when the third initialises it again.

Deadlock is checked except in the condition variable's runs (a wait without a
deadline that nobody signals is allowed to stop), in `life` (the model stops at the
first memory error) and in `mqueue` (an `mq_open` without memory stops everybody).

Fairness. The kernel runs ready tasks (weak fairness of steps inside a call) and
its timer goes on. Waiters of a mutex are served in turn (strong fairness of
`mut_lock`): an assumption about a kernel that queues its waiters. In
`cond` clients that hold the mutex unlock it in the end; in `mutex`,
`DeadlineReturns` does without that. In `timer` the interrupt and the steps of a call are weakly fair, and no
call is ever made by fairness. No run assumes that anybody posts, signals,
arrives, joins or sets a timer.

Findings. The three refuted statements are lines of the sources (quoted in
`PROJECT.json`). `pthread_mutex_trylock` drops the kernel's answer and never
says `EBUSY`. A broadcast posts a unit for each thread it has counted, but a counted
thread that has not reached `sem_get` yet loses its unit to a thread that begins
to wait after the broadcast, and is left waiting; neither a timeout nor a signal
takes part in this. `mq_open` never links the queue it creates, so its
descriptor is "bad" from the start.

Other disagreements. These statements stand beside the others in the modules.
TLC refutes each of them when it is added to the configuration named:

| Statement | Module, configuration | What the code does |
|---|---|---|
| `RelockByType` | `PthreadMutex`, `mutex.cfg` | NORMAL and RECURSIVE relock alike (`pthread.h:79,85` tell them apart) |
| `LockReturnsLocked` | same | `pthread_mutex_lock` sleeps an uninitialised number of ticks and can return 0 without the mutex (`pthread.h:287`) |
| `WaitReturnsLocked` | `PthreadCond`, `cond.cfg` | a wait can return 0 without the mutex (`posix_pthread_cond.c:137`) |
| `WaitingNotNegative`, `WaitingNotAboveWaiters` | `PthreadCond`, `cond.cfg` | `waiting` is not the number of waiting threads (`hcos_types.h:88`) |
| `EinvalDoesNotBlock` | `PosixSem`, `sem.cfg` | a far deadline sleeps a truncated time before `EINVAL` (`posix_semaphore.c:49`) |
| `AbsRejectsInvalid` | `AbsTicks`, `deadline_exact.cfg` | some invalid deadlines are accepted (`utils.h:72`) |
| `AbsoluteSleeps` | `PosixSleep`, `deadline_exact.cfg` | an absolute `clock_nanosleep` never sleeps: the test at `posix_clock.c:107` is inverted (`time.h:139`) |
| `NanosleepSleeps` | same | a request that does not fit into an unsigned of ticks returns 0 at once (`time.h:164`) |
| `TimeIsTickCount` | same | `time` returns seconds (`time.h:187` says ticks) |
| `JoinWaits` | `PthreadLife`, `life.cfg` | both semaphores start at 1, so a join does not wait and frees a running thread (`posix_pthread.c:341`) |
| `ExitWaits` | same | for the same reason a joinable thread ends without a join (`posix_pthread.c:73`) |
| `ExitFreesUnused` | same | a detached thread frees the stack and the task it runs on (`posix_pthread.c:74`) |
| `ExitDoesNotReturn` | same | `pthread_exit` returns (`posix_pthread.c:76`) |
| `OneJoiner` | same | the join mutex is released before the memory (`posix_pthread.c:324`) |
| `LockedMeansJoined` | same | a self-join leaves the join mutex locked (`posix_pthread.c:328`) |
| `NoNullWrite` | same | `memset` before the null test (`posix_pthread.c:226`) |
| `OneQueuePerName` | `PosixMqueue`, `mqueue_doc.cfg` | opening a name twice makes two queues (`posix_mqueue.c:260`) |
| `ZeroMeansPast` | `PosixTimer`, `timer.cfg` | a value too far for an unsigned can also become 0 ticks and notify at once (`posix_timer.c:222`) |
| `ArmedIsNotZero` | same | a tick between the loads of `timer_gettime` makes an armed timer read 0 (`posix_timer.c:241`) |
| `GettimeIsTimeLeft` | same | an expiry between the loads wraps the difference: nearly a whole round of the counter is reported (`time.h:220`) |
| `StackLargeEnough` | `PthreadAttr`, `attr.cfg` | sizes are truncated after the test for the minimum (`posix_pthread.c:197`) |
| `StoredPriorityExists` | same | overlapping calls OR two priorities into one the kernel does not have (`posix_pthread.c:186`) |
| `PrioritiesSettle` | same | overlapping calls leave attributes and task with different priorities (`posix_pthread.c:371`) |

## 4. Proofs

All proofs are for every value of the constants, under the named assumptions of
the modules. Every safety property that a run checks is proved, action
properties and the refinement included. Each inductive invariant was first
checked by TLC on small instances.

The type theorems, one for each component with state, are `TypeCorrect`
(`QueueTypeCorrect` for message queues).

**KernelMutexProofs**, mutexes — `TypeCorrect`, `NoOrphans`, `NoSelfDeadlocks`,
`OwnersRelease`. Assumptions: `NoTask` is no thread and `RelockNests` is a Boolean
(`KernelAssumption`, which the other modules on the kernel share), `MaxClaims` is
positive. The inductive invariant adds two facts to the types
and the two properties: the kernel mutex is free exactly when its depth is 0
(otherwise a release could leave a depth nobody claims), and an object nobody
initialised is free with nobody inside a call (otherwise `pthread_mutex_init`
could wipe out a lock). `NoSelfDeadlock` is inductive because a thread inside
`mut_lock` can become the owner only by the step that also leaves the call.

**KernelMutexProofs**, message queues — `QueueTypeCorrect`,
`QueueMutexAccounted`. `PosixMqueue` is the other user of a kernel mutex, and its
proofs use the same lemmas on `mut_lock` and `mut_unlock`. They need no assumption
about blocks and names. The invariant: the list is empty; before the first
initialisation nobody has a descriptor, so `mq_timedsend` and `mq_timedreceive`,
which do not initialise, cannot be inside (`QueueUnused`); and the depth of
`allq_mux` tells a caller that kept the mutex after running out of memory from
one that did not (`Balance`), so that the unlock of a later call by the same
thread, possible if relocks nest, does not release what was kept.

**PthreadCondProofs** — `TypeCorrect`, `NoWakeupLost`. Assumptions: finitely many
threads, `MaxTokens` is a natural. The heart is `Accounted`: each registered thread is paid for by a unit
of the semaphore or by a place in `waiting`, `val + waiting >=
Cardinality(Registered)`. Inside a signal, between `sem_post` and the update of
`waiting`, one payment counts twice; inside a broadcast the units alone must do.
`MuxExcludes` says that only one thread is in such a section. A timeout that
races a signal makes `waiting` too small by one but leaves its unit behind, so
the sum still covers. A broadcast therefore always posts enough units for the threads it
has counted; the finding is about who takes them.

**PthreadBarrierProofs** — `TypeCorrect`, `NoEarlyReleases`, `NobodyStranded`,
`SerialOnce`, and `Refinement` (`Spec => RendezvousSpec`). Assumptions: finitely
many threads, counts are naturals. The invariant: `cur_thread` is the number of
threads inside or gone (`Counted`); units in the semaphore, a thread at the post
or gone threads mean a full barrier (`OpenIsFull`); the copies `cur` of different
threads differ and lie in `1..cur_thread` (`Numbered`), some thread got 1
(`FirstIsUnique`) and it alone becomes serial (`SerialIsFirst`); and `NoStranded`
itself. The refinement follows step by step: counting in is an arrival, a return
from `sem_get` a departure (allowed because units exist only at a full barrier),
init a reset, and the rest stutters.

**PthreadLifeProofs** — `TypeCorrect`, `NothingLeaks`, `MemoryIsSafe`,
`RetvalIsDelivered`, `JoinMutexIsHeld`. Assumption: `NoTask`, main and the
threads are different. `NoLeak` and `JoinMutexHeld` hold whatever the application does.
Their invariant is `Shape`, up to the first error that stops the model: a call has a
target that is allocated, and a block under creation is known to its creator alone
(`CallShape`); an allocated object is being created, or waits for its join, or is that of
a detached thread that has not freed it yet, and `exit_thread` has taken the branch
that fits the object (`ThreadShape`). `LockedOnce` says that a joiner has locked the
mutex once, or an unlock could leave it held when relocks nest. `CarefulInv` is for applications that
keep clear of the four ways: a thread that is alive has its memory and no joiner but
itself, and leaves its value and its stack behind (`CarefulThread`); a join of
another thread is the only one and finds the thread ended (`CarefulCall`). From it,
each of the other steps, self-joins, `pthread_exit`, failing creations and new threads in
old blocks among them, is shown to touch no freed memory, and each join that
succeeds to have read the value.

**PthreadAttrProofs** — `TypeCorrect`, `AttributesRemembered`,
`PrioritiesAgreed`, `DetachStateFixed`. Assumptions: the priorities of the kernel
fit into the bits below the detach bit, stack sizes are naturals. The invariant:
what any caller has loaded and is about to store has the thread's detach bit
(`RegsKeepDetach`), which makes `JoinableFixed` a matter of one step; and a call
that no other overlapped has done its part of the work up to where it is
(`AloneProgress`).

**AbsTicksProofs** — `AcceptedDeadlinesExact`, `ValidDeadlinesClassified`,
`SleepsCover`, `UsleepsWithinTick`. Assumptions: a tick is a whole number of
nanoseconds (`TimeAssumption`), timespecs are records of integers
(`TimespecsAssumption`), a microsecond is a whole number of nanoseconds
(`SleepAssumption`). Lemmas: the clock's timespec stands for exactly `tmr_ticks`
ticks of nanoseconds and is valid; `timespec_cmp` orders valid timespecs as their
nanoseconds; `timespec_sub` subtracts nanoseconds exactly; `TotalTicks` is the
least number of ticks that covers a valid timespec. Products of two unknowns are
handled by lemmas (`MulMonotone`, `DivMod` and their like), since the solver has
no linear arithmetic to fall back on there.

**PosixSemProofs** — `TypeCorrect`, `NoBlockWithoutTime`, `TimedwaitNeverEarly`.
The invariant says of each call that its ticks reach its deadline
(`SleepCovers`, from the lemmas on the conversion), that a blocked thread loses
no ticks, `elapsed + left >= sleep` (`Countdown`), and that calls without time
have no ticks (`NoTimeNoTicks`). The tick counter itself does not occur in it:
once the conversion is made, wrap-around cannot matter.

**PosixTimerProofs** — `TypeCorrect`, `TimerNeverEarly`, `TimerOnTime`,
`TimerArmedAsWanted`, `GettimeIsExact`. Assumption: `MaxLag` is a natural. Here
the counter does matter, because a timer is compared with it for equality. Lemmas
on `Wrap` say that the distance `expire - tmr_ticks`, taken modulo the width, is
the period right after a start, falls by one with each tick and is 0 at the tick
that expires the timer and only there. The invariant ties that distance to the
history: `wish.since + Remaining` ticks cover the request and, less the lag, none
is superfluous (`Running`); a period fits its interval (`Periodic`, from which
the next expiry of a periodic timer gets its `Running`); `Setting` carries the
same through the steps of `timer_settime`, and `Getting` what `timer_gettime` has
read. While doing this proof, `ArmedAsWanted` failed for intervals between minus
one tick and nothing, which round up to a period of 0; the history variable took
them for a wish, and now takes them for none.

Only model-checked: everything about fairness (`DeadlineReturns`,
`TimedWaitReturns`, `AllReleased`, `TimedCallReturns`, `CallsReturn`,
`NotifiedInTime`), which is out of the prover's reach.

## 5. Not modelled, and the plan

Assumed away: `tmr_hz` that does not divide 10^9 (the clock then runs slow), the
numeric value of `WAIT`, which a deadline could hit, null pointers as arguments,
queue names longer than the field they are copied to.

Not modelled:

- message queues: what happens to a queue that was found. `get_tick_timeout`,
  the counts of `mq_open`, `mq_close` and `mq_unlink`, `mq_free`, `mq_get` and
  `mq_put` cannot run as long as `mq_open` does not link its queues, and an action
  that no behaviour takes would check nothing;
- `clock_getres` (a constant), `clock` (it subtracts an account the kernel keeps),
  `strftime` (formatting), `clock_settime` and `clock_getcpuclockid` (they return `EPERM`),
  `timer_getoverrun` (0), `sched_yield` (the kernel's);
- the allocator hook as a component: two pointers, whose effects are in
  `PthreadLife`, `PosixMqueue` and `PosixTimer`;
- the threads that `timer_do` creates, apart from the fact that they take no part
  in the timer; and a notification function that deletes its own timer.

Left for later: a composition of mutexes and condition variables with the ticks
of `AbsTicks` in place of the abstract `ticks` of `HcosKernel`, and with it
"never early" for `pthread_mutex_timedlock` and `pthread_cond_timedwait`.
