----------------------------- MODULE PthreadCond ----------------------------
(***************************************************************************)
(* src/src/posix_pthread_cond.c: one pthread_cond_t, the pthread_mutex_t   *)
(* its waiters hand over, and threads that lock, unlock, wait, signal and  *)
(* broadcast in any order.                                                 *)
(*                                                                         *)
(* Steps.  A section between mut_lock(&cond->mux) and mut_unlock is one    *)
(* step where it makes one access that code outside the section can see    *)
(* (waiting++ in a wait, waiting-- after a timeout); it is two steps where *)
(* it makes two, sem_post and then waiting: the waiters' sem_get does not  *)
(* take the lock, nor does the first test of pthread_cond_signal.          *)
(*                                                                         *)
(* Clients follow POSIX: a thread waits only if it was told that it has    *)
(* the mutex (locked[t]), and does not lock it twice.                      *)
(***************************************************************************)
EXTENDS MutexOps, FiniteSets

CONSTANT
  MaxTokens     \* bound on waiting + val when a wait begins

ASSUME CondAssumption ==
  /\ IsFiniteSet(Threads)
  /\ MaxTokens \in Nat

VARIABLES
  mux,      \* the caller's pthread_mutex_t
  cond,     \* the pthread_cond_t: inited, owner of its mux, semaphore, waiting
  pc,       \* where each thread is
  slp,      \* slp[t]: ticks of the sem_get or mut_lock that t is in
  locked,   \* locked[t]: t was told that it has the mutex
  owed      \* history: threads a broadcast counted that have not woken up

vars == <<mux, cond, pc, slp, locked, owed>>

Labels == {"idle", "lock", "register", "unlock", "sem", "relock",
           "trelock", "dec", "sig", "sigdec", "bcast", "bzero"}

Codes == {"0", "EINVAL", "EDEADLK", "EPERM", "ETIMEDOUT"}

(* Threads that have added themselves to waiting and have neither taken a   *)
(* unit of the semaphore nor taken themselves off waiting again.            *)
Registered ==
  {t \in Threads : pc[t] \in {"unlock", "sem", "trelock", "dec"}}

Init ==
  /\ \E type \in MutexTypes : mux = MutexInited(type)
  /\ cond = [inited |-> FALSE, own |-> NoTask, val |-> 0, waiting |-> 0]
  /\ pc = [t \in Threads |-> "idle"]
  /\ slp = [t \in Threads |-> "WAIT"]
  /\ locked = [t \in Threads |-> FALSE]
  /\ owed = {}

Goto(t, from, to) == pc[t] = from /\ pc' = [pc EXCEPT ![t] = to]

(* The call returns with a code and its local variable slp is gone.  The    *)
(* code is not stored: what it tells the caller is in locked.               *)
Return(t, from, code) ==
  /\ code \in Codes
  /\ Goto(t, from, "idle")
  /\ slp' = [slp EXCEPT ![t] = "WAIT"]

-----------------------------------------------------------------------------
(* pthread_cond_init.  Nobody may use the object before it returns, so that *)
(* the order of its assignments (inited comes first) is not observable.     *)
CondInit(t) ==
  /\ ~cond.inited
  /\ Return(t, "idle", "0")
  /\ cond' = [inited |-> TRUE, own |-> NoTask, val |-> 0, waiting |-> 0]
  /\ UNCHANGED <<mux, locked, owed>>

(* pthread_mutex_lock by the client: the checks, then mut_lock *)
ClientLock(t) ==
  /\ ~locked[t]
  /\ TimedlockCheck(mux, t, "null") = "0"
  /\ Goto(t, "idle", "lock")
  /\ \E s \in SleepChoices("null") : slp' = [slp EXCEPT ![t] = s]
  /\ UNCHANGED <<mux, cond, locked, owed>>

ClientMutLock(t) ==
  /\ \E m \in MutLockOutcomes(mux.m, t, slp[t]) : mux' = [mux EXCEPT !.m = m]
  /\ Return(t, "lock", "0")
  /\ locked' = [locked EXCEPT ![t] = TRUE]
  /\ UNCHANGED <<cond, owed>>

(* pthread_mutex_unlock by the client *)
ClientUnlock(t) ==
  /\ locked[t]
  /\ Return(t, "idle", UnlockCheck(mux, t))
  /\ \/ /\ UnlockCheck(mux, t) # "0"
        /\ UNCHANGED mux
     \/ /\ UnlockCheck(mux, t) = "0"
        /\ \E m \in MutUnlockOutcomes(mux.m, t) : mux' = [mux EXCEPT !.m = m]
  /\ locked' = [locked EXCEPT ![t] = FALSE]
  /\ UNCHANGED <<cond, owed>>

-----------------------------------------------------------------------------
(* pthread_cond_timedwait up to mut_lock; pthread_cond_wait is the call     *)
(* without a deadline.  A past or bad deadline returns with the mutex held. *)
WaitEnter(t, abstime) ==
  /\ locked[t]
  /\ cond.waiting + cond.val < MaxTokens
  /\ \/ /\ ~cond.inited \/ abstime = "einval"
        /\ Return(t, "idle", "EINVAL")
     \/ /\ cond.inited /\ abstime = "past"
        /\ Return(t, "idle", "ETIMEDOUT")
     \/ /\ cond.inited /\ abstime \in {"null", "future"}
        /\ Goto(t, "idle", "register")
        /\ slp' = [slp EXCEPT ![t] = IF abstime = "null" THEN "WAIT" ELSE "ticks"]
  /\ UNCHANGED <<mux, cond, locked, owed>>

(* A wait that forgets to add itself to waiting. *)
WaitRegister_NotCounted(t) ==
  /\ Goto(t, "register", "unlock")
  /\ UNCHANGED <<mux, cond, slp, locked, owed>>

(* mut_lock(&cond->mux); waiting++; mut_unlock *)
WaitRegister(t) ==
  /\ cond.own = NoTask
  /\ Goto(t, "register", "unlock")
  /\ cond' = [cond EXCEPT !.waiting = @ + 1]
  /\ UNCHANGED <<mux, slp, locked, owed>>

(* pthread_mutex_unlock(mux).  When it fails the call returns its error,    *)
(* and waiting keeps counting a thread that does not wait.                  *)
WaitUnlock(t) ==
  \/ /\ UnlockCheck(mux, t) # "0"
     /\ Return(t, "unlock", UnlockCheck(mux, t))
     /\ owed' = owed \ {t}
     /\ UNCHANGED <<mux, cond, locked>>
  \/ /\ UnlockCheck(mux, t) = "0"
     /\ Goto(t, "unlock", "sem")
     /\ \E m \in MutUnlockOutcomes(mux.m, t) : mux' = [mux EXCEPT !.m = m]
     /\ locked' = [locked EXCEPT ![t] = FALSE]
     /\ UNCHANGED <<cond, slp, owed>>

(* sem_get(&cond->cond, sleep_ticks), and the choice of the ticks with      *)
(* which pthread_mutex_lock will then call mut_lock.                        *)
WaitSemGet(t) ==
  /\ \/ /\ cond.val > 0
        /\ Goto(t, "sem", "relock")
        /\ cond' = [cond EXCEPT !.val = @ - 1]
     \/ /\ cond.val = 0 /\ slp[t] = "ticks"
        /\ Goto(t, "sem", "trelock")
        /\ UNCHANGED cond
  /\ \E s \in SleepChoices("null") : slp' = [slp EXCEPT ![t] = s]
  /\ owed' = owed \ {t}
  /\ UNCHANGED <<mux, locked>>

(* pthread_mutex_lock(mux) after a wake-up: its result is the result *)
WaitRelock(t) ==
  /\ \/ /\ TimedlockCheck(mux, t, "null") # "0"
        /\ Return(t, "relock", TimedlockCheck(mux, t, "null"))
        /\ UNCHANGED <<mux, locked>>
     \/ /\ TimedlockCheck(mux, t, "null") = "0"
        /\ \E m \in MutLockOutcomes(mux.m, t, slp[t]) :
             mux' = [mux EXCEPT !.m = m]
        /\ Return(t, "relock", "0")
        /\ locked' = [locked EXCEPT ![t] = TRUE]
  /\ UNCHANGED <<cond, owed>>

(* pthread_mutex_lock(mux) after a timeout: its result is dropped *)
WaitRelockTimedOut(t) ==
  /\ Goto(t, "trelock", "dec")
  /\ \/ /\ TimedlockCheck(mux, t, "null") # "0"
        /\ UNCHANGED mux
     \/ /\ TimedlockCheck(mux, t, "null") = "0"
        /\ \E m \in MutLockOutcomes(mux.m, t, slp[t]) :
             mux' = [mux EXCEPT !.m = m]
  /\ locked' = [locked EXCEPT ![t] = TRUE]
  /\ UNCHANGED <<cond, slp, owed>>

(* A timeout that takes itself off waiting twice. *)
WaitDecrement_Twice(t) ==
  /\ cond.own = NoTask
  /\ Return(t, "dec", "ETIMEDOUT")
  /\ cond' = [cond EXCEPT !.waiting = @ - 2]
  /\ UNCHANGED <<mux, locked, owed>>

(* mut_lock(&cond->mux); waiting--; mut_unlock: a signal may have counted   *)
(* the thread off already, and waiting is not tested.                       *)
WaitDecrement(t) ==
  /\ cond.own = NoTask
  /\ Return(t, "dec", "ETIMEDOUT")
  /\ cond' = [cond EXCEPT !.waiting = @ - 1]
  /\ UNCHANGED <<mux, locked, owed>>

-----------------------------------------------------------------------------
(* pthread_cond_signal: the test of waiting without the lock *)
SignalTest(t) ==
  /\ \/ /\ ~cond.inited
        /\ Return(t, "idle", "EINVAL")
     \/ /\ cond.inited /\ cond.waiting <= 0
        /\ Return(t, "idle", "0")
     \/ /\ cond.inited /\ cond.waiting > 0
        /\ Goto(t, "idle", "sig")
        /\ UNCHANGED slp
  /\ UNCHANGED <<mux, cond, locked, owed>>

(* mut_lock, the second test, sem_post *)
SignalPost(t) ==
  /\ cond.own = NoTask
  /\ \/ /\ cond.waiting <= 0
        /\ Return(t, "sig", "0")
        /\ UNCHANGED cond
     \/ /\ cond.waiting > 0
        /\ Goto(t, "sig", "sigdec")
        /\ cond' = [cond EXCEPT !.own = t, !.val = @ + 1]
        /\ UNCHANGED slp
  /\ UNCHANGED <<mux, locked, owed>>

(* waiting--; mut_unlock *)
SignalDecrement(t) ==
  /\ Return(t, "sigdec", "0")
  /\ cond' = [cond EXCEPT !.own = NoTask, !.waiting = @ - 1]
  /\ UNCHANGED <<mux, locked, owed>>

(* pthread_cond_broadcast up to its lock *)
BroadcastEnter(t) ==
  /\ \/ /\ ~cond.inited
        /\ Return(t, "idle", "EINVAL")
     \/ /\ cond.inited
        /\ Goto(t, "idle", "bcast")
        /\ UNCHANGED slp
  /\ UNCHANGED <<mux, cond, locked, owed>>

(* mut_lock; sem_post_n(&cond->cond, cond->waiting) *)
BroadcastPost(t) ==
  /\ cond.own = NoTask
  /\ Goto(t, "bcast", "bzero")
  /\ \E v \in SemPostN(cond.val, cond.waiting) :
       cond' = [cond EXCEPT !.own = t, !.val = v]
  /\ owed' = {w \in Threads : pc[w] \in {"unlock", "sem"}}
  /\ UNCHANGED <<mux, slp, locked>>

(* A broadcast that returns without releasing cond->mux. *)
BroadcastZero_KeepsMux(t) ==
  /\ Return(t, "bzero", "0")
  /\ cond' = [cond EXCEPT !.waiting = 0]
  /\ UNCHANGED <<mux, locked, owed>>

(* waiting = 0; mut_unlock *)
BroadcastZero(t) ==
  /\ Return(t, "bzero", "0")
  /\ cond' = [cond EXCEPT !.own = NoTask, !.waiting = 0]
  /\ UNCHANGED <<mux, locked, owed>>

-----------------------------------------------------------------------------
(* What a thread does once it is inside a call *)
Continue(t) ==
  \/ ClientMutLock(t)
  \/ WaitRegister(t)
  \/ WaitUnlock(t)
  \/ WaitSemGet(t)
  \/ WaitRelock(t)
  \/ WaitRelockTimedOut(t)
  \/ WaitDecrement(t)
  \/ SignalPost(t)
  \/ SignalDecrement(t)
  \/ BroadcastPost(t)
  \/ BroadcastZero(t)

(* The calls a client may make *)
Begin(t) ==
  \/ CondInit(t)
  \/ ClientLock(t)
  \/ ClientUnlock(t)
  \/ \E d \in Deadlines : WaitEnter(t, d)
  \/ SignalTest(t)
  \/ BroadcastEnter(t)

Next == \E t \in Threads : Begin(t) \/ Continue(t)

Spec == Init /\ [][Next]_vars

(* The kernel runs ready tasks and serves the waiters of a mutex in turn;   *)
(* a client that holds the mutex unlocks it in the end, however often it    *)
(* signals or broadcasts before it does.                                    *)
FairSpec ==
  /\ Spec
  /\ \A t \in Threads : SF_vars(Continue(t)) /\ SF_vars(ClientUnlock(t))

-----------------------------------------------------------------------------
(* Types: in particular the semaphore never gets a negative value, whatever *)
(* sem_post_n does with the negative count a broadcast can hand to it.      *)
TypeOK ==
  /\ mux \in [inited : BOOLEAN, type : MutexTypes,
              m : [own : Threads \cup {NoTask}, depth : Nat]]
  /\ cond \in [inited : BOOLEAN, own : Threads \cup {NoTask},
               val : Nat, waiting : Int]
  /\ pc \in [Threads -> Labels]
  /\ slp \in [Threads -> Sleeps]
  /\ locked \in [Threads -> BOOLEAN]
  /\ owed \in SUBSET Threads

(* No wake-up is lost: whenever the test of pthread_cond_signal would find  *)
(* nobody waiting, the semaphore already holds a unit for every thread that *)
(* registered.  Timeouts racing signals, and waits that fail, included.     *)
NoLostWakeup == cond.waiting <= 0 => Cardinality(Registered) <= cond.val

(* Every timed wait returns, whether or not it is signalled: no interleaving*)
(* of timeouts, signals and broadcasts leaves cond->mux or the mutex locked.*)
TimedWaitReturns ==
  \A t \in Threads : (pc[t] = "sem" /\ slp[t] = "ticks") ~> (pc[t] = "idle")

-----------------------------------------------------------------------------
(* Statements of the sources that the code does not keep. *)

(* posix_pthread_cond.c:137, "When successful, relock mux.": a wait that    *)
(* returns 0 returns with the mutex.                                        *)
WaitReturnsLocked ==
  [][\A t \in Threads :
       (pc[t] = "relock" /\ pc'[t] = "idle" /\ locked'[t]) =>
          mux'.m.own = t]_vars

(* posix_pthread_cond.c:64, "All threads were unblocked": each thread that  *)
(* a broadcast counted finds a unit of the semaphore when it gets there.    *)
BroadcastUnblocksAll ==
  (\A t \in Threads : pc[t] # "bzero") => Cardinality(owed) <= cond.val

(* hcos_types.h:88, waiting is "The number of threads currently waiting on  *)
(* this condition variable": never negative,                                *)
WaitingNotNegative == cond.waiting >= 0

(* and never more than the threads that wait.                               *)
WaitingNotAboveWaiters == cond.waiting <= Cardinality(Registered)

=============================================================================
