---------------------------- MODULE PthreadMutex ----------------------------
(***************************************************************************)
(* src/src/posix_pthread_mutex.c: one pthread_mutex_t and one              *)
(* pthread_mutexattr_t used by a set of threads.  A thread is either       *)
(* outside libposix ("idle") or inside the mut_lock call that              *)
(* pthread_mutex_timedlock makes; everything before and after that call    *)
(* touches no state another thread can change under it (the owner test     *)
(* compares mux.own with the caller, which only the caller can make true   *)
(* or false), so a call is two steps: up to mut_lock, and mut_lock itself. *)
(***************************************************************************)
EXTENDS MutexOps

CONSTANT
  MaxClaims     \* bound: locks a thread believes to hold at a time

ASSUME MutexAssumption == MaxClaims \in Nat \ {0}

VARIABLES
  mux,      \* the pthread_mutex_t: inited, attr.type and the kernel mutex m
  attr,     \* the pthread_mutexattr_t's type
  call,     \* call[t]: [op, sleep] of the call t is in, op = "idle" if none
  ret,      \* ret[t]: what the last call of t returned
  claims    \* history: lock calls that told t "0", minus its unlock calls

vars == <<mux, attr, call, ret, claims>>

LockOps == {"lock", "timedlock", "trylock"}

Idle == [op |-> "idle", sleep |-> "ticks"]

Codes == {"0", "EINVAL", "EDEADLK", "EPERM"}

Init ==
  /\ mux = MutexUninit
  /\ attr = "NORMAL"
  /\ call = [t \in Threads |-> Idle]
  /\ ret = [t \in Threads |-> "0"]
  /\ claims = [t \in Threads |-> 0]

-----------------------------------------------------------------------------
(* pthread_mutexattr_init *)
MutexattrInit ==
  /\ attr' = "NORMAL"
  /\ UNCHANGED <<mux, call, ret, claims>>

(* A settype without the switch. *)
MutexattrSettype_Unchecked(t, type) ==
  /\ call[t] = Idle
  /\ attr' = type
  /\ ret' = [ret EXCEPT ![t] = "0"]
  /\ UNCHANGED <<mux, call, claims>>

(* pthread_mutexattr_settype: the switch accepts the three types only *)
MutexattrSettype(t, type) ==
  /\ call[t] = Idle
  /\ attr' = IF type \in MutexTypes THEN type ELSE attr
  /\ ret' = [ret EXCEPT ![t] = IF type \in MutexTypes THEN "0" ELSE "EINVAL"]
  /\ UNCHANGED <<mux, call, claims>>

(* pthread_mutex_init, with or without attributes.  Initializing an object  *)
(* that is already initialized is undefined in POSIX and not modelled.      *)
MutexInit(t, withAttr) ==
  /\ call[t] = Idle
  /\ ~mux.inited
  /\ mux' = MutexInited(IF withAttr THEN attr ELSE "NORMAL")
  /\ ret' = [ret EXCEPT ![t] = "0"]
  /\ UNCHANGED <<attr, call, claims>>

(* pthread_mutex_timedlock up to mut_lock.  pthread_mutex_lock is the call  *)
(* without a deadline, pthread_mutex_trylock the one with deadline {0, 0}.  *)
TimedlockEnter(t, op, abstime) ==
  /\ call[t] = Idle
  /\ claims[t] < MaxClaims
  /\ \/ /\ TimedlockCheck(mux, t, abstime) # "0"
        /\ ret' = [ret EXCEPT ![t] = TimedlockCheck(mux, t, abstime)]
        /\ UNCHANGED call
     \/ /\ TimedlockCheck(mux, t, abstime) = "0"
        /\ \E s \in SleepChoices(abstime) :
             call' = [call EXCEPT ![t] = [op |-> op, sleep |-> s]]
        /\ UNCHANGED ret
  /\ UNCHANGED <<mux, attr, claims>>

MutexLock(t)      == TimedlockEnter(t, "lock", "null")
MutexTimedlock(t) ==
  \E d \in Deadlines \ {"null"} : TimedlockEnter(t, "timedlock", d)
MutexTrylock(t)   == TimedlockEnter(t, "trylock", "past")

(* mut_lock answers EDEADLK to the caller although it took the mutex. *)
TimedlockMutLock_TakenNotTold(t) ==
  /\ call[t].op \in LockOps
  /\ \E m \in MutLockOutcomes(mux.m, t, call[t].sleep) :
       /\ mux' = [mux EXCEPT !.m = m]
       /\ ret' = [ret EXCEPT ![t] = IF m = mux.m THEN "0" ELSE "EDEADLK"]
       /\ claims' = [claims EXCEPT ![t] = IF m = mux.m THEN @ + 1 ELSE @]
  /\ call' = [call EXCEPT ![t] = Idle]
  /\ UNCHANGED attr

(* The mut_lock call.  Its result is dropped and ret is still 0, so that    *)
(* pthread_mutex_trylock never sees the ETIMEDOUT it turns into EBUSY.      *)
TimedlockMutLock(t) ==
  /\ call[t].op \in LockOps
  /\ \E m \in MutLockOutcomes(mux.m, t, call[t].sleep) :
       mux' = [mux EXCEPT !.m = m]
  /\ ret' = [ret EXCEPT ![t] = "0"]
  /\ claims' = [claims EXCEPT ![t] = @ + 1]
  /\ call' = [call EXCEPT ![t] = Idle]
  /\ UNCHANGED attr

(* pthread_mutex_unlock *)
MutexUnlock(t) ==
  /\ call[t] = Idle
  /\ ret' = [ret EXCEPT ![t] = UnlockCheck(mux, t)]
  /\ \/ /\ UnlockCheck(mux, t) # "0"
        /\ UNCHANGED <<mux, claims>>
     \/ /\ UnlockCheck(mux, t) = "0"
        /\ \E m \in MutUnlockOutcomes(mux.m, t) :
             mux' = [mux EXCEPT !.m = m]
        /\ claims' = [claims EXCEPT ![t] = IF @ > 0 THEN @ - 1 ELSE 0]
  /\ UNCHANGED <<attr, call>>

Next ==
  \/ MutexattrInit
  \/ \E t \in Threads :
       \/ \E type \in MutexTypes \cup {"bad"} : MutexattrSettype(t, type)
       \/ \E withAttr \in BOOLEAN : MutexInit(t, withAttr)
       \/ MutexLock(t)
       \/ MutexTimedlock(t)
       \/ MutexTrylock(t)
       \/ TimedlockMutLock(t)
       \/ MutexUnlock(t)

Spec == Init /\ [][Next]_vars

(* Fairness of the kernel: it runs a task that is ready, ends a wait whose  *)
(* ticks are over, and grants a mutex to its waiters in turn.               *)
FairSpec ==
  Spec /\ \A t \in Threads : SF_vars(TimedlockMutLock(t))

-----------------------------------------------------------------------------
(* Every variable has its type; the type of the mutex is one of the three   *)
(* the switch in pthread_mutexattr_settype accepts.                         *)
TypeOK ==
  /\ mux \in [inited : BOOLEAN, type : MutexTypes,
              m : [own : Threads \cup {NoTask}, depth : Nat]]
  /\ attr \in MutexTypes
  /\ call \in [Threads -> [op : LockOps \cup {"idle"}, sleep : Sleeps]]
  /\ ret \in [Threads -> Codes]
  /\ claims \in [Threads -> Nat]

(* No orphaned lock: a thread never owns the kernel mutex more often than   *)
(* it was told so by a lock call returning 0.  Were the mutex taken on a    *)
(* path that returns an error, nobody would ever give it back.              *)
NoOrphanLock ==
  \A t \in Threads : mux.m.own = t => mux.m.depth <= claims[t]

(* The EDEADLK test of pthread_mutex_timedlock works: a thread is never     *)
(* inside mut_lock for an ERRORCHECK mutex that it owns itself, however the *)
(* calls of the threads interleave between the test and mut_lock.           *)
NoSelfDeadlock ==
  mux.type = "ERRORCHECK" =>
    \A t \in Threads : call[t].op # "idle" => mux.m.own # t

(* For the types that remember their owner, the mutex passes out of a       *)
(* thread's hands only by a successful unlock of that thread: a thread that *)
(* got 0 from a lock call without getting the mutex cannot release it.      *)
OnlyOwnerReleases ==
  [][\A t \in Threads :
       (mux.type # "NORMAL" /\ mux.m.own = t /\ mux'.m.own # t) =>
          claims'[t] < claims[t]]_vars

(* A lock call with a deadline, trylock's {0, 0} included, returns even     *)
(* when the owner never unlocks: only fairness of the kernel is assumed.    *)
DeadlineReturns ==
  \A t \in Threads :
    (call[t].op \in {"timedlock", "trylock"}) ~> (call[t].op = "idle")

(* pthread_mutex_trylock as pthread.h announces it: "Fail immediately if    *)
(* mutex is already locked", i.e. a trylock that returns 0 got the mutex.   *)
TrylockFailsIfLocked ==
  [][\A t \in Threads :
       (call[t].op = "trylock" /\ call'[t].op = "idle" /\ ret'[t] = "0") =>
          mux'.m.own = t]_vars

(* pthread_mutex_lock as pthread.h announces it ("Lock a mutex."): when it  *)
(* returns 0 the caller owns the mutex.                                     *)
LockReturnsLocked ==
  [][\A t \in Threads :
       (call[t].op = "lock" /\ call'[t].op = "idle" /\ ret'[t] = "0") =>
          mux'.m.own = t]_vars

(* Relocking as the comments on the mutex types announce it: NORMAL says    *)
(* "deadlock on relock", RECURSIVE says "recursive relock".  The code hands *)
(* both to the same mut_lock, so whichever way the kernel treats a relock   *)
(* by the owner, one of the two comments is wrong.                          *)
RelockByType ==
  \A t \in Threads :
    (call[t].op # "idle" /\ mux.m.own = t) =>
      /\ mux.type = "NORMAL"    => ~MutAvailable(mux.m, t)
      /\ mux.type = "RECURSIVE" => MutAvailable(mux.m, t)

=============================================================================
