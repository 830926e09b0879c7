----------------------------- MODULE HcosKernel -----------------------------
(***************************************************************************)
(* The part of the hyperC kernel (libhcos) that libposix is written on:    *)
(* mutexes (mut_t) and counting semaphores (sem_t).  The kernel is not in  *)
(* this repository; every operator here is read off how src/ uses it.      *)
(*                                                                         *)
(* Blocking calls take a tick count.  What the properties can tell apart   *)
(* is whether the call may give up:                                        *)
(*   "WAIT"  - block until the object is available (the macro WAIT);       *)
(*   "ticks" - a finite number of ticks, zero (WAIT_NO) included: the call *)
(*             fails if the object is still unavailable when they are over.*)
(* A blocking call is an operator that gives the SET of the object's       *)
(* possible next values; the empty set means that the caller is blocked.   *)
(***************************************************************************)
EXTENDS Integers

CONSTANTS
  Threads,      \* tasks of the application
  NoTask,       \* value of mut_t.own while the mutex is free
  RelockNests   \* does mut_lock by the owner nest, or block like any other?

ASSUME KernelAssumption ==
  /\ NoTask \notin Threads
  /\ RelockNests \in BOOLEAN

Sleeps == {"WAIT", "ticks"}

-----------------------------------------------------------------------------
(* mut_t: the owning task, and how often it locked the mutex. *)

MutFree == [own |-> NoTask, depth |-> 0]

MutTaken(m, t) == [own |-> t, depth |-> m.depth + 1]

MutReleased(m) == IF m.depth > 1 THEN [m EXCEPT !.depth = @ - 1] ELSE MutFree

MutAvailable(m, t) == m.own = NoTask \/ (RelockNests /\ m.own = t)

(* mut_lock(m, sleep): taken, or left alone when the ticks run out. *)
MutLockOutcomes(m, t, sleep) ==
  CASE MutAvailable(m, t)                       -> {MutTaken(m, t)}
    [] ~MutAvailable(m, t) /\ sleep = "ticks"   -> {m}
    [] OTHER                                    -> {}

(* mut_unlock(m).  libposix calls it for a NORMAL mutex without looking at  *)
(* the owner; whether the kernel then refuses or releases is not specified. *)
MutUnlockOutcomes(m, t) ==
  IF m.own = t THEN {MutReleased(m)} ELSE {m, MutReleased(m)}

-----------------------------------------------------------------------------
(* sem_t: the field val.  sem_get takes one unit or fails when its ticks    *)
(* run out.  sem_post_n(s, n) adds n; pthread_cond_broadcast can pass a     *)
(* negative n, of which nothing is known but that it either wraps around    *)
(* to val + n or posts nothing.                                            *)

SemPostN(val, n) == IF n >= 0 THEN {val + n} ELSE {val, val + n}

=============================================================================
