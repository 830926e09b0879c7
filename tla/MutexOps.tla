------------------------------ MODULE MutexOps ------------------------------
(***************************************************************************)
(* The calls of src/src/posix_pthread_mutex.c as operators on the value of *)
(* a pthread_mutex_t, shared by the mutex component and by the condition   *)
(* variables that call it.                                                 *)
(*                                                                         *)
(* A deadline (const struct timespec *abstime) is what the code learns of  *)
(* it: "null" (no deadline), "past" (abs_timespec2ticks returns ETIMEDOUT),*)
(* "future" (it returns 0 and a tick count) or "einval" (it returns EINVAL).*)
(* Module TimeUtils models that conversion itself.                         *)
(***************************************************************************)
EXTENDS HcosKernel

Deadlines == {"null", "past", "future", "einval"}

MutexTypes == {"NORMAL", "ERRORCHECK", "RECURSIVE"}

(* PTHREAD_MUTEX_INITIALIZER: all fields zero, and type 0 is NORMAL. *)
MutexUninit == [inited |-> FALSE, type |-> "NORMAL", m |-> MutFree]

(* pthread_mutex_init with the type taken from the attributes *)
MutexInited(type) == [inited |-> TRUE, type |-> type, m |-> MutFree]

-----------------------------------------------------------------------------
(* A deadlock check that looks at the wrong type. *)
TimedlockCheck_WrongType(mx, t, abstime) ==
  CASE ~mx.inited                                        -> "EINVAL"
    [] mx.inited /\ abstime = "einval"                   -> "EINVAL"
    [] mx.inited /\ abstime # "einval"
         /\ mx.type = "RECURSIVE" /\ mx.m.own = t        -> "EDEADLK"
    [] OTHER                                             -> "0"

(* The part of pthread_mutex_timedlock before mut_lock: "0" means that it   *)
(* goes on to mut_lock.  A deadline in the past is not an error here.       *)
TimedlockCheck(mx, t, abstime) ==
  CASE ~mx.inited                                        -> "EINVAL"
    [] mx.inited /\ abstime = "einval"                   -> "EINVAL"
    [] mx.inited /\ abstime # "einval"
         /\ mx.type = "ERRORCHECK" /\ mx.m.own = t       -> "EDEADLK"
    [] OTHER                                             -> "0"

(* A past deadline that keeps the initial WAIT instead of becoming 0 ticks. *)
SleepChoices_PastWaits(abstime) ==
  IF abstime \in {"null", "past"} THEN {"WAIT"} ELSE {"ticks"}

(* The ticks pthread_mutex_timedlock hands to mut_lock.  Without a deadline *)
(* nothing ever assigns sleep_ticks: the automatic variable holds whatever  *)
(* was on the stack, so any tick count, WAIT included, is possible.         *)
SleepChoices(abstime) ==
  IF abstime = "null" THEN Sleeps ELSE {"ticks"}

(* An ownership check that forgets the RECURSIVE type. *)
UnlockCheck_NoRecursive(mx, t) ==
  CASE ~mx.inited                                                  -> "EINVAL"
    [] mx.inited /\ mx.type = "ERRORCHECK" /\ mx.m.own # t         -> "EPERM"
    [] OTHER                                                       -> "0"

(* The part of pthread_mutex_unlock before mut_unlock. *)
UnlockCheck(mx, t) ==
  CASE ~mx.inited                                                  -> "EINVAL"
    [] mx.inited /\ mx.type \in {"ERRORCHECK", "RECURSIVE"}
         /\ mx.m.own # t                                           -> "EPERM"
    [] OTHER                                                       -> "0"

=============================================================================
