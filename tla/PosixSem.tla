------------------------------ MODULE PosixSem ------------------------------
(***************************************************************************)
(* src/src/posix_semaphore.c with the clock it reads: one sem_t, the       *)
(* kernel's tick counter, and threads that wait until some of Timespecs.   *)
(*                                                                         *)
(* sem_timedwait reads the clock, turns the deadline into ticks and calls  *)
(* sem_get.  The kernel may run other threads, and its timer interrupt, in *)
(* between, so reading the clock and sleeping are steps of their own.      *)
(* tmr_ticks is an unsigned and wraps around.                              *)
(***************************************************************************)
EXTENDS AbsTicks

CONSTANTS
  Threads,      \* tasks of the application
  MaxVal        \* bound on the semaphore's value

ASSUME SemAssumption == MaxVal \in Nat

VARIABLES
  val,          \* value of the semaphore
  call,         \* call[t]: the sem_timedwait t is in, or Idle
  res           \* res[t]: what the last call of t returned, errno if -1;
                \* "0" during a call

vars == <<val, tmr_ticks, call, res>>

(* sem_get with sleep = WAIT blocks until a unit comes.  The kernel's value *)
(* of WAIT is not known here; no tick count of a deadline is taken for it.  *)
WAIT == -2

Codes == {"0", "EINVAL", "ETIMEDOUT", "EAGAIN"}

(* pc      - "idle", "get" (about to call sem_get) or "blocked" (in it)     *)
(* op      - the function called                                            *)
(* valid   - history: was the deadline a valid timespec?                    *)
(* ret     - the local variable ret: what the deadline's conversion gave    *)
(* due     - history: ns from the clock reading to the deadline             *)
(* sleep   - the ticks passed to sem_get                                    *)
(* left    - ticks until sem_get gives up                                   *)
(* elapsed - history: ticks since the clock was read, counted up to sleep   *)
Call(pc, op, valid, ret, due, sleep) ==
  [pc |-> pc, op |-> op, valid |-> valid, ret |-> ret, due |-> due,
   sleep |-> sleep, left |-> 0, elapsed |-> 0]

Idle == Call("idle", "none", TRUE, "0", 0, 0)

Init ==
  /\ val = 0
  /\ ClockInit
  /\ call = [t \in Threads |-> Idle]
  /\ res = [t \in Threads |-> "0"]

-----------------------------------------------------------------------------
(* sem_init_posix.  Clients do not initialize a semaphore that is in use. *)
SemInitPosix(value) ==
  /\ \A t \in Threads : call[t] = Idle
  /\ val' = value
  /\ UNCHANGED <<tmr_ticks, call, res>>

(* sem_post *)
SemPost ==
  /\ val < MaxVal
  /\ val' = val + 1
  /\ UNCHANGED <<tmr_ticks, call, res>>

(* What sem_timedwait makes of its deadline: the value of ret, and sleep.   *)
(* An invalid deadline and a past one become 0 ticks.  A valid deadline     *)
(* that is too far away is EINVAL too, but sleep then holds the truncated   *)
(* total.                                                                   *)
Conversion(abstime) ==
  LET c == Converted(abstime)
  IN  CASE ~validate_timespec(abstime)     -> [ret |-> "EINVAL", sleep |-> 0]
        [] validate_timespec(abstime)
             /\ c.code = "ETIMEDOUT"       -> [ret |-> "ETIMEDOUT", sleep |-> 0]
        [] OTHER -> [ret   |-> c.code,
                     sleep |-> IF c.ticks = Unset THEN WAIT ELSE c.ticks]

(* A past deadline that leaves sleep at its initial value WAIT. *)
Conversion_PastWaits(abstime) ==
  IF Conversion(abstime).ret = "ETIMEDOUT"
    THEN [ret |-> "ETIMEDOUT", sleep |-> WAIT]
    ELSE Conversion(abstime)

(* A sem_timedwait that does not reset sleep for a past deadline. *)
TimedwaitEnter_PastWaits(t, op, abstime) ==
  /\ call[t] = Idle
  /\ call' = [call EXCEPT ![t] =
       Call("get", op, validate_timespec(abstime), Conversion_PastWaits(abstime).ret,
            Nanos(abstime) - Nanos(clock_gettime(tmr_ticks)),
            Conversion_PastWaits(abstime).sleep)]
  /\ res' = [res EXCEPT ![t] = "0"]
  /\ UNCHANGED <<val, tmr_ticks>>

(* sem_timedwait up to sem_get *)
TimedwaitEnter(t, op, abstime) ==
  /\ call[t] = Idle
  /\ call' = [call EXCEPT ![t] =
       Call("get", op, validate_timespec(abstime), Conversion(abstime).ret,
            Nanos(abstime) - Nanos(clock_gettime(tmr_ticks)),
            Conversion(abstime).sleep)]
  /\ res' = [res EXCEPT ![t] = "0"]
  /\ UNCHANGED <<val, tmr_ticks>>

SemTimedwait(t) == \E ts \in Timespecs : TimedwaitEnter(t, "timedwait", ts)

(* sem_trywait waits until {0, 0} *)
SemTrywait(t) == TimedwaitEnter(t, "trywait", Timespec(0, 0))

(* sem_wait has no deadline: ret is 0 and sleep keeps its initial WAIT *)
SemWait(t) ==
  /\ call[t] = Idle
  /\ call' = [call EXCEPT ![t] = Call("get", "wait", TRUE, "0", 0, WAIT)]
  /\ res' = [res EXCEPT ![t] = "0"]
  /\ UNCHANGED <<val, tmr_ticks>>

(* errno of a call that did not get a unit; sem_trywait renames ETIMEDOUT *)
Errno(c) ==
  CASE c.op = "trywait" /\ c.ret \in {"0", "ETIMEDOUT"} -> "EAGAIN"
    [] c.op # "trywait" /\ c.ret = "0"                  -> "ETIMEDOUT"
    [] OTHER                                            -> c.ret

Return(t, code) ==
  /\ call' = [call EXCEPT ![t] = Idle]
  /\ res' = [res EXCEPT ![t] = code]

(* sem_get: a unit is taken at once, or the caller blocks if it may *)
SemGet(t) ==
  /\ call[t].pc = "get"
  /\ \/ val > 0 /\ val' = val - 1 /\ Return(t, "0")
     \/ val = 0 /\ call[t].sleep = 0 /\ Return(t, Errno(call[t])) /\ UNCHANGED val
     \/ /\ val = 0 /\ call[t].sleep # 0
        /\ call' = [call EXCEPT ![t].pc = "blocked", ![t].left = call[t].sleep]
        /\ UNCHANGED <<val, res>>
  /\ UNCHANGED tmr_ticks

(* A blocked thread gets a unit *)
SemGrant(t) ==
  /\ call[t].pc = "blocked"
  /\ val > 0
  /\ val' = val - 1
  /\ Return(t, "0")
  /\ UNCHANGED tmr_ticks

(* A blocked thread runs out of ticks *)
SemTimeout(t) ==
  /\ call[t].pc = "blocked"
  /\ val = 0
  /\ call[t].left = 0
  /\ Return(t, Errno(call[t]))
  /\ UNCHANGED <<val, tmr_ticks>>

(* The timer interrupt *)
Tick ==
  /\ ClockTick
  /\ call' = [t \in Threads |->
       [call[t] EXCEPT
          !.left    = IF call[t].pc = "blocked" /\ @ > 0 THEN @ - 1 ELSE @,
          !.elapsed = IF call[t].pc # "idle" /\ @ < call[t].sleep THEN @ + 1 ELSE @]]
  /\ UNCHANGED <<val, res>>

Next ==
  \/ \E value \in 0..MaxVal : SemInitPosix(value)
  \/ SemPost
  \/ \E t \in Threads :
       \/ SemWait(t) \/ SemTimedwait(t) \/ SemTrywait(t)
       \/ SemGet(t) \/ SemGrant(t) \/ SemTimeout(t)
  \/ Tick

Spec == Init /\ [][Next]_vars

(* The kernel runs ready tasks and its timer does not stop. *)
FairSpec ==
  /\ Spec
  /\ WF_vars(Tick)
  /\ \A t \in Threads : WF_vars(SemGet(t)) /\ WF_vars(SemGrant(t) \/ SemTimeout(t))

-----------------------------------------------------------------------------
(* Types.  A tick count handed to sem_get is an unsigned. *)
TypeOK ==
  /\ val \in Nat
  /\ tmr_ticks \in 0..UINT_MAX
  /\ res \in [Threads -> Codes]
  /\ \A t \in Threads :
       /\ call[t].pc \in {"idle", "get", "blocked"}
       /\ call[t].op \in {"none", "wait", "timedwait", "trywait"}
       /\ call[t].ret \in Codes \ {"EAGAIN"}
       /\ call[t].sleep \in 0..UINT_MAX \cup {WAIT}
       /\ call[t].left \in 0..UINT_MAX \cup {WAIT}
       /\ call[t].elapsed \in 0..UINT_MAX

(* A sem_timedwait never gives up with ETIMEDOUT before its deadline: the   *)
(* conversions lose nothing to rounding, borrow or carry, and it does not   *)
(* matter how long the thread is kept from sem_get after reading the clock, *)
(* or whether the clock wraps while it sleeps.                              *)
NeverEarly ==
  [][\A t \in Threads :
       (call[t].op = "timedwait" /\ call[t] # call'[t] /\ call'[t] = Idle
          /\ res'[t] = "ETIMEDOUT") =>
            call[t].elapsed * NANOSECONDS_PER_TICK >= call[t].due]_vars

(* "still attempt to take the semaphore without blocking, per POSIX spec":  *)
(* no call blocks whose deadline is not valid or has passed, sem_trywait's  *)
(* {0, 0} included, even when the clock has just wrapped to 0.              *)
NoTimeNoBlock ==
  \A t \in Threads :
    (/\ call[t].op \in {"timedwait", "trywait"}
     /\ ~call[t].valid \/ call[t].due <= 0) =>
        call[t].pc # "blocked"

(* Every call with a deadline returns, whether or not anybody posts: also   *)
(* a far one, whose ticks are truncated, and one the clock wraps around.    *)
TimedCallReturns ==
  \A t \in Threads :
    (call[t].op \in {"timedwait", "trywait"}) ~> (call[t] = Idle)

(* posix_semaphore.c:49, "If the provided timespec is invalid, still        *)
(* attempt to take the semaphore without blocking": a call that will report *)
(* its deadline as EINVAL does not block.                                   *)
EinvalDoesNotBlock ==
  \A t \in Threads : call[t].ret = "EINVAL" => call[t].pc # "blocked"

=============================================================================
