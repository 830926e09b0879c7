----------------------------- MODULE PosixTimer -----------------------------
(***************************************************************************)
(* src/src/posix_timer.c: one timer, the task that uses it and the timer   *)
(* interrupt.                                                              *)
(*                                                                         *)
(* The kernel counts ticks and calls timer_do from its interrupt when the  *)
(* counter reaches the timer's expire: before any task runs again, but     *)
(* between any two accesses of timer_settime and timer_gettime, which are  *)
(* steps of their own.  tmr_ticks is an unsigned and wraps around.         *)
(***************************************************************************)
EXTENDS AbsTicks

CONSTANT MaxLag \* bound on the ticks that come while timer_settime converts

ASSUME TimerAssumption == MaxLag \in Nat

VARIABLES
  timer,        \* the timer_internal_t
  call,         \* the call the task is in
  wish,         \* history: the notification the application waits for
  early         \* history: was there a notification too early, or unasked?

vars == <<tmr_ticks, timer, call, wish, early>>

Zero == Timespec(0, 0)

Requests == [value : Timespecs, interval : Timespecs, abs : BOOLEAN]

NoRequest == [value |-> Zero, interval |-> Zero, abs |-> FALSE]

(* mem: is it allocated?  active, expire: the kernel's timer.               *)
(* direct: SIGEV_THREAD without attributes, the notification is a call; if  *)
(* not, timer_do makes a pthread_create and ignores its result, or nothing  *)
NoTimer == [mem |-> FALSE, active |-> FALSE, expire |-> 0, period |-> 0, direct |-> FALSE]

(* set   - timer_settime, or timer_gettime alone?                           *)
(* n     - next_expire in either function                                   *)
(* value - what timer_gettime stored in it_value                            *)
(* hi    - history: ticks left when timer_gettime was called                *)
(* quiet - history: no notification since then                              *)
Idle == [pc |-> "idle", req |-> NoRequest, set |-> FALSE, n |-> 0, value |-> Zero,
         hi |-> 0, quiet |-> TRUE]

(* due   - ns from the request, or the last expiry, to the notification     *)
(* every - ns between further ones, none if not positive                    *)
(* since - ticks since the request or the last expiry                       *)
(* lag   - ticks between the reading of the clock and the start             *)
(* far, farEvery - due, or every, do not fit into an unsigned of ticks      *)
NoWish == [on |-> FALSE, due |-> 0, every |-> 0, since |-> 0, lag |-> 0,
           far |-> FALSE, farEvery |-> FALSE]

Init ==
  /\ ClockInit
  /\ timer = NoTimer
  /\ call = Idle
  /\ wish = NoWish
  /\ early = FALSE

Remaining == IF timer.active THEN Wrap(timer.expire - tmr_ticks) ELSE 0

-----------------------------------------------------------------------------
(* The kernel's timer, turned on at time now and off *)
tmr_on(tm, now, n) == [tm EXCEPT !.active = TRUE, !.expire = Wrap(now + n)]
tmr_of(tm) == [tm EXCEPT !.active = FALSE]

(* A timer_do that restarts the timer after the notification. *)
timer_do_NotifyFirst(tm, now, stop) ==
  LET notified == IF stop THEN tmr_of(tm) ELSE tm
  IN  IF tm.period > 0 THEN tmr_on(notified, now, tm.period) ELSE notified

(* timer_do: a periodic timer is on again before the notification function  *)
(* runs, which may turn it off (stop).                                      *)
timer_do(tm, now, stop) ==
  LET restarted == IF tm.period > 0 THEN tmr_on(tm, now, tm.period) ELSE tm
  IN  IF stop THEN tmr_of(restarted) ELSE restarted

(* What the application has been notified of, and waits for afterwards *)
Fulfilled(w, stop) ==
  IF stop \/ (w.every <= 0 /\ ~w.farEvery) THEN NoWish
    ELSE [w EXCEPT !.due = w.every, !.since = 0, !.lag = 0, !.far = w.farEvery]

(* timer_do on timer tm for wish w.  A notification function that is called *)
(* directly may call timer_settime to disarm the timer.                     *)
Expire(tm, w, now) ==
  \E stop \in IF tm.direct THEN BOOLEAN ELSE {FALSE} :
    /\ timer' = timer_do(tm, now, stop)
    /\ wish' = Fulfilled(w, stop)
    /\ early' = \/ early \/ ~w.on
                \/ ~w.far /\ w.since * NANOSECONDS_PER_TICK < w.due

(* No accepted request takes longer than this many ticks. *)
MaxSince == UINT_MAX + MaxLag

(* The wish after one more tick *)
Waited ==
  [wish EXCEPT !.since = IF wish.on /\ ~wish.far /\ @ <= MaxSince THEN @ + 1 ELSE @,
               !.lag = IF call.pc = "arm" /\ ~wish.far THEN @ + 1 ELSE @]

Tick ==
  /\ call.pc = "arm" => wish.lag < MaxLag
  /\ timer.active => timer.expire # Wrap(tmr_ticks + 1)
  /\ ClockTick
  /\ wish' = Waited
  /\ UNCHANGED <<timer, call, early>>

(* The tick that reaches expire: the interrupt calls timer_do *)
TickExpires ==
  /\ timer.active /\ timer.expire = Wrap(tmr_ticks + 1)
  /\ ClockTick
  /\ Expire(tmr_of(timer), Waited, Wrap(tmr_ticks + 1))
  /\ call' = [call EXCEPT !.quiet = FALSE]

-----------------------------------------------------------------------------
Goto(pc) == call' = [call EXCEPT !.pc = pc]

(* timer_create.  Without an allocator, and for SIGEV_SIGNAL, it fails and  *)
(* changes nothing.                                                         *)
Create(direct) ==
  /\ call = Idle /\ ~timer.mem
  /\ timer' = [NoTimer EXCEPT !.mem = TRUE, !.direct = direct]
  /\ UNCHANGED <<tmr_ticks, call, wish, early>>

(* No memory: memset clears the timer before the test for null; nothing is  *)
(* known of the program afterwards.                                         *)
CreateNoMemory ==
  /\ call = Idle /\ ~timer.mem
  /\ Goto("crashed")
  /\ UNCHANGED <<tmr_ticks, timer, wish, early>>

Delete ==
  /\ call = Idle /\ timer.mem
  /\ timer' = NoTimer
  /\ wish' = NoWish
  /\ UNCHANGED <<tmr_ticks, call, early>>

(* timer_gettime, alone or for the ovalue of timer_settime *)
GettimeEnter ==
  /\ call = Idle /\ timer.mem
  /\ call' = [Idle EXCEPT !.pc = "expire", !.hi = Remaining]
  /\ UNCHANGED <<tmr_ticks, timer, wish, early>>

(* A request is validated unless it disarms the timer *)
Accepted(r) ==
  r.value # Zero => validate_timespec(r.interval) /\ validate_timespec(r.value)

AfterOvalue(r) ==
  IF Accepted(r) THEN [Idle EXCEPT !.pc = "off", !.req = r, !.set = TRUE] ELSE Idle

(* timer_settime, with or without ovalue *)
SettimeEnter(r) ==
  /\ call = Idle /\ timer.mem
  /\ call' \in {[Idle EXCEPT !.pc = "expire", !.hi = Remaining, !.req = r, !.set = TRUE],
                AfterOvalue(r)}
  /\ UNCHANGED <<tmr_ticks, timer, wish, early>>

(* next_expire = timer->ost.expire - tmr_ticks: two loads *)
GetExpire ==
  /\ call.pc = "expire"
  /\ call' = [call EXCEPT !.pc = "ticks", !.n = timer.expire]
  /\ UNCHANGED <<tmr_ticks, timer, wish, early>>

(* A subtraction that does not wrap but stops at zero. *)
GetTicks_Saturates ==
  /\ call.pc = "ticks"
  /\ call' = [call EXCEPT !.pc = "active",
                          !.n = IF @ > tmr_ticks THEN @ - tmr_ticks ELSE 0]
  /\ UNCHANGED <<tmr_ticks, timer, wish, early>>

GetTicks ==
  /\ call.pc = "ticks"
  /\ call' = [call EXCEPT !.pc = "active", !.n = Wrap(@ - tmr_ticks)]
  /\ UNCHANGED <<tmr_ticks, timer, wish, early>>

(* it_value, if the timer is active; it_interval is the period *)
GetValue ==
  /\ call.pc = "active"
  /\ call' = [call EXCEPT !.pc = "stored", !.n = 0, !.value =
       IF timer.active
         THEN Timespec(call.n \div HZ, (call.n % HZ) * NANOSECONDS_PER_TICK)
         ELSE Zero]
  /\ UNCHANGED <<tmr_ticks, timer, wish, early>>

GetReturn ==
  /\ call.pc = "stored"
  /\ call' = IF call.set THEN AfterOvalue(call.req) ELSE Idle
  /\ UNCHANGED <<tmr_ticks, timer, wish, early>>

-----------------------------------------------------------------------------
(* The timer is stopped; it stays so if it_value is zero.  The period is    *)
(* left alone.                                                              *)
SettimeOff ==
  /\ call.pc = "off"
  /\ timer' = tmr_of(timer)
  /\ wish' = NoWish
  /\ call' = IF call.req.value = Zero THEN Idle ELSE [call EXCEPT !.pc = "convert"]
  /\ UNCHANGED <<tmr_ticks, early>>

(* it_value in ticks.  Any error of an absolute conversion becomes 0, any   *)
(* error of a relative one is ignored.                                      *)
Conversion(r) ==
  IF r.abs THEN Converted(r.value) ELSE timespec2ticks(r.value)

(* An absolute time taken for a relative one. *)
next_expire_Relative(r) == timespec2ticks(r.value).ticks

next_expire(r) ==
  IF r.abs /\ Conversion(r).code # "0" THEN 0 ELSE Conversion(r).ticks

(* Errors of the interval's conversion are ignored. *)
Period(r) == IF r.interval = Zero THEN 0 ELSE timespec2ticks(r.interval).ticks

SettimeConvert ==
  LET r == call.req
  IN  /\ call.pc = "convert"
      /\ timer' = [timer EXCEPT !.period = Period(r)]
      /\ call' = [call EXCEPT !.pc = "arm", !.n = next_expire(r)]
      /\ wish' = [NoWish EXCEPT
           !.on = TRUE, !.every = Nanos(r.interval),
           !.due = Nanos(r.value) - IF r.abs THEN Nanos(clock_gettime(tmr_ticks)) ELSE 0,
           !.far = Conversion(r).code = "EINVAL",
           !.farEvery = timespec2ticks(r.interval).code # "0"]
      /\ UNCHANGED <<tmr_ticks, early>>

(* Nothing left to wait for: timer_do runs in the calling task *)
SettimeNow ==
  /\ call.pc = "arm" /\ call.n = 0
  /\ Expire(timer, wish, tmr_ticks)
  /\ call' = Idle
  /\ UNCHANGED tmr_ticks

(* A timer that is only started if it is periodic. *)
SettimeOn_PeriodicOnly ==
  /\ call.pc = "arm" /\ call.n > 0
  /\ timer' = IF timer.period > 0 THEN tmr_on(timer, tmr_ticks, call.n) ELSE timer
  /\ call' = Idle
  /\ UNCHANGED <<tmr_ticks, wish, early>>

(* A timer that is started whatever is left to wait for. *)
SettimeOn_Always ==
  /\ call.pc = "arm"
  /\ timer' = tmr_on(timer, tmr_ticks, call.n)
  /\ call' = Idle
  /\ UNCHANGED <<tmr_ticks, wish, early>>

SettimeOn ==
  /\ call.pc = "arm" /\ call.n > 0
  /\ timer' = tmr_on(timer, tmr_ticks, call.n)
  /\ call' = Idle
  /\ UNCHANGED <<tmr_ticks, wish, early>>

-----------------------------------------------------------------------------
Step ==
  \/ GetExpire \/ GetTicks \/ GetValue \/ GetReturn
  \/ SettimeOff \/ SettimeConvert \/ SettimeNow \/ SettimeOn

Next ==
  \/ Tick \/ TickExpires
  \/ \E direct \in BOOLEAN : Create(direct)
  \/ CreateNoMemory \/ Delete \/ GettimeEnter
  \/ \E r \in Requests : SettimeEnter(r)
  \/ Step

Spec == Init /\ [][Next]_vars

(* The timer interrupt comes again and again, and the task is run. *)
FairSpec == Spec /\ WF_vars(Tick \/ TickExpires) /\ WF_vars(Step)

-----------------------------------------------------------------------------
(* Types.  A timer is never started with 0 ticks, which the kernel would    *)
(* take for a whole round of its counter.                                   *)
TypeOK ==
  /\ tmr_ticks \in 0..UINT_MAX
  /\ timer \in [mem : BOOLEAN, active : BOOLEAN, expire : 0..UINT_MAX,
                period : 0..UINT_MAX, direct : BOOLEAN]
  /\ timer.active => Remaining > 0
  /\ call.n \in 0..UINT_MAX
  /\ early \in BOOLEAN

(* No notification comes before its time: neither the first, relative or    *)
(* absolute, nor any of a periodic timer, also when the tick counter wraps  *)
(* on the way; and none comes for a request that was replaced or disarmed.  *)
(* Requests too far away for an unsigned are excepted.                      *)
NeverEarly == ~early

(* A running timer expires at the first tick that is not before its time,   *)
(* later only by the ticks that came while timer_settime converted.         *)
ExpiresOnTime ==
  timer.active /\ wish.on /\ ~wish.far =>
    LET n == wish.since + Remaining
    IN  /\ n * NANOSECONDS_PER_TICK >= wish.due
        /\ (n - 1 - wish.lag) * NANOSECONDS_PER_TICK < wish.due

(* Outside timer_settime the timer runs exactly if a notification is        *)
(* awaited: one-shot timers expire once, periodic ones are always           *)
(* restarted, a notification function that disarms its timer is not         *)
(* overruled, and a deleted timer is never touched by the interrupt.        *)
ArmedAsWanted ==
  /\ timer.active => timer.mem
  /\ call.pc \notin {"convert", "arm"} =>
       /\ timer.active => wish.on
       /\ wish.on /\ ~wish.far => timer.active

(* timer_gettime stores a time that was left at some moment of the call, if *)
(* no notification came during it.                                          *)
GettimeExact ==
  call.pc = "stored" /\ call.quiet =>
    /\ Nanos(call.value) >= Remaining * NANOSECONDS_PER_TICK
    /\ Nanos(call.value) <= call.hi * NANOSECONDS_PER_TICK

(* A notification that is awaited comes, unless it is no longer wanted.     *)
NotifiedInTime == (wish.since > 0) ~> (wish.since = 0)

-----------------------------------------------------------------------------
(* Statements of the sources that the code does not keep. *)

(* posix_timer.c:222, "If next_expire is still 0, that means that it_value  *)
(* specified an absolute timeout in the past."                              *)
ZeroMeansPast ==
  call.pc = "arm" /\ call.n = 0 => wish.due <= 0

(* posix_timer.c:241, "Set it_value only if the timer is armed. Otherwise,  *)
(* set it to 0.": a timer that is armed all the time is not reported as 0.  *)
ArmedIsNotZero ==
  call.pc = "stored" /\ timer.active /\ call.hi > 0 => call.value # Zero

(* time.h:220, "Get the amount of time until the timer expires.": never     *)
(* more than was left when the call began, or than a whole period.          *)
GettimeIsTimeLeft ==
  call.pc = "stored" =>
    \E n \in {call.hi, timer.period} : Nanos(call.value) <= n * NANOSECONDS_PER_TICK

=============================================================================
