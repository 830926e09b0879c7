-------------------------- MODULE PosixTimerProofs --------------------------
(***************************************************************************)
(* Proofs about timers, for any requests, every tick rate that divides a   *)
(* second, every width of the tick counter and every delay in              *)
(* timer_settime.                                                          *)
(***************************************************************************)
EXTENDS PosixTimer, AbsTicksProofs

Ticks == 0..UINT_MAX

Timers == [mem : BOOLEAN, active : BOOLEAN, expire : Ticks, period : Ticks, direct : BOOLEAN]

(* A pair of any two integers *)
IntTimespecs == [tv_sec : Int, tv_nsec : Int]

IntRequests == [value : IntTimespecs, interval : IntTimespecs, abs : BOOLEAN]

GetPcs == {"expire", "ticks", "active", "stored"}

SetPcs == {"off", "convert", "arm"}

Calls ==
  [pc : {"idle", "crashed"} \cup GetPcs \cup SetPcs, req : IntRequests, set : BOOLEAN,
   n : Ticks, value : IntTimespecs, hi : Ticks, quiet : BOOLEAN]

Wishes ==
  [on : BOOLEAN, due : Int, every : Int, since : Nat, lag : Nat, far : BOOLEAN,
   farEvery : BOOLEAN]

Types ==
  /\ tmr_ticks \in Ticks
  /\ timer \in Timers
  /\ call \in Calls
  /\ wish \in Wishes
  /\ early = FALSE

(* Whoever is in a call, or waits for a notification, has a timer.          *)
HasTimer ==
  /\ call.pc \in GetPcs \cup SetPcs => timer.mem
  /\ timer.active \/ wish.on => timer.mem

(* n ticks cover due ns, and none of the n is superfluous.                  *)
Fits(n, due) ==
  /\ n * NANOSECONDS_PER_TICK >= due
  /\ n > 0 => (n - 1) * NANOSECONDS_PER_TICK < due

(* timer_settime goes on with a request it accepted, the timer turned off;  *)
(* next_expire fits the time asked for, and the time spent is counted.      *)
Setting ==
  /\ call.pc \in {"off", "convert"} => Accepted(call.req)
  /\ call.pc = "convert" => call.req.value # Zero
  /\ call.pc \in {"convert", "arm"} => ~timer.active
  /\ call.pc = "arm" => wish.on
  /\ call.pc = "arm" /\ ~wish.far => Fits(call.n, wish.due) /\ wish.since = wish.lag

(* A running timer has ticks left, and with those that have passed they     *)
(* are as many as were asked for, and the lag.                              *)
Running ==
  /\ timer.active => Remaining > 0
  /\ wish.lag <= MaxLag
  /\ timer.active /\ wish.on /\ ~wish.far =>
       LET n == wish.since + Remaining
       IN  /\ n * NANOSECONDS_PER_TICK >= wish.due
           /\ (n - 1 - wish.lag) * NANOSECONDS_PER_TICK < wish.due
           /\ n <= UINT_MAX + wish.lag

(* The period fits the interval that the application asked for.             *)
Periodic == wish.on /\ ~wish.farEvery => Fits(timer.period, wish.every)

(* What timer_gettime has read, as long as no notification came             *)
Getting ==
  call.quiet =>
    /\ call.pc \in {"expire", "ticks"} => Remaining <= call.hi
    /\ call.pc = "ticks" => call.n = timer.expire
    /\ call.pc = "active" /\ timer.active => Remaining <= call.n /\ call.n <= call.hi

(* The inductive invariant *)
IInv ==
  /\ Types /\ HasTimer /\ Setting /\ Running /\ Periodic /\ Getting
  /\ ArmedAsWanted /\ GettimeExact

-----------------------------------------------------------------------------
(* A counter that wraps *)

LEMMA IntDivMod ==
  ASSUME NEW a \in Int, NEW d \in Nat \ {0}
  PROVE  /\ a \div d \in Int
         /\ a % d \in 0..(d - 1)
         /\ a = d * (a \div d) + (a % d)
  OBVIOUS

LEMMA ModUnique ==
  ASSUME NEW d \in Nat \ {0}, NEW k \in Int, NEW s \in 0..(d - 1), NEW a \in Int,
         a = k * d + s
  PROVE  a % d = s
<1> DEFINE q == a \div d
           r == a % d
<1>1. q \in Int /\ r \in 0..(d - 1) /\ a = d * q + r
  BY IntDivMod
<1> HIDE DEF q, r
<1>2. q * d \in Int /\ k * d \in Int /\ a = q * d + r
  BY <1>1
<1>3. CASE q + 1 <= k
  <2>1. (q + 1) * d <= k * d /\ (q + 1) * d = q * d + d
    BY <1>1, <1>3, MulMonotone, MulDiff
  <2> QED BY <1>1, <1>2, <2>1
<1>4. CASE k + 1 <= q
  <2>1. (k + 1) * d <= q * d /\ (k + 1) * d = k * d + d
    BY <1>1, <1>4, MulMonotone, MulDiff
  <2> QED BY <1>1, <1>2, <2>1
<1>5. CASE q = k
  BY <1>1, <1>2, <1>5 DEF r
<1> QED BY <1>1, <1>3, <1>4, <1>5

LEMMA WrapCases ==
  ASSUME NEW a \in Int
  PROVE  /\ -UINT_MAX <= a /\ a < 0 => Wrap(a) = a + (UINT_MAX + 1)
         /\ 0 <= a /\ a <= UINT_MAX => Wrap(a) = a
         /\ UINT_MAX < a /\ a <= 2 * UINT_MAX + 1 => Wrap(a) = a - (UINT_MAX + 1)
<1> DEFINE d == UINT_MAX + 1
<1>1. UINT_MAX \in Nat /\ d \in Nat \ {0} /\ UINT_MAX = d - 1
  BY TimeAssumption
<1> HIDE DEF d
<1>2. ASSUME -UINT_MAX <= a, a < 0 PROVE a % d = a + d
  <2>1. a + d \in 0..(d - 1) /\ a = (-1) * d + (a + d)
    BY <1>1, <1>2
  <2> QED BY <1>1, <2>1, ModUnique
<1>3. ASSUME 0 <= a, a <= UINT_MAX PROVE a % d = a
  <2>1. a \in 0..(d - 1) /\ a = 0 * d + a
    BY <1>1, <1>3
  <2> QED BY <1>1, <2>1, ModUnique
<1>4. ASSUME UINT_MAX < a, a <= 2 * UINT_MAX + 1 PROVE a % d = a - d
  <2>1. a - d \in 0..(d - 1) /\ a = 1 * d + (a - d)
    BY <1>1, <1>4
  <2> QED BY <1>1, <2>1, ModUnique
<1> QED BY <1>2, <1>3, <1>4 DEF Wrap, d

LEMMA LeftAfterStart ==
  ASSUME NEW now \in Ticks, NEW n \in Ticks
  PROVE  Wrap(now + n) \in Ticks /\ Wrap(Wrap(now + n) - now) = n
<1>1. UINT_MAX \in Nat /\ now \in 0..UINT_MAX /\ n \in 0..UINT_MAX
  BY TimeAssumption DEF Ticks
<1>2. CASE now + n <= UINT_MAX
  <2>1. Wrap(now + n) = now + n
    BY <1>1, <1>2, WrapCases
  <2>2. Wrap(n) = n /\ (now + n) - now = n
    BY <1>1, WrapCases
  <2> QED BY <1>1, <1>2, <2>1, <2>2 DEF Ticks
<1>3. CASE ~(now + n <= UINT_MAX)
  <2> DEFINE a == now + n
             b == n - (UINT_MAX + 1)
  <2>1. a \in Int /\ UINT_MAX < a /\ a <= 2 * UINT_MAX + 1
    BY <1>1, <1>3
  <2>2. Wrap(a) = a - (UINT_MAX + 1)
    BY <2>1, WrapCases
  <2>3. b \in Int /\ -UINT_MAX <= b /\ b < 0
    BY <1>1, <1>3
  <2>4. Wrap(b) = n
    <3>1. Wrap(b) = b + (UINT_MAX + 1)
      <4> HIDE DEF b
      <4> QED BY <2>3, WrapCases
    <3> QED BY <1>1, <3>1
  <2>5. Wrap(a) - now = b /\ Wrap(a) \in 0..UINT_MAX
    BY <1>1, <1>3, <2>2
  <2> QED BY <2>4, <2>5 DEF Ticks
<1> QED BY <1>2, <1>3

(* The difference of two readings, as an integer *)
LEMMA LeftCases ==
  ASSUME NEW e \in Ticks, NEW now \in Ticks
  PROVE  Wrap(e - now) = IF e >= now THEN e - now ELSE e - now + (UINT_MAX + 1)
<1> DEFINE a == e - now
<1>1. UINT_MAX \in Nat /\ a \in Int /\ -UINT_MAX <= a /\ a <= UINT_MAX
      /\ (e >= now <=> a >= 0)
  BY TimeAssumption DEF Ticks
<1> HIDE DEF a
<1>2. Wrap(a) = IF e >= now THEN a ELSE a + (UINT_MAX + 1)
  BY <1>1, WrapCases
<1> QED BY <1>2 DEF a

LEMMA NextTick ==
  ASSUME NEW now \in Ticks
  PROVE  Wrap(now + 1) = IF now = UINT_MAX THEN 0 ELSE now + 1
<1> DEFINE a == now + 1
<1>1. UINT_MAX \in Nat /\ a \in Int /\ 0 <= a /\ a <= UINT_MAX + 1 /\ now \in Int
      /\ (now = UINT_MAX <=> a > UINT_MAX)
  BY TimeAssumption DEF Ticks
<1>2. Wrap(a) = IF now = UINT_MAX THEN a - (UINT_MAX + 1) ELSE a
  <2> HIDE DEF a
  <2> QED BY <1>1, WrapCases
<1> QED BY <1>1, <1>2

LEMMA LeftAfterTick ==
  ASSUME NEW e \in Ticks, NEW now \in Ticks, Wrap(e - now) > 0, e # Wrap(now + 1)
  PROVE  /\ Wrap(now + 1) \in Ticks
         /\ Wrap(e - Wrap(now + 1)) = Wrap(e - now) - 1
         /\ Wrap(e - Wrap(now + 1)) > 0
<1>1. Wrap(now + 1) \in Ticks
  BY NextTick, TimeAssumption DEF Ticks
<1>2. UINT_MAX \in Nat
  BY TimeAssumption
<1> DEFINE next == Wrap(now + 1)
           left == Wrap(e - now)
           after == Wrap(e - next)
<1>3. next = IF now = UINT_MAX THEN 0 ELSE now + 1
  BY NextTick
<1>4. left = IF e >= now THEN e - now ELSE e - now + (UINT_MAX + 1)
  BY LeftCases
<1>5. after = IF e >= next THEN e - next ELSE e - next + (UINT_MAX + 1)
  BY <1>1, LeftCases
<1>6. left > 0 /\ e # next /\ e \in 0..UINT_MAX /\ now \in 0..UINT_MAX /\ next \in 0..UINT_MAX
  BY <1>1 DEF Ticks
<1> HIDE DEF next, left, after
<1>7. after = left - 1 /\ after > 0
  BY <1>2, <1>3, <1>4, <1>5, <1>6
<1> QED BY <1>1, <1>7 DEF next, left, after

LEMMA LeftAtExpiry ==
  ASSUME NEW e \in Ticks, NEW now \in Ticks, e = Wrap(now + 1)
  PROVE  Wrap(e - now) = 1
  BY LeftCases, NextTick, TimeAssumption DEF Ticks

LEMMA LeftRange ==
  ASSUME NEW e \in Ticks, NEW now \in Ticks
  PROVE  Wrap(e - now) \in Ticks
<1>1. Wrap(e - now) = IF e >= now THEN e - now ELSE e - now + (UINT_MAX + 1)
  BY LeftCases
<1> QED BY <1>1, TimeAssumption DEF Ticks

-----------------------------------------------------------------------------
(* The conversions of timer_settime *)

LEMMA IntIsTimespec ==
  ASSUME NEW ts \in IntTimespecs
  PROVE  IsTimespec(ts)
  BY DEF IntTimespecs, IsTimespec, Timespec

LEMMA TimespecIsInt ==
  /\ Timespecs \subseteq IntTimespecs
  /\ Zero \in IntTimespecs
  /\ Requests \subseteq IntRequests
  /\ NoRequest \in IntRequests
<1>1. Timespecs \subseteq IntTimespecs
  BY TimespecsAssumption DEF IntTimespecs, Timespec
<1>2. Zero \in IntTimespecs
  BY DEF IntTimespecs, Timespec, Zero
<1> QED BY <1>1, <1>2 DEF Requests, IntRequests, NoRequest

LEMMA RelativeTicks ==
  ASSUME NEW ts \in IntTimespecs, validate_timespec(ts)
  PROVE  /\ timespec2ticks(ts).ticks \in Ticks
         /\ timespec2ticks(ts).code \in {"0", "EINVAL"}
         /\ timespec2ticks(ts).code = "0" => Fits(timespec2ticks(ts).ticks, Nanos(ts))
<1>1. /\ TotalTicks(ts) \in Int
      /\ TotalTicks(ts) * NANOSECONDS_PER_TICK >= Nanos(ts)
      /\ (TotalTicks(ts) - 1) * NANOSECONDS_PER_TICK < Nanos(ts)
  BY IntIsTimespec, TicksExact
<1>2. TotalTicks(ts) % (UINT_MAX + 1) \in 0..UINT_MAX
  BY <1>1, WrapRange DEF Wrap
<1> QED BY <1>1, <1>2 DEF timespec2ticks, Ticks, Fits

LEMMA ZeroFits == Nanos(Zero) = 0 /\ Fits(0, 0)
<1>1. NSPS \in Nat /\ NANOSECONDS_PER_TICK \in Nat
  BY TimeAssumption, TickLength
<1> QED BY <1>1 DEF Nanos, Zero, Timespec, Fits

LEMMA PeriodFacts ==
  ASSUME NEW ts \in IntTimespecs, validate_timespec(ts), NEW r, r.interval = ts
  PROVE  /\ Period(r) \in Ticks
         /\ timespec2ticks(ts).code = "0" => Fits(Period(r), Nanos(ts))
<1>1. CASE ts = Zero
  <2>1. Period(r) = 0
    BY <1>1 DEF Period
  <2>2. 0 \in Ticks
    BY TimeAssumption DEF Ticks
  <2> QED BY <1>1, <2>1, <2>2, ZeroFits
<1>2. CASE ts # Zero
  BY <1>2, RelativeTicks DEF Period
<1> QED BY <1>1, <1>2

LEMMA NextExpireFacts ==
  ASSUME ClockOK, NEW r \in IntRequests, validate_timespec(r.value)
  PROVE  LET due == Nanos(r.value) - IF r.abs THEN Nanos(clock_gettime(tmr_ticks)) ELSE 0
         IN  /\ due \in Int
             /\ next_expire(r) \in Ticks
             /\ Conversion(r).code # "EINVAL" => Fits(next_expire(r), due)
<1> DEFINE due == Nanos(r.value) - IF r.abs THEN Nanos(clock_gettime(tmr_ticks)) ELSE 0
           npt == NANOSECONDS_PER_TICK
<1>1. r.value \in IntTimespecs /\ IsTimespec(r.value) /\ r.abs \in BOOLEAN
  BY IntIsTimespec DEF IntRequests
<1>2. /\ Nanos(clock_gettime(tmr_ticks)) = NowNanos
      /\ NowNanos \in Int /\ Nanos(r.value) \in Int
  BY <1>1, StateFacts
<1>3. CASE ~r.abs
  <2>1. due = Nanos(r.value)
    BY <1>2, <1>3
  <2>2. next_expire(r) = timespec2ticks(r.value).ticks
        /\ Conversion(r) = timespec2ticks(r.value)
    BY <1>3 DEF next_expire, Conversion
  <2> HIDE DEF due
  <2>3. /\ due \in Int
        /\ next_expire(r) \in Ticks
        /\ Conversion(r).code # "EINVAL" => Fits(next_expire(r), due)
    BY <1>1, <1>2, <2>1, <2>2, RelativeTicks
  <2> QED BY <2>3 DEF due
<1>4. CASE r.abs
  <2> DEFINE cv == Converted(r.value)
  <2>1. due = Nanos(r.value) - NowNanos /\ due \in Int
    BY <1>2, <1>4
  <2>2. Conversion(r) = cv /\ next_expire(r) = IF cv.code # "0" THEN 0 ELSE cv.ticks
    BY <1>4 DEF next_expire, Conversion
  <2>3. cv.code \in {"0", "ETIMEDOUT", "EINVAL"}
    BY <1>1, ConvertedTypes
  <2>4. 0 \in Ticks /\ npt \in Nat
    BY TimeAssumption, TickLength DEF Ticks
  <2>5. CASE cv.code = "ETIMEDOUT"
    <3>1. Nanos(r.value) < NowNanos
      BY <1>1, <2>5, ValidIsClassified
    <3>2. Fits(0, due)
      <4>1. due < 0
        BY <1>2, <2>1, <3>1
      <4> HIDE DEF due
      <4> QED BY <2>1, <2>4, <4>1 DEF Fits
    <3> QED BY <2>1, <2>2, <2>4, <2>5, <3>2
  <2>6. CASE cv.code = "0"
    <3>1. /\ cv.ticks \in 0..UINT_MAX
          /\ NowNanos + cv.ticks * npt >= Nanos(r.value)
          /\ NowNanos + (cv.ticks - 1) * npt < Nanos(r.value)
      BY <1>1, <2>6, AcceptedIsExact
    <3>2. cv.ticks * npt \in Int /\ (cv.ticks - 1) * npt \in Int
      BY <2>4, <3>1
    <3>3. cv.ticks * npt >= due /\ (cv.ticks - 1) * npt < due
      <4> HIDE DEF npt, cv, due
      <4> QED BY <1>2, <2>1, <3>1, <3>2
    <3>4. Fits(cv.ticks, due)
      BY <3>3 DEF Fits
    <3> QED BY <2>1, <2>2, <2>6, <3>1, <3>4 DEF Ticks
  <2>7. CASE cv.code = "EINVAL"
    BY <2>1, <2>2, <2>4, <2>7
  <2> QED BY <2>3, <2>5, <2>6, <2>7
<1> QED BY <1>1, <1>3, <1>4

-----------------------------------------------------------------------------
(* Steps that change the call only *)

LEMMA RemainingType ==
  ASSUME Types
  PROVE  Remaining \in Ticks
<1>1. timer.expire \in Ticks /\ tmr_ticks \in Ticks /\ 0 \in Ticks
  BY TimeAssumption DEF Types, Timers, Ticks
<1>2. Wrap(timer.expire - tmr_ticks) \in Ticks
  BY <1>1, LeftRange
<1> QED BY <1>1, <1>2 DEF Remaining

LEMMA IdleOK ==
  /\ Idle \in Calls
  /\ Idle.pc = "idle"
  /\ NoTimer \in Timers
  /\ NoWish \in Wishes
<1>1. 0 \in Ticks
  BY TimeAssumption DEF Ticks
<1>2. Idle \in Calls
  BY <1>1, TimespecIsInt DEF Idle, Calls
<1> QED BY <1>1, <1>2 DEF Idle, NoTimer, Timers, NoWish, Wishes

(* In these states nothing is said of the call. *)
LEMMA QuietCall ==
  ASSUME ~call.quiet \/ call.pc \notin GetPcs
  PROVE  Getting /\ GettimeExact
  BY DEF Getting, GettimeExact, GetPcs

LEMMA CallKeeps ==
  ASSUME IInv, UNCHANGED <<tmr_ticks, timer, wish, early>>, call' \in Calls,
         call.pc \notin {"convert", "arm"}, call'.pc \notin {"convert", "arm"},
         call'.pc \in GetPcs \cup SetPcs => timer.mem,
         call'.pc = "off" => Accepted(call'.req),
         Getting', GettimeExact'
  PROVE  IInv'
<1>1. Remaining' = Remaining
  BY DEF Remaining
<1>2. Types' /\ HasTimer'
  BY DEF IInv, Types, HasTimer
<1>3. Setting'
  BY DEF Setting
<1>4. Running'
  BY <1>1 DEF IInv, Running
<1>5. Periodic'
  BY DEF IInv, Periodic, Fits
<1>6. ArmedAsWanted'
  BY DEF IInv, ArmedAsWanted
<1> QED BY <1>2, <1>3, <1>4, <1>5, <1>6 DEF IInv

(* After the ovalue has been stored *)
LEMMA AfterOvalueOK ==
  ASSUME NEW r \in IntRequests
  PROVE  /\ AfterOvalue(r) \in Calls
         /\ AfterOvalue(r).pc \in {"idle", "off"}
         /\ AfterOvalue(r).pc = "off" => Accepted(AfterOvalue(r).req)
<1> DEFINE c == [Idle EXCEPT !.pc = "off", !.req = r, !.set = TRUE]
<1>1. c \in Calls /\ c.pc = "off" /\ c.req = r
  BY IdleOK DEF Calls, SetPcs
<1>2. AfterOvalue(r) = IF Accepted(r) THEN c ELSE Idle
  BY DEF AfterOvalue
<1> HIDE DEF c
<1> QED BY <1>1, <1>2, IdleOK

LEMMA SettimeBegins ==
  ASSUME IInv, UNCHANGED <<tmr_ticks, timer, wish, early>>, timer.mem,
         call.pc \notin {"convert", "arm"}, NEW r \in IntRequests, call' = AfterOvalue(r)
  PROVE  IInv'
<1>1. /\ call' \in Calls /\ call'.pc \in {"idle", "off"}
      /\ call'.pc = "off" => Accepted(call'.req)
  BY AfterOvalueOK
<1>2. Getting' /\ GettimeExact'
  BY <1>1 DEF Getting, GettimeExact
<1> QED BY <1>1, <1>2, CallKeeps

LEMMA GettimeBegins ==
  ASSUME IInv, UNCHANGED <<tmr_ticks, timer, wish, early>>, timer.mem,
         call.pc \notin {"convert", "arm"}, call' \in Calls, call'.pc = "expire",
         call'.hi = Remaining
  PROVE  IInv'
<1>1. Remaining' = Remaining /\ Remaining \in Ticks
  BY RemainingType DEF Remaining, IInv
<1>2. Remaining <= Remaining
  BY <1>1, TimeAssumption DEF Ticks
<1>3. Getting' /\ GettimeExact'
  BY <1>1, <1>2 DEF Getting, GettimeExact
<1> QED BY <1>3, CallKeeps

(* What timer_gettime makes of a number of ticks *)
LEMMA ValueExact ==
  ASSUME NEW n \in Ticks
  PROVE  LET v == Timespec(n \div HZ, (n % HZ) * NANOSECONDS_PER_TICK)
         IN  v \in IntTimespecs /\ Nanos(v) = n * NANOSECONDS_PER_TICK
<1> DEFINE npt == NANOSECONDS_PER_TICK
           q == n \div HZ
           m == n % HZ
<1>1. npt \in Nat /\ HZ \in Nat \ {0} /\ NSPS = HZ * npt /\ n \in Nat
  BY TickLength, TimeAssumption DEF Ticks
<1>2. q \in Nat /\ m \in 0..(HZ - 1) /\ n = HZ * q + m
  BY <1>1, DivMod
<1> HIDE DEF npt, q, m
<1>3. m \in Nat /\ m * npt \in Int
  BY <1>1, <1>2
<1>4. Timespec(q, m * npt) \in IntTimespecs
  BY <1>2, <1>3 DEF Timespec, IntTimespecs
<1>5. q * NSPS + m * npt = n * npt
  BY <1>1, <1>2, <1>3
<1>6. Nanos(Timespec(q, m * npt)) = n * npt
  BY <1>5 DEF Nanos, Timespec
<1> QED BY <1>4, <1>6 DEF npt, q, m

LEMMA ReadersKeep ==
  ASSUME IInv, GettimeEnter \/ GetExpire \/ GetTicks \/ GetValue \/ GetReturn
  PROVE  IInv'
<1>1. /\ call \in Calls /\ timer \in Timers /\ tmr_ticks \in Ticks
      /\ UNCHANGED <<tmr_ticks, timer, wish, early>>
  BY DEF IInv, Types, GettimeEnter, GetExpire, GetTicks, GetValue, GetReturn
<1>2. Remaining' = Remaining /\ Remaining \in Ticks /\ 0 \in Ticks
  BY <1>1, RemainingType, TimeAssumption DEF IInv, Remaining, Ticks
<1>3. call.pc \in GetPcs => timer.mem
  BY DEF IInv, HasTimer
<1>4. CASE GettimeEnter
  <2>1. call' = [Idle EXCEPT !.pc = "expire", !.hi = Remaining] /\ timer.mem /\ call.pc = "idle"
    BY <1>4, IdleOK DEF GettimeEnter
  <2>2. call' \in Calls /\ call'.pc = "expire" /\ call'.hi = Remaining
    BY <1>2, <2>1, IdleOK DEF Calls, GetPcs
  <2> QED BY <1>1, <2>1, <2>2, GettimeBegins
<1>5. CASE GetExpire
  <2>1. call.pc = "expire" /\ call' = [call EXCEPT !.pc = "ticks", !.n = timer.expire]
    BY <1>5 DEF GetExpire
  <2>2. /\ call' \in Calls /\ call'.pc = "ticks" /\ call'.n = timer.expire
        /\ call'.hi = call.hi /\ call'.quiet = call.quiet
    BY <1>1, <2>1 DEF Calls, GetPcs, Timers
  <2>3. Getting' /\ GettimeExact'
    BY <1>1, <1>2, <2>1, <2>2 DEF IInv, Getting, GettimeExact
  <2> QED BY <1>1, <1>3, <2>1, <2>2, <2>3, CallKeeps DEF GetPcs
<1>6. CASE GetTicks
  <2>1. call.pc = "ticks" /\ call' = [call EXCEPT !.pc = "active", !.n = Wrap(call.n - tmr_ticks)]
    BY <1>6 DEF GetTicks
  <2>2. Wrap(call.n - tmr_ticks) \in Ticks
    BY <1>1, LeftRange DEF Calls
  <2>3. /\ call' \in Calls /\ call'.pc = "active" /\ call'.n = Wrap(call.n - tmr_ticks)
        /\ call'.hi = call.hi /\ call'.quiet = call.quiet
    BY <1>1, <2>1, <2>2 DEF Calls, GetPcs
  <2>4. call.quiet /\ timer.active => Remaining = call'.n /\ Remaining <= call.hi
    BY <2>1, <2>3 DEF IInv, Getting, Remaining
  <2>5. Remaining <= Remaining
    BY <1>2, TimeAssumption DEF Ticks
  <2>6. Getting' /\ GettimeExact'
    BY <1>1, <1>2, <2>3, <2>4, <2>5 DEF Getting, GettimeExact
  <2> QED BY <1>1, <1>3, <2>1, <2>3, <2>6, CallKeeps DEF GetPcs
<1>7. CASE GetValue
  <2> DEFINE v == IF timer.active
                    THEN Timespec(call.n \div HZ, (call.n % HZ) * NANOSECONDS_PER_TICK)
                    ELSE Zero
             npt == NANOSECONDS_PER_TICK
  <2>1. call.pc = "active" /\ call' = [call EXCEPT !.pc = "stored", !.n = 0, !.value = v]
    BY <1>7 DEF GetValue
  <2>2. call.n \in Ticks /\ call.hi \in Ticks
    BY <1>1 DEF Calls
  <2>3. v \in IntTimespecs /\ Nanos(v) = (IF timer.active THEN call.n ELSE 0) * npt
    <3>1. CASE timer.active
      BY <2>2, <3>1, ValueExact
    <3>2. CASE ~timer.active
      BY <3>2, ZeroFits, TimespecIsInt, TickLength
    <3> QED BY <3>1, <3>2
  <2> HIDE DEF v, npt
  <2>4. /\ call' \in Calls /\ call'.pc = "stored" /\ call'.value = v
        /\ call'.hi = call.hi /\ call'.quiet = call.quiet
    BY <1>1, <1>2, <2>1, <2>3 DEF Calls, GetPcs
  <2>5. call.quiet => Nanos(v) >= Remaining * npt /\ Nanos(v) <= call.hi * npt
    <3> SUFFICES ASSUME call.quiet
                 PROVE  Nanos(v) >= Remaining * npt /\ Nanos(v) <= call.hi * npt
      OBVIOUS
    <3> DEFINE n == IF timer.active THEN call.n ELSE 0
    <3>1. Remaining <= n /\ n <= call.hi
      BY <1>2, <2>1, <2>2, TimeAssumption DEF IInv, Getting, Remaining, Ticks
    <3>2. n \in Int /\ Remaining \in Int /\ call.hi \in Int /\ npt \in Nat
      BY <1>2, <2>2, TimeAssumption, TickLength DEF Ticks, npt
    <3>3. Nanos(v) = n * npt
      BY <2>3
    <3> HIDE DEF n
    <3>4. Remaining * npt <= n * npt /\ n * npt <= call.hi * npt
      BY <3>1, <3>2, MulMonotone
    <3>5. n * npt \in Int /\ Remaining * npt \in Int
      BY <3>2
    <3> QED BY <3>3, <3>4, <3>5
  <2>6. Getting' /\ GettimeExact'
    BY <1>2, <2>4, <2>5 DEF Getting, GettimeExact, npt
  <2> QED BY <1>1, <1>3, <2>1, <2>4, <2>6, CallKeeps DEF GetPcs
<1>8. CASE GetReturn
  <2>1. call.pc = "stored" /\ call' = IF call.set THEN AfterOvalue(call.req) ELSE Idle
    BY <1>8 DEF GetReturn
  <2>2. CASE call.set
    BY <1>1, <1>3, <2>1, <2>2, SettimeBegins DEF Calls, GetPcs
  <2>3. CASE ~call.set
    <3>1. call' = Idle
      BY <2>1, <2>3
    <3>2. Getting' /\ GettimeExact'
      BY <3>1, IdleOK DEF Getting, GettimeExact
    <3> QED BY <1>1, <2>1, <3>1, <3>2, IdleOK, CallKeeps DEF GetPcs, SetPcs
  <2> QED BY <2>2, <2>3
<1> QED BY <1>4, <1>5, <1>6, <1>7, <1>8

LEMMA SettimeEnterKeeps ==
  ASSUME IInv, NEW r \in Requests, SettimeEnter(r)
  PROVE  IInv'
<1>1. r \in IntRequests /\ call.pc = "idle" /\ timer.mem
      /\ UNCHANGED <<tmr_ticks, timer, wish, early>>
  BY IdleOK, TimespecIsInt DEF SettimeEnter
<1>2. CASE call' = AfterOvalue(r)
  BY <1>1, <1>2, SettimeBegins
<1>3. CASE call' = [Idle EXCEPT !.pc = "expire", !.hi = Remaining, !.req = r, !.set = TRUE]
  <2>1. Remaining \in Ticks
    BY RemainingType DEF IInv
  <2>2. call' \in Calls /\ call'.pc = "expire" /\ call'.hi = Remaining
    BY <1>1, <1>3, <2>1, IdleOK DEF Calls, GetPcs
  <2> QED BY <1>1, <2>2, GettimeBegins
<1> QED BY <1>2, <1>3 DEF SettimeEnter

-----------------------------------------------------------------------------
(* The timer is created and deleted. *)
LEMMA CreationKeeps ==
  ASSUME IInv,
         (\E direct \in BOOLEAN : Create(direct)) \/ CreateNoMemory \/ Delete
  PROVE  IInv'
<1>1. call = Idle /\ call.pc = "idle" /\ timer \in Timers /\ wish \in Wishes
  BY IdleOK DEF IInv, Types, Create, CreateNoMemory, Delete
<1>2. CASE \E direct \in BOOLEAN : Create(direct)
  <2>1. PICK direct \in BOOLEAN : Create(direct)
    BY <1>2
  <2>2. timer' = [NoTimer EXCEPT !.mem = TRUE, !.direct = direct] /\ ~timer.mem
        /\ UNCHANGED <<tmr_ticks, call, wish, early>>
    BY <2>1 DEF Create
  <2>3. timer' \in Timers /\ timer'.mem /\ ~timer'.active
    BY <2>2, IdleOK DEF NoTimer, Timers
  <2>4. ~wish.on
    BY <2>2 DEF IInv, HasTimer
  <2>5. Getting' /\ GettimeExact' /\ Setting'
    BY <1>1, <2>2 DEF Getting, GettimeExact, Setting
  <2> QED BY <1>1, <2>2, <2>3, <2>4, <2>5
       DEF IInv, Types, HasTimer, Running, Periodic, ArmedAsWanted
<1>3. CASE CreateNoMemory
  <2>1. call' = [call EXCEPT !.pc = "crashed"] /\ UNCHANGED <<tmr_ticks, timer, wish, early>>
    BY <1>3 DEF CreateNoMemory, Goto
  <2>2. call' \in Calls /\ call'.pc = "crashed"
    BY <2>1 DEF IInv, Types, Calls
  <2>3. Getting' /\ GettimeExact'
    BY <2>2 DEF Getting, GettimeExact
  <2> QED BY <1>1, <2>1, <2>2, <2>3, CallKeeps DEF GetPcs, SetPcs
<1>4. CASE Delete
  <2>1. timer' = NoTimer /\ wish' = NoWish /\ UNCHANGED <<tmr_ticks, call, early>>
    BY <1>4 DEF Delete
  <2>2. ~timer'.active /\ ~wish'.on /\ wish'.lag = 0
    BY <2>1 DEF NoTimer, NoWish
  <2>3. Getting' /\ GettimeExact' /\ Setting'
    BY <1>1, <2>1 DEF Getting, GettimeExact, Setting
  <2>4. 0 <= MaxLag
    BY TimerAssumption
  <2>5. Types'
    BY <2>1, IdleOK DEF IInv, Types
  <2> QED BY <1>1, <2>1, <2>2, <2>3, <2>4, <2>5
       DEF IInv, HasTimer, Running, Periodic, ArmedAsWanted, GetPcs, SetPcs
<1> QED BY <1>2, <1>3, <1>4

(* timer_settime turns the timer off. *)
LEMMA OffKeeps ==
  ASSUME IInv, SettimeOff
  PROVE  IInv'
<1>1. /\ call.pc = "off" /\ timer' = [timer EXCEPT !.active = FALSE] /\ wish' = NoWish
      /\ call' = IF call.req.value = Zero THEN Idle ELSE [call EXCEPT !.pc = "convert"]
      /\ UNCHANGED <<tmr_ticks, early>>
  BY DEF SettimeOff, tmr_of
<1>2. timer \in Timers /\ call \in Calls /\ timer.mem /\ Accepted(call.req)
  BY <1>1 DEF IInv, Types, HasTimer, SetPcs, Setting
<1>3. timer' \in Timers /\ ~timer'.active /\ timer'.mem
  BY <1>1, <1>2 DEF Timers
<1>4. ~wish'.on /\ wish'.lag = 0 /\ wish' \in Wishes
  BY <1>1, IdleOK DEF NoWish
<1>5. /\ call' \in Calls /\ call'.pc \in {"idle", "convert"}
      /\ call'.pc = "convert" => Accepted(call'.req) /\ call'.req.value # Zero
  <2>1. CASE call.req.value = Zero
    BY <1>1, <2>1, IdleOK
  <2>2. CASE call.req.value # Zero
    <3>1. call' = [call EXCEPT !.pc = "convert"]
      BY <1>1, <2>2
    <3>2. call' \in Calls /\ call'.pc = "convert" /\ call'.req = call.req
      BY <1>2, <3>1 DEF Calls, SetPcs
    <3> QED BY <1>2, <2>2, <3>2
  <2> QED BY <2>1, <2>2
<1>6. Getting' /\ GettimeExact'
  BY <1>5 DEF Getting, GettimeExact
<1>7. Setting'
  BY <1>3, <1>5 DEF Setting
<1>8. Types' /\ HasTimer' /\ Periodic' /\ ArmedAsWanted'
  BY <1>1, <1>3, <1>4, <1>5 DEF IInv, Types, HasTimer, Periodic, ArmedAsWanted
<1>9. Running'
  BY <1>3, <1>4, TimerAssumption DEF Running
<1> QED BY <1>6, <1>7, <1>8, <1>9 DEF IInv

(* timer_settime converts the request. *)
LEMMA ConvertKeeps ==
  ASSUME IInv, SettimeConvert
  PROVE  IInv'
<1> DEFINE r == call.req
           due == Nanos(r.value) - IF r.abs THEN Nanos(clock_gettime(tmr_ticks)) ELSE 0
           every == Nanos(r.interval)
           far == Conversion(r).code = "EINVAL"
           farEvery == timespec2ticks(r.interval).code # "0"
           p == Period(r)
           n == next_expire(r)
<1>1. /\ call.pc = "convert" /\ timer' = [timer EXCEPT !.period = p]
      /\ call' = [call EXCEPT !.pc = "arm", !.n = n]
      /\ wish' = [NoWish EXCEPT !.on = TRUE, !.every = every, !.due = due, !.far = far,
                                !.farEvery = farEvery]
      /\ UNCHANGED <<tmr_ticks, early>>
  BY DEF SettimeConvert
<1>2. /\ timer \in Timers /\ call \in Calls /\ timer.mem /\ ~timer.active
      /\ Accepted(call.req) /\ call.req.value # Zero
  BY <1>1 DEF IInv, Types, HasTimer, SetPcs, Setting
<1>3. /\ r \in IntRequests /\ r.interval \in IntTimespecs
      /\ validate_timespec(r.value) /\ validate_timespec(r.interval)
  BY <1>2 DEF Calls, IntRequests, Accepted
<1>4. ClockOK
  BY DEF IInv, Types, ClockOK, Ticks
<1> HIDE DEF r
<1>5. due \in Int /\ n \in Ticks /\ (~far => Fits(n, due))
  BY <1>3, <1>4, NextExpireFacts
<1>6. p \in Ticks /\ (~farEvery => Fits(p, every))
  BY <1>3, PeriodFacts
<1>7. every \in Int
  BY <1>3, TimeAssumption DEF Nanos, IntTimespecs
<1>8. far \in BOOLEAN /\ farEvery \in BOOLEAN
  OBVIOUS
<1> HIDE DEF due, every, far, farEvery, p, n
<1>9. timer' \in Timers /\ ~timer'.active /\ timer'.mem /\ timer'.period = p
  BY <1>1, <1>2, <1>6 DEF Timers
<1>10. call' \in Calls /\ call'.pc = "arm" /\ call'.n = n
  BY <1>1, <1>2, <1>5 DEF Calls, SetPcs
<1>11. /\ wish' \in Wishes /\ wish'.on /\ wish'.every = every /\ wish'.due = due
       /\ wish'.far = far /\ wish'.farEvery = farEvery /\ wish'.since = 0 /\ wish'.lag = 0
  BY <1>1, <1>5, <1>7, <1>8 DEF NoWish, Wishes
<1>12. Getting' /\ GettimeExact'
  BY <1>10 DEF Getting, GettimeExact
<1>13. Setting'
  BY <1>5, <1>9, <1>10, <1>11 DEF Setting, Fits
<1>14. Types' /\ HasTimer' /\ ArmedAsWanted'
  BY <1>1, <1>9, <1>10, <1>11 DEF IInv, Types, HasTimer, ArmedAsWanted
<1>15. Periodic'
  BY <1>6, <1>9, <1>11 DEF Periodic, Fits
<1>16. Running'
  BY <1>9, <1>11, TimerAssumption DEF Running
<1> QED BY <1>12, <1>13, <1>14, <1>15, <1>16 DEF IInv

(* timer_settime starts the timer. *)
LEMMA OnKeeps ==
  ASSUME IInv, SettimeOn
  PROVE  IInv'
<1> DEFINE npt == NANOSECONDS_PER_TICK
<1>1. /\ call.pc = "arm" /\ call.n > 0 /\ call' = Idle
      /\ timer' = [timer EXCEPT !.active = TRUE, !.expire = Wrap(tmr_ticks + call.n)]
      /\ UNCHANGED <<tmr_ticks, wish, early>>
  BY DEF SettimeOn, tmr_on
<1>2. /\ timer \in Timers /\ call \in Calls /\ call.n \in Ticks /\ tmr_ticks \in Ticks
      /\ timer.mem /\ wish \in Wishes /\ wish.on
      /\ ~wish.far => Fits(call.n, wish.due) /\ wish.since = wish.lag
  BY <1>1 DEF IInv, Types, Calls, HasTimer, SetPcs, Setting
<1>3. Wrap(tmr_ticks + call.n) \in Ticks /\ Wrap(Wrap(tmr_ticks + call.n) - tmr_ticks) = call.n
  BY <1>2, LeftAfterStart
<1>4. /\ timer' \in Timers /\ timer'.active /\ timer'.mem /\ timer'.period = timer.period
      /\ timer'.expire = Wrap(tmr_ticks + call.n)
  BY <1>1, <1>2, <1>3 DEF Timers
<1>5. Remaining' = call.n
  BY <1>1, <1>3, <1>4 DEF Remaining
<1>6. call'.pc = "idle" /\ call' \in Calls
  BY <1>1, IdleOK
<1>7. Getting' /\ GettimeExact' /\ Setting'
  BY <1>6 DEF Getting, GettimeExact, Setting
<1>8. Types' /\ HasTimer' /\ ArmedAsWanted' /\ Periodic'
  BY <1>1, <1>2, <1>4, <1>6 DEF IInv, Types, HasTimer, ArmedAsWanted, Periodic, Fits
<1>9. Running'
  <2>1. wish.lag <= MaxLag /\ wish.lag \in Nat /\ wish.due \in Int /\ wish.since \in Nat
    BY <1>2 DEF IInv, Running, Wishes
  <2>2. ASSUME ~wish.far
        PROVE  LET k == wish.since + call.n
               IN  /\ k * npt >= wish.due
                   /\ (k - 1 - wish.lag) * npt < wish.due
                   /\ k <= UINT_MAX + wish.lag
    <3> DEFINE k == wish.since + call.n
    <3>1. npt \in Nat /\ UINT_MAX \in Nat /\ call.n \in Nat /\ call.n <= UINT_MAX
      BY <1>2, TickLength, TimeAssumption DEF Ticks
    <3>2. wish.since = wish.lag /\ call.n * npt >= wish.due /\ (call.n - 1) * npt < wish.due
      BY <1>1, <1>2, <2>2 DEF Fits
    <3>3. k \in Int /\ call.n <= k /\ k - 1 - wish.lag = call.n - 1 /\ k <= UINT_MAX + wish.lag
      BY <2>1, <3>1, <3>2
    <3> HIDE DEF k, npt
    <3>4. call.n * npt <= k * npt
      BY <3>1, <3>3, MulMonotone
    <3>5. call.n * npt \in Int /\ k * npt \in Int
      BY <3>1, <3>3
    <3>6. k * npt >= wish.due
      BY <2>1, <3>2, <3>4, <3>5
    <3> QED BY <3>2, <3>3, <3>6 DEF k
  <2> HIDE DEF npt
  <2> QED BY <1>1, <1>5, <2>1, <2>2 DEF Running, npt
<1> QED BY <1>7, <1>8, <1>9 DEF IInv

-----------------------------------------------------------------------------
(* Two updates of a wish *)

Aged(w, s, l) == [w EXCEPT !.since = s, !.lag = l]

LEMMA WishWaits ==
  ASSUME NEW w \in Wishes, NEW s \in Nat, NEW l \in Nat
  PROVE  /\ Aged(w, s, l) \in Wishes /\ Aged(w, s, l).since = s /\ Aged(w, s, l).lag = l
         /\ Aged(w, s, l).on = w.on /\ Aged(w, s, l).due = w.due
         /\ Aged(w, s, l).every = w.every
         /\ Aged(w, s, l).far = w.far /\ Aged(w, s, l).farEvery = w.farEvery
  BY DEF Wishes, Aged

Renewed(w) == [w EXCEPT !.due = w.every, !.since = 0, !.lag = 0, !.far = w.farEvery]

LEMMA WishRenewed ==
  ASSUME NEW w \in Wishes
  PROVE  /\ Renewed(w) \in Wishes /\ Renewed(w).since = 0 /\ Renewed(w).lag = 0
         /\ Renewed(w).due = w.every /\ Renewed(w).far = w.farEvery
         /\ Renewed(w).on = w.on /\ Renewed(w).every = w.every
         /\ Renewed(w).farEvery = w.farEvery
  BY DEF Wishes, Renewed

(* timer_do: the timer tm has expired for a wish w, whose time has come. *)
LEMMA ExpireKeeps ==
  ASSUME NEW tm \in Timers, NEW w \in Wishes, NEW now \in Ticks, NEW stop \in BOOLEAN,
         tm.mem, ~tm.active, w.on,
         ~w.far => w.since * NANOSECONDS_PER_TICK >= w.due,
         ~w.farEvery => Fits(tm.period, w.every),
         early = FALSE,
         timer' = timer_do(tm, now, stop), wish' = Fulfilled(w, stop),
         early' = (early \/ ~w.on \/ (~w.far /\ w.since * NANOSECONDS_PER_TICK < w.due)),
         tmr_ticks' = now, call' \in Calls,
         call'.pc \notin {"convert", "arm"}, call'.pc \in GetPcs \cup SetPcs => tm.mem,
         call'.pc = "off" => Accepted(call'.req), ~call'.quiet \/ call'.pc \notin GetPcs
  PROVE  IInv'
<1> DEFINE npt == NANOSECONDS_PER_TICK
           p == tm.period
           goes == p > 0 /\ ~stop
<1>1. /\ npt \in Nat \ {0} /\ p \in Ticks /\ p \in Nat /\ p <= UINT_MAX /\ UINT_MAX \in Nat
      /\ w.due \in Int /\ w.every \in Int /\ w.since \in Nat
      /\ w.far \in BOOLEAN /\ w.farEvery \in BOOLEAN
  BY TickLength, TimeAssumption DEF Timers, Wishes, Ticks
<1>2. early' = FALSE
  <2>1. w.since * npt \in Int
    BY <1>1
  <2> HIDE DEF npt
  <2>2. ~(~w.far /\ w.since * npt < w.due)
    BY <1>1, <2>1 DEF npt
  <2> QED BY <2>2 DEF npt
<1>3. Wrap(now + p) \in Ticks /\ Wrap(Wrap(now + p) - now) = p
  BY <1>1, LeftAfterStart
<1>4. /\ timer' \in Timers /\ timer'.mem /\ timer'.period = p /\ timer'.active = goes
      /\ goes => timer'.expire = Wrap(now + p)
  BY <1>1, <1>3 DEF timer_do, tmr_on, tmr_of, Timers
<1>5. Remaining' = IF goes THEN p ELSE 0
  BY <1>3, <1>4 DEF Remaining
<1>6. ~w.farEvery => (p > 0 <=> w.every > 0)
  <2>1. SUFFICES ASSUME ~w.farEvery PROVE p > 0 <=> w.every > 0
    OBVIOUS
  <2>2. p * npt >= w.every /\ (p > 0 => (p - 1) * npt < w.every)
    BY <2>1 DEF Fits
  <2>3. CASE p = 0
    BY <1>1, <2>2, <2>3
  <2>4. CASE p > 0
    <3>1. 0 * npt <= (p - 1) * npt
      BY <1>1, <2>4, MulMonotone
    <3>2. (p - 1) * npt \in Int
      BY <1>1
    <3> HIDE DEF npt
    <3>3. w.every > 0
      BY <1>1, <2>2, <2>4, <3>1, <3>2
    <3> QED BY <2>4, <3>3
  <2> QED BY <1>1, <2>3, <2>4
<1>7. /\ wish' \in Wishes /\ wish'.lag = 0 /\ wish'.since = 0
      /\ wish'.on <=> (~stop /\ (w.every > 0 \/ w.farEvery))
      /\ wish'.on => /\ wish'.due = w.every /\ wish'.far = w.farEvery
                     /\ wish'.every = w.every /\ wish'.farEvery = w.farEvery
  <2>1. CASE stop \/ (w.every <= 0 /\ ~w.farEvery)
    <3>1. wish' = NoWish
      BY <2>1 DEF Fulfilled
    <3>2. ~(~stop /\ (w.every > 0 \/ w.farEvery))
      BY <1>1, <2>1
    <3>3. wish' \in Wishes /\ wish'.lag = 0 /\ wish'.since = 0 /\ wish'.on = FALSE
      BY <3>1, IdleOK DEF NoWish
    <3> QED BY <3>2, <3>3
  <2>2. CASE ~(stop \/ (w.every <= 0 /\ ~w.farEvery))
    <3>1. wish' = Renewed(w)
      BY <2>2 DEF Fulfilled, Renewed
    <3>2. ~stop /\ (w.every > 0 \/ w.farEvery)
      BY <1>1, <2>2
    <3>3. /\ wish' \in Wishes /\ wish'.lag = 0 /\ wish'.since = 0 /\ wish'.on
          /\ wish'.due = w.every /\ wish'.far = w.farEvery
          /\ wish'.every = w.every /\ wish'.farEvery = w.farEvery
      BY <1>1, <3>1, WishRenewed
    <3> QED BY <3>2, <3>3
  <2> QED BY <2>1, <2>2
<1>8. Types'
  BY <1>2, <1>4, <1>7 DEF Types
<1>9. HasTimer' /\ Setting'
  BY <1>4 DEF HasTimer, Setting
<1>10. Getting' /\ GettimeExact'
  BY DEF Getting, GettimeExact, GetPcs
<1>11. Periodic'
  BY <1>4, <1>7 DEF Periodic, Fits
<1>12. ArmedAsWanted'
  BY <1>1, <1>4, <1>6, <1>7 DEF ArmedAsWanted
<1>13. Running'
  <2>1. timer'.active => Remaining' > 0
    BY <1>4, <1>5
  <2>2. wish'.lag <= MaxLag
    BY <1>7, TimerAssumption
  <2>3. ASSUME timer'.active, wish'.on, ~wish'.far
        PROVE  LET n == wish'.since + Remaining'
               IN  /\ n * npt >= wish'.due
                   /\ (n - 1 - wish'.lag) * npt < wish'.due
                   /\ n <= UINT_MAX + wish'.lag
    <3>1. Remaining' = p /\ p > 0 /\ wish'.due = w.every /\ ~w.farEvery
      BY <1>4, <1>5, <1>7, <2>3
    <3>2. p * npt >= w.every /\ (p - 1) * npt < w.every
      BY <3>1 DEF Fits
    <3>3. wish'.since + p = p /\ p - 1 - wish'.lag = p - 1 /\ p <= UINT_MAX + wish'.lag
      BY <1>1, <1>7
    <3> HIDE DEF npt, p
    <3> QED BY <3>1, <3>2, <3>3
  <2> HIDE DEF npt
  <2> QED BY <2>1, <2>2, <2>3 DEF Running, npt
<1> QED BY <1>8, <1>9, <1>10, <1>11, <1>12, <1>13 DEF IInv

(* A running timer is not at its limit: one more tick is counted. *)
LEMMA WaitedFacts ==
  ASSUME IInv, call.pc = "arm" => wish.lag < MaxLag
  PROVE  /\ Waited \in Wishes
         /\ Waited.on = wish.on /\ Waited.due = wish.due /\ Waited.every = wish.every
         /\ Waited.far = wish.far /\ Waited.farEvery = wish.farEvery
         /\ Waited.lag = IF call.pc = "arm" /\ ~wish.far THEN wish.lag + 1 ELSE wish.lag
         /\ wish.on /\ ~wish.far /\ (timer.active \/ call.pc = "arm") =>
              Waited.since = wish.since + 1
<1>1. wish \in Wishes /\ wish.since \in Nat /\ wish.lag \in Nat
      /\ MaxLag \in Nat /\ UINT_MAX \in Nat /\ wish.lag <= MaxLag
  BY TimerAssumption, TimeAssumption DEF IInv, Types, Running, Wishes
<1> DEFINE s == IF wish.on /\ ~wish.far /\ wish.since <= MaxSince
                  THEN wish.since + 1 ELSE wish.since
           l == IF call.pc = "arm" /\ ~wish.far THEN wish.lag + 1 ELSE wish.lag
<1>2. Waited = Aged(wish, s, l) /\ s \in Nat /\ l \in Nat
  BY <1>1 DEF Waited, Wishes, Aged
<1>3. wish.on /\ ~wish.far /\ timer.active => wish.since <= MaxSince
  <2>1. Remaining \in Int /\ (timer.active => Remaining > 0)
    BY RemainingType, TimeAssumption DEF IInv, Running, Ticks
  <2>2. wish.on /\ ~wish.far /\ timer.active => wish.since + Remaining <= UINT_MAX + wish.lag
    BY DEF IInv, Running
  <2> QED BY <1>1, <2>1, <2>2 DEF MaxSince
<1>4. ~wish.far /\ call.pc = "arm" => wish.since <= MaxSince
  <2>1. ~wish.far /\ call.pc = "arm" => wish.since = wish.lag
    BY DEF IInv, Setting
  <2> QED BY <1>1, <2>1 DEF MaxSince
<1>5. /\ Waited \in Wishes /\ Waited.since = s /\ Waited.lag = l
      /\ Waited.on = wish.on /\ Waited.due = wish.due /\ Waited.every = wish.every
      /\ Waited.far = wish.far /\ Waited.farEvery = wish.farEvery
  <2> HIDE DEF s, l
  <2>1. wish \in Wishes /\ s \in Nat /\ l \in Nat
    BY <1>1, <1>2
  <2>2. /\ Aged(wish, s, l) \in Wishes
        /\ Aged(wish, s, l).since = s /\ Aged(wish, s, l).lag = l
        /\ Aged(wish, s, l).on = wish.on /\ Aged(wish, s, l).due = wish.due
        /\ Aged(wish, s, l).every = wish.every
        /\ Aged(wish, s, l).far = wish.far /\ Aged(wish, s, l).farEvery = wish.farEvery
    BY <2>1, WishWaits
  <2> QED BY <1>2, <2>2
<1> QED BY <1>3, <1>4, <1>5

(* A tick that does not reach expire *)
LEMMA TickKeeps ==
  ASSUME IInv, Tick
  PROVE  IInv'
<1> DEFINE npt == NANOSECONDS_PER_TICK
<1>1. /\ call.pc = "arm" => wish.lag < MaxLag
      /\ timer.active => timer.expire # Wrap(tmr_ticks + 1)
      /\ tmr_ticks' = Wrap(tmr_ticks + 1) /\ wish' = Waited
      /\ UNCHANGED <<timer, call, early>>
  BY DEF Tick, ClockTick
<1>2. /\ wish' \in Wishes
      /\ wish'.on = wish.on /\ wish'.due = wish.due /\ wish'.every = wish.every
      /\ wish'.far = wish.far /\ wish'.farEvery = wish.farEvery
      /\ wish'.lag = IF call.pc = "arm" /\ ~wish.far THEN wish.lag + 1 ELSE wish.lag
      /\ wish.on /\ ~wish.far /\ (timer.active \/ call.pc = "arm") =>
           wish'.since = wish.since + 1
  BY <1>1, WaitedFacts
<1>3. timer \in Timers /\ timer.expire \in Ticks /\ tmr_ticks \in Ticks /\ wish \in Wishes
      /\ call \in Calls
  BY DEF IInv, Types, Timers
<1>4. tmr_ticks' \in Ticks
  <2>1. tmr_ticks + 1 \in Int
    BY <1>3, TimeAssumption DEF Ticks
  <2> QED BY <1>1, <2>1, WrapRange DEF Ticks
<1>5. timer.active => Remaining' = Remaining - 1 /\ Remaining' > 0
  <2> SUFFICES ASSUME timer.active PROVE Remaining' = Remaining - 1 /\ Remaining' > 0
    OBVIOUS
  <2>1. Remaining = Wrap(timer.expire - tmr_ticks) /\ Remaining > 0
    BY DEF Remaining, IInv, Running
  <2>2. Remaining' = Wrap(timer.expire - Wrap(tmr_ticks + 1))
    BY <1>1 DEF Remaining
  <2> QED BY <1>1, <1>3, <2>1, <2>2, LeftAfterTick
<1>6. ~timer.active => Remaining = 0 /\ Remaining' = 0
  BY <1>1 DEF Remaining
<1>7. Remaining \in Nat /\ Remaining' \in Nat /\ Remaining' <= Remaining
  <2>1. Remaining \in Nat
    BY RemainingType, TimeAssumption DEF IInv, Ticks
  <2> QED BY <1>5, <1>6, <2>1
<1>8. Types'
  BY <1>1, <1>2, <1>3, <1>4 DEF IInv, Types
<1>9. HasTimer' /\ ArmedAsWanted' /\ Periodic'
  BY <1>1, <1>2 DEF IInv, HasTimer, ArmedAsWanted, Periodic, Fits
<1>10. Setting'
  <2>1. call.pc = "arm" /\ ~wish.far => wish'.since = wish'.lag
    BY <1>2 DEF IInv, Setting
  <2> QED BY <1>1, <1>2, <2>1 DEF IInv, Setting, Fits
<1>11. Running'
  <2>1. wish.lag \in Nat /\ wish.since \in Nat /\ wish.lag <= MaxLag /\ MaxLag \in Nat
    BY <1>3, TimerAssumption DEF IInv, Running, Wishes
  <2>2. wish'.lag <= MaxLag
    BY <1>1, <1>2, <2>1
  <2>3. ASSUME timer.active, wish.on, ~wish.far
        PROVE  wish'.since + Remaining' = wish.since + Remaining /\ wish'.lag = wish.lag
    <3>1. call.pc # "arm"
      BY <2>3 DEF IInv, Setting
    <3> QED BY <1>2, <1>5, <1>7, <2>1, <2>3, <3>1
  <2>4. timer.active /\ wish.on /\ ~wish.far =>
          LET n == wish.since + Remaining
          IN  /\ n * npt >= wish.due
              /\ (n - 1 - wish.lag) * npt < wish.due
              /\ n <= UINT_MAX + wish.lag
    BY DEF IInv, Running
  <2> HIDE DEF npt
  <2> QED BY <1>1, <1>2, <1>5, <2>2, <2>3, <2>4 DEF Running, npt
<1>12. Getting'
  <2>1. call.n \in Int /\ call.hi \in Int
    BY <1>3, TimeAssumption DEF Calls, Ticks
  <2>2. Remaining <= call.hi => Remaining' <= call.hi
    BY <1>7, <2>1
  <2>3. Remaining <= call.n => Remaining' <= call.n
    BY <1>7, <2>1
  <2> QED BY <1>1, <2>2, <2>3 DEF IInv, Getting
<1>13. GettimeExact'
  <2>1. Remaining' * npt <= Remaining * npt
    <3>1. npt \in Nat /\ Remaining \in Int /\ Remaining' \in Int
      BY <1>7, TickLength
    <3> HIDE DEF npt
    <3> QED BY <1>7, <3>1, MulMonotone
  <2>2. npt \in Nat /\ Nanos(call.value) \in Int
    BY <1>3, TickLength, TimeAssumption DEF Nanos, Calls, IntTimespecs
  <2>3. Remaining * npt \in Int /\ Remaining' * npt \in Int
    BY <1>7, <2>2
  <2> HIDE DEF npt
  <2>4. Nanos(call.value) >= Remaining * npt => Nanos(call.value) >= Remaining' * npt
    BY <2>1, <2>2, <2>3
  <2> QED BY <1>1, <2>4 DEF IInv, GettimeExact, npt
<1> QED BY <1>8, <1>9, <1>10, <1>11, <1>12, <1>13 DEF IInv

(* The tick that reaches expire *)
LEMMA TickExpiresKeeps ==
  ASSUME IInv, TickExpires
  PROVE  IInv'
<1> DEFINE npt == NANOSECONDS_PER_TICK
           now == Wrap(tmr_ticks + 1)
           tm == tmr_of(timer)
           w == Waited
<1>1. /\ timer.active /\ timer.expire = now /\ tmr_ticks' = now
      /\ Expire(tm, w, now) /\ call' = [call EXCEPT !.quiet = FALSE]
  BY DEF TickExpires, ClockTick
<1>2. PICK stop \in BOOLEAN :
        /\ timer' = timer_do(tm, now, stop) /\ wish' = Fulfilled(w, stop)
        /\ early' = (early \/ ~w.on \/ (~w.far /\ w.since * npt < w.due))
  BY <1>1 DEF Expire
<1>3. timer \in Timers /\ timer.expire \in Ticks /\ tmr_ticks \in Ticks /\ wish \in Wishes
      /\ call \in Calls /\ early = FALSE /\ timer.mem
  BY <1>1 DEF IInv, Types, Timers, HasTimer
<1>4. call.pc \notin {"convert", "arm"} /\ wish.on
  BY <1>1 DEF IInv, Setting, ArmedAsWanted
<1>5. tm \in Timers /\ tm.mem /\ ~tm.active /\ tm.period = timer.period
  BY <1>3 DEF tmr_of, Timers
<1>6. /\ w \in Wishes /\ w.on /\ w.due = wish.due /\ w.every = wish.every
      /\ w.far = wish.far /\ w.farEvery = wish.farEvery
      /\ ~wish.far => w.since = wish.since + 1
  BY <1>1, <1>4, WaitedFacts
<1>7. now \in Ticks
  BY <1>1, <1>3
<1>8. Remaining = 1
  BY <1>1, <1>3, LeftAtExpiry DEF Remaining
<1>9. ~w.far => w.since * npt >= w.due
  BY <1>1, <1>4, <1>6, <1>8 DEF IInv, Running
<1>10. ~w.farEvery => Fits(tm.period, w.every)
  BY <1>4, <1>5, <1>6 DEF IInv, Periodic
<1>11. call' \in Calls /\ call'.pc = call.pc /\ ~call'.quiet
  BY <1>1, <1>3 DEF Calls
<1> HIDE DEF now, tm, w
<1>12. call'.pc \notin {"convert", "arm"} /\ (call'.pc = "off" => Accepted(call'.req))
  <2>1. call'.req = call.req
    BY <1>1, <1>3 DEF Calls
  <2> QED BY <1>4, <1>11, <2>1 DEF IInv, Setting
<1> QED BY <1>1, <1>2, <1>3, <1>5, <1>6, <1>7, <1>9, <1>10, <1>11, <1>12, ExpireKeeps DEF npt

(* timer_settime has nothing left to wait for and calls timer_do. *)
LEMMA NowKeeps ==
  ASSUME IInv, SettimeNow
  PROVE  IInv'
<1> DEFINE npt == NANOSECONDS_PER_TICK
<1>1. call.pc = "arm" /\ call.n = 0 /\ Expire(timer, wish, tmr_ticks) /\ call' = Idle
      /\ UNCHANGED tmr_ticks
  BY DEF SettimeNow
<1>2. PICK stop \in BOOLEAN :
        /\ timer' = timer_do(timer, tmr_ticks, stop) /\ wish' = Fulfilled(wish, stop)
        /\ early' = (early \/ ~wish.on \/ (~wish.far /\ wish.since * npt < wish.due))
  BY <1>1 DEF Expire
<1>3. /\ timer \in Timers /\ tmr_ticks \in Ticks /\ wish \in Wishes /\ early = FALSE
      /\ timer.mem /\ ~timer.active /\ wish.on
  BY <1>1 DEF IInv, Types, HasTimer, SetPcs, Setting
<1>4. ~wish.far => wish.since * npt >= wish.due
  <2>1. wish.since \in Nat /\ npt \in Nat /\ wish.due \in Int
    BY <1>3, TickLength DEF Wishes
  <2>2. ~wish.far => 0 * npt >= wish.due
    BY <1>1 DEF IInv, Setting, Fits
  <2> HIDE DEF npt
  <2>3. 0 * npt <= wish.since * npt /\ wish.since * npt \in Int
    BY <2>1, MulMonotone
  <2> QED BY <2>1, <2>2, <2>3
<1>5. ~wish.farEvery => Fits(timer.period, wish.every)
  BY <1>3 DEF IInv, Periodic
<1>6. call' \in Calls /\ call'.pc = "idle"
  BY <1>1, IdleOK
<1>7. call'.pc \notin GetPcs \cup SetPcs /\ call'.pc \notin {"convert", "arm", "off"}
  BY <1>6 DEF GetPcs, SetPcs
<1> QED BY <1>1, <1>2, <1>3, <1>4, <1>5, <1>6, <1>7, ExpireKeeps DEF npt

-----------------------------------------------------------------------------
LEMMA Invariance == Spec => []IInv
<1>1. Init => IInv
  <2> SUFFICES ASSUME Init PROVE IInv
    OBVIOUS
  <2>1. /\ tmr_ticks \in Ticks /\ timer = NoTimer /\ call = Idle /\ wish = NoWish /\ early = FALSE
    BY DEF Init, ClockInit, Ticks
  <2>2. ~timer.active /\ ~wish.on /\ wish.lag = 0 /\ call.pc = "idle"
    BY <2>1, IdleOK DEF NoTimer, NoWish
  <2>3. Types
    BY <2>1, IdleOK DEF Types
  <2> QED BY <2>2, <2>3, TimerAssumption
       DEF IInv, HasTimer, GetPcs, SetPcs, Setting, Running, Periodic, Getting,
           ArmedAsWanted, GettimeExact
<1>2. IInv /\ [Next]_vars => IInv'
  <2> SUFFICES ASSUME IInv, [Next]_vars PROVE IInv'
    OBVIOUS
  <2>1. CASE Tick
    BY <2>1, TickKeeps
  <2>2. CASE TickExpires
    BY <2>2, TickExpiresKeeps
  <2>3. CASE (\E direct \in BOOLEAN : Create(direct)) \/ CreateNoMemory \/ Delete
    BY <2>3, CreationKeeps
  <2>4. CASE \E r \in Requests : SettimeEnter(r)
    BY <2>4, SettimeEnterKeeps
  <2>5. CASE GettimeEnter \/ GetExpire \/ GetTicks \/ GetValue \/ GetReturn
    BY <2>5, ReadersKeep
  <2>6. CASE SettimeOff
    BY <2>6, OffKeeps
  <2>7. CASE SettimeConvert
    BY <2>7, ConvertKeeps
  <2>8. CASE SettimeNow
    BY <2>8, NowKeeps
  <2>9. CASE SettimeOn
    BY <2>9, OnKeeps
  <2>10. CASE UNCHANGED vars
    BY <2>10 DEF vars, IInv, Types, HasTimer, Setting, Running, Periodic, Getting,
       ArmedAsWanted, GettimeExact, Remaining, Fits
  <2> QED BY <2>1, <2>2, <2>3, <2>4, <2>5, <2>6, <2>7, <2>8, <2>9, <2>10 DEF Next, Step
<1> QED BY <1>1, <1>2, PTL DEF Spec

(* The types of the timer model; the kernel's timer is never started with 0 *)
(* ticks.                                                                   *)
THEOREM TypeCorrect == Spec => []TypeOK
<1>1. IInv => TypeOK
  BY DEF IInv, Types, Timers, Calls, Ticks, Running, TypeOK
<1> QED BY <1>1, Invariance, PTL

(* No notification comes before its time, or unasked.                       *)
THEOREM TimerNeverEarly == Spec => []NeverEarly
<1>1. IInv => NeverEarly
  BY DEF IInv, Types, NeverEarly
<1> QED BY <1>1, Invariance, PTL

(* A running timer expires at the first tick that is not before its time,   *)
(* apart from the ticks that timer_settime lost.                            *)
THEOREM TimerOnTime == Spec => []ExpiresOnTime
<1>1. IInv => ExpiresOnTime
  BY DEF IInv, Running, ExpiresOnTime
<1> QED BY <1>1, Invariance, PTL

(* The timer runs exactly when a notification is awaited.                   *)
THEOREM TimerArmedAsWanted == Spec => []ArmedAsWanted
<1>1. IInv => ArmedAsWanted
  BY DEF IInv
<1> QED BY <1>1, Invariance, PTL

(* timer_gettime reports a time that was left at some moment of the call.   *)
THEOREM GettimeIsExact == Spec => []GettimeExact
<1>1. IInv => GettimeExact
  BY DEF IInv
<1> QED BY <1>1, Invariance, PTL

=============================================================================
