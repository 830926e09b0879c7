--------------------------- MODULE AbsTicksProofs ---------------------------
(***************************************************************************)
(* Proofs about the conversion of deadlines to ticks, and about the        *)
(* functions that sleep, for every tick rate that divides a second, every  *)
(* width of unsigned and every timespec.                                   *)
(***************************************************************************)
EXTENDS PosixSleep, TLAPS

(* Timespecs of the program: two integers *)
IsTimespec(ts) ==
  /\ ts = Timespec(ts.tv_sec, ts.tv_nsec)
  /\ ts.tv_sec \in Int
  /\ ts.tv_nsec \in Int

-----------------------------------------------------------------------------
(* Arithmetic *)

LEMMA ModRange ==
  ASSUME NEW a \in Int, NEW d \in Nat \ {0}
  PROVE  a % d \in 0..(d - 1)
  OBVIOUS

LEMMA DivMod ==
  ASSUME NEW a \in Nat, NEW d \in Nat \ {0}
  PROVE  /\ a \div d \in Nat
         /\ a % d \in 0..(d - 1)
         /\ a = d * (a \div d) + (a % d)
  OBVIOUS

LEMMA MulMonotone ==
  ASSUME NEW a \in Int, NEW c \in Int, NEW d \in Nat, a <= c
  PROVE  a * d <= c * d
  OBVIOUS

LEMMA MulCancel ==
  ASSUME NEW a \in Int, NEW c \in Int, NEW d \in Nat \ {0}
  PROVE  /\ a * d <= c * d => a <= c
         /\ a * d < c * d => a < c
<1>1. a <= c \/ c + 1 <= a
  OBVIOUS
<1>2. c + 1 <= a => (c + 1) * d <= a * d
  BY MulMonotone
<1>3. c <= a => c * d <= a * d
  BY MulMonotone
<1>4. (c + 1) * d = c * d + d
  OBVIOUS
<1>5. a * d \in Int /\ c * d \in Int
  OBVIOUS
<1> QED BY <1>1, <1>2, <1>3, <1>4, <1>5

LEMMA MulDiff ==
  ASSUME NEW a \in Int, NEW c \in Int, NEW d \in Int
  PROVE  /\ (a - c) * d = a * d - c * d
         /\ (a - c - 1) * d = a * d - c * d - d
         /\ (a - 1) * d = a * d - d
         /\ (a + 1) * d = a * d + d
  OBVIOUS

(* A second is HZ ticks of NANOSECONDS_PER_TICK nanoseconds.                *)
LEMMA TickLength ==
  /\ NANOSECONDS_PER_TICK \in Nat \ {0}
  /\ NSPS = HZ * NANOSECONDS_PER_TICK
<1>1. PICK npt \in 1..NSPS : NSPS = HZ * npt
  BY TimeAssumption
<1>2. NSPS \in Nat /\ HZ \in Nat \ {0}
  BY TimeAssumption
<1>3. /\ NSPS \div HZ \in Nat /\ NSPS % HZ \in 0..(HZ - 1)
      /\ NSPS = HZ * (NSPS \div HZ) + (NSPS % HZ)
  BY <1>2, DivMod
<1>4. NSPS \div HZ = npt
  <2> DEFINE q == NSPS \div HZ
             r == NSPS % HZ
  <2>1. q \in Nat /\ r \in 0..(HZ - 1) /\ HZ * npt = HZ * q + r
    BY <1>1, <1>3
  <2> HIDE DEF q, r
  <2>2. CASE q + 1 <= npt
    <3>1. (q + 1) * HZ <= npt * HZ
      BY <1>2, <2>1, <2>2, MulMonotone
    <3> QED BY <1>2, <2>1, <3>1, MulDiff
  <2>3. CASE npt + 1 <= q
    <3>1. (npt + 1) * HZ <= q * HZ
      BY <1>2, <2>1, <2>3, MulMonotone
    <3> QED BY <1>2, <2>1, <3>1, MulDiff
  <2>4. CASE q = npt
    BY <2>4 DEF q
  <2>5. q + 1 <= npt \/ npt + 1 <= q \/ q = npt
    <3>1. q \in Int /\ npt \in Int
      BY <1>2, <2>1
    <3> QED BY <3>1
  <2> QED BY <2>2, <2>3, <2>4, <2>5
<1> QED BY <1>1, <1>4 DEF NANOSECONDS_PER_TICK

-----------------------------------------------------------------------------
(* The clock is read without loss: clock_gettime gives a valid timespec     *)
(* that stands for tmr_ticks ticks.                                         *)
LEMMA ClockExact ==
  ASSUME NEW k \in Nat
  PROVE  /\ IsTimespec(clock_gettime(k))
         /\ validate_timespec(clock_gettime(k))
         /\ Nanos(clock_gettime(k)) = k * NANOSECONDS_PER_TICK
<1> DEFINE n == k * NANOSECONDS_PER_TICK
<1>1. n \in Nat
  BY TickLength
<1>2. NSPS \in Nat \ {0}
  BY TimeAssumption
<1> HIDE DEF n
<1>3. /\ n \div NSPS \in Nat
      /\ n % NSPS \in 0..(NSPS - 1)
      /\ n = NSPS * (n \div NSPS) + (n % NSPS)
  BY <1>1, <1>2, DivMod
<1> DEFINE q == n \div NSPS
           r == n % NSPS
<1>4. CDiv(n, NSPS) = q
  BY <1>1 DEF CDiv
<1>5. CMod(n, NSPS) = r
  BY <1>1, <1>2, <1>3, <1>4 DEF CMod
<1>6. q \in Nat /\ r \in 0..(NSPS - 1) /\ n = NSPS * q + r
  BY <1>3
<1> HIDE DEF q, r
<1>7. clock_gettime(k) = Timespec(q, r)
  BY <1>2, <1>4, <1>5, <1>6 DEF clock_gettime, nano2timespec, n
<1>8. q * NSPS + r = n
  BY <1>2, <1>6
<1> QED BY <1>2, <1>6, <1>7, <1>8 DEF IsTimespec, Timespec, validate_timespec, Nanos, n

(* timespec_sub subtracts, whether or not it has to borrow.                 *)
LEMMA SubExact ==
  ASSUME NEW x, NEW y, IsTimespec(x), IsTimespec(y)
  PROVE  /\ IsTimespec(timespec_diff(x, y))
         /\ Nanos(timespec_diff(x, y)) = Nanos(x) - Nanos(y)
<1>1. NSPS \in Nat
  BY TimeAssumption
<1>2. CASE x.tv_nsec < y.tv_nsec
  <2>1. timespec_diff(x, y) =
          Timespec(x.tv_sec - y.tv_sec - 1, x.tv_nsec - y.tv_nsec + NSPS)
    BY <1>2 DEF timespec_diff
  <2> QED BY <1>1, <2>1, MulDiff DEF IsTimespec, Timespec, Nanos
<1>3. CASE ~(x.tv_nsec < y.tv_nsec)
  <2>1. timespec_diff(x, y) =
          Timespec(x.tv_sec - y.tv_sec, x.tv_nsec - y.tv_nsec)
    BY <1>3 DEF timespec_diff
  <2> QED BY <1>1, <2>1, MulDiff DEF IsTimespec, Timespec, Nanos
<1> QED BY <1>2, <1>3

(* The ticks of a valid timespec: as many as reach it, and no more.         *)
LEMMA TicksExact ==
  ASSUME NEW ts, IsTimespec(ts), validate_timespec(ts)
  PROVE  /\ TotalTicks(ts) \in Int
         /\ TotalTicks(ts) * NANOSECONDS_PER_TICK >= Nanos(ts)
         /\ (TotalTicks(ts) - 1) * NANOSECONDS_PER_TICK < Nanos(ts)
<1> DEFINE npt == NANOSECONDS_PER_TICK
           q == ts.tv_nsec \div npt
           r == ts.tv_nsec % npt
           up == IF r # 0 THEN 1 ELSE 0
           sec == ts.tv_sec
<1>1. npt \in Nat \ {0} /\ NSPS = HZ * npt /\ HZ \in Nat
  BY TickLength, TimeAssumption
<1>2. ts.tv_nsec \in Nat /\ sec \in Int
  BY DEF IsTimespec, validate_timespec
<1>3. q \in Nat /\ r \in 0..(npt - 1) /\ ts.tv_nsec = npt * q + r
  BY <1>1, <1>2, DivMod
<1>4. TotalTicks(ts) = HZ * sec + q + up
  BY DEF TotalTicks
<1>5. Nanos(ts) = sec * (HZ * npt) + npt * q + r
  <2>1. Nanos(ts) = sec * NSPS + (npt * q + r)
    BY <1>3 DEF Nanos
  <2> HIDE DEF npt, q, r, sec
  <2> QED BY <1>1, <1>2, <1>3, <2>1
<1>6. up \in 0..1 /\ (r # 0 => up = 1) /\ (r = 0 => up = 0)
  OBVIOUS
<1> HIDE DEF npt, q, r, up, sec
<1> DEFINE T == HZ * sec + q + up
<1>7. T \in Int
  BY <1>1, <1>2, <1>3, <1>6
<1>8. T * npt = sec * (HZ * npt) + npt * q + up * npt
  BY <1>1, <1>2, <1>3, <1>6
<1>9. (T - 1) * npt = T * npt - npt
  BY <1>1, <1>7, MulDiff
<1>10. up * npt >= r /\ up * npt - npt < r
  <2>1. CASE r = 0
    BY <1>1, <1>6, <2>1
  <2>2. CASE r # 0
    BY <1>1, <1>3, <1>6, <2>2
  <2> QED BY <2>1, <2>2
<1>11. T * npt >= Nanos(ts) /\ (T - 1) * npt < Nanos(ts)
  <2> DEFINE base == sec * (HZ * npt) + npt * q
  <2>1. base \in Int
    BY <1>1, <1>2, <1>3
  <2>2. T * npt = base + up * npt /\ Nanos(ts) = base + r
    BY <1>5, <1>8
  <2>3. up * npt \in Int /\ r \in Int /\ npt \in Int
    BY <1>1, <1>3, <1>6
  <2> HIDE DEF base, T
  <2> QED BY <1>9, <1>10, <2>1, <2>2, <2>3
<1> QED BY <1>4, <1>7, <1>11 DEF npt

(* The ticks of a valid timespec fit into an unsigned exactly if the        *)
(* largest unsigned of ticks reaches it.                                    *)
LEMMA TicksFit ==
  ASSUME NEW ts, IsTimespec(ts), validate_timespec(ts), Nanos(ts) >= 0
  PROVE  /\ TotalTicks(ts) >= 0
         /\ TotalTicks(ts) > UINT_MAX <=> Nanos(ts) > UINT_MAX * NANOSECONDS_PER_TICK
<1> DEFINE t == TotalTicks(ts)
           npt == NANOSECONDS_PER_TICK
           n == Nanos(ts)
           far == UINT_MAX * npt
<1>1. t \in Int /\ t * npt >= n /\ (t - 1) * npt < n
  BY TicksExact
<1>2. npt \in Nat \ {0} /\ UINT_MAX \in Nat
  BY TickLength, TimeAssumption
<1>3. n \in Int /\ n >= 0
  BY TimeAssumption DEF IsTimespec, Nanos
<1> HIDE DEF t, npt, n
<1>4. t * npt \in Int /\ (t - 1) * npt \in Int /\ far \in Int
  BY <1>1, <1>2
<1>5. t >= 0
  <2>1. SUFFICES ASSUME t <= -1 PROVE FALSE
    BY <1>1
  <2>2. t * npt <= (-1) * npt
    BY <1>1, <1>2, <2>1, MulMonotone
  <2> QED BY <1>1, <1>2, <1>3, <1>4, <2>2
<1>6. ASSUME t > UINT_MAX PROVE n > far
  <2>1. UINT_MAX * npt <= (t - 1) * npt
    BY <1>1, <1>2, <1>6, MulMonotone
  <2> QED BY <1>1, <1>3, <1>4, <2>1
<1>7. ASSUME ~(t > UINT_MAX) PROVE ~(n > far)
  <2>1. t * npt <= UINT_MAX * npt
    BY <1>1, <1>2, <1>7, MulMonotone
  <2> QED BY <1>1, <1>3, <1>4, <2>1
<1> QED BY <1>5, <1>6, <1>7 DEF t, npt, n

LEMMA SubOk ==
  ASSUME NEW x, NEW y, IsTimespec(x), IsTimespec(y), timespec_sub(x, y).code = 0
  PROVE  /\ IsTimespec(timespec_sub(x, y).ts)
         /\ Nanos(timespec_sub(x, y).ts) = Nanos(x) - Nanos(y)
<1>1. NSPS \in Nat
  BY TimeAssumption
<1>2. CASE timespec_cmp(x, y) = -1
  BY <1>2 DEF timespec_sub
<1>3. CASE timespec_cmp(x, y) = 0
  <2>1. x.tv_sec = y.tv_sec /\ x.tv_nsec = y.tv_nsec
    BY <1>3 DEF timespec_cmp, IsTimespec
  <2>2. timespec_sub(x, y).ts = Timespec(0, 0)
    BY <1>3 DEF timespec_sub
  <2>3. IsTimespec(Timespec(0, 0)) /\ Nanos(Timespec(0, 0)) = 0
    BY <1>1 DEF IsTimespec, Timespec, Nanos
  <2>4. Nanos(x) = Nanos(y) /\ Nanos(x) \in Int
    BY <1>1, <2>1 DEF Nanos, IsTimespec
  <2> QED BY <2>2, <2>3, <2>4
<1>4. CASE timespec_cmp(x, y) \notin {-1, 0}
  <2>1. timespec_sub(x, y).ts = timespec_diff(x, y)
    BY <1>4 DEF timespec_sub
  <2> QED BY <2>1, SubExact
<1> QED BY <1>2, <1>3, <1>4

(* Comparing timespecs is comparing times, if they are valid.               *)
LEMMA CmpValid ==
  ASSUME NEW x, NEW y, IsTimespec(x), IsTimespec(y),
         validate_timespec(x), validate_timespec(y)
  PROVE  timespec_cmp(x, y) = -1 <=> Nanos(x) < Nanos(y)
<1> DEFINE xs == x.tv_sec * NSPS
           ys == y.tv_sec * NSPS
<1>1. NSPS \in Nat /\ x.tv_sec \in Int /\ y.tv_sec \in Int
      /\ x.tv_nsec \in 0..(NSPS - 1) /\ y.tv_nsec \in 0..(NSPS - 1)
  BY TimeAssumption DEF IsTimespec, validate_timespec
<1>2. Nanos(x) = xs + x.tv_nsec /\ Nanos(y) = ys + y.tv_nsec
  BY DEF Nanos
<1>3. xs \in Int /\ ys \in Int
  BY <1>1
<1>4. CASE x.tv_sec < y.tv_sec
  <2>1. (x.tv_sec + 1) * NSPS <= y.tv_sec * NSPS
    BY <1>1, <1>4, MulMonotone
  <2>2. xs + NSPS <= ys
    BY <1>1, <2>1, MulDiff
  <2>3. timespec_cmp(x, y) = -1
    BY <1>1, <1>4 DEF timespec_cmp
  <2> HIDE DEF xs, ys
  <2> QED BY <1>1, <1>2, <1>3, <2>2, <2>3
<1>5. CASE y.tv_sec < x.tv_sec
  <2>1. (y.tv_sec + 1) * NSPS <= x.tv_sec * NSPS
    BY <1>1, <1>5, MulMonotone
  <2>2. ys + NSPS <= xs
    BY <1>1, <2>1, MulDiff
  <2>3. timespec_cmp(x, y) = 1
    BY <1>1, <1>5 DEF timespec_cmp
  <2> HIDE DEF xs, ys
  <2> QED BY <1>1, <1>2, <1>3, <2>2, <2>3
<1>6. CASE x.tv_sec = y.tv_sec
  <2>1. xs = ys
    BY <1>6
  <2>2. timespec_cmp(x, y) = -1 <=> x.tv_nsec < y.tv_nsec
    BY <1>1, <1>6 DEF timespec_cmp
  <2> HIDE DEF xs, ys
  <2> QED BY <1>1, <1>2, <1>3, <2>1, <2>2
<1> QED BY <1>1, <1>4, <1>5, <1>6

(* Subtracting valid timespecs gives a valid one.                           *)
LEMMA SubValid ==
  ASSUME NEW x, NEW y, IsTimespec(x), IsTimespec(y),
         validate_timespec(x), validate_timespec(y), timespec_cmp(x, y) # -1
  PROVE  timespec_sub(x, y).code = 0 /\ validate_timespec(timespec_sub(x, y).ts)
<1>1. NSPS \in Nat \ {0} /\ x.tv_nsec \in 0..(NSPS - 1) /\ y.tv_nsec \in 0..(NSPS - 1)
  BY TimeAssumption DEF IsTimespec, validate_timespec
<1>2. CASE timespec_cmp(x, y) = 0
  BY <1>1, <1>2 DEF timespec_sub, validate_timespec, Timespec
<1>3. CASE timespec_cmp(x, y) # 0
  <2>1. timespec_diff(x, y).tv_nsec \in 0..(NSPS - 1)
    BY <1>1 DEF timespec_diff, Timespec
  <2>2. timespec_sub(x, y) = [code |-> 0, ts |-> timespec_diff(x, y)]
    BY <1>1, <1>3, <2>1 DEF timespec_sub
  <2> QED BY <1>1, <2>1, <2>2 DEF validate_timespec
<1> QED BY <1>2, <1>3

-----------------------------------------------------------------------------
(* The counter is an unsigned. *)
ClockOK == tmr_ticks \in 0..UINT_MAX

LEMMA WrapRange ==
  ASSUME NEW n \in Int
  PROVE  Wrap(n) \in 0..UINT_MAX
<1> DEFINE d == UINT_MAX + 1
<1>1. d \in Nat \ {0} /\ d - 1 = UINT_MAX
  BY TimeAssumption
<1> HIDE DEF d
<1>2. n % d \in 0..(d - 1)
  BY <1>1, ModRange
<1>3. n % d \in 0..UINT_MAX
  BY <1>1, <1>2
<1> QED BY <1>3 DEF Wrap, d

LEMMA WrapSmall ==
  ASSUME NEW n \in 0..UINT_MAX
  PROVE  Wrap(n) = n
<1> DEFINE d == UINT_MAX + 1
           q == n \div d
           r == n % d
<1>1. d \in Nat \ {0} /\ n \in Nat /\ n < d
  BY TimeAssumption
<1> HIDE DEF d
<1>2. q \in Nat /\ r \in 0..(d - 1) /\ n = d * q + r
  BY <1>1, DivMod
<1> HIDE DEF q, r
<1>3. q = 0
  <2>1. SUFFICES ASSUME 1 <= q PROVE FALSE
    BY <1>2
  <2>2. 1 * d <= q * d
    BY <1>1, <1>2, <2>1, MulMonotone
  <2> QED BY <1>1, <1>2, <2>2
<1>4. n = r
  BY <1>1, <1>2, <1>3
<1> QED BY <1>4 DEF Wrap, d, r

LEMMA TickKeepsClock ==
  ASSUME ClockOK, ClockTick
  PROVE  ClockOK'
<1>1. tmr_ticks + 1 \in Nat
  BY TimeAssumption DEF ClockOK
<1> QED BY <1>1, WrapRange DEF ClockOK, ClockTick

LEMMA ClockInvariance == ClockSpec => []ClockOK
<1>1. ClockInit => ClockOK
  BY DEF ClockInit, ClockOK
<1>2. ClockOK /\ [ClockTick]_tmr_ticks => ClockOK'
  BY TickKeepsClock DEF ClockOK
<1> QED BY <1>1, <1>2, PTL DEF ClockSpec

(* Facts about a deadline and the clock that both theorems use *)
LEMMA StateFacts ==
  ASSUME ClockOK, NEW abs_time, IsTimespec(abs_time)
  PROVE  LET now == clock_gettime(tmr_ticks) IN
         /\ IsTimespec(now) /\ validate_timespec(now)
         /\ Nanos(now) = NowNanos
         /\ NowNanos \in Int /\ Nanos(abs_time) \in Int
<1>1. tmr_ticks \in Nat
  BY TimeAssumption DEF ClockOK
<1>3. NowNanos \in Int
  BY <1>1, TickLength DEF NowNanos
<1>4. Nanos(abs_time) \in Int
  BY TimeAssumption DEF Nanos, IsTimespec
<1> QED BY <1>1, <1>3, <1>4, ClockExact DEF NowNanos

(* The results of abs_timespec2ticks *)
LEMMA ConvertedTypes ==
  ASSUME ClockOK, NEW abs_time, IsTimespec(abs_time)
  PROVE  /\ Converted(abs_time).code \in {"0", "ETIMEDOUT", "EINVAL"}
         /\ Converted(abs_time).ticks \in 0..UINT_MAX \cup {Unset}
<1> DEFINE now == clock_gettime(tmr_ticks)
           d == timespec_sub(abs_time, now)
<1>1. IsTimespec(now)
  BY StateFacts
<1> HIDE DEF now
<1>2. Converted(abs_time) = CASE d.code = 1  -> [code |-> "ETIMEDOUT", ticks |-> Unset]
                              [] d.code = -1 -> [code |-> "EINVAL", ticks |-> Unset]
                              [] OTHER       -> timespec2ticks(d.ts)
  BY DEF Converted, abs_timespec2ticks, now
<1>3. d.code \in {1, 0, -1}
  BY DEF timespec_sub
<1>4. CASE d.code = 0
  <2>1. IsTimespec(d.ts)
    BY <1>1, <1>4, SubOk
  <2> HIDE DEF d
  <2>2. validate_timespec(d.ts) => TotalTicks(d.ts) \in Int
    BY <2>1, TicksExact
  <2>3. validate_timespec(d.ts) => TotalTicks(d.ts) % (UINT_MAX + 1) \in 0..UINT_MAX
    BY <2>2, WrapRange DEF Wrap
  <2>4. Converted(abs_time) = timespec2ticks(d.ts)
    BY <1>2, <1>4
  <2> QED BY <2>3, <2>4 DEF timespec2ticks
<1>5. CASE d.code # 0
  BY <1>2, <1>3, <1>5
<1> QED BY <1>4, <1>5

(* The ticks an accepted deadline is given are the least that reach it.     *)
LEMMA AcceptedIsExact ==
  ASSUME ClockOK, NEW abs_time, IsTimespec(abs_time), Converted(abs_time).code = "0"
  PROVE  /\ Converted(abs_time).ticks \in 0..UINT_MAX
         /\ NowNanos + Converted(abs_time).ticks * NANOSECONDS_PER_TICK >= Nanos(abs_time)
         /\ NowNanos + (Converted(abs_time).ticks - 1) * NANOSECONDS_PER_TICK
              < Nanos(abs_time)
<1> DEFINE now == clock_gettime(tmr_ticks)
           d == timespec_sub(abs_time, now)
<1>1. /\ IsTimespec(abs_time) /\ IsTimespec(now)
      /\ Nanos(now) = NowNanos /\ NowNanos \in Int /\ Nanos(abs_time) \in Int
  BY StateFacts
<1> HIDE DEF now
<1>2. d.code = 0 /\ Converted(abs_time) = timespec2ticks(d.ts)
  <2>1. d.code \in {1, 0, -1}
    BY DEF timespec_sub
  <2> QED BY <2>1 DEF Converted, abs_timespec2ticks, now
<1>3. IsTimespec(d.ts) /\ Nanos(d.ts) = Nanos(abs_time) - NowNanos
  BY <1>1, <1>2, SubOk
<1> HIDE DEF d
<1>4. validate_timespec(d.ts) /\ TotalTicks(d.ts) \in 0..UINT_MAX
      /\ Converted(abs_time).ticks = TotalTicks(d.ts)
  BY <1>2 DEF timespec2ticks
<1>5. /\ TotalTicks(d.ts) * NANOSECONDS_PER_TICK >= Nanos(d.ts)
      /\ (TotalTicks(d.ts) - 1) * NANOSECONDS_PER_TICK < Nanos(d.ts)
  BY <1>3, <1>4, TicksExact
<1> DEFINE n == Converted(abs_time).ticks * NANOSECONDS_PER_TICK
           m == (Converted(abs_time).ticks - 1) * NANOSECONDS_PER_TICK
<1>6. n \in Int /\ m \in Int
  BY <1>4, TickLength, TimeAssumption
<1>7. n >= Nanos(abs_time) - NowNanos /\ m < Nanos(abs_time) - NowNanos
  BY <1>3, <1>4, <1>5
<1> HIDE DEF n, m
<1>8. NowNanos + n >= Nanos(abs_time) /\ NowNanos + m < Nanos(abs_time)
  BY <1>1, <1>6, <1>7
<1> QED BY <1>4, <1>8 DEF n, m

(* A valid deadline is refused if it is past or out of range, and only then.*)
LEMMA ValidIsClassified ==
  ASSUME ClockOK, NEW abs_time, IsTimespec(abs_time), validate_timespec(abs_time)
  PROVE  /\ Converted(abs_time).code = "ETIMEDOUT" <=> Nanos(abs_time) < NowNanos
         /\ Converted(abs_time).code = "EINVAL" <=>
              Nanos(abs_time) > NowNanos + UINT_MAX * NANOSECONDS_PER_TICK
<1> DEFINE now == clock_gettime(tmr_ticks)
           d == timespec_sub(abs_time, now)
           far == UINT_MAX * NANOSECONDS_PER_TICK
<1>1. /\ IsTimespec(abs_time) /\ IsTimespec(now) /\ validate_timespec(now)
      /\ Nanos(now) = NowNanos /\ NowNanos \in Int /\ Nanos(abs_time) \in Int
  BY StateFacts
<1>2. far \in Nat
  BY TickLength, TimeAssumption
<1>3. Converted(abs_time) = CASE d.code = 1  -> [code |-> "ETIMEDOUT", ticks |-> Unset]
                    [] d.code = -1 -> [code |-> "EINVAL", ticks |-> Unset]
                    [] OTHER       -> timespec2ticks(d.ts)
  BY DEF Converted, abs_timespec2ticks
<1> HIDE DEF now, far
<1>4. CASE timespec_cmp(abs_time, now) = -1
  <2>1. Nanos(abs_time) < NowNanos
    BY <1>1, <1>4, CmpValid
  <2>2. d.code = 1
    BY <1>4 DEF timespec_sub
  <2>3. Converted(abs_time).code = "ETIMEDOUT"
    BY <1>3, <2>2
  <2>4. ~(Nanos(abs_time) > NowNanos + far)
    BY <1>1, <1>2, <2>1
  <2> QED BY <2>1, <2>3, <2>4 DEF far
<1>5. CASE timespec_cmp(abs_time, now) # -1
  <2>1. ~(Nanos(abs_time) < NowNanos)
    BY <1>1, <1>5, CmpValid
  <2>2. d.code = 0 /\ validate_timespec(d.ts)
    BY <1>1, <1>5, SubValid
  <2>3. IsTimespec(d.ts) /\ Nanos(d.ts) = Nanos(abs_time) - NowNanos
    BY <1>1, <2>2, SubOk
  <2> DEFINE t == TotalTicks(d.ts)
  <2>4. Converted(abs_time) = timespec2ticks(d.ts)
    BY <1>3, <2>2
  <2>5. t \in Int /\ t * NANOSECONDS_PER_TICK >= Nanos(d.ts)
        /\ (t - 1) * NANOSECONDS_PER_TICK < Nanos(d.ts)
    BY <2>2, <2>3, TicksExact
  <2>6. Converted(abs_time).code \in {"0", "EINVAL"}
        /\ (Converted(abs_time).code = "EINVAL" <=> t \notin 0..UINT_MAX)
    BY <2>2, <2>4 DEF timespec2ticks
  <2> HIDE DEF d, t
  <2>7. NANOSECONDS_PER_TICK \in Nat \ {0} /\ UINT_MAX \in Nat
    BY TickLength, TimeAssumption
  <2>8. Nanos(d.ts) >= 0
    BY <1>1, <2>1, <2>3
  <2>9. t >= 0 /\ (t > UINT_MAX <=> Nanos(d.ts) > far)
    BY <2>2, <2>3, <2>8, TicksFit DEF t, far
  <2>10. Converted(abs_time).code = "EINVAL" <=> Nanos(abs_time) - NowNanos > far
    BY <2>3, <2>5, <2>6, <2>7, <2>8, <2>9
  <2>11. Nanos(abs_time) - NowNanos > far <=> Nanos(abs_time) > NowNanos + far
    BY <1>1, <1>2
  <2> QED BY <2>1, <2>6, <2>10, <2>11 DEF far
<1> QED BY <1>4, <1>5

(* Whatever the deadline, the ticks abs_timespec2ticks accepts it with are  *)
(* the least that reach it.                                                 *)
THEOREM AcceptedDeadlinesExact == ClockSpec => []AcceptedExact
<1>1. \A ts \in Timespecs : IsTimespec(ts)
  BY TimespecsAssumption DEF IsTimespec
<1>2. ClockOK => AcceptedExact
  BY <1>1, AcceptedIsExact DEF AcceptedExact
<1> QED BY <1>2, ClockInvariance, PTL

(* A valid deadline is refused exactly if it is past or out of range.       *)
THEOREM ValidDeadlinesClassified == ClockSpec => []ClassifiesValid
<1>1. \A ts \in Timespecs : IsTimespec(ts)
  BY TimespecsAssumption DEF IsTimespec
<1>2. ClockOK => ClassifiesValid
  BY <1>1, ValidIsClassified DEF ClassifiesValid
<1> QED BY <1>2, ClockInvariance, PTL

-----------------------------------------------------------------------------
(* A sleep of n ticks lasts n ticks by the clock of clock_gettime. *)
LEMMA MeasuredExact ==
  ASSUME ClockOK, NEW n \in Nat
  PROVE  Measured(n) = n * NANOSECONDS_PER_TICK /\ n * NANOSECONDS_PER_TICK \in Nat
<1> DEFINE npt == NANOSECONDS_PER_TICK
<1>1. tmr_ticks \in Nat /\ tmr_ticks + n \in Nat /\ npt \in Nat
  BY TimeAssumption, TickLength DEF ClockOK
<1>2. Measured(n) = (tmr_ticks + n) * npt - tmr_ticks * npt
  BY <1>1, ClockExact DEF Measured
<1> HIDE DEF npt
<1>3. (tmr_ticks + n - tmr_ticks) * npt = (tmr_ticks + n) * npt - tmr_ticks * npt
  BY <1>1, MulDiff
<1>4. tmr_ticks + n - tmr_ticks = n
  BY <1>1
<1>5. Measured(n) = n * npt /\ n * npt \in Nat
  BY <1>1, <1>2, <1>3, <1>4
<1> QED BY <1>5 DEF npt

(* A relative sleep of nanosleep or clock_nanosleep takes the least number  *)
(* of ticks that covers the request, whenever it begins.                    *)
THEOREM SleepsCover == ClockSpec => []NanosleepCovers
<1>1. ASSUME NEW ts \in Timespecs, validate_timespec(ts), ts.tv_sec >= 0,
             Nanos(ts) <= UINT_MAX * NANOSECONDS_PER_TICK
      PROVE  /\ nanosleep(ts).ticks = TotalTicks(ts)
             /\ clock_nanosleep(FALSE, ts).ticks = TotalTicks(ts)
             /\ TotalTicks(ts) \in Nat /\ Nanos(ts) \in Int
             /\ TotalTicks(ts) * NANOSECONDS_PER_TICK >= Nanos(ts)
             /\ (TotalTicks(ts) - 1) * NANOSECONDS_PER_TICK < Nanos(ts)
  <2>1. IsTimespec(ts)
    BY TimespecsAssumption DEF IsTimespec
  <2>2. Nanos(ts) \in Int /\ Nanos(ts) >= 0
    <3>1. ts.tv_sec \in Nat /\ ts.tv_nsec \in Nat /\ NSPS \in Nat
      BY <1>1, <2>1, TimeAssumption DEF IsTimespec, validate_timespec
    <3>2. ts.tv_sec * NSPS \in Nat
      BY <3>1
    <3> QED BY <3>1, <3>2 DEF Nanos
  <2>3. UINT_MAX \in Nat /\ UINT_MAX * NANOSECONDS_PER_TICK \in Int
    BY TimeAssumption, TickLength
  <2>4. /\ TotalTicks(ts) \in Int
        /\ TotalTicks(ts) * NANOSECONDS_PER_TICK >= Nanos(ts)
        /\ (TotalTicks(ts) - 1) * NANOSECONDS_PER_TICK < Nanos(ts)
    BY <1>1, <2>1, TicksExact
  <2>5. /\ TotalTicks(ts) >= 0
        /\ TotalTicks(ts) > UINT_MAX <=> Nanos(ts) > UINT_MAX * NANOSECONDS_PER_TICK
    BY <1>1, <2>1, <2>2, TicksFit
  <2>6. ~(Nanos(ts) > UINT_MAX * NANOSECONDS_PER_TICK)
    BY <1>1, <2>2, <2>3
  <2>7. TotalTicks(ts) \in 0..UINT_MAX
    BY <2>3, <2>4, <2>5, <2>6
  <2>8. timespec2ticks(ts) = [code |-> "0", ticks |-> TotalTicks(ts)]
    BY <1>1, <2>7 DEF timespec2ticks
  <2>9. SleepFor(ts).ticks = TotalTicks(ts)
    BY <2>8 DEF SleepFor, Slept
  <2> QED BY <1>1, <2>2, <2>3, <2>4, <2>7, <2>9 DEF nanosleep, clock_nanosleep
<1>2. ASSUME ClockOK, NEW ts \in Timespecs, validate_timespec(ts), ts.tv_sec >= 0,
             Nanos(ts) <= UINT_MAX * NANOSECONDS_PER_TICK
      PROVE  /\ Measured(TotalTicks(ts)) >= Nanos(ts)
             /\ Measured(TotalTicks(ts)) < Nanos(ts) + NANOSECONDS_PER_TICK
  <2> DEFINE n == TotalTicks(ts)
             npt == NANOSECONDS_PER_TICK
  <2>1. n \in Nat /\ Nanos(ts) \in Int /\ n * npt >= Nanos(ts) /\ (n - 1) * npt < Nanos(ts)
    BY <1>1, <1>2
  <2> HIDE DEF n
  <2>2. Measured(n) = n * npt /\ n * npt \in Nat
    BY <1>2, <2>1, MeasuredExact
  <2>3. npt \in Nat /\ (n - 1) * npt = n * npt - npt
    BY <2>1, TickLength, MulDiff
  <2> HIDE DEF npt
  <2>4. Measured(n) >= Nanos(ts) /\ Measured(n) < Nanos(ts) + npt
    BY <2>1, <2>2, <2>3
  <2> QED BY <2>4 DEF n, npt
<1>3. ClockOK => NanosleepCovers
  BY <1>1, <1>2 DEF NanosleepCovers
<1> QED BY <1>3, ClockInvariance, PTL

(* sleep is exact and usleep at most a tick short, as long as the unsigned  *)
(* products they compute do not overflow.                                   *)
THEOREM UsleepsWithinTick == ClockSpec => []UsleepWithinTick
<1> DEFINE npt == NANOSECONDS_PER_TICK
           k == NSPS \div USPS
<1>1. npt \in Nat \ {0} /\ NSPS = HZ * npt /\ HZ \in Nat \ {0} /\ NSPS \in Nat
      /\ USPS \in Nat \ {0}
  BY TickLength, TimeAssumption, SleepAssumption
<1>2. k \in Nat /\ NSPS = USPS * k
  <2>1. k \in Nat /\ NSPS = USPS * k + (NSPS % USPS)
    BY <1>1, DivMod
  <2>2. USPS * k \in Int
    BY <1>1, <2>1
  <2> HIDE DEF k
  <2> QED BY <2>1, <2>2, SleepAssumption
<1> HIDE DEF npt, k
<1>3. ASSUME NEW s \in Nat, s * HZ <= UINT_MAX
      PROVE  sleep(s).ticks \in Nat /\ sleep(s).ticks * npt = s * NSPS
  <2>1. s * HZ \in 0..UINT_MAX
    BY <1>1, <1>3, TimeAssumption
  <2>2. sleep(s).ticks = s * HZ
    BY <2>1, WrapSmall DEF sleep, Slept, Wrap
  <2> QED BY <1>1, <2>1, <2>2
<1>4. ASSUME NEW u \in Nat, u * HZ <= UINT_MAX
      PROVE  /\ usleep(u).ticks \in Nat
             /\ usleep(u).ticks * npt <= u * k
             /\ (usleep(u).ticks + 1) * npt > u * k
  <2> DEFINE p == u * HZ
             q == p \div USPS
             r == p % USPS
  <2>1. p \in 0..UINT_MAX /\ p \in Nat
    BY <1>1, <1>4, TimeAssumption
  <2>2. usleep(u).ticks = q
    BY <2>1, WrapSmall DEF usleep, Slept, Wrap
  <2>3. q \in Nat /\ r \in 0..(USPS - 1) /\ p = USPS * q + r
    <3> HIDE DEF p
    <3> QED BY <1>1, <2>1, DivMod
  <2>4. p * npt = (u * k) * USPS
    <3>1. p * npt = u * NSPS
      BY <1>1
    <3>2. u * (USPS * k) = (u * k) * USPS
      BY <1>1, <1>2
    <3> QED BY <1>2, <3>1, <3>2
  <2> HIDE DEF p, q, r
  <2>5. p * npt = (q * npt) * USPS + r * npt
    BY <1>1, <2>3
  <2>6. q * npt \in Int /\ (q + 1) * npt \in Int /\ u * k \in Int
        /\ r * npt \in Nat /\ r \in Nat
    BY <1>1, <1>2, <2>3
  <2>7. q * npt <= u * k
    <3>1. (q * npt) * USPS <= (u * k) * USPS
      <4> DEFINE x == (q * npt) * USPS
                 y == (u * k) * USPS
                 z == r * npt
      <4>1. x \in Int /\ y \in Int /\ z \in Nat /\ y = x + z
        BY <1>1, <2>4, <2>5, <2>6
      <4> HIDE DEF x, y, z
      <4>2. x <= y
        BY <4>1
      <4> QED BY <4>2 DEF x, y
    <3> QED BY <1>1, <2>6, <3>1, MulCancel
  <2>8. u * k < (q + 1) * npt
    <3>1. (r + 1) * npt <= USPS * npt
      BY <1>1, <2>3, <2>6, MulMonotone
    <3>2. ((q + 1) * npt) * USPS = (q * npt) * USPS + USPS * npt
      BY <1>1, <2>3
    <3>3. (r + 1) * npt = r * npt + npt
      BY <1>1, <2>6
    <3>4. (u * k) * USPS < ((q + 1) * npt) * USPS
      <4> DEFINE x == (q * npt) * USPS
                 y == (u * k) * USPS
                 z == r * npt
                 v == USPS * npt
                 w == ((q + 1) * npt) * USPS
      <4>1. x \in Int /\ y \in Int /\ z \in Int /\ v \in Int /\ y = x + z
            /\ z + npt <= v /\ w = x + v
        BY <1>1, <2>4, <2>5, <2>6, <3>1, <3>2, <3>3
      <4> HIDE DEF x, y, z, v, w
      <4>2. y < w
        BY <1>1, <4>1
      <4> QED BY <4>2 DEF y, w
    <3> QED BY <1>1, <2>6, <3>4, MulCancel
  <2>9. (q + 1) * npt > u * k
    BY <2>6, <2>8
  <2> QED BY <2>2, <2>3, <2>7, <2>9
<1>5. ASSUME ClockOK, NEW s \in Nat, s * HZ <= UINT_MAX
      PROVE  Measured(sleep(s).ticks) = s * NSPS
  BY <1>3, <1>5, MeasuredExact DEF npt
<1>6. ASSUME ClockOK, NEW u \in Nat, u * HZ <= UINT_MAX
      PROVE  Measured(usleep(u).ticks) <= u * k /\ Measured(usleep(u).ticks) + npt > u * k
  <2> DEFINE n == usleep(u).ticks
  <2>1. n \in Nat /\ n * npt <= u * k /\ (n + 1) * npt > u * k
    BY <1>4, <1>6
  <2> HIDE DEF n
  <2>2. Measured(n) = n * npt /\ (n + 1) * npt = n * npt + npt
    BY <1>1, <1>6, <2>1, MeasuredExact DEF npt
  <2>3. Measured(n) <= u * k /\ Measured(n) + npt > u * k
    BY <2>1, <2>2
  <2> QED BY <2>3 DEF n
<1>7. ASSUME ClockOK PROVE UsleepWithinTick
  <2> SUFFICES ASSUME NEW ts \in Timespecs
      PROVE /\ ts.tv_sec >= 0 /\ ts.tv_sec * HZ <= UINT_MAX =>
                 Measured(sleep(ts.tv_sec).ticks) = ts.tv_sec * NSPS
            /\ ts.tv_nsec >= 0 /\ ts.tv_nsec * HZ <= UINT_MAX =>
                 /\ Measured(usleep(ts.tv_nsec).ticks) <= ts.tv_nsec * k
                 /\ Measured(usleep(ts.tv_nsec).ticks) + npt > ts.tv_nsec * k
    BY DEF UsleepWithinTick, npt, k
  <2>1. ts.tv_sec \in Int /\ ts.tv_nsec \in Int
    BY TimespecsAssumption
  <2>2. ts.tv_sec >= 0 => ts.tv_sec \in Nat
    BY <2>1
  <2>3. ts.tv_nsec >= 0 => ts.tv_nsec \in Nat
    BY <2>1
  <2> QED BY <1>5, <1>6, <1>7, <2>2, <2>3
<1> QED BY <1>7, ClockInvariance, PTL

=============================================================================
