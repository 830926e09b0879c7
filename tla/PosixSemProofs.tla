--------------------------- MODULE PosixSemProofs ---------------------------
(***************************************************************************)
(* Proofs about semaphores, for any threads and deadlines, every tick rate *)
(* that divides a second and every width of unsigned.                      *)
(***************************************************************************)
EXTENDS PosixSem, AbsTicksProofs

Timed == {"timedwait", "trywait"}

(* The ticks of a call: an unsigned, or the kernel's WAIT *)
TickCounts == 0..UINT_MAX \cup {WAIT}

CallRecs ==
  [pc : {"idle", "get", "blocked"}, op : {"none", "wait"} \cup Timed, valid : BOOLEAN,
   ret : Codes \ {"EAGAIN"}, due : Int, sleep : TickCounts, left : TickCounts,
   elapsed : 0..UINT_MAX]

(* TypeOK, with the calls as functions and records *)
Types ==
  /\ val \in Nat
  /\ tmr_ticks \in 0..UINT_MAX
  /\ res \in [Threads -> Codes]
  /\ call \in [Threads -> CallRecs]

(* The ticks of a timed wait reach its deadline, unless it is EINVAL.       *)
SleepCovers(c) ==
  c.op = "timedwait" /\ c.ret # "EINVAL" =>
    c.sleep \in 0..UINT_MAX /\ c.sleep * NANOSECONDS_PER_TICK >= c.due

(* A blocked thread does not lose ticks: what is left and what has passed   *)
(* since the clock was read make up its sleep.                              *)
Countdown(c) ==
  c.pc = "blocked" =>
    /\ c.sleep # 0
    /\ c.sleep # WAIT => c.left # WAIT /\ c.elapsed + c.left >= c.sleep

(* No deadline to wait for, no ticks.                                       *)
NoTimeNoTicks(c) ==
  c.op \in Timed /\ (~c.valid \/ c.due <= 0) => c.sleep = 0

CallInv(c) == SleepCovers(c) /\ Countdown(c) /\ NoTimeNoTicks(c)

(* The inductive invariant *)
IInv == Types /\ \A t \in Threads : CallInv(call[t])

-----------------------------------------------------------------------------
(* What sem_timedwait makes of a deadline, relative to the clock *)
LEMMA ConversionFacts ==
  ASSUME ClockOK, NEW ts, IsTimespec(ts)
  PROVE  LET c   == Conversion(ts)
             due == Nanos(ts) - Nanos(clock_gettime(tmr_ticks))
         IN  /\ c.ret \in Codes \ {"EAGAIN"}
             /\ c.sleep \in TickCounts
             /\ due \in Int
             /\ c.ret # "EINVAL" =>
                  c.sleep \in 0..UINT_MAX /\ c.sleep * NANOSECONDS_PER_TICK >= due
             /\ ~validate_timespec(ts) \/ due <= 0 => c.sleep = 0
<1> DEFINE c == Conversion(ts)
           due == Nanos(ts) - Nanos(clock_gettime(tmr_ticks))
           cv == Converted(ts)
           npt == NANOSECONDS_PER_TICK
<1>1. /\ Nanos(clock_gettime(tmr_ticks)) = NowNanos
      /\ NowNanos \in Int /\ Nanos(ts) \in Int
  BY StateFacts
<1>2. due = Nanos(ts) - NowNanos /\ due \in Int
  BY <1>1
<1>3. npt \in Nat \ {0} /\ UINT_MAX \in Nat
  BY TickLength, TimeAssumption
<1>4. cv.code \in {"0", "ETIMEDOUT", "EINVAL"} /\ cv.ticks \in 0..UINT_MAX \cup {Unset}
  BY ConvertedTypes
<1>5. c = IF ~validate_timespec(ts) THEN [ret |-> "EINVAL", sleep |-> 0]
          ELSE IF cv.code = "ETIMEDOUT" THEN [ret |-> "ETIMEDOUT", sleep |-> 0]
          ELSE [ret |-> cv.code, sleep |-> IF cv.ticks = Unset THEN WAIT ELSE cv.ticks]
  BY DEF Conversion
<1>6. CASE ~validate_timespec(ts)
  <2>1. c.ret = "EINVAL" /\ c.sleep = 0
    BY <1>5, <1>6
  <2> HIDE DEF c, due
  <2> QED BY <1>2, <1>3, <2>1 DEF Codes, TickCounts, c, due
<1>7. CASE validate_timespec(ts)
  <2>1. /\ cv.code = "ETIMEDOUT" <=> Nanos(ts) < NowNanos
        /\ cv.code = "EINVAL" <=> Nanos(ts) > NowNanos + UINT_MAX * npt
    BY <1>7, ValidIsClassified
  <2>2. CASE cv.code = "ETIMEDOUT"
    <3>1. c.ret = "ETIMEDOUT" /\ c.sleep = 0
      BY <1>5, <1>7, <2>2
    <3>2. 0 * npt >= due
      BY <1>1, <1>2, <1>3, <2>1, <2>2
    <3> HIDE DEF c, due, npt
    <3> QED BY <1>2, <1>3, <3>1, <3>2 DEF Codes, TickCounts, c, due, npt
  <2>3. CASE cv.code = "EINVAL"
    <3>1. c.ret = "EINVAL" /\ c.sleep \in TickCounts
      BY <1>4, <1>5, <1>7, <2>3 DEF TickCounts
    <3>2. UINT_MAX * npt \in Nat
      BY <1>3
    <3>3. due > 0
      <4> HIDE DEF npt
      <4> QED BY <1>1, <1>2, <2>1, <2>3, <3>2
    <3> HIDE DEF c, due
    <3> QED BY <1>2, <1>7, <3>1, <3>3 DEF Codes, c, due
  <2>4. CASE cv.code = "0"
    <3>1. /\ cv.ticks \in 0..UINT_MAX
          /\ NowNanos + cv.ticks * npt >= Nanos(ts)
          /\ NowNanos + (cv.ticks - 1) * npt < Nanos(ts)
      BY <2>4, AcceptedIsExact
    <3>2. c.ret = "0" /\ c.sleep = cv.ticks
      BY <1>5, <1>7, <2>4, <3>1 DEF Unset
    <3>3. cv.ticks * npt \in Int /\ (cv.ticks - 1) * npt = cv.ticks * npt - npt
      BY <1>3, <3>1, MulDiff
    <3> HIDE DEF c, due, npt, cv
    <3>4. cv.ticks * npt >= due /\ cv.ticks * npt - npt < due
      BY <1>1, <1>2, <1>3, <3>1, <3>3
    <3>5. due <= 0 => cv.ticks = 0
      <4>1. SUFFICES ASSUME due <= 0, 1 <= cv.ticks PROVE FALSE
        BY <3>1
      <4>2. 1 * npt <= cv.ticks * npt
        BY <1>3, <3>1, <4>1, MulMonotone
      <4> QED BY <1>2, <1>3, <3>3, <3>4, <4>1, <4>2
    <3> QED BY <1>2, <1>7, <3>1, <3>2, <3>4, <3>5 DEF Codes, TickCounts, c, due, npt
  <2> QED BY <1>4, <2>2, <2>3, <2>4
<1> QED BY <1>6, <1>7

-----------------------------------------------------------------------------
(* A new call, before sem_get *)
LEMMA NewCall ==
  ASSUME NEW op \in {"none", "wait"} \cup Timed, NEW valid \in BOOLEAN,
         NEW ret \in Codes \ {"EAGAIN"}, NEW due \in Int, NEW sleep0 \in TickCounts,
         op = "timedwait" /\ ret # "EINVAL" =>
           sleep0 \in 0..UINT_MAX /\ sleep0 * NANOSECONDS_PER_TICK >= due,
         op \in Timed /\ (~valid \/ due <= 0) => sleep0 = 0,
         NEW pc \in {"idle", "get"}
  PROVE  /\ Call(pc, op, valid, ret, due, sleep0) \in CallRecs
         /\ CallInv(Call(pc, op, valid, ret, due, sleep0))
<1>1. 0 \in TickCounts /\ 0 \in 0..UINT_MAX
  BY TimeAssumption DEF TickCounts
<1>2. Call(pc, op, valid, ret, due, sleep0) \in CallRecs
  BY <1>1 DEF Call, CallRecs
<1> QED BY <1>2 DEF Call, CallInv, SleepCovers, Countdown, NoTimeNoTicks

LEMMA IdleOK == Idle \in CallRecs /\ CallInv(Idle) /\ Idle.op = "none"
<1>1. 0 \in TickCounts /\ 0 \in Int
  BY TimeAssumption DEF TickCounts
<1>2. "0" \in Codes \ {"EAGAIN"} /\ "none" \in {"none", "wait"} \cup Timed /\ "none" \notin Timed
  BY DEF Codes, Timed
<1>3. Idle \in CallRecs /\ CallInv(Idle)
  BY <1>1, <1>2, NewCall DEF Idle
<1> QED BY <1>3 DEF Idle, Call

(* sem_get begins to block *)
LEMMA BlockedCall ==
  ASSUME NEW c \in CallRecs, CallInv(c), c.sleep # 0
  PROVE  /\ [c EXCEPT !.pc = "blocked", !.left = c.sleep] \in CallRecs
         /\ CallInv([c EXCEPT !.pc = "blocked", !.left = c.sleep])
<1> DEFINE d == [c EXCEPT !.pc = "blocked", !.left = c.sleep]
<1>1. d \in CallRecs
  BY DEF CallRecs
<1>2. /\ d.pc = "blocked" /\ d.op = c.op /\ d.valid = c.valid /\ d.ret = c.ret
      /\ d.due = c.due /\ d.sleep = c.sleep /\ d.left = c.sleep /\ d.elapsed = c.elapsed
  BY DEF CallRecs
<1>3. c.sleep # WAIT => c.elapsed + c.sleep >= c.sleep
  BY TimeAssumption DEF CallRecs, TickCounts
<1> HIDE DEF d
<1>4. CallInv(d)
  BY <1>2, <1>3 DEF CallInv, SleepCovers, Countdown, NoTimeNoTicks
<1> QED BY <1>1, <1>4 DEF d

(* A tick passes for a call *)
Ticked(c) ==
  [c EXCEPT !.left    = IF c.pc = "blocked" /\ @ > 0 THEN @ - 1 ELSE @,
            !.elapsed = IF c.pc # "idle" /\ @ < c.sleep THEN @ + 1 ELSE @]

LEMMA TickedCall ==
  ASSUME NEW c \in CallRecs, CallInv(c)
  PROVE  Ticked(c) \in CallRecs /\ CallInv(Ticked(c)) /\ Ticked(c).op = c.op
<1> DEFINE l == IF c.pc = "blocked" /\ c.left > 0 THEN c.left - 1 ELSE c.left
           e == IF c.pc # "idle" /\ c.elapsed < c.sleep THEN c.elapsed + 1 ELSE c.elapsed
           d == Ticked(c)
<1>1. UINT_MAX \in Nat /\ c.left \in TickCounts /\ c.sleep \in TickCounts
      /\ c.elapsed \in 0..UINT_MAX
  BY TimeAssumption DEF CallRecs
<1>2. l \in TickCounts /\ e \in 0..UINT_MAX
  BY <1>1 DEF TickCounts, WAIT
<1>3. d = [c EXCEPT !.left = l, !.elapsed = e]
  BY DEF Ticked, CallRecs
<1>4. ASSUME c.pc = "blocked", c.sleep # WAIT, c.left # WAIT, c.elapsed + c.left >= c.sleep
      PROVE  l # WAIT /\ e + l >= c.sleep
  BY <1>1, <1>4 DEF TickCounts, WAIT
<1> HIDE DEF l, e
<1>5. d \in CallRecs
  BY <1>2, <1>3 DEF CallRecs
<1>6. /\ d.pc = c.pc /\ d.op = c.op /\ d.valid = c.valid /\ d.ret = c.ret
      /\ d.due = c.due /\ d.sleep = c.sleep /\ d.left = l /\ d.elapsed = e
  BY <1>3 DEF CallRecs
<1> HIDE DEF d
<1>7. CallInv(d)
  BY <1>4, <1>6 DEF CallInv, SleepCovers, Countdown, NoTimeNoTicks
<1> QED BY <1>5, <1>6, <1>7 DEF d

(* One call changes *)
LEMMA OneCall ==
  ASSUME IInv, NEW t \in Threads, NEW c \in CallRecs, CallInv(c),
         call' = [call EXCEPT ![t] = c]
  PROVE  /\ call' \in [Threads -> CallRecs]
         /\ \A s \in Threads : CallInv(call[s])'
  BY DEF IInv, Types, CallInv, SleepCovers, Countdown, NoTimeNoTicks

-----------------------------------------------------------------------------
LEMMA EnterKeeps ==
  ASSUME IInv, NEW t \in Threads, NEW op \in Timed, NEW ts, IsTimespec(ts),
         TimedwaitEnter(t, op, ts)
  PROVE  IInv'
<1> DEFINE c == Conversion(ts)
           due == Nanos(ts) - Nanos(clock_gettime(tmr_ticks))
           v == validate_timespec(ts)
           new == Call("get", op, v, c.ret, due, c.sleep)
<1>1. ClockOK
  BY DEF IInv, Types, ClockOK
<1>2. /\ c.ret \in Codes \ {"EAGAIN"} /\ c.sleep \in TickCounts /\ due \in Int
      /\ c.ret # "EINVAL" =>
           c.sleep \in 0..UINT_MAX /\ c.sleep * NANOSECONDS_PER_TICK >= due
      /\ ~v \/ due <= 0 => c.sleep = 0
  BY <1>1, ConversionFacts
<1>3. v \in BOOLEAN /\ op \in {"none", "wait"} \cup Timed
  BY DEF validate_timespec
<1>4. call' = [call EXCEPT ![t] = new] /\ res' = [res EXCEPT ![t] = "0"]
      /\ UNCHANGED <<val, tmr_ticks>>
  BY DEF TimedwaitEnter
<1> HIDE DEF c, due, v
<1>5. new \in CallRecs /\ CallInv(new)
  BY <1>2, <1>3, NewCall
<1> HIDE DEF new
<1>6. /\ call' \in [Threads -> CallRecs]
      /\ \A s \in Threads : CallInv(call[s])'
  BY <1>4, <1>5, OneCall
<1>7. res' \in [Threads -> Codes]
  BY <1>4 DEF IInv, Types, Codes
<1> QED BY <1>4, <1>6, <1>7 DEF IInv, Types

(* A call returns *)
LEMMA ReturnKeeps ==
  ASSUME IInv, NEW t \in Threads, NEW code \in Codes, Return(t, code),
         val' \in Nat, UNCHANGED tmr_ticks
  PROVE  IInv'
<1>1. call' = [call EXCEPT ![t] = Idle] /\ res' = [res EXCEPT ![t] = code]
  BY DEF Return
<1>2. /\ call' \in [Threads -> CallRecs]
      /\ \A s \in Threads : CallInv(call[s])'
  BY <1>1, IdleOK, OneCall
<1>3. res' \in [Threads -> Codes]
  BY <1>1 DEF IInv, Types
<1> QED BY <1>2, <1>3 DEF IInv, Types

LEMMA ErrnoType ==
  ASSUME NEW c \in CallRecs
  PROVE  Errno(c) \in Codes
  BY DEF Errno, CallRecs, Codes

LEMMA Invariance == Spec => []IInv
<1>1. Init => IInv
  <2> SUFFICES ASSUME Init PROVE IInv
    OBVIOUS
  <2>1. Types
    BY IdleOK DEF Init, ClockInit, Types, Codes
  <2>2. \A t \in Threads : CallInv(call[t])
    BY IdleOK DEF Init
  <2> QED BY <2>1, <2>2 DEF IInv
<1>2. IInv /\ [Next]_vars => IInv'
  <2> SUFFICES ASSUME IInv, [Next]_vars PROVE IInv'
    OBVIOUS
  <2>1. val \in Nat /\ MaxVal \in Nat /\ \A t \in Threads : call[t] \in CallRecs /\ CallInv(call[t])
    BY SemAssumption DEF IInv, Types
  <2>2. ASSUME NEW value \in 0..MaxVal, SemInitPosix(value) PROVE IInv'
    BY <2>1, <2>2 DEF SemInitPosix, IInv, Types, CallInv, SleepCovers, Countdown, NoTimeNoTicks
  <2>3. CASE SemPost
    BY <2>1, <2>3 DEF SemPost, IInv, Types, CallInv, SleepCovers, Countdown, NoTimeNoTicks
  <2>4. ASSUME NEW t \in Threads, SemWait(t) PROVE IInv'
    <3> DEFINE new == Call("get", "wait", TRUE, "0", 0, WAIT)
    <3>1. call' = [call EXCEPT ![t] = new] /\ res' = [res EXCEPT ![t] = "0"]
          /\ UNCHANGED <<val, tmr_ticks>>
      BY <2>4 DEF SemWait
    <3>2. "0" \in Codes \ {"EAGAIN"} /\ "wait" \in {"none", "wait"} \cup Timed
          /\ "wait" \notin Timed /\ WAIT \in TickCounts /\ 0 \in Int
      BY DEF Codes, Timed, TickCounts
    <3>3. new \in CallRecs /\ CallInv(new)
      BY <3>2, NewCall
    <3> HIDE DEF new
    <3>4. call' \in [Threads -> CallRecs] /\ \A s \in Threads : CallInv(call[s])'
      BY <3>1, <3>3, OneCall
    <3> QED BY <3>1, <3>2, <3>4 DEF IInv, Types
  <2>5. ASSUME NEW t \in Threads, SemTimedwait(t) PROVE IInv'
    <3>1. PICK ts \in Timespecs : TimedwaitEnter(t, "timedwait", ts)
      BY <2>5 DEF SemTimedwait
    <3>2. IsTimespec(ts)
      BY TimespecsAssumption DEF IsTimespec
    <3> QED BY <3>1, <3>2, EnterKeeps DEF Timed
  <2>6. ASSUME NEW t \in Threads, SemTrywait(t) PROVE IInv'
    <3>1. IsTimespec(Timespec(0, 0))
      BY DEF IsTimespec, Timespec
    <3> QED BY <2>6, <3>1, EnterKeeps DEF SemTrywait, Timed
  <2>7. ASSUME NEW t \in Threads, SemGet(t) PROVE IInv'
    <3>1. CASE val > 0 /\ val' = val - 1 /\ Return(t, "0")
      BY <2>1, <2>7, <3>1, ReturnKeeps DEF SemGet, Codes
    <3>2. CASE val = 0 /\ call[t].sleep = 0 /\ Return(t, Errno(call[t])) /\ UNCHANGED val
      BY <2>1, <2>7, <3>2, ErrnoType, ReturnKeeps DEF SemGet
    <3>3. CASE /\ val = 0 /\ call[t].sleep # 0
               /\ call' = [call EXCEPT ![t].pc = "blocked", ![t].left = call[t].sleep]
               /\ UNCHANGED <<val, res>>
      <4> DEFINE new == [call[t] EXCEPT !.pc = "blocked", !.left = call[t].sleep]
      <4>1. call' = [call EXCEPT ![t] = new]
        BY <2>1, <3>3 DEF IInv, Types
      <4>2. new \in CallRecs /\ CallInv(new)
        BY <2>1, <3>3, BlockedCall
      <4> HIDE DEF new
      <4>3. call' \in [Threads -> CallRecs] /\ \A s \in Threads : CallInv(call[s])'
        BY <4>1, <4>2, OneCall
      <4> QED BY <2>7, <3>3, <4>3 DEF SemGet, IInv, Types
    <3> QED BY <2>7, <3>1, <3>2, <3>3 DEF SemGet
  <2>8. ASSUME NEW t \in Threads, SemGrant(t) PROVE IInv'
    BY <2>1, <2>8, ReturnKeeps DEF SemGrant, Codes
  <2>9. ASSUME NEW t \in Threads, SemTimeout(t) PROVE IInv'
    BY <2>1, <2>9, ErrnoType, ReturnKeeps DEF SemTimeout
  <2>10. CASE Tick
    <3>1. call' = [t \in Threads |-> Ticked(call[t])]
      BY <2>10 DEF Tick, Ticked
    <3>2. call' \in [Threads -> CallRecs] /\ \A s \in Threads : CallInv(call'[s])
      BY <2>1, <3>1, TickedCall
    <3>3. ClockOK'
      BY <2>10, TickKeepsClock DEF Tick, IInv, Types, ClockOK
    <3> QED BY <2>10, <3>2, <3>3 DEF Tick, IInv, Types, ClockOK,
             CallInv, SleepCovers, Countdown, NoTimeNoTicks
  <2>11. CASE UNCHANGED vars
    BY <2>11 DEF vars, IInv, Types, CallInv, SleepCovers, Countdown, NoTimeNoTicks
  <2> QED BY <2>2, <2>3, <2>4, <2>5, <2>6, <2>7, <2>8, <2>9, <2>10, <2>11 DEF Next
<1> QED BY <1>1, <1>2, PTL DEF Spec

(* The types of the semaphore model; the ticks handed to sem_get are always *)
(* an unsigned or WAIT.                                                     *)
THEOREM TypeCorrect == Spec => []TypeOK
<1>1. IInv => TypeOK
  BY DEF IInv, Types, CallRecs, TickCounts, Timed, TypeOK
<1> QED BY <1>1, Invariance, PTL

(* No call blocks whose deadline is invalid or past.                        *)
THEOREM NoBlockWithoutTime == Spec => []NoTimeNoBlock
<1>1. IInv => NoTimeNoBlock
  BY DEF IInv, CallInv, Countdown, NoTimeNoTicks, NoTimeNoBlock, Timed
<1> QED BY <1>1, Invariance, PTL

-----------------------------------------------------------------------------
(* Enough ticks have passed when a call gives up with ETIMEDOUT.            *)
LEMMA GivesUpInTime ==
  ASSUME NEW c \in CallRecs, CallInv(c), c.op = "timedwait", Errno(c) = "ETIMEDOUT",
         c.sleep = 0 \/ (c.pc = "blocked" /\ c.left = 0)
  PROVE  c.elapsed * NANOSECONDS_PER_TICK >= c.due
<1> DEFINE npt == NANOSECONDS_PER_TICK
<1>1. c.ret # "EINVAL"
  BY DEF Errno
<1>2. c.sleep \in 0..UINT_MAX /\ c.sleep * npt >= c.due
  BY <1>1 DEF CallInv, SleepCovers
<1>3. c.elapsed \in Nat /\ c.sleep \in Nat /\ npt \in Nat /\ c.due \in Int /\ c.sleep # WAIT
  BY <1>2, TimeAssumption, TickLength DEF CallRecs, WAIT
<1>4. c.sleep <= c.elapsed
  BY <1>3 DEF CallInv, Countdown
<1> HIDE DEF npt
<1>5. c.sleep * npt <= c.elapsed * npt
  BY <1>3, <1>4, MulMonotone
<1>6. c.sleep * npt \in Int /\ c.elapsed * npt \in Int
  BY <1>3
<1>7. c.elapsed * npt >= c.due
  BY <1>2, <1>3, <1>5, <1>6
<1> QED BY <1>7 DEF npt

(* A timed wait never gives up with ETIMEDOUT before its deadline.          *)
THEOREM TimedwaitNeverEarly == Spec => NeverEarly
<1> DEFINE Early(t) ==
      /\ call[t].op = "timedwait" /\ call[t] # call'[t] /\ call'[t] = Idle
      /\ res'[t] = "ETIMEDOUT"
<1>1. ASSUME IInv, [Next]_vars, NEW t \in Threads, Early(t)
      PROVE  call[t].elapsed * NANOSECONDS_PER_TICK >= call[t].due
  <2>1. /\ call \in [Threads -> CallRecs] /\ res \in [Threads -> Codes]
        /\ \A s \in Threads : call[s] \in CallRecs /\ CallInv(call[s])
    BY <1>1 DEF IInv, Types
  <2>2. call[t] # Idle
    BY <1>1
  <2>3. CASE SemGet(t)
    <3>1. call'[t] # [call[t] EXCEPT !.pc = "blocked", !.left = call[t].sleep]
      BY <1>1, <2>1, IdleOK DEF CallRecs
    <3>2. ~(call' = [call EXCEPT ![t].pc = "blocked", ![t].left = call[t].sleep])
      BY <2>1, <3>1
    <3>3. res'[t] # "0"
      BY <1>1
    <3>4. call[t].sleep = 0 /\ Errno(call[t]) = "ETIMEDOUT"
      BY <1>1, <2>1, <2>3, <3>2, <3>3 DEF SemGet, Return
    <3> QED BY <1>1, <2>1, <3>4, GivesUpInTime
  <2>4. CASE SemTimeout(t)
    <3>1. call[t].pc = "blocked" /\ call[t].left = 0 /\ Errno(call[t]) = "ETIMEDOUT"
      BY <1>1, <2>1, <2>4 DEF SemTimeout, Return
    <3> QED BY <1>1, <2>1, <3>1, GivesUpInTime
  <2>5. CASE SemGrant(t)
    BY <1>1, <2>1, <2>5 DEF SemGrant, Return
  <2>6. ASSUME NEW s \in Threads, s # t, SemGet(s) \/ SemGrant(s) \/ SemTimeout(s)
        PROVE  FALSE
    BY <1>1, <2>1, <2>6 DEF SemGet, SemGrant, SemTimeout, Return
  <2>7. ASSUME NEW s \in Threads, SemWait(s) \/ SemTimedwait(s) \/ SemTrywait(s)
        PROVE  FALSE
    BY <1>1, <2>1, <2>2, <2>7 DEF SemWait, SemTimedwait, SemTrywait, TimedwaitEnter
  <2>8. CASE Tick
    <3>1. call'[t] = Ticked(call[t])
      BY <2>8 DEF Tick, Ticked
    <3>2. Ticked(call[t]).op = "timedwait"
      BY <1>1, <2>1, TickedCall
    <3> QED BY <1>1, <3>1, <3>2, IdleOK
  <2>9. CASE UNCHANGED call
    BY <1>1, <2>9
  <2>10. SemPost \/ (\E value \in 0..MaxVal : SemInitPosix(value)) \/ UNCHANGED vars => UNCHANGED call
    BY DEF SemPost, SemInitPosix, vars
  <2> QED BY <1>1, <2>3, <2>4, <2>5, <2>6, <2>7, <2>8, <2>9, <2>10 DEF Next
<1>2. IInv /\ [Next]_vars =>
        [\A t \in Threads :
           (call[t].op = "timedwait" /\ call[t] # call'[t] /\ call'[t] = Idle
              /\ res'[t] = "ETIMEDOUT") =>
                call[t].elapsed * NANOSECONDS_PER_TICK >= call[t].due]_vars
  BY <1>1
<1> QED BY <1>2, Invariance, PTL DEF Spec, NeverEarly

=============================================================================
