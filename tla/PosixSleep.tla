----------------------------- MODULE PosixSleep -----------------------------
(***************************************************************************)
(* The functions of src/src/posix_clock.c and src/src/posix_unistd.c that  *)
(* read the clock or sleep, for every timespec as the argument: sleep      *)
(* takes its seconds from tv_sec and usleep its microseconds from tv_nsec. *)
(*                                                                         *)
(* A sleeping function gives its result and the ticks of its task_sleep,   *)
(* NoSleep if it makes none.                                               *)
(***************************************************************************)
EXTENDS AbsTicks

CONSTANT USPS           \* microseconds per second

ASSUME SleepAssumption == USPS \in 1..NSPS /\ NSPS % USPS = 0

NoSleep == -1

Slept(code, ticks) == [code |-> code, ticks |-> ticks]

-----------------------------------------------------------------------------
(* Without TIMER_ABSTIME.  What does not fit into an unsigned is not slept  *)
(* at all, and not reported either.                                         *)
SleepFor(rqtp) ==
  Slept("0", IF timespec2ticks(rqtp).code = "0" THEN timespec2ticks(rqtp).ticks ELSE NoSleep)

nanosleep(rqtp) == IF validate_timespec(rqtp) THEN SleepFor(rqtp) ELSE Slept("EINVAL", NoSleep)

(* With TIMER_ABSTIME, clock_gettime is tested for success instead of       *)
(* failure: the result is always EINVAL and there is no sleep.              *)
clock_nanosleep(abstime, rqtp) ==
  IF validate_timespec(rqtp) /\ ~abstime THEN SleepFor(rqtp) ELSE Slept("EINVAL", NoSleep)

(* sleep and usleep multiply unsigneds; usleep then rounds down. *)
sleep(seconds) == Slept("0", (seconds * HZ) % (UINT_MAX + 1))

(* A usleep that divides before it multiplies. *)
usleep_DividesFirst(usec) == Slept("0", (usec \div USPS) * HZ)

usleep(usec) == Slept("0", ((usec * HZ) % (UINT_MAX + 1)) \div USPS)

time(ticks) == ticks \div HZ

-----------------------------------------------------------------------------
(* What clock_gettime, read before and after, shows for a sleep of n ticks  *)
(* that begins now, if the counter does not wrap                            *)
Measured(n) == Nanos(clock_gettime(tmr_ticks + n)) - Nanos(clock_gettime(tmr_ticks))

(* Whenever it begins, a nanosleep or relative clock_nanosleep of a valid   *)
(* time, from none to the largest that fits, lasts as long as asked for by  *)
(* the clock of clock_gettime, and less than a tick longer.                 *)
NanosleepCovers ==
  \A ts \in Timespecs :
    (/\ validate_timespec(ts)
     /\ ts.tv_sec >= 0
     /\ Nanos(ts) <= UINT_MAX * NANOSECONDS_PER_TICK) =>
       \A n \in {nanosleep(ts).ticks, clock_nanosleep(FALSE, ts).ticks} :
         tmr_ticks + n <= UINT_MAX =>
           /\ Measured(n) >= Nanos(ts)
           /\ Measured(n) < Nanos(ts) + NANOSECONDS_PER_TICK

(* As long as their product fits into an unsigned, sleep is exact by that   *)
(* clock and usleep never longer than asked for, and less than a tick       *)
(* shorter.                                                                 *)
UsleepWithinTick ==
  \A ts \in Timespecs :
  LET s == ts.tv_sec
      u == ts.tv_nsec
      n == sleep(s).ticks
      m == usleep(u).ticks
  IN  /\ s >= 0 /\ s * HZ <= UINT_MAX /\ tmr_ticks + n <= UINT_MAX =>
           Measured(n) = s * NSPS
      /\ u >= 0 /\ u * HZ <= UINT_MAX /\ tmr_ticks + m <= UINT_MAX =>
           /\ Measured(m) <= u * (NSPS \div USPS)
           /\ Measured(m) + NANOSECONDS_PER_TICK > u * (NSPS \div USPS)

-----------------------------------------------------------------------------
(* Statements of the sources that the code does not keep. *)

(* time.h:139, "High resolution sleep with specifiable clock.": a valid     *)
(* absolute time ahead is slept for.                                        *)
AbsoluteSleeps ==
  \A ts \in Timespecs :
    validate_timespec(ts) /\ Converted(ts).code = "0" /\ Converted(ts).ticks > 0 =>
      clock_nanosleep(TRUE, ts).ticks # NoSleep

(* time.h:164, "High resolution sleep.": nanosleep that returns 0 has slept *)
(* as long as asked for.                                                    *)
NanosleepSleeps ==
  \A ts \in Timespecs :
    nanosleep(ts).code = "0" => Measured(nanosleep(ts).ticks) >= Nanos(ts)

(* time.h:187, "This function returns the RTOS tick count" *)
TimeIsTickCount == time(tmr_ticks) = tmr_ticks

=============================================================================
