------------------------------ MODULE AbsTicks ------------------------------
(***************************************************************************)
(* The kernel's tick counter, and abs_timespec2ticks as its callers use    *)
(* it: a deadline given by the application, which pthread_mutex_timedlock  *)
(* passes on unchecked, against the time clock_gettime reads off the       *)
(* counter.  The properties compare it with arithmetic on whole            *)
(* nanoseconds.                                                            *)
(***************************************************************************)
EXTENDS TimeUtils

CONSTANT Timespecs      \* the timespecs the application uses, valid or not

ASSUME TimespecsAssumption ==
  \A ts \in Timespecs : ts = Timespec(ts.tv_sec, ts.tv_nsec)
                          /\ ts.tv_sec \in Int /\ ts.tv_nsec \in Int

VARIABLE tmr_ticks      \* an unsigned

Wrap(n) == n % (UINT_MAX + 1)

ClockInit == tmr_ticks \in 0..UINT_MAX

(* The timer interrupt counts a tick. *)
ClockTick == tmr_ticks' = Wrap(tmr_ticks + 1)

ClockSpec == ClockInit /\ [][ClockTick]_tmr_ticks

(* The clock in nanoseconds, without going through a timespec *)
NowNanos == tmr_ticks * NANOSECONDS_PER_TICK

Converted(abs_time) == abs_timespec2ticks(abs_time, clock_gettime(tmr_ticks))

-----------------------------------------------------------------------------
(* "The result is rounded up for fractional ticks": whenever                *)
(* abs_timespec2ticks returns 0, the clock reaches the deadline after that  *)
(* many ticks and not a tick earlier.  This covers deadlines that are not   *)
(* valid timespecs but slip through, and every borrow in timespec_sub.      *)
AcceptedExact ==
  \A abs_time \in Timespecs :
    LET n == Converted(abs_time).ticks
    IN  Converted(abs_time).code = "0" =>
          /\ n \in 0..UINT_MAX
          /\ NowNanos + n * NANOSECONDS_PER_TICK >= Nanos(abs_time)
          /\ n > 0 =>
               NowNanos + (n - 1) * NANOSECONDS_PER_TICK < Nanos(abs_time)

(* A valid deadline is ETIMEDOUT exactly if it is before the clock, and     *)
(* EINVAL exactly if its ticks do not fit into an unsigned.                 *)
ClassifiesValid ==
  \A abs_time \in Timespecs :
    validate_timespec(abs_time) =>
      /\ Converted(abs_time).code = "ETIMEDOUT" <=> Nanos(abs_time) < NowNanos
      /\ Converted(abs_time).code = "EINVAL" <=>
           Nanos(abs_time) > NowNanos + UINT_MAX * NANOSECONDS_PER_TICK

(* utils.h, "EINVAL for invalid parameters": a deadline that is not a valid *)
(* timespec is never accepted.                                              *)
AbsRejectsInvalid ==
  \A abs_time \in Timespecs :
    ~validate_timespec(abs_time) => Converted(abs_time).code # "0"

=============================================================================
