------------------------------ MODULE TimeUtils -----------------------------
(***************************************************************************)
(* src/src/utils.c: struct timespec, its comparison and subtraction, and   *)
(* its conversion to kernel ticks; and clock_gettime of posix_clock.c,     *)
(* which converts the other way.                                           *)
(*                                                                         *)
(* The functions that return a code and store a result give a record of    *)
(* both; ticks is Unset where the code returns without storing.  Integers  *)
(* of type long, time_t and int64_t are unbounded here, unsigned ones are  *)
(* not: timespec2ticks tests for UINT_MAX and truncates.  Null pointers    *)
(* are an error the callers in src/ never meet.                            *)
(***************************************************************************)
EXTENDS Integers

CONSTANTS
  NSPS,         \* NANOSECONDS_PER_SECOND
  HZ,           \* tmr_hz, ticks per second
  UINT_MAX      \* largest unsigned

(* tmr_hz is a frequency like 100 or 1000: a tick is a whole number of ns.  *)
ASSUME TimeAssumption ==
  /\ NSPS \in Nat \ {0}
  /\ HZ \in Nat \ {0}
  /\ UINT_MAX \in Nat \ {0}
  /\ \E npt \in 1..NSPS : NSPS = HZ * npt

NANOSECONDS_PER_TICK == NSPS \div HZ

Unset == -1

Timespec(sec, nsec) == [tv_sec |-> sec, tv_nsec |-> nsec]

(* Reference: the nanoseconds a timespec stands for *)
Nanos(ts) == ts.tv_sec * NSPS + ts.tv_nsec

-----------------------------------------------------------------------------
(* / and % of C truncate towards zero. *)
CDiv(a, b) == IF a >= 0 THEN a \div b ELSE -((-a) \div b)
CMod(a, b) == a - b * CDiv(a, b)

validate_timespec(ts) == 0 <= ts.tv_nsec /\ ts.tv_nsec < NSPS

timespec_cmp(x, y) ==
  CASE \/ x.tv_sec > y.tv_sec
       \/ x.tv_sec = y.tv_sec /\ x.tv_nsec > y.tv_nsec -> 1
    [] \/ x.tv_sec < y.tv_sec
       \/ x.tv_sec = y.tv_sec /\ x.tv_nsec < y.tv_nsec -> -1
    [] OTHER                                           -> 0

(* A subtraction that does not borrow from the seconds. *)
timespec_diff_NoBorrow(x, y) ==
  Timespec(x.tv_sec - y.tv_sec, x.tv_nsec - y.tv_nsec)

(* The difference that timespec_sub stores for x > y, one borrow included *)
timespec_diff(x, y) ==
  IF x.tv_nsec < y.tv_nsec
    THEN Timespec(x.tv_sec - y.tv_sec - 1, x.tv_nsec - y.tv_nsec + NSPS)
    ELSE Timespec(x.tv_sec - y.tv_sec, x.tv_nsec - y.tv_nsec)

(* 1: x is before y; -1: still negative after the borrow *)
timespec_sub(x, y) ==
  CASE timespec_cmp(x, y) = -1 -> [code |-> 1, ts |-> Timespec(0, 0)]
    [] timespec_cmp(x, y) = 0  -> [code |-> 0, ts |-> Timespec(0, 0)]
    [] OTHER -> [code |-> IF timespec_diff(x, y).tv_nsec < 0 THEN -1 ELSE 0,
                 ts   |-> timespec_diff(x, y)]

(* A conversion that rounds fractional ticks down. *)
TotalTicks_RoundsDown(ts) ==
  HZ * ts.tv_sec + ts.tv_nsec \div NANOSECONDS_PER_TICK

(* total_ticks of timespec2ticks: fractional ticks are rounded up *)
TotalTicks(ts) ==
  HZ * ts.tv_sec + ts.tv_nsec \div NANOSECONDS_PER_TICK
    + (IF ts.tv_nsec % NANOSECONDS_PER_TICK # 0 THEN 1 ELSE 0)

(* A conversion without the test for UINT_MAX. *)
timespec2ticks_NoRangeTest(ts) ==
  IF validate_timespec(ts) THEN [code |-> "0", ticks |-> TotalTicks(ts)]
                           ELSE [code |-> "EINVAL", ticks |-> Unset]

(* An out-of-range total is stored all the same, truncated to unsigned. *)
timespec2ticks(ts) ==
  CASE ~validate_timespec(ts)          -> [code |-> "EINVAL", ticks |-> Unset]
    [] validate_timespec(ts)
         /\ TotalTicks(ts) \in 0..UINT_MAX
                                       -> [code |-> "0", ticks |-> TotalTicks(ts)]
    [] OTHER -> [code |-> "EINVAL", ticks |-> TotalTicks(ts) % (UINT_MAX + 1)]

(* Only the difference is validated, neither of the two times. *)
abs_timespec2ticks(abs, cur) ==
  CASE timespec_sub(abs, cur).code = 1  -> [code |-> "ETIMEDOUT", ticks |-> Unset]
    [] timespec_sub(abs, cur).code = -1 -> [code |-> "EINVAL", ticks |-> Unset]
    [] OTHER                            -> timespec2ticks(timespec_sub(abs, cur).ts)

(* A negative remainder borrows one second. *)
nano2timespec(n) ==
  IF CMod(n, NSPS) < 0
    THEN LET carry == CDiv(CMod(n, NSPS), NSPS) + 1
         IN  Timespec(CDiv(n, NSPS) - carry, CMod(n, NSPS) + carry * NSPS)
    ELSE Timespec(CDiv(n, NSPS), CMod(n, NSPS))

(* clock_gettime, for every clock: tmr_ticks as a timespec *)
clock_gettime(tmr_ticks) == nano2timespec(tmr_ticks * NANOSECONDS_PER_TICK)

=============================================================================
