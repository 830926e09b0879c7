---------------------------- MODULE MCPosixSleep ----------------------------
(* Instances of PosixSleep for TLC. *)
EXTENDS PosixSleep

(* Seconds before, in and beyond the range of the clock; nanoseconds two    *)
(* seconds out of range on either side.                                     *)
MCTimespecs ==
  {Timespec(s, n) : s \in -1..36, n \in -(2 * NSPS)..(3 * NSPS)}

=============================================================================
