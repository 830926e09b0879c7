----------------------------- MODULE MCPosixSem -----------------------------
(* Instances of PosixSem for TLC. *)
EXTENDS PosixSem

(* In the past, at and between ticks, beyond UINT_MAX ticks, not valid.     *)
(* With 4 ns to the second and 2 ticks, a tick is 2 ns.                     *)
MCTimespecs ==
  {Timespec(0, 3), Timespec(1, 0), Timespec(1, 1), Timespec(2, 3),
   Timespec(5, 0), Timespec(1, 4), Timespec(1, -1)}

=============================================================================
