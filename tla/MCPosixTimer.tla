---------------------------- MODULE MCPosixTimer ----------------------------
(* Instances of PosixTimer for TLC. *)
EXTENDS PosixTimer

(* With 4 ns to the second and 2 ticks, a tick is 2 ns, and 5 ticks no      *)
(* longer fit into an unsigned: nothing, within a tick, within the clock's  *)
(* range, too far and truncated to 0, not valid.                            *)
MCTimespecs == {Zero, Timespec(0, 1), Timespec(1, 1), Timespec(2, 1), Timespec(0, 4)}

=============================================================================
