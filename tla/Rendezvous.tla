----------------------------- MODULE Rendezvous -----------------------------
(***************************************************************************)
(* What pthread_barrier_wait promises for one use of a barrier: nobody     *)
(* leaves before count threads have arrived, no more than count arrive,    *)
(* and exactly one of them is told that it is the serial thread.           *)
(* How the barrier counts, locks and wakes is not mentioned.               *)
(***************************************************************************)
EXTENDS Naturals, FiniteSets

CONSTANTS
  Threads,      \* tasks of the application
  Counts        \* the counts a barrier is initialized with

VARIABLES
  count,        \* how many threads must arrive; 0 before the first use
  arrived,      \* threads that entered in this use of the barrier
  gone,         \* threads that left again
  serial        \* threads that left as the serial thread

vars == <<count, arrived, gone, serial>>

Init == count = 0 /\ arrived = {} /\ gone = {} /\ serial = {}

(* The barrier is set up for another use once everybody has left. *)
SetUp ==
  /\ arrived = gone
  /\ count' \in Counts \ {0}
  /\ arrived' = {} /\ gone' = {} /\ serial' = {}

Arrive(t) ==
  /\ t \notin arrived
  /\ Cardinality(arrived) < count
  /\ arrived' = arrived \cup {t}
  /\ UNCHANGED <<count, gone, serial>>

(* The one serial thread may leave at any point, but if the others are all  *)
(* gone and none of them was told, the last one is.                         *)
Leave(t) ==
  /\ t \in arrived \ gone
  /\ Cardinality(arrived) = count
  /\ gone' = gone \cup {t}
  /\ \/ serial = {} /\ serial' = {t}
     \/ (serial # {} \/ gone' # arrived) /\ serial' = serial
  /\ UNCHANGED <<count, arrived>>

Next == SetUp \/ \E t \in Threads : Arrive(t) \/ Leave(t)

Spec == Init /\ [][Next]_vars

=============================================================================
