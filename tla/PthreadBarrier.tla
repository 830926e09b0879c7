--------------------------- MODULE PthreadBarrier ---------------------------
(***************************************************************************)
(* src/src/posix_pthread_barrier.c: one pthread_barrier_t and threads that *)
(* call pthread_barrier_wait on it as often as they like.                  *)
(*                                                                         *)
(* The section under b->mux counts the caller in and is one step.  What    *)
(* follows it is not protected: the second test of cur_thread, sem_post_n  *)
(* and sem_get are a step each, so several threads can find the barrier    *)
(* full and each post threshold units.                                     *)
(***************************************************************************)
EXTENDS HcosKernel, FiniteSets

CONSTANT
  Counts        \* the counts pthread_barrier_init is called with

ASSUME BarrierAssumption ==
  /\ IsFiniteSet(Threads)
  /\ Counts \subseteq Nat

VARIABLES
  b,        \* the pthread_barrier_t: cur_thread, threshold, value of sem
  pc,       \* where each thread is
  cur,      \* cur[t]: the local variable cur of t's pthread_barrier_wait
  gone,     \* history: threads that passed the barrier since its init
  serial    \* history: those that returned PTHREAD_BARRIER_SERIAL_THREAD

vars == <<b, pc, cur, gone, serial>>

Labels == {"idle", "test", "post", "get"}

(* Threads that were counted in and have not returned *)
Inside == {t \in Threads : pc[t] # "idle"}

(* An object nobody has initialized; threshold 0 is left by no init. *)
Init ==
  /\ b = [cur_thread |-> 0, threshold |-> 0, sem |-> 0]
  /\ pc = [t \in Threads |-> "idle"]
  /\ cur = [t \in Threads |-> 0]
  /\ gone = {} /\ serial = {}

-----------------------------------------------------------------------------
(* pthread_barrier_init, also of a barrier that was used and destroyed.     *)
(* Clients do not initialize a barrier that somebody waits at: undefined.   *)
(* A count of 0 returns EINVAL and leaves the object as it is.              *)
BarrierInit(count) ==
  /\ Inside = {}
  /\ \/ count = 0 /\ UNCHANGED <<b, gone, serial>>
     \/ /\ count # 0
        /\ b' = [cur_thread |-> 0, threshold |-> count, sem |-> 0]
        /\ gone' = {} /\ serial' = {}
  /\ UNCHANGED <<pc, cur>>

(* A full barrier that lets one thread too many in. *)
WaitEnter_OneTooMany(t) ==
  /\ b.threshold # 0
  /\ pc[t] = "idle"
  /\ \/ /\ b.cur_thread > b.threshold
        /\ UNCHANGED vars
     \/ /\ b.cur_thread <= b.threshold
        /\ b' = [b EXCEPT !.cur_thread = @ + 1]
        /\ cur' = [cur EXCEPT ![t] = b.cur_thread + 1]
        /\ pc' = [pc EXCEPT ![t] = "test"]
        /\ UNCHANGED <<gone, serial>>

(* pthread_barrier_wait under the lock: EINVAL if the barrier is full, else *)
(* cur = ++cur_thread.  Nothing ever resets cur_thread: a barrier that was  *)
(* passed refuses every thread until it is initialized again.               *)
WaitEnter(t) ==
  /\ b.threshold # 0
  /\ pc[t] = "idle"
  /\ \/ /\ b.cur_thread >= b.threshold
        /\ UNCHANGED vars
     \/ /\ b.cur_thread < b.threshold
        /\ b' = [b EXCEPT !.cur_thread = @ + 1]
        /\ cur' = [cur EXCEPT ![t] = b.cur_thread + 1]
        /\ pc' = [pc EXCEPT ![t] = "test"]
        /\ UNCHANGED <<gone, serial>>

(* A test that opens the barrier one thread early. *)
WaitTest_Early(t) ==
  /\ pc[t] = "test"
  /\ pc' = [pc EXCEPT ![t] =
              IF b.cur_thread + 1 >= b.threshold THEN "post" ELSE "get"]
  /\ UNCHANGED <<b, cur, gone, serial>>

(* The second test, without the lock *)
WaitTest(t) ==
  /\ pc[t] = "test"
  /\ pc' = [pc EXCEPT ![t] =
              IF b.cur_thread >= b.threshold THEN "post" ELSE "get"]
  /\ UNCHANGED <<b, cur, gone, serial>>

(* The thread that opens the barrier forgets the unit it takes itself. *)
WaitPost_OthersOnly(t) ==
  /\ pc[t] = "post"
  /\ \E v \in SemPostN(b.sem, b.threshold - 1) : b' = [b EXCEPT !.sem = v]
  /\ pc' = [pc EXCEPT ![t] = "get"]
  /\ UNCHANGED <<cur, gone, serial>>

(* sem_post_n(&b->sem, b->threshold) *)
WaitPost(t) ==
  /\ pc[t] = "post"
  /\ \E v \in SemPostN(b.sem, b.threshold) : b' = [b EXCEPT !.sem = v]
  /\ pc' = [pc EXCEPT ![t] = "get"]
  /\ UNCHANGED <<cur, gone, serial>>

(* The serial thread is found by the shared counter, not by its copy. *)
WaitGet_SharedCounter(t) ==
  /\ pc[t] = "get"
  /\ b.sem > 0
  /\ b' = [b EXCEPT !.sem = @ - 1]
  /\ pc' = [pc EXCEPT ![t] = "idle"]
  /\ gone' = gone \cup {t}
  /\ serial' = IF b.cur_thread = 1 THEN serial \cup {t} ELSE serial
  /\ UNCHANGED cur

(* sem_get(&b->sem, WAIT) and the return: the first thread is the serial one *)
WaitGet(t) ==
  /\ pc[t] = "get"
  /\ b.sem > 0
  /\ b' = [b EXCEPT !.sem = @ - 1]
  /\ pc' = [pc EXCEPT ![t] = "idle"]
  /\ gone' = gone \cup {t}
  /\ serial' = IF cur[t] = 1 THEN serial \cup {t} ELSE serial
  /\ UNCHANGED cur

Next ==
  \/ \E count \in Counts : BarrierInit(count)
  \/ \E t \in Threads :
       WaitEnter(t) \/ WaitTest(t) \/ WaitPost(t) \/ WaitGet(t)

Spec == Init /\ [][Next]_vars

(* The kernel runs ready tasks; no client has to call anything again. *)
FairSpec ==
  /\ Spec
  /\ \A t \in Threads : WF_vars(WaitTest(t) \/ WaitPost(t) \/ WaitGet(t))

-----------------------------------------------------------------------------
(* Types.  cur_thread never passes threshold: the test under the lock turns *)
(* every later caller away.                                                 *)
TypeOK ==
  /\ b \in [cur_thread : Nat, threshold : Nat, sem : Nat]
  /\ b.cur_thread <= b.threshold
  /\ pc \in [Threads -> Labels]
  /\ cur \in [Threads -> Nat]
  /\ gone \in SUBSET Threads
  /\ serial \in SUBSET Threads

(* No thread passes before the barrier is full, and none is still on its    *)
(* way in once one has passed.                                              *)
NoEarlyRelease == gone # {} => b.cur_thread = b.threshold

(* Nobody is left behind: once the threads of a full barrier have stopped   *)
(* testing and posting, there is a unit of the semaphore for each of them.  *)
(* The unlocked test could let every thread believe another one posts.      *)
NoStranded ==
  (b.cur_thread = b.threshold /\ \A t \in Threads : pc[t] \in {"idle", "get"})
    => Cardinality(Inside) <= b.sem

(* "Returned to a single thread" (pthread.h): when everybody has passed,    *)
(* exactly one thread was told that it is the serial one.                   *)
OneSerial ==
  (b.threshold > 0 /\ Cardinality(gone) = b.threshold) =>
     Cardinality(serial) = 1

(* Every thread of a full barrier returns, whoever posts.                   *)
AllReleased ==
  \A t \in Threads :
    (pc[t] # "idle" /\ b.cur_thread = b.threshold) ~> (pc[t] = "idle")

-----------------------------------------------------------------------------
(* The barrier implements the abstract rendezvous: to arrive is to be       *)
(* counted in, to be gone is to have come back from sem_get.                *)
R == INSTANCE Rendezvous
       WITH count <- b.threshold, arrived <- Inside \cup gone

RendezvousSpec == R!Spec

=============================================================================
