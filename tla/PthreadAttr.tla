----------------------------- MODULE PthreadAttr ----------------------------
(***************************************************************************)
(* src/src/posix_pthread.c: thread attributes, the copy a thread keeps of  *)
(* them, and the scheduling parameters of a running thread.                *)
(*                                                                         *)
(* Detach state and priority share the 16 bits of attr->status.  An        *)
(* unsigned short is the set of its bits that are 1, so that & and | are   *)
(* intersection and union.  Application code owns its pthread_attr_t; the  *)
(* attributes of a thread are shared by all who call pthread_setschedparam *)
(* for it, without a lock: each load and each store of its status is a     *)
(* step.                                                                   *)
(***************************************************************************)
EXTENDS Integers

CONSTANTS
  Callers,              \* tasks that call pthread_setschedparam
  SHFT_DETACH,          \* the bit of the detach state; those below are the priority's
  CFG_TPRI_NUM,         \* the kernel's number of priorities
  USHRT_MAX,            \* largest unsigned short
  PTHREAD_STACK_MIN,
  StackSizes            \* the sizes the application asks for

ASSUME AttrAssumption ==
  /\ SHFT_DETACH \in Nat
  /\ CFG_TPRI_NUM \in 2..2^SHFT_DETACH
  /\ USHRT_MAX \in Nat
  /\ PTHREAD_STACK_MIN \in 1..USHRT_MAX
  /\ StackSizes \subseteq Nat

VARIABLES
  attr,         \* the application's pthread_attr_t
  thread,       \* the attr of a thread created with it, or NoThread
  task_pri,     \* the priority of the thread's kernel task
  call,         \* call[c]: the pthread_setschedparam c is in, or Idle
  wanted,       \* history: the values last set in attr
  asked,        \* history: the priority last asked for the thread
  clash         \* history: did the last calls for the thread overlap?

vars == <<attr, thread, task_pri, call, wanted, asked, clash>>

MASK_DETACH == {SHFT_DETACH}
MASK_PRIORITY == 0..(SHFT_DETACH - 1)

(* The bits of a number *)
Bits(n) == {i \in 0..SHFT_DETACH : (n \div 2^i) % 2 = 1}

STATUS_JOINABLE(status) == status \cap MASK_DETACH = MASK_DETACH
STATUS_PRIORITY(status) == status \cap MASK_PRIORITY

sched_get_priority_max == CFG_TPRI_NUM - 1
HCOS_LOWEST_PRIORITY == CFG_TPRI_NUM - 2

PTHTREAD_ATTR_DEFAULT ==
  [stack_sz |-> PTHREAD_STACK_MIN, status |-> Bits(HCOS_LOWEST_PRIORITY) \cup MASK_DETACH]

DefaultsWanted ==
  [joinable |-> TRUE, priority |-> HCOS_LOWEST_PRIORITY, stack |-> PTHREAD_STACK_MIN]

NoThread == [stack_sz |-> -1, status |-> {}]

Idle == [pc |-> "idle", pri |-> 0, reg |-> {}]

Init ==
  /\ attr = PTHTREAD_ATTR_DEFAULT
  /\ thread = NoThread
  /\ task_pri = Bits(0)
  /\ call = [c \in Callers |-> Idle]
  /\ wanted = DefaultsWanted
  /\ asked = Bits(0)
  /\ clash = FALSE

OfThread == <<thread, task_pri, call, asked, clash>>

-----------------------------------------------------------------------------
(* pthread_attr_init *)
AttrInit ==
  /\ attr' = PTHTREAD_ATTR_DEFAULT
  /\ wanted' = DefaultsWanted
  /\ UNCHANGED OfThread

(* A pthread_attr_setdetachstate that does not clear the bit first. *)
AttrSetdetachstate_NotCleared(detach) ==
  /\ attr' = [attr EXCEPT !.status = IF detach = 1 THEN @ \cup MASK_DETACH ELSE @]
  /\ wanted' = [wanted EXCEPT !.joinable = (detach = 1)]
  /\ UNCHANGED OfThread

(* pthread_attr_setdetachstate: DETACHED is 0 and JOINABLE is 1; anything   *)
(* else is EINVAL.                                                          *)
AttrSetdetachstate(detach) ==
  /\ attr' = [attr EXCEPT !.status =
       (@ \ MASK_DETACH) \cup IF detach = 1 THEN MASK_DETACH ELSE {}]
  /\ wanted' = [wanted EXCEPT !.joinable = (detach = 1)]
  /\ UNCHANGED OfThread

(* A test that is off by one. *)
Supported_OneMore(pri) == 0 <= pri /\ pri <= sched_get_priority_max + 1

(* What pthread_attr_setschedparam accepts; anything else is ENOTSUP *)
Supported(pri) == 0 <= pri /\ pri <= sched_get_priority_max

AttrSetschedparam(pri) ==
  /\ Supported(pri)
  /\ attr' = [attr EXCEPT !.status = (@ \ MASK_PRIORITY) \cup Bits(pri)]
  /\ wanted' = [wanted EXCEPT !.priority = pri]
  /\ UNCHANGED OfThread

(* pthread_attr_setstacksize: EINVAL below the minimum, then truncated to   *)
(* an unsigned short                                                        *)
AttrSetstacksize(sz) ==
  /\ sz >= PTHREAD_STACK_MIN
  /\ attr' = [attr EXCEPT !.stack_sz = sz % (USHRT_MAX + 1)]
  /\ wanted' = [wanted EXCEPT !.stack = sz]
  /\ UNCHANGED OfThread

(* pthread_create copies the attributes, or the defaults, and starts the    *)
(* task with their priority.                                                *)
Create(a) ==
  /\ thread = NoThread
  /\ thread' = a
  /\ task_pri' = STATUS_PRIORITY(a.status)
  /\ asked' = STATUS_PRIORITY(a.status)
  /\ UNCHANGED <<attr, call, wanted, clash>>

-----------------------------------------------------------------------------
Active(c) == call[c] # Idle

At(c, pc) == call[c].pc = pc

(* pthread_setschedparam calls pthread_attr_setschedparam for the thread's  *)
(* attributes.                                                              *)
SetEnter(c, pri) ==
  /\ thread # NoThread
  /\ ~Active(c)
  /\ Supported(pri)
  /\ call' = [call EXCEPT ![c] = [pc |-> "loadAnd", pri |-> pri, reg |-> {}]]
  /\ asked' = Bits(pri)
  /\ clash' = \E x \in Callers : Active(x)
  /\ UNCHANGED <<attr, thread, task_pri, wanted>>

(* The mask is applied the wrong way round. *)
LoadAnd_WrongMask(c) ==
  /\ At(c, "loadAnd")
  /\ call' = [call EXCEPT ![c].pc = "storeAnd", ![c].reg = STATUS_PRIORITY(thread.status)]
  /\ UNCHANGED <<attr, thread, task_pri, wanted, asked, clash>>

(* The old priority is not cleared. *)
LoadAnd_NotCleared(c) ==
  /\ At(c, "loadAnd")
  /\ call' = [call EXCEPT ![c].pc = "storeAnd", ![c].reg = thread.status]
  /\ UNCHANGED <<attr, thread, task_pri, wanted, asked, clash>>

(* attr->status &= ~MASK_PRIORITY *)
LoadAnd(c) ==
  /\ At(c, "loadAnd")
  /\ call' = [call EXCEPT ![c].pc = "storeAnd", ![c].reg = thread.status \ MASK_PRIORITY]
  /\ UNCHANGED <<attr, thread, task_pri, wanted, asked, clash>>

(* attr->status |= (unsigned short)param->sched_priority *)
LoadOr(c) ==
  /\ At(c, "loadOr")
  /\ call' = [call EXCEPT ![c].pc = "storeOr", ![c].reg = thread.status \cup Bits(call[c].pri)]
  /\ UNCHANGED <<attr, thread, task_pri, wanted, asked, clash>>

Store(c, from, to) ==
  /\ At(c, from)
  /\ thread' = [thread EXCEPT !.status = call[c].reg]
  /\ call' = [call EXCEPT ![c].pc = to]
  /\ UNCHANGED <<attr, task_pri, wanted, asked, clash>>

StoreAnd(c) == Store(c, "storeAnd", "loadOr")

StoreOr(c) == Store(c, "storeOr", "pri")

(* task_pri(&thread->task, param->sched_priority) *)
SetTaskPri(c) ==
  /\ At(c, "pri")
  /\ task_pri' = Bits(call[c].pri)
  /\ call' = [call EXCEPT ![c] = Idle]
  /\ UNCHANGED <<attr, thread, wanted, asked, clash>>

-----------------------------------------------------------------------------
Next ==
  \/ AttrInit
  \/ \E detach \in {0, 1} : AttrSetdetachstate(detach)
  \/ \E pri \in -1..CFG_TPRI_NUM : AttrSetschedparam(pri)
  \/ \E sz \in StackSizes : AttrSetstacksize(sz)
  \/ Create(attr) \/ Create(PTHTREAD_ATTR_DEFAULT)
  \/ \E c \in Callers :
       \/ \E pri \in -1..CFG_TPRI_NUM : SetEnter(c, pri)
       \/ LoadAnd(c) \/ StoreAnd(c) \/ LoadOr(c) \/ StoreOr(c) \/ SetTaskPri(c)

Spec == Init /\ [][Next]_vars

-----------------------------------------------------------------------------
(* Types.  However calls interleave, the kernel is only given priorities it *)
(* has.                                                                     *)
TypeOK ==
  /\ attr.stack_sz \in 0..USHRT_MAX /\ thread.stack_sz \in -1..USHRT_MAX
  /\ attr.status \subseteq 0..SHFT_DETACH /\ thread.status \subseteq 0..SHFT_DETACH
  /\ task_pri \in {Bits(n) : n \in 0..sched_get_priority_max}
  /\ \A c \in Callers : call[c].pc \in {"idle", "loadAnd", "storeAnd", "loadOr", "storeOr", "pri"}

(* The getters return what was last set, in whatever order the packed       *)
(* fields were set and set again; a stack size only if it fits into an      *)
(* unsigned short.                                                          *)
AttrRemembers ==
  /\ STATUS_JOINABLE(attr.status) <=> wanted.joinable
  /\ STATUS_PRIORITY(attr.status) = Bits(wanted.priority)
  /\ wanted.stack <= USHRT_MAX => attr.stack_sz = wanted.stack

(* No interleaving of pthread_setschedparam calls, which rewrite the whole  *)
(* status without a lock, turns a joinable thread into a detached one or    *)
(* back: exit_thread and pthread_join agree on who frees the thread.        *)
JoinableFixed ==
  [][thread # NoThread =>
       (STATUS_JOINABLE(thread'.status) <=> STATUS_JOINABLE(thread.status))]_vars

(* After a call that no other overlapped, pthread_getschedparam, the kernel *)
(* and the caller agree on the priority, whatever overlapping calls left    *)
(* behind before.                                                           *)
PrioritiesAgree ==
  (/\ thread # NoThread
   /\ ~clash
   /\ \A c \in Callers : ~Active(c)) =>
     /\ STATUS_PRIORITY(thread.status) = task_pri
     /\ task_pri = asked

-----------------------------------------------------------------------------
(* Statements of the sources that the code does not keep. *)

(* pthread_attr_setstacksize refuses what is less than PTHREAD_STACK_MIN    *)
(* (posix_pthread.c:197): no thread gets a smaller stack.                   *)
StackLargeEnough == attr.stack_sz >= PTHREAD_STACK_MIN

(* posix_pthread.c:186, "clear and then set 15 LSB to schedule priority":   *)
(* a thread's attributes hold a priority the kernel has.                    *)
StoredPriorityExists ==
  \E n \in 0..sched_get_priority_max : STATUS_PRIORITY(thread.status) = Bits(n)

(* posix_pthread.c:371, "Change the priority": when all calls have returned *)
(* the attributes and the task have the same priority.                      *)
PrioritiesSettle ==
  thread # NoThread /\ (\A c \in Callers : ~Active(c)) =>
    STATUS_PRIORITY(thread.status) = task_pri

=============================================================================
