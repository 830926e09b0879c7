-------------------------- MODULE PthreadAttrProofs -------------------------
(***************************************************************************)
(* Proofs about PthreadAttr, for any number of callers, any width of the   *)
(* priority field and any number of kernel priorities that fit into it.    *)
(***************************************************************************)
EXTENDS PthreadAttr, TLAPS

Priorities == 0..sched_get_priority_max

Statuses == SUBSET (0..SHFT_DETACH)

CallPcs == {"idle", "loadAnd", "storeAnd", "loadOr", "storeOr", "pri"}

(* The fields of every variable, where TypeOK names those that matter *)
Types ==
  /\ attr \in [stack_sz : 0..USHRT_MAX, status : Statuses]
  /\ thread \in {NoThread} \cup [stack_sz : 0..USHRT_MAX, status : Statuses]
  /\ task_pri \in {Bits(n) : n \in Priorities}
  /\ call \in [Callers -> [pc : CallPcs, pri : Priorities, reg : Statuses]]
  /\ wanted \in [joinable : BOOLEAN, priority : Priorities, stack : Nat]
  /\ clash \in BOOLEAN

(* Calls are made for a thread that exists, and a call that is not Idle is  *)
(* at one of its steps.                                                     *)
CallsHaveThread ==
  \A c \in Callers : Active(c) => thread # NoThread /\ call[c].pc # "idle"

(* What a caller is about to store has the thread's detach bit. *)
RegsKeepDetach ==
  \A c \in Callers : call[c].pc \in {"storeAnd", "storeOr"} =>
    (SHFT_DETACH \in call[c].reg <=> SHFT_DETACH \in thread.status)

(* A call that no other overlapped is the only one, and has done its part   *)
(* of the work up to where it is.                                           *)
AloneProgress ==
  ~clash =>
    \A c \in Callers : Active(c) =>
      /\ \A x \in Callers : Active(x) => x = c
      /\ asked = Bits(call[c].pri)
      /\ call[c].pc = "storeAnd" => STATUS_PRIORITY(call[c].reg) = {}
      /\ call[c].pc = "loadOr"   => STATUS_PRIORITY(thread.status) = {}
      /\ call[c].pc = "storeOr"  => STATUS_PRIORITY(call[c].reg) = asked
      /\ call[c].pc = "pri"      => STATUS_PRIORITY(thread.status) = asked

(* The inductive invariant *)
IInv ==
  /\ Types
  /\ AttrRemembers
  /\ CallsHaveThread
  /\ RegsKeepDetach
  /\ AloneProgress
  /\ PrioritiesAgree

-----------------------------------------------------------------------------
LEMMA PowerType == 2^SHFT_DETACH \in Nat \ {0}
  BY AttrAssumption

(* A priority the kernel has does not reach the detach bit. *)
LEMMA BitsLow ==
  ASSUME NEW n \in Priorities
  PROVE  Bits(n) \subseteq MASK_PRIORITY
<1>1. n \div 2^SHFT_DETACH = 0
  BY AttrAssumption, PowerType DEF Priorities, sched_get_priority_max
<1>2. SHFT_DETACH \notin Bits(n)
  BY <1>1, AttrAssumption DEF Bits
<1> QED BY <1>2, AttrAssumption DEF Bits, MASK_PRIORITY

(* The bits of a priority, as the status holds them: they are a status, the *)
(* mask keeps them and the detach bit is not among them.                    *)
LEMMA BitsStatus ==
  ASSUME NEW n \in Priorities
  PROVE  /\ Bits(n) \in Statuses
         /\ STATUS_PRIORITY(Bits(n)) = Bits(n)
         /\ SHFT_DETACH \notin Bits(n)
<1>1. Bits(n) \subseteq MASK_PRIORITY
  BY BitsLow
<1>2. SHFT_DETACH \notin MASK_PRIORITY /\ MASK_PRIORITY \subseteq 0..SHFT_DETACH
  BY AttrAssumption DEF MASK_PRIORITY
<1> QED BY <1>1, <1>2 DEF Statuses, STATUS_PRIORITY

LEMMA MaskTypes ==
  /\ MASK_DETACH \in Statuses
  /\ MASK_PRIORITY \in Statuses
  /\ SHFT_DETACH \notin MASK_PRIORITY
  BY AttrAssumption DEF MASK_DETACH, MASK_PRIORITY, Statuses

LEMMA SupportedPriority ==
  ASSUME NEW pri \in -1..CFG_TPRI_NUM, Supported(pri)
  PROVE  pri \in Priorities
  BY AttrAssumption DEF Supported, Priorities, sched_get_priority_max

LEMMA LowestPriority == HCOS_LOWEST_PRIORITY \in Priorities /\ 0 \in Priorities
  BY AttrAssumption DEF HCOS_LOWEST_PRIORITY, Priorities, sched_get_priority_max

(* The defaults are what DefaultsWanted says, and no thread looks like      *)
(* NoThread.                                                                *)
LEMMA Defaults ==
  /\ PTHTREAD_ATTR_DEFAULT \in [stack_sz : 0..USHRT_MAX, status : Statuses]
  /\ DefaultsWanted \in [joinable : BOOLEAN, priority : Priorities, stack : Nat]
  /\ STATUS_JOINABLE(PTHTREAD_ATTR_DEFAULT.status)
  /\ STATUS_PRIORITY(PTHTREAD_ATTR_DEFAULT.status) = Bits(HCOS_LOWEST_PRIORITY)
<1>1. /\ Bits(HCOS_LOWEST_PRIORITY) \in Statuses
      /\ STATUS_PRIORITY(Bits(HCOS_LOWEST_PRIORITY)) = Bits(HCOS_LOWEST_PRIORITY)
  BY BitsStatus, LowestPriority
<1> QED
  BY <1>1, MaskTypes, LowestPriority, AttrAssumption
  DEF PTHTREAD_ATTR_DEFAULT, DefaultsWanted, STATUS_JOINABLE, STATUS_PRIORITY,
      MASK_DETACH, Statuses

LEMMA InitIInv == Init => IInv
<1> SUFFICES ASSUME Init PROVE IInv
  OBVIOUS
<1> USE DEF Init
<1>1. \A c \in Callers : ~Active(c)
  BY DEF Active, Idle
<1>2. Types
  <2>2. task_pri \in {Bits(n) : n \in Priorities}
    BY LowestPriority
  <2>3. call \in [Callers -> [pc : CallPcs, pri : Priorities, reg : Statuses]]
    BY LowestPriority DEF Idle, CallPcs, Statuses
  <2> QED BY <2>2, <2>3, Defaults DEF Types
<1>3. AttrRemembers
  BY Defaults DEF AttrRemembers, DefaultsWanted, PTHTREAD_ATTR_DEFAULT
<1> QED
  BY <1>1, <1>2, <1>3
  DEF IInv, CallsHaveThread, RegsKeepDetach, AloneProgress, PrioritiesAgree, Idle

-----------------------------------------------------------------------------
(* The calls on the application's own attributes leave all of the thread    *)
(* alone.                                                                   *)
LEMMA OfThreadUnchanged ==
  ASSUME IInv, UNCHANGED OfThread,
         attr' \in [stack_sz : 0..USHRT_MAX, status : Statuses],
         wanted' \in [joinable : BOOLEAN, priority : Priorities, stack : Nat],
         AttrRemembers'
  PROVE  IInv'
  BY DEF IInv, Types, OfThread, CallsHaveThread, RegsKeepDetach, AloneProgress,
         PrioritiesAgree, Active

LEMMA AttrInitIInv == ASSUME IInv, AttrInit PROVE IInv'
<1>1. AttrRemembers'
  BY Defaults DEF AttrInit, AttrRemembers, DefaultsWanted, PTHTREAD_ATTR_DEFAULT
<1> QED BY <1>1, Defaults, OfThreadUnchanged DEF AttrInit

LEMMA AttrSetdetachstateIInv ==
  ASSUME IInv, NEW detach \in {0, 1}, AttrSetdetachstate(detach)
  PROVE  IInv'
<1> USE DEF AttrSetdetachstate
<1>1. attr' \in [stack_sz : 0..USHRT_MAX, status : Statuses]
  BY MaskTypes DEF IInv, Types, Statuses
<1>2. wanted' \in [joinable : BOOLEAN, priority : Priorities, stack : Nat]
  BY DEF IInv, Types
<1>3. STATUS_JOINABLE(attr.status)' <=> wanted'.joinable
  BY DEF IInv, Types, STATUS_JOINABLE, MASK_DETACH
<1>4. STATUS_PRIORITY(attr.status)' = STATUS_PRIORITY(attr.status)
  BY MaskTypes DEF IInv, Types, STATUS_PRIORITY, MASK_DETACH
<1>5. AttrRemembers'
  BY <1>3, <1>4 DEF IInv, Types, AttrRemembers
<1> QED BY <1>1, <1>2, <1>5, OfThreadUnchanged

LEMMA AttrSetschedparamIInv ==
  ASSUME IInv, NEW pri \in -1..CFG_TPRI_NUM, AttrSetschedparam(pri)
  PROVE  IInv'
<1> USE DEF AttrSetschedparam
<1>1. pri \in Priorities
  BY SupportedPriority
<1>2. /\ Bits(pri) \in Statuses /\ STATUS_PRIORITY(Bits(pri)) = Bits(pri)
      /\ SHFT_DETACH \notin Bits(pri)
  BY <1>1, BitsStatus
<1>3. attr' \in [stack_sz : 0..USHRT_MAX, status : Statuses]
  BY <1>2 DEF IInv, Types, Statuses
<1>4. wanted' \in [joinable : BOOLEAN, priority : Priorities, stack : Nat]
  BY <1>1 DEF IInv, Types
<1>5. STATUS_PRIORITY(attr.status)' = Bits(pri)
  BY <1>2 DEF IInv, Types, STATUS_PRIORITY
<1>6. STATUS_JOINABLE(attr.status)' <=> STATUS_JOINABLE(attr.status)
  BY <1>2, MaskTypes DEF IInv, Types, STATUS_JOINABLE, MASK_DETACH
<1>7. AttrRemembers'
  BY <1>5, <1>6 DEF IInv, Types, AttrRemembers
<1> QED BY <1>3, <1>4, <1>7, OfThreadUnchanged

LEMMA AttrSetstacksizeIInv ==
  ASSUME IInv, NEW sz \in StackSizes, AttrSetstacksize(sz)
  PROVE  IInv'
<1> USE DEF AttrSetstacksize
<1>1. sz \in Nat
  BY AttrAssumption
<1>2. /\ sz % (USHRT_MAX + 1) \in 0..USHRT_MAX
      /\ sz <= USHRT_MAX => sz % (USHRT_MAX + 1) = sz
  BY <1>1, AttrAssumption
<1>3. attr' \in [stack_sz : 0..USHRT_MAX, status : Statuses]
  BY <1>2 DEF IInv, Types
<1>4. wanted' \in [joinable : BOOLEAN, priority : Priorities, stack : Nat]
  BY <1>1 DEF IInv, Types
<1>5. AttrRemembers'
  BY <1>2 DEF IInv, Types, AttrRemembers
<1> QED BY <1>3, <1>4, <1>5, OfThreadUnchanged

(* A new thread: nobody sets its priority yet. *)
LEMMA CreateIInv ==
  ASSUME IInv, NEW a \in [stack_sz : 0..USHRT_MAX, status : Statuses],
         STATUS_PRIORITY(a.status) \in {Bits(n) : n \in Priorities},
         Create(a)
  PROVE  IInv'
<1> USE DEF Create
<1>1. \A c \in Callers : ~Active(c)
  BY DEF IInv, CallsHaveThread
<1>2. Types'
  BY AttrAssumption DEF IInv, Types
<1>3. AttrRemembers'
  BY DEF IInv, AttrRemembers
<1>4. \A c \in Callers : call'[c].pc = "idle"
  BY <1>1 DEF Active, Idle
<1> QED
  BY <1>1, <1>2, <1>3, <1>4
  DEF IInv, CallsHaveThread, RegsKeepDetach, AloneProgress, PrioritiesAgree, Active

-----------------------------------------------------------------------------
(* pthread_setschedparam.  A call that starts alone starts the account      *)
(* anew; one that joins others sets clash.                                  *)
LEMMA SetEnterIInv ==
  ASSUME IInv, NEW c \in Callers, NEW pri \in -1..CFG_TPRI_NUM, SetEnter(c, pri)
  PROVE  IInv'
<1> USE DEF SetEnter
<1>1. pri \in Priorities
  BY SupportedPriority
<1>2. call' = [call EXCEPT ![c] = [pc |-> "loadAnd", pri |-> pri, reg |-> {}]]
  OBVIOUS
<1>3. Types'
  BY <1>1, <1>2 DEF IInv, Types, CallPcs, Statuses
<1>4. AttrRemembers'
  BY DEF IInv, AttrRemembers
<1>5. \A x \in Callers \ {c} : call'[x] = call[x]
  BY <1>2 DEF IInv, Types
<1>6. call'[c] = [pc |-> "loadAnd", pri |-> pri, reg |-> {}]
  BY <1>2 DEF IInv, Types
<1>7. Active(c)'
  BY <1>6 DEF Active, Idle
<1>8. CallsHaveThread'
  BY <1>5, <1>6 DEF IInv, CallsHaveThread, Active
<1>9. RegsKeepDetach'
  BY <1>5, <1>6 DEF IInv, RegsKeepDetach
<1>10. AloneProgress'
  BY <1>5, <1>6 DEF IInv, AloneProgress, Active
<1>11. PrioritiesAgree'
  BY <1>7 DEF PrioritiesAgree
<1> QED BY <1>3, <1>4, <1>8, <1>9, <1>10, <1>11 DEF IInv

(* A load changes the caller's register only. *)
LEMMA LoadIInv ==
  ASSUME IInv, NEW c \in Callers, LoadAnd(c) \/ LoadOr(c)
  PROVE  IInv'
<1>0. PICK to \in {"storeAnd", "storeOr"},
           r \in {thread.status \ MASK_PRIORITY, thread.status \cup Bits(call[c].pri)} :
      /\ call' = [call EXCEPT ![c].pc = to, ![c].reg = r]
      /\ \/ call[c].pc = "loadAnd" /\ to = "storeAnd" /\ r = thread.status \ MASK_PRIORITY
         \/ /\ call[c].pc = "loadOr" /\ to = "storeOr"
            /\ r = thread.status \cup Bits(call[c].pri)
  BY DEF LoadAnd, LoadOr, At
<1>1. UNCHANGED <<attr, thread, task_pri, wanted, asked, clash>>
  BY DEF LoadAnd, LoadOr
<1>2. /\ Bits(call[c].pri) \in Statuses /\ SHFT_DETACH \notin Bits(call[c].pri)
      /\ STATUS_PRIORITY(Bits(call[c].pri)) = Bits(call[c].pri)
  BY BitsStatus DEF IInv, Types
<1>3. r \in Statuses
  BY <1>0, <1>2 DEF IInv, Types, Statuses
<1>4. Types'
  BY <1>0, <1>1, <1>3 DEF IInv, Types, CallPcs
<1>5. AttrRemembers'
  BY <1>1 DEF IInv, AttrRemembers
<1>6. \A x \in Callers \ {c} : call'[x] = call[x]
  BY <1>0 DEF IInv, Types
<1>7. call'[c].pc = to /\ call'[c].reg = r /\ call'[c].pri = call[c].pri
  BY <1>0 DEF IInv, Types
<1>8. Active(c) /\ Active(c)'
  <2>1. call[c].pc # "idle" /\ call'[c].pc # "idle"
    BY <1>0, <1>7
  <2> QED BY <2>1 DEF Active, Idle
<1>9. CallsHaveThread'
  BY <1>1, <1>0, <1>6, <1>7, <1>8 DEF IInv, CallsHaveThread, Active
<1>10. RegsKeepDetach'
  BY <1>0, <1>1, <1>2, <1>6, <1>7, MaskTypes DEF IInv, RegsKeepDetach
<1>11. AloneProgress'
  <2>1. call[c].pc = "loadAnd" =>
          to = "storeAnd" /\ STATUS_PRIORITY(r) = {}
    BY <1>0 DEF STATUS_PRIORITY
  <2>2. call[c].pc = "loadOr" /\ STATUS_PRIORITY(thread.status) = {} =>
          to = "storeOr" /\ STATUS_PRIORITY(r) = Bits(call[c].pri)
    BY <1>0, <1>2 DEF STATUS_PRIORITY
  <2>3. call[c].pc \in {"loadAnd", "loadOr"}
    BY <1>0
  <2> QED BY <1>1, <1>6, <1>7, <1>8, <2>1, <2>2, <2>3 DEF IInv, AloneProgress, Active
<1>12. PrioritiesAgree'
  BY <1>8 DEF PrioritiesAgree
<1> QED BY <1>4, <1>5, <1>9, <1>10, <1>11, <1>12 DEF IInv

(* A store writes back what the register holds: the whole status, but with  *)
(* the detach bit the thread has.                                           *)
LEMMA StoreIInv ==
  ASSUME IInv, NEW c \in Callers, StoreAnd(c) \/ StoreOr(c)
  PROVE  /\ IInv'
         /\ SHFT_DETACH \in thread'.status <=> SHFT_DETACH \in thread.status
<1> PICK to \in {"loadOr", "pri"} :
      /\ call' = [call EXCEPT ![c].pc = to]
      /\ \/ call[c].pc = "storeAnd" /\ to = "loadOr"
         \/ call[c].pc = "storeOr" /\ to = "pri"
  BY DEF StoreAnd, StoreOr, Store, At
<1>1. UNCHANGED <<attr, task_pri, wanted, asked, clash>>
  BY DEF StoreAnd, StoreOr, Store
<1>2. thread' = [thread EXCEPT !.status = call[c].reg]
  BY DEF StoreAnd, StoreOr, Store
<1>3. Types'
  <2>1. thread \in [stack_sz : 0..USHRT_MAX, status : Statuses]
    BY DEF IInv, CallsHaveThread, Types, Active, Idle
  <2>2. call[c].reg \in Statuses
    BY DEF IInv, Types
  <2>3. thread' \in [stack_sz : 0..USHRT_MAX, status : Statuses]
    BY <1>2, <2>1, <2>2
  <2>4. call' \in [Callers -> [pc : CallPcs, pri : Priorities, reg : Statuses]]
    BY DEF IInv, Types, CallPcs
  <2> QED BY <1>1, <2>3, <2>4 DEF IInv, Types
<1>4. AttrRemembers'
  BY <1>1 DEF IInv, AttrRemembers
<1>5. \A x \in Callers \ {c} : call'[x] = call[x]
  BY DEF IInv, Types
<1>6. call'[c].pc = to /\ call'[c].reg = call[c].reg /\ call'[c].pri = call[c].pri
  BY DEF IInv, Types
<1>7. Active(c) /\ Active(c)'
  BY <1>6 DEF Active, Idle
<1>8. thread'.status = call[c].reg /\ thread'.stack_sz = thread.stack_sz
  BY <1>2 DEF IInv, Types, NoThread
<1>9. SHFT_DETACH \in thread'.status <=> SHFT_DETACH \in thread.status
  BY <1>8 DEF IInv, RegsKeepDetach
<1>10. thread' # NoThread
  <2>1. thread \in [stack_sz : 0..USHRT_MAX, status : Statuses]
    BY <1>7 DEF IInv, CallsHaveThread, Types
  <2> QED BY <1>8, <2>1, AttrAssumption DEF NoThread
<1>11. CallsHaveThread'
  BY <1>5, <1>6, <1>7, <1>10 DEF IInv, CallsHaveThread, Active
<1>12. RegsKeepDetach'
  BY <1>5, <1>6, <1>9 DEF IInv, RegsKeepDetach
<1>13. AloneProgress'
  BY <1>1, <1>5, <1>6, <1>7, <1>8 DEF IInv, AloneProgress, Active
<1>14. PrioritiesAgree'
  BY <1>7 DEF PrioritiesAgree
<1> QED BY <1>3, <1>4, <1>9, <1>11, <1>12, <1>13, <1>14 DEF IInv

(* The last step hands the priority to the kernel; if the call was alone,   *)
(* the attributes hold it already.                                          *)
LEMMA SetTaskPriIInv ==
  ASSUME IInv, NEW c \in Callers, SetTaskPri(c)
  PROVE  IInv'
<1> USE DEF SetTaskPri, At
<1>1. UNCHANGED <<attr, thread, wanted, asked, clash>>
  OBVIOUS
<1>2. Types'
  BY LowestPriority DEF IInv, Types, Idle, CallPcs, Statuses
<1>3. AttrRemembers'
  BY <1>1 DEF IInv, AttrRemembers
<1>4. \A x \in Callers \ {c} : call'[x] = call[x]
  BY DEF IInv, Types
<1>5. call'[c] = Idle
  BY DEF IInv, Types
<1>6. Active(c) /\ ~Active(c)'
  BY <1>5 DEF Active, Idle
<1>7. CallsHaveThread'
  BY <1>1, <1>4, <1>6 DEF IInv, CallsHaveThread, Active
<1>8. RegsKeepDetach'
  BY <1>1, <1>4, <1>5 DEF IInv, RegsKeepDetach, Idle
<1>9. AloneProgress'
  BY <1>1, <1>4, <1>6 DEF IInv, AloneProgress, Active
<1>10. PrioritiesAgree'
  BY <1>1, <1>6 DEF IInv, AloneProgress, PrioritiesAgree
<1> QED BY <1>2, <1>3, <1>7, <1>8, <1>9, <1>10 DEF IInv

-----------------------------------------------------------------------------
LEMMA NextIInv == ASSUME IInv, [Next]_vars PROVE IInv'
<1>1. CASE AttrInit
  BY <1>1, AttrInitIInv
<1>2. CASE \E detach \in {0, 1} : AttrSetdetachstate(detach)
  BY <1>2, AttrSetdetachstateIInv
<1>3. CASE \E pri \in -1..CFG_TPRI_NUM : AttrSetschedparam(pri)
  BY <1>3, AttrSetschedparamIInv
<1>4. CASE \E sz \in StackSizes : AttrSetstacksize(sz)
  BY <1>4, AttrSetstacksizeIInv
<1>5. CASE Create(attr)
  <2>1. STATUS_PRIORITY(attr.status) \in {Bits(n) : n \in Priorities}
    BY DEF IInv, Types, AttrRemembers
  <2> QED BY <1>5, <2>1, CreateIInv DEF IInv, Types
<1>6. CASE Create(PTHTREAD_ATTR_DEFAULT)
  <2>1. STATUS_PRIORITY(PTHTREAD_ATTR_DEFAULT.status) \in {Bits(n) : n \in Priorities}
    BY Defaults, LowestPriority
  <2> QED BY <1>6, <2>1, Defaults, CreateIInv
<1>7. CASE \E c \in Callers : \E pri \in -1..CFG_TPRI_NUM : SetEnter(c, pri)
  BY <1>7, SetEnterIInv
<1>8. CASE \E c \in Callers : LoadAnd(c) \/ LoadOr(c)
  BY <1>8, LoadIInv
<1>9. CASE \E c \in Callers : StoreAnd(c) \/ StoreOr(c)
  BY <1>9, StoreIInv
<1>10. CASE \E c \in Callers : SetTaskPri(c)
  BY <1>10, SetTaskPriIInv
<1>11. CASE UNCHANGED vars
  BY <1>11
  DEF vars, IInv, Types, AttrRemembers, CallsHaveThread, RegsKeepDetach, AloneProgress,
      PrioritiesAgree, Active
<1> QED
  BY <1>1, <1>2, <1>3, <1>4, <1>5, <1>6, <1>7, <1>8, <1>9, <1>10, <1>11 DEF Next

THEOREM Invariance == Spec => []IInv
  BY InitIInv, NextIInv, PTL DEF Spec

(* The kernel is only given priorities it has, and the packed status keeps  *)
(* to its 16 bits, however the calls of pthread_setschedparam interleave.   *)
THEOREM TypeCorrect == Spec => []TypeOK
<1>1. IInv => thread.stack_sz \in -1..USHRT_MAX /\ thread.status \subseteq 0..SHFT_DETACH
  BY AttrAssumption DEF IInv, Types, NoThread, Statuses
<1>2. IInv => TypeOK
  BY <1>1 DEF IInv, Types, TypeOK, Statuses, CallPcs, Priorities
<1> QED BY <1>2, Invariance, PTL

(* pthread_attr_getdetachstate, pthread_attr_getschedparam and, where the   *)
(* size fits, pthread_attr_getstacksize return what was last set.           *)
THEOREM AttributesRemembered == Spec => []AttrRemembers
<1>1. IInv => AttrRemembers
  BY DEF IInv
<1> QED BY <1>1, Invariance, PTL

(* After a pthread_setschedparam that no other overlapped the attributes,   *)
(* the kernel and the caller agree on the priority.                         *)
THEOREM PrioritiesAgreed == Spec => []PrioritiesAgree
<1>1. IInv => PrioritiesAgree
  BY DEF IInv
<1> QED BY <1>1, Invariance, PTL

(* The unlocked read-modify-writes of a thread's status never change its    *)
(* detach state.                                                            *)
THEOREM DetachStateFixed == Spec => JoinableFixed
<1>1. ASSUME IInv, [Next]_vars, thread # NoThread
      PROVE  SHFT_DETACH \in thread'.status <=> SHFT_DETACH \in thread.status
  <2>1. CASE \E c \in Callers : StoreAnd(c) \/ StoreOr(c)
    BY <1>1, <2>1, StoreIInv
  <2>2. CASE ~\E c \in Callers : StoreAnd(c) \/ StoreOr(c)
    <3>1. thread' = thread
      BY <1>1, <2>2
      DEF Next, vars, OfThread, AttrInit, AttrSetdetachstate, AttrSetschedparam,
          AttrSetstacksize, Create, SetEnter, LoadAnd, LoadOr, SetTaskPri
    <3> QED BY <3>1
  <2> QED BY <2>1, <2>2
<1>2. ASSUME IInv, [Next]_vars
      PROVE  [thread # NoThread =>
               (STATUS_JOINABLE(thread'.status) <=> STATUS_JOINABLE(thread.status))]_vars
  BY <1>1, <1>2 DEF STATUS_JOINABLE, MASK_DETACH
<1> QED BY <1>2, Invariance, PTL DEF Spec, JoinableFixed

=============================================================================
