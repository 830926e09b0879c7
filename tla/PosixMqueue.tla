----------------------------- MODULE PosixMqueue ----------------------------
(***************************************************************************)
(* src/src/posix_mqueue.c: the list of queues allq, its mutex allq_mux and *)
(* the calls that look queues up under it.                                 *)
(*                                                                         *)
(* mq_open prepares a new queue but never links it into allq, and nothing  *)
(* else does: every lookup fails, also that of a descriptor that mq_open   *)
(* has just returned (NotFoundMeansBad, which a run refutes).  What the    *)
(* functions do with a queue they found (reference counting, mq_free,      *)
(* get_tick_timeout, mq_get and mq_put) is therefore code that cannot run, *)
(* and has no action here: each action that ends a lookup is guarded by    *)
(* the lookup's failure.                                                   *)
(***************************************************************************)
EXTENDS HcosKernel

CONSTANTS
  Blocks,       \* blocks of the heap that can hold an mqd_internal_t
  Names         \* valid names of queues

VARIABLES
  inited,       \* has mq_check_init run?
  allq,         \* the queues in the list
  allq_mux,     \* the mutex of the list
  queue,        \* queue[b]: the name in block b, or NoQueue or HalfBuilt
  mq_call,      \* mq_call[t]: the call t is in, or NoCall
  kept,         \* history: threads that returned with allq_mux locked
  raced         \* history: was the mutex initialized again?

queueVars == <<inited, allq, allq_mux, queue, mq_call, kept, raced>>

NoQueue   == "none"     \* the block is not allocated
HalfBuilt == "half"     \* allocated, but mq_open failed afterwards

NoCall == [pc |-> "idle"]
Lost   == [pc |-> "lost"]       \* waits for allq_mux, which does not know it

ByName == {"open", "unlink"}
Transfers == {"timedsend", "timedreceive"}

(* What the application can ask for:                                        *)
(* op    - the function called                                              *)
(* arg   - a name, or a descriptor (a block that mq_open returned)          *)
(* creat - mq_open: is O_CREAT set?                                         *)
(* valid - are name (validate_name) and attributes valid?                   *)
(* O_CREAT matters for valid names only; O_EXCL, message and deadline for   *)
(* found queues only.                                                       *)
NameRequests ==
  [op : {"open"}, arg : Names, creat : {TRUE}, valid : {TRUE}]
    \cup [op : ByName, arg : Names, creat : {FALSE}, valid : BOOLEAN]

(* mq_send and mq_receive pass on to mq_timedsend and mq_timedreceive. *)
Requests ==
  NameRequests
    \cup [op : {"close", "getattr"} \cup Transfers,
          arg : {b \in Blocks : queue[b] \notin {NoQueue, HalfBuilt}},
          creat : {FALSE}, valid : {TRUE}]

(* allq_mux is static: before mut_init it is zeroed, which is a free mutex. *)
QueueInit ==
  /\ inited = FALSE
  /\ allq = {}
  /\ allq_mux = MutFree
  /\ queue = [b \in Blocks |-> NoQueue]
  /\ mq_call = [t \in Threads |-> NoCall]
  /\ kept = {}
  /\ raced = FALSE

At(t, pc) == mq_call[t].pc = pc

Goto(t, pc) == mq_call' = [mq_call EXCEPT ![t].pc = pc]

(* The results are left out: a block for OpenCreates, -1 with an errno for  *)
(* every other return.                                                      *)
Return(t) == mq_call' = [mq_call EXCEPT ![t] = NoCall]

-----------------------------------------------------------------------------
(* A call begins.  mq_timedsend and mq_timedreceive lock at once, the       *)
(* others test inited first.                                                *)
Enter(t) ==
  /\ At(t, "idle")
  /\ \E r \in Requests :
       mq_call' = [mq_call EXCEPT ![t] =
         [pc |-> IF r.op \in Transfers \/ inited THEN "lock" ELSE "init", req |-> r]]
  /\ UNCHANGED <<inited, allq, allq_mux, queue, kept, raced>>

(* Those who can be waiting in mut_lock *)
Waiters ==
  {t \in Threads : At(t, "lock") /\ mq_call[t].req.valid /\ ~MutAvailable(allq_mux, t)}

(* mq_check_init after its test.  A mut_init of the mutex in use frees it   *)
(* under its owner, and forgets whoever is queued for it: nobody will wake  *)
(* them.                                                                    *)
CheckInit(t) ==
  /\ At(t, "init")
  /\ allq' = {}
  /\ allq_mux' = MutFree
  /\ inited' = TRUE
  /\ raced' = (raced \/ inited)
  /\ \E queued \in SUBSET Waiters :
       mq_call' = [x \in Threads |->
         CASE x = t -> [mq_call[t] EXCEPT !.pc = "lock"]
           [] x \in queued -> Lost
           [] OTHER -> mq_call[x]]
  /\ UNCHANGED <<queue, kept>>

(* mq_open and mq_unlink refuse a name, or attributes, without locking *)
Refuse(t) ==
  /\ At(t, "lock")
  /\ ~mq_call[t].req.valid
  /\ Return(t)
  /\ UNCHANGED <<inited, allq, allq_mux, queue, kept, raced>>

(* mut_lock(&allq_mux, WAIT) *)
Lock(t) ==
  /\ At(t, "lock")
  /\ mq_call[t].req.valid
  /\ allq_mux' \in MutLockOutcomes(allq_mux, t, "WAIT")
  /\ Goto(t, "locked")
  /\ UNCHANGED <<inited, allq, queue, kept, raced>>

mq_find_locked(name) == {b \in allq : queue[b] = name}

mq_extract_locked(b) == {x \in allq : x = b}

(* The caller has the lock, and its lookup fails. *)
NotFound(t, op) ==
  /\ At(t, "locked")
  /\ mq_call[t].req.op = op
  /\ IF op \in ByName THEN mq_find_locked(mq_call[t].req.arg) = {}
                       ELSE mq_extract_locked(mq_call[t].req.arg) = {}

UnlockReturn(t) ==
  /\ allq_mux' \in MutUnlockOutcomes(allq_mux, t)
  /\ Return(t)
  /\ UNCHANGED <<inited, allq, queue, kept, raced>>

(* An mq_close that returns its EBADF without unlocking. *)
MqClose_KeepsLock(t) ==
  /\ NotFound(t, "close")
  /\ Return(t)
  /\ UNCHANGED <<inited, allq, allq_mux, queue, kept, raced>>

(* EBADF *)
MqClose(t) == NotFound(t, "close") /\ UnlockReturn(t)

(* EBADF *)
MqGetattr(t) == NotFound(t, "getattr") /\ UnlockReturn(t)

(* EBADF, or EINVAL for an unaligned buffer; every later test sees ret # 0 *)
MqTimedreceive(t) == NotFound(t, "timedreceive") /\ UnlockReturn(t)

MqTimedsend(t) == NotFound(t, "timedsend") /\ UnlockReturn(t)

(* ENOENT *)
MqUnlink(t) == NotFound(t, "unlink") /\ UnlockReturn(t)

(* mq_open without O_CREAT: ENOENT *)
OpenAbsent(t) == NotFound(t, "open") /\ ~mq_call[t].req.creat /\ UnlockReturn(t)

(* mq_open with O_CREAT: block b becomes the queue, and the descriptor.     *)
(* lle_init prepares its list entry, which is not linked.                   *)
OpenCreates(t, b) ==
  /\ NotFound(t, "open") /\ mq_call[t].req.creat
  /\ queue[b] = NoQueue
  /\ queue' = [queue EXCEPT ![b] = mq_call[t].req.arg]
  /\ allq_mux' \in MutUnlockOutcomes(allq_mux, t)
  /\ Return(t)
  /\ UNCHANGED <<inited, allq, kept, raced>>

(* No memory for the queue, or none for its buffer once the queue has a     *)
(* block: goto out jumps over the unlock, and over giving the block back.   *)
OpenNoMemory(t) ==
  /\ NotFound(t, "open") /\ mq_call[t].req.creat
  /\ \/ UNCHANGED queue
     \/ \E b \in Blocks : queue[b] = NoQueue /\ queue' = [queue EXCEPT ![b] = HalfBuilt]
  /\ kept' = kept \cup {t}
  /\ Return(t)
  /\ UNCHANGED <<inited, allq, allq_mux, raced>>

-----------------------------------------------------------------------------
Section(t) ==
  \/ MqClose(t) \/ MqGetattr(t) \/ MqTimedreceive(t) \/ MqTimedsend(t)
  \/ MqUnlink(t) \/ OpenAbsent(t) \/ OpenNoMemory(t)
  \/ \E b \in Blocks : OpenCreates(t, b)

QueueNext ==
  \E t \in Threads : Enter(t) \/ CheckInit(t) \/ Refuse(t) \/ Lock(t) \/ Section(t)

QueueSpec == QueueInit /\ [][QueueNext]_queueVars

(* The kernel runs ready tasks, and gives a mutex that is released again    *)
(* and again to each of those who wait for it.                              *)
FairQueueSpec ==
  /\ QueueSpec
  /\ \A t \in Threads :
       /\ WF_queueVars(CheckInit(t)) /\ WF_queueVars(Refuse(t))
       /\ WF_queueVars(Section(t))
       /\ SF_queueVars(Lock(t))

-----------------------------------------------------------------------------
(* Types.  A mutex that does not nest is never taken twice.                 *)
QueueTypeOK ==
  /\ inited \in BOOLEAN
  /\ allq \subseteq Blocks
  /\ allq_mux \in [own : Threads \cup {NoTask}, depth : IF RelockNests THEN Nat ELSE {0, 1}]
  /\ queue \in [Blocks -> Names \cup {NoQueue, HalfBuilt}]
  /\ \A t \in Threads : mq_call[t].pc \in {"idle", "init", "lock", "locked", "lost"}
  /\ kept \subseteq Threads
  /\ raced \in BOOLEAN

(* allq_mux is held exactly by the caller between its lock and its unlock,  *)
(* on every error path of every call, with one exception: an mq_open that   *)
(* ran out of memory keeps it.  Only a second first caller, who initializes *)
(* the mutex while it is in use, can take it away.                          *)
MuxAccounted ==
  ~raced =>
    \A t \in Threads : allq_mux.own = t <=> (At(t, "locked") \/ t \in kept)

(* Every call on a queue returns, as long as no mq_open runs out of memory, *)
(* except those that waited for the mutex when a second first caller        *)
(* initialized it: whoever held it then, or comes later, still gets through.*)
CallsReturn ==
  \A t \in Threads :
    ~At(t, "idle") ~> (At(t, "idle") \/ At(t, "lost") \/ kept # {})

-----------------------------------------------------------------------------
(* Statements of the sources that the code does not keep. *)

(* posix_mqueue.c:342, "Queue not found; bad descriptor.": a descriptor     *)
(* that mq_open returned, and nobody closed, is found.                      *)
NotFoundMeansBad ==
  \A t \in Threads :
    At(t, "locked") /\ mq_call[t].req.op \notin ByName =>
      mq_extract_locked(mq_call[t].req.arg) # {}

(* posix_mqueue.c:260, "Search the queue list to check if the queue         *)
(* exists.": no two queues have the same name.                              *)
OneQueuePerName ==
  \A a, b \in Blocks : (queue[a] \in Names /\ queue[a] = queue[b]) => a = b

=============================================================================
