------------------------- MODULE KernelMutexProofs --------------------------
(***************************************************************************)
(* Proofs about the two components that share a mutex of the kernel        *)
(* between tasks: PthreadMutex, and PosixMqueue with its allq_mux.  They   *)
(* hold for any set of threads and either behaviour of the kernel on a     *)
(* relock.                                                                 *)
(***************************************************************************)
EXTENDS PthreadMutex, PosixMqueue, TLAPS

(* The kernel mutex counts its owner's locks. *)
DepthOK == mux.m.own = NoTask <=> mux.m.depth = 0

(* A mutex nobody has initialized is not in use. *)
UninitUnused ==
  ~mux.inited => mux.m = MutFree /\ \A t \in Threads : call[t] = Idle

(* The inductive invariant *)
IInv ==
  /\ TypeOK
  /\ DepthOK
  /\ UninitUnused
  /\ NoOrphanLock
  /\ NoSelfDeadlock

-----------------------------------------------------------------------------
(* What mut_lock can do: take an available mutex, or give up. *)
LEMMA MutLockCases ==
  ASSUME NEW m, NEW t, NEW sleep, NEW n \in MutLockOutcomes(m, t, sleep)
  PROVE  \/ n = m
         \/ MutAvailable(m, t) /\ n = MutTaken(m, t)
  BY DEF MutLockOutcomes

(* The check of pthread_mutex_timedlock lets no owner of an ERRORCHECK      *)
(* mutex, and nobody before initialization, go on to mut_lock.              *)
LEMMA TimedlockCheckPasses ==
  ASSUME NEW mx, NEW t, NEW d, TimedlockCheck(mx, t, d) = "0"
  PROVE  mx.inited /\ (mx.type = "ERRORCHECK" => mx.m.own # t)
  BY DEF TimedlockCheck

(* The check of pthread_mutex_unlock lets only owners release a mutex that  *)
(* remembers its owner.                                                     *)
LEMMA UnlockCheckPasses ==
  ASSUME NEW mx, NEW t, mx.type \in MutexTypes, UnlockCheck(mx, t) = "0"
  PROVE  mx.inited /\ (mx.type # "NORMAL" => mx.m.own = t)
  BY DEF UnlockCheck, MutexTypes

LEMMA CheckCodes ==
  ASSUME NEW mx, NEW t, NEW d
  PROVE  TimedlockCheck(mx, t, d) \in Codes /\ UnlockCheck(mx, t) \in Codes
  BY DEF TimedlockCheck, UnlockCheck, Codes

LEMMA InitIInv == Init => IInv
  BY KernelAssumption
  DEF Init, IInv, TypeOK, DepthOK, UninitUnused, NoOrphanLock, NoSelfDeadlock,
      MutexUninit, MutFree, Idle, Codes, LockOps, Sleeps, MutexTypes

-----------------------------------------------------------------------------
LEMMA EnterIInv ==
  ASSUME IInv, NEW t \in Threads, NEW op \in LockOps, NEW d \in Deadlines,
         TimedlockEnter(t, op, d)
  PROVE  IInv'
<1> USE DEF IInv, TypeOK, DepthOK, UninitUnused, NoOrphanLock, NoSelfDeadlock
<1>1. CASE TimedlockCheck(mux, t, d) # "0"
  <2>1. UNCHANGED <<mux, attr, claims, call>> /\ ret' \in [Threads -> Codes]
    BY <1>1, CheckCodes DEF TimedlockEnter
  <2> QED BY <2>1
<1>2. CASE TimedlockCheck(mux, t, d) = "0"
  <2>1. PICK s \in SleepChoices(d) :
          call' = [call EXCEPT ![t] = [op |-> op, sleep |-> s]]
    BY <1>2 DEF TimedlockEnter
  <2>2. UNCHANGED <<mux, attr, claims, ret>>
    BY <1>2 DEF TimedlockEnter
  <2>3. s \in Sleeps
    BY DEF SleepChoices, Sleeps
  <2>4. mux.inited /\ (mux.type = "ERRORCHECK" => mux.m.own # t)
    BY <1>2, TimedlockCheckPasses
  <2> QED BY <2>1, <2>2, <2>3, <2>4
<1> QED BY <1>1, <1>2

LEMMA MutLockIInv ==
  ASSUME IInv, NEW t \in Threads, TimedlockMutLock(t)
  PROVE  IInv'
<1> USE DEF IInv, TypeOK, DepthOK, UninitUnused, NoOrphanLock, NoSelfDeadlock
<1>1. PICK m \in MutLockOutcomes(mux.m, t, call[t].sleep) :
        mux' = [mux EXCEPT !.m = m]
  BY DEF TimedlockMutLock
<1>2. /\ ret' = [ret EXCEPT ![t] = "0"]
      /\ claims' = [claims EXCEPT ![t] = @ + 1]
      /\ call' = [call EXCEPT ![t] = Idle]
      /\ attr' = attr
      /\ call[t].op \in LockOps
  BY DEF TimedlockMutLock
<1>3. mux.inited
  BY <1>2 DEF LockOps, Idle
<1>4. \/ m = mux.m
      \/ MutAvailable(mux.m, t) /\ m = MutTaken(mux.m, t)
  BY MutLockCases
<1>5. CASE m = mux.m
  <2>1. mux' = mux
    BY <1>1, <1>5
  <2> QED BY <1>2, <1>3, <2>1 DEF Idle, LockOps, Codes, Sleeps
<1>6. CASE MutAvailable(mux.m, t) /\ m = MutTaken(mux.m, t)
  <2>1. m = [own |-> t, depth |-> mux.m.depth + 1]
    BY <1>6 DEF MutTaken
  <2>2. mux.m.own \in {NoTask, t}
    BY <1>6 DEF MutAvailable
  <2>3. mux.m.depth <= claims[t]
    BY <2>2
  <2> QED
    BY <1>1, <1>2, <1>3, <2>1, <2>2, <2>3, KernelAssumption
    DEF Idle, LockOps, Codes, Sleeps
<1> QED BY <1>4, <1>5, <1>6

LEMMA UnlockIInv ==
  ASSUME IInv, NEW t \in Threads, MutexUnlock(t)
  PROVE  IInv'
<1> USE DEF IInv, TypeOK, DepthOK, UninitUnused, NoOrphanLock, NoSelfDeadlock
<1>1. ret' \in [Threads -> Codes] /\ UNCHANGED <<attr, call>>
  BY CheckCodes DEF MutexUnlock
<1>2. CASE UnlockCheck(mux, t) # "0"
  BY <1>1, <1>2 DEF MutexUnlock
<1>3. CASE UnlockCheck(mux, t) = "0"
  <2>1. PICK m \in MutUnlockOutcomes(mux.m, t) : mux' = [mux EXCEPT !.m = m]
    BY <1>3 DEF MutexUnlock
  <2>2. claims' = [claims EXCEPT ![t] = IF @ > 0 THEN @ - 1 ELSE 0]
    BY <1>3 DEF MutexUnlock
  <2>3. mux.inited
    BY <1>3, UnlockCheckPasses
  <2>4. (m = mux.m /\ mux.m.own # t) \/ m = MutReleased(mux.m)
    BY DEF MutUnlockOutcomes
  <2>5. CASE m = mux.m /\ mux.m.own # t
    BY <1>1, <2>1, <2>2, <2>3, <2>5
  <2>6. CASE m = MutReleased(mux.m)
    BY <1>1, <2>1, <2>2, <2>3, <2>6, KernelAssumption DEF MutReleased, MutFree
  <2> QED BY <2>4, <2>5, <2>6
<1> QED BY <1>2, <1>3

LEMMA NextIInv == IInv /\ [Next]_vars => IInv'
<1> SUFFICES ASSUME IInv, [Next]_vars
             PROVE  IInv'
  OBVIOUS
<1>1. CASE MutexattrInit
  BY <1>1 DEF MutexattrInit, IInv, TypeOK, DepthOK, UninitUnused,
              NoOrphanLock, NoSelfDeadlock, MutexTypes
<1>2. ASSUME NEW t \in Threads, NEW type \in MutexTypes \cup {"bad"},
             MutexattrSettype(t, type)
      PROVE  IInv'
  BY <1>2 DEF MutexattrSettype, IInv, TypeOK, DepthOK, UninitUnused,
              NoOrphanLock, NoSelfDeadlock, Codes
<1>3. ASSUME NEW t \in Threads, NEW withAttr \in BOOLEAN, MutexInit(t, withAttr)
      PROVE  IInv'
  BY <1>3, KernelAssumption
  DEF MutexInit, MutexInited, MutFree, IInv, TypeOK, DepthOK, UninitUnused,
      NoOrphanLock, NoSelfDeadlock, Codes, MutexTypes, Idle
<1>4. ASSUME NEW t \in Threads, MutexLock(t) \/ MutexTimedlock(t) \/ MutexTrylock(t)
      PROVE  IInv'
  BY <1>4, EnterIInv
  DEF MutexLock, MutexTimedlock, MutexTrylock, LockOps, Deadlines
<1>5. ASSUME NEW t \in Threads, TimedlockMutLock(t)
      PROVE  IInv'
  BY <1>5, MutLockIInv
<1>6. ASSUME NEW t \in Threads, MutexUnlock(t)
      PROVE  IInv'
  BY <1>6, UnlockIInv
<1>7. CASE UNCHANGED vars
  BY <1>7 DEF vars, IInv, TypeOK, DepthOK, UninitUnused, NoOrphanLock,
              NoSelfDeadlock
<1> QED BY <1>1, <1>2, <1>3, <1>4, <1>5, <1>6, <1>7 DEF Next

(* The inductive invariant holds in every reachable state. *)
THEOREM Invariance == Spec => []IInv
  BY InitIInv, NextIInv, PTL DEF Spec

(* Every variable keeps its type. *)
THEOREM TypeCorrect == Spec => []TypeOK
<1>1. IInv => TypeOK
  BY DEF IInv
<1> QED BY <1>1, Invariance, PTL

(* A thread never holds the mutex on a path that told it otherwise.         *)
THEOREM NoOrphans == Spec => []NoOrphanLock
<1>1. IInv => NoOrphanLock
  BY DEF IInv
<1> QED BY <1>1, Invariance, PTL

(* An ERRORCHECK mutex never blocks its own owner.                          *)
THEOREM NoSelfDeadlocks == Spec => []NoSelfDeadlock
<1>1. IInv => NoSelfDeadlock
  BY DEF IInv
<1> QED BY <1>1, Invariance, PTL

-----------------------------------------------------------------------------
(* A step that takes an owned mutex of a type that remembers its owner out  *)
(* of the owner's hands is an unlock by the owner.                          *)
LEMMA ReleaseStep ==
  ASSUME IInv, [Next]_vars, NEW t \in Threads,
         mux.type # "NORMAL", mux.m.own = t, mux'.m.own # t
  PROVE  claims'[t] < claims[t]
<1>1. mux.inited
  BY KernelAssumption DEF IInv, UninitUnused, MutFree
<1>2. PICK u \in Threads : TimedlockMutLock(u) \/ MutexUnlock(u)
  BY <1>1 DEF Next, vars, MutexattrInit, MutexattrSettype, MutexInit, MutexLock,
              MutexTimedlock, MutexTrylock, TimedlockEnter
<1>3. CASE TimedlockMutLock(u)
  <2>1. PICK m \in MutLockOutcomes(mux.m, u, call[u].sleep) :
          mux' = [mux EXCEPT !.m = m]
    BY <1>3 DEF TimedlockMutLock
  <2>2. m = mux.m \/ (MutAvailable(mux.m, u) /\ m = MutTaken(mux.m, u))
    BY MutLockCases
  <2>3. m.own = t
    BY <2>2, KernelAssumption DEF MutAvailable, MutTaken
  <2> QED BY <2>1, <2>3 DEF IInv, TypeOK
<1>4. CASE MutexUnlock(u)
  <2>1. UnlockCheck(mux, u) = "0"
    BY <1>4 DEF MutexUnlock
  <2>2. u = t
    BY <2>1, UnlockCheckPasses DEF IInv, TypeOK
  <2>3. claims' = [claims EXCEPT ![t] = IF @ > 0 THEN @ - 1 ELSE 0]
    BY <1>4, <2>1, <2>2 DEF MutexUnlock
  <2>4. claims[t] \in Nat /\ claims[t] > 0
    BY KernelAssumption DEF IInv, TypeOK, DepthOK, NoOrphanLock
  <2> QED BY <2>3, <2>4 DEF IInv, TypeOK
<1> QED BY <1>2, <1>3, <1>4

(* A mutex of a type that remembers its owner passes out of a thread's      *)
(* hands only by an unlock of that thread.                                  *)
THEOREM OwnersRelease == Spec => OnlyOwnerReleases
<1>1. IInv /\ [Next]_vars =>
        [\A t \in Threads :
           (mux.type # "NORMAL" /\ mux.m.own = t /\ mux'.m.own # t) =>
             claims'[t] < claims[t]]_vars
  BY ReleaseStep
<1> QED BY <1>1, Invariance, PTL DEF Spec, OnlyOwnerReleases

-----------------------------------------------------------------------------
(* Message queues *)

(* Requests that were possible when they were made *)
Asked ==
  [op : ByName, arg : Names, creat : BOOLEAN, valid : BOOLEAN]
    \cup [op : {"close", "getattr"} \cup Transfers, arg : Blocks,
          creat : BOOLEAN, valid : BOOLEAN]

Calls == {NoCall, Lost} \cup [pc : {"init", "lock", "locked"}, req : Asked]

(* Nothing is ever linked into the list. *)
QueueTypes ==
  /\ QueueTypeOK
  /\ allq = {}
  /\ mq_call \in [Threads -> Calls]

(* allq_mux counts its owner's locks. *)
QueueDepthOK == allq_mux.own = NoTask <=> allq_mux.depth = 0

(* Before the first initialization nobody has a descriptor or the mutex.    *)
QueueUnused ==
  ~inited =>
    /\ allq_mux = MutFree
    /\ kept = {}
    /\ ~raced
    /\ \A b \in Blocks : queue[b] = NoQueue
    /\ \A t \in Threads : mq_call[t].pc \in {"idle", "init"}

(* As long as there was one initialization, an owner that never kept the    *)
(* mutex has locked it once, and one that did and is inside again has       *)
(* locked it at least twice: its unlock does not release the mutex.         *)
Balance ==
  ~raced =>
    \A t \in Threads : allq_mux.own = t =>
      /\ t \notin kept => allq_mux.depth = 1
      /\ t \in kept /\ At(t, "locked") => allq_mux.depth > 1

(* The inductive invariant *)
QueueInv == QueueTypes /\ QueueDepthOK /\ QueueUnused /\ Balance /\ MuxAccounted

LEMMA QueueInitInv == QueueInit => QueueInv
<1> SUFFICES ASSUME QueueInit PROVE QueueInv
  OBVIOUS
<1>1. /\ allq_mux.own = NoTask /\ allq_mux.depth = 0
      /\ allq_mux \in [own : Threads \cup {NoTask}, depth : IF RelockNests THEN Nat ELSE {0, 1}]
  BY KernelAssumption DEF QueueInit, MutFree
<1>2. mq_call \in [Threads -> Calls] /\ \A t \in Threads : mq_call[t].pc = "idle"
  BY DEF QueueInit, Calls, NoCall
<1>3. QueueTypes
  BY <1>1, <1>2 DEF QueueInit, QueueTypes, QueueTypeOK
<1>4. QueueUnused
  BY <1>2, KernelAssumption DEF QueueInit, QueueUnused
<1>5. QueueDepthOK /\ Balance /\ MuxAccounted
  BY <1>1, <1>2, KernelAssumption
  DEF QueueInit, QueueDepthOK, Balance, MuxAccounted, At
<1> QED BY <1>3, <1>4, <1>5 DEF QueueInv

LEMMA QueueEnterInv ==
  ASSUME QueueInv, NEW t \in Threads, Enter(t)
  PROVE  QueueInv'
<1> USE DEF QueueInv
<1>1. PICK r \in Requests : mq_call' = [mq_call EXCEPT ![t] =
         [pc |-> IF r.op \in Transfers \/ inited THEN "lock" ELSE "init", req |-> r]]
  BY DEF Enter
<1>2. /\ r \in Asked
      /\ r.op \in Transfers => \E b \in Blocks : queue[b] # NoQueue
  BY DEF Requests, NameRequests, Asked, ByName, Transfers
<1>3. mq_call' \in [Threads -> Calls]
  BY <1>1, <1>2 DEF Calls, QueueTypes
<1>4. \A u \in Threads : u # t => mq_call'[u] = mq_call[u]
  BY <1>1 DEF QueueTypes
<1>5. /\ mq_call[t].pc = "idle" /\ mq_call'[t].pc \in {"lock", "init"}
      /\ ~inited => mq_call'[t].pc = "init"
  BY <1>1, <1>2 DEF QueueTypes, Enter, At, QueueUnused
<1> QED
  BY <1>3, <1>4, <1>5
  DEF Enter, QueueTypes, QueueTypeOK, QueueDepthOK, QueueUnused, Balance,
      MuxAccounted, At

(* A step inside a call moves its own thread only. *)
LEMMA CallStep ==
  ASSUME QueueTypes, NEW t \in Threads, ~At(t, "idle"), ~At(t, "lost"),
         NEW pc \in {"lock", "locked"}
  PROVE  /\ Goto(t, pc) => /\ mq_call' \in [Threads -> Calls]
                           /\ mq_call'[t].pc = pc
                           /\ \A u \in Threads : u # t => mq_call'[u] = mq_call[u]
         /\ Return(t) => /\ mq_call' \in [Threads -> Calls]
                         /\ mq_call'[t].pc = "idle"
                         /\ \A u \in Threads : u # t => mq_call'[u] = mq_call[u]
  BY DEF QueueTypes, Goto, Return, At, Calls, NoCall, Lost

LEMMA QueueCheckInitInv ==
  ASSUME QueueInv, NEW t \in Threads, CheckInit(t)
  PROVE  QueueInv'
<1>1. PICK queued \in SUBSET Waiters :
        mq_call' = [x \in Threads |->
          CASE x = t -> [mq_call[t] EXCEPT !.pc = "lock"]
            [] x \in queued -> Lost
            [] OTHER -> mq_call[x]]
  BY DEF CheckInit
<1>2. [mq_call[t] EXCEPT !.pc = "lock"] \in Calls
  BY DEF QueueInv, QueueTypes, Calls, CheckInit, At, NoCall, Lost
<1>3. mq_call' \in [Threads -> Calls]
  BY <1>1, <1>2 DEF QueueInv, QueueTypes, Calls
<1>4. \A x \in Threads : mq_call'[x].pc \in {"lock", "lost", mq_call[x].pc}
  BY <1>1 DEF QueueInv, QueueTypes, Calls, CheckInit, At, NoCall, Lost
<1>5. QueueTypes'
  BY <1>3, <1>4, KernelAssumption DEF QueueInv, CheckInit, QueueTypes, QueueTypeOK, MutFree
<1> QED
  BY <1>4, <1>5, KernelAssumption
  DEF QueueInv, CheckInit, QueueDepthOK, QueueUnused, Balance, MuxAccounted, At, MutFree

LEMMA QueueRefuseInv ==
  ASSUME QueueInv, NEW t \in Threads, Refuse(t)
  PROVE  QueueInv'
<1>1. ~At(t, "idle") /\ ~At(t, "lost") /\ Return(t)
  BY DEF Refuse, At
<1>2. /\ mq_call' \in [Threads -> Calls] /\ mq_call'[t].pc = "idle"
      /\ \A u \in Threads : u # t => mq_call'[u] = mq_call[u]
  BY <1>1, CallStep DEF QueueInv
<1> QED
  BY <1>2
  DEF QueueInv, Refuse, QueueTypes, QueueTypeOK, QueueDepthOK, QueueUnused,
      Balance, MuxAccounted, At

LEMMA QueueLockInv ==
  ASSUME QueueInv, NEW t \in Threads, Lock(t)
  PROVE  QueueInv'
<1>1. ~At(t, "idle") /\ ~At(t, "lost") /\ Goto(t, "locked")
  BY DEF Lock, At
<1>2. /\ mq_call' \in [Threads -> Calls] /\ mq_call'[t].pc = "locked"
      /\ \A u \in Threads : u # t => mq_call'[u] = mq_call[u]
  BY <1>1, CallStep DEF QueueInv
<1>3. MutAvailable(allq_mux, t) /\ allq_mux' = [own |-> t, depth |-> allq_mux.depth + 1]
  BY DEF Lock, MutLockOutcomes, MutTaken
<1> QED
  BY <1>2, <1>3, KernelAssumption
  DEF QueueInv, Lock, QueueTypes, QueueTypeOK, QueueDepthOK, QueueUnused,
      Balance, MuxAccounted, At, MutAvailable

(* The unlock that ends every section but that of OpenNoMemory *)
LEMMA QueueUnlockInv ==
  ASSUME QueueInv, NEW t \in Threads, At(t, "locked"), Return(t),
         allq_mux' \in MutUnlockOutcomes(allq_mux, t), allq' = {},
         queue' \in [Blocks -> Names \cup {NoQueue, HalfBuilt}],
         UNCHANGED <<inited, kept, raced>>
  PROVE  QueueInv'
<1>1. ~At(t, "idle") /\ ~At(t, "lost") /\ Return(t)
  BY DEF At
<1>2. /\ mq_call' \in [Threads -> Calls] /\ mq_call'[t].pc = "idle"
      /\ \A u \in Threads : u # t => mq_call'[u] = mq_call[u]
  BY <1>1, CallStep DEF QueueInv
<1>3. allq_mux' \in {allq_mux, MutReleased(allq_mux)}
      /\ (allq_mux.own = t => allq_mux' = MutReleased(allq_mux))
  BY DEF MutUnlockOutcomes
<1>4. allq_mux' \in [own : Threads \cup {NoTask}, depth : IF RelockNests THEN Nat ELSE {0, 1}]
      /\ QueueDepthOK'
  BY <1>3, KernelAssumption
  DEF QueueInv, QueueTypes, QueueTypeOK, QueueDepthOK, MutReleased, MutFree
<1>5. inited
  BY DEF QueueInv, QueueUnused, At
<1>6. Balance' /\ MuxAccounted'
  BY <1>2, <1>3, KernelAssumption
  DEF QueueInv, QueueTypes, QueueTypeOK, QueueDepthOK, Balance, MuxAccounted,
      At, MutReleased, MutFree
<1> QED
  BY <1>2, <1>4, <1>5, <1>6 DEF QueueInv, QueueTypes, QueueTypeOK, QueueUnused, At

LEMMA QueueNoMemoryInv ==
  ASSUME QueueInv, NEW t \in Threads, OpenNoMemory(t)
  PROVE  QueueInv'
<1>1. ~At(t, "idle") /\ ~At(t, "lost") /\ Return(t) /\ At(t, "locked")
  BY DEF OpenNoMemory, NotFound, At
<1>2. /\ mq_call' \in [Threads -> Calls] /\ mq_call'[t].pc = "idle"
      /\ \A u \in Threads : u # t => mq_call'[u] = mq_call[u]
  BY <1>1, CallStep DEF QueueInv
<1>3. queue' \in [Blocks -> Names \cup {NoQueue, HalfBuilt}]
  BY DEF QueueInv, QueueTypes, QueueTypeOK, OpenNoMemory
<1>4. inited
  BY <1>1 DEF QueueInv, QueueUnused, At
<1> QED
  BY <1>1, <1>2, <1>3, <1>4
  DEF QueueInv, OpenNoMemory, QueueTypes, QueueTypeOK, QueueDepthOK,
      QueueUnused, Balance, MuxAccounted, At

LEMMA QueueNextInv == QueueInv /\ [QueueNext]_queueVars => QueueInv'
<1> SUFFICES ASSUME QueueInv, [QueueNext]_queueVars PROVE QueueInv'
  OBVIOUS
<1>1. CASE UNCHANGED queueVars
  BY <1>1
  DEF queueVars, QueueInv, QueueTypes, QueueTypeOK, QueueDepthOK, QueueUnused,
      Balance, MuxAccounted, At
<1>2. ASSUME NEW t \in Threads, Section(t) PROVE QueueInv'
  <2>1. ASSUME NEW op, NotFound(t, op), UnlockReturn(t) PROVE QueueInv'
    BY <2>1, QueueUnlockInv
    DEF NotFound, UnlockReturn, QueueInv, QueueTypes, QueueTypeOK
  <2>2. ASSUME NEW b \in Blocks, OpenCreates(t, b) PROVE QueueInv'
    <3>1. mq_call[t].req.arg \in Names
      BY <2>2
      DEF OpenCreates, NotFound, At, QueueInv, QueueTypes, Calls,
          Asked, NoCall, Lost, ByName, Transfers
    <3>2. queue' \in [Blocks -> Names \cup {NoQueue, HalfBuilt}]
      BY <2>2, <3>1 DEF OpenCreates, QueueInv, QueueTypes, QueueTypeOK
    <3> QED
      BY <2>2, <3>2, QueueUnlockInv
      DEF OpenCreates, NotFound, QueueInv, QueueTypes, QueueTypeOK
  <2> QED
    BY <1>2, <2>1, <2>2, QueueNoMemoryInv
    DEF Section, MqClose, MqGetattr, MqTimedreceive, MqTimedsend,
        MqUnlink, OpenAbsent
<1> QED
  BY <1>1, <1>2, QueueEnterInv, QueueCheckInitInv, QueueRefuseInv, QueueLockInv
  DEF QueueNext

(* QueueInv holds in every state of the message queues. *)
THEOREM QueueInvariance == QueueSpec => []QueueInv
  BY QueueInitInv, QueueNextInv, PTL DEF QueueSpec

(* Every variable of the message queues keeps its type.                     *)
THEOREM QueueTypeCorrect == QueueSpec => []QueueTypeOK
  BY QueueInvariance, PTL DEF QueueInv, QueueTypes

(* Every path of every call gives allq_mux back, except that of an mq_open  *)
(* without memory, unless two first callers both initialize the mutex.      *)
THEOREM QueueMutexAccounted == QueueSpec => []MuxAccounted
  BY QueueInvariance, PTL DEF QueueInv

=============================================================================
