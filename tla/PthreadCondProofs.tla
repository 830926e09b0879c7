-------------------------- MODULE PthreadCondProofs -------------------------
(***************************************************************************)
(* Proofs about PthreadCond, for any finite set of threads, any number of  *)
(* tokens and either behaviour of the kernel on a relock.                  *)
(***************************************************************************)
EXTENDS PthreadCond, FiniteSetTheorems, TLAPS

(* cond->mux excludes: its owner is the one thread inside a section of two  *)
(* steps.                                                                   *)
MuxExcludes == \A t \in Threads : pc[t] \in {"sigdec", "bzero"} <=> cond.own = t

(* Before pthread_cond_init nobody is inside a call on the condition        *)
(* variable.                                                                *)
UninitUnused == ~cond.inited => \A t \in Threads : pc[t] \in {"idle", "lock"}

(* Every registered thread is paid for: by a unit of the semaphore, or by   *)
(* its place in waiting, which the next signal or broadcast turns into a    *)
(* unit.  Inside a signal one unit is paid for twice; inside a broadcast    *)
(* the semaphore alone must do.                                             *)
Accounted ==
  /\ cond.own = NoTask => Cardinality(Registered) <= cond.val + cond.waiting
  /\ \A t \in Threads :
       /\ pc[t] = "sigdec" =>
            cond.waiting > 0 /\ Cardinality(Registered) <= cond.val + cond.waiting - 1
       /\ pc[t] = "bzero" => Cardinality(Registered) <= cond.val

(* The inductive invariant *)
IInv ==
  /\ TypeOK
  /\ MuxExcludes
  /\ UninitUnused
  /\ Accounted

-----------------------------------------------------------------------------
CondType ==
  [inited : BOOLEAN, own : Threads \cup {NoTask}, val : Nat, waiting : Int]

MuxType ==
  [inited : BOOLEAN, type : MutexTypes, m : [own : Threads \cup {NoTask}, depth : Nat]]

LEMMA CondUpdateType ==
  ASSUME NEW c \in CondType, NEW o \in Threads \cup {NoTask}, NEW v \in Nat, NEW w \in Int
  PROVE  /\ [c EXCEPT !.own = o, !.val = v] \in CondType
         /\ [c EXCEPT !.own = o, !.waiting = w] \in CondType
  BY DEF CondType

(* Neither mut_lock nor mut_unlock takes the mutex out of its type. *)
LEMMA MutOutcomesType ==
  ASSUME mux \in MuxType, NEW t \in Threads, NEW s,
         NEW m \in MutLockOutcomes(mux.m, t, s) \cup MutUnlockOutcomes(mux.m, t)
  PROVE  [mux EXCEPT !.m = m] \in MuxType
<1>1. mux.m \in [own : Threads \cup {NoTask}, depth : Nat]
  BY DEF MuxType
<1>2. MutTaken(mux.m, t) \in [own : Threads \cup {NoTask}, depth : Nat]
  BY <1>1 DEF MutTaken
<1>3. MutReleased(mux.m) \in [own : Threads \cup {NoTask}, depth : Nat]
  BY <1>1 DEF MutReleased, MutFree
<1>4. m \in {mux.m, MutTaken(mux.m, t), MutReleased(mux.m)}
  BY DEF MutLockOutcomes, MutUnlockOutcomes
<1> QED BY <1>1, <1>2, <1>3, <1>4 DEF MuxType

LEMMA RegisteredNat == IsFiniteSet(Registered) /\ Cardinality(Registered) \in Nat
<1>1. Registered \subseteq Threads
  BY DEF Registered
<1> QED BY <1>1, CondAssumption, FS_Subset, FS_CardinalityType

(* What a thread at a label adds to the number of registered threads *)
Weight(label) == IF label \in {"unlock", "sem", "trelock", "dec"} THEN 1 ELSE 0

(* The number of registered threads when t goes from one label to another *)
LEMMA RegisteredMoves ==
  ASSUME pc \in [Threads -> Labels], NEW t \in Threads, NEW to \in Labels,
         pc' = [pc EXCEPT ![t] = to]
  PROVE  /\ Cardinality(Registered)' \in Nat
         /\ Cardinality(Registered)' = Cardinality(Registered) + Weight(to) - Weight(pc[t])
<1>1. Weight(to) = 1 => Registered' = Registered \cup {t}
  BY DEF Registered, Weight
<1>2. Weight(to) = 0 => Registered' = Registered \ {t}
  BY DEF Registered, Weight
<1>3. Weight(pc[t]) = 0 => t \notin Registered
  BY DEF Registered, Weight
<1>4. Weight(pc[t]) = 1 => t \in Registered
  BY DEF Registered, Weight
<1>5. t \notin Registered =>
        Cardinality(Registered \cup {t}) = Cardinality(Registered) + 1
  BY RegisteredNat, FS_AddElement
<1>6. t \in Registered => Cardinality(Registered \ {t}) = Cardinality(Registered) - 1
  BY RegisteredNat, FS_RemoveElement
<1>7. Cardinality(Registered)' \in Nat
  <2>1. Registered' \subseteq Threads
    BY DEF Registered
  <2> QED BY <2>1, CondAssumption, FS_Subset, FS_CardinalityType
<1>8. Weight(to) \in {0, 1} /\ Weight(pc[t]) \in {0, 1}
  BY DEF Weight
<1>9. CASE Weight(to) = 1 /\ Weight(pc[t]) = 0
  BY <1>1, <1>3, <1>5, <1>7, <1>9, RegisteredNat
<1>10. CASE Weight(to) = 0 /\ Weight(pc[t]) = 1
  <2>1. Cardinality(Registered)' = Cardinality(Registered) - 1
    BY <1>2, <1>4, <1>6, <1>10
  <2> QED BY <1>7, <1>10, <2>1, RegisteredNat
<1>11. CASE Weight(to) = Weight(pc[t])
  <2>1. Registered' = Registered
    BY <1>1, <1>2, <1>3, <1>4, <1>8, <1>11
  <2> QED BY <1>8, <1>11, <2>1, RegisteredNat
<1> QED BY <1>8, <1>9, <1>10, <1>11

LEMMA InitIInv == Init => IInv
<1> SUFFICES ASSUME Init PROVE IInv
  OBVIOUS
<1> USE DEF Init
<1>1. PICK type \in MutexTypes : mux = MutexInited(type)
  OBVIOUS
<1>2. mux \in MuxType
  BY <1>1 DEF MuxType, MutexInited, MutFree
<1>3. TypeOK
  BY <1>2 DEF TypeOK, MuxType, Labels, Sleeps
<1>4. Registered = {}
  BY DEF Registered
<1> QED
  BY <1>3, <1>4, FS_EmptySet, KernelAssumption DEF IInv, MuxExcludes, UninitUnused, Accounted

-----------------------------------------------------------------------------
(* A step that leaves the condition variable alone, does not enter or leave *)
(* a section of its mux and registers nobody                                *)
LEMMA QuietIInv ==
  ASSUME IInv, TypeOK', NEW t \in Threads, NEW to \in Labels,
         pc' = [pc EXCEPT ![t] = to],
         cond' = cond,
         pc[t] \notin {"sigdec", "bzero"}, to \notin {"sigdec", "bzero"},
         Weight(to) <= Weight(pc[t]),
         ~cond.inited => to \in {"idle", "lock"}
  PROVE  IInv'
<1>1. Cardinality(Registered)' \in Nat /\ Cardinality(Registered)' <= Cardinality(Registered)
  <2>1. /\ Cardinality(Registered)' \in Nat
        /\ Cardinality(Registered)' = Cardinality(Registered) + Weight(to) - Weight(pc[t])
    BY RegisteredMoves DEF IInv, TypeOK
  <2>2. Weight(to) \in Int /\ Weight(pc[t]) \in Int
    BY DEF Weight
  <2> QED BY <2>1, <2>2, RegisteredNat
<1>2. pc'[t] = to /\ \A x \in Threads \ {t} : pc'[x] = pc[x]
  BY DEF IInv, TypeOK
<1>3. MuxExcludes'
  BY <1>2 DEF IInv, MuxExcludes
<1>4. UninitUnused'
  BY <1>2 DEF IInv, UninitUnused
<1>5. Accounted'
  BY <1>1, <1>2, RegisteredNat DEF IInv, Accounted, TypeOK
<1> QED BY <1>3, <1>4, <1>5 DEF IInv

(* The same for a step of the form Goto, and for a return *)
LEMMA GotoIInv ==
  ASSUME IInv, NEW t \in Threads, NEW from, NEW to \in Labels \ {"sigdec", "bzero"},
         Goto(t, from, to),
         cond' = cond,
         from \notin {"sigdec", "bzero"},
         Weight(to) <= Weight(from),
         cond.inited \/ to \in {"idle", "lock"},
         mux' \in MuxType, slp' \in [Threads -> Sleeps],
         locked' \in [Threads -> BOOLEAN], owed' \in SUBSET Threads
  PROVE  IInv'
<1>1. pc[t] = from /\ pc' = [pc EXCEPT ![t] = to] /\ to \in Labels
  BY DEF Goto
<1>2. TypeOK'
  BY <1>1 DEF IInv, TypeOK, MuxType
<1> QED BY <1>1, <1>2, QuietIInv

LEMMA ReturnIInv ==
  ASSUME IInv, NEW t \in Threads, NEW from, NEW code, Return(t, from, code),
         cond' = cond,
         from \notin {"sigdec", "bzero"},
         mux' \in MuxType,
         locked' \in [Threads -> BOOLEAN], owed' \in SUBSET Threads
  PROVE  IInv'
<1>1. Goto(t, from, "idle") /\ slp' \in [Threads -> Sleeps]
  BY DEF Return, IInv, TypeOK, Sleeps
<1>2. "idle" \in Labels \ {"sigdec", "bzero"} /\ Weight("idle") <= Weight(from)
  BY DEF Labels, Weight
<1> QED BY <1>1, <1>2, GotoIInv

LEMMA SleepChosen ==
  ASSUME IInv, NEW t \in Threads, NEW d,
         \E s \in SleepChoices(d) : slp' = [slp EXCEPT ![t] = s]
  PROVE  slp' \in [Threads -> Sleeps]
  BY DEF IInv, TypeOK, SleepChoices, Sleeps

LEMMA MuxTyped == ASSUME IInv PROVE mux \in MuxType
  BY DEF IInv, TypeOK, MuxType

-----------------------------------------------------------------------------
(* The client's calls of pthread_mutex_lock and pthread_mutex_unlock *)
LEMMA ClientIInv ==
  ASSUME IInv, NEW t \in Threads, ClientLock(t) \/ ClientMutLock(t) \/ ClientUnlock(t)
  PROVE  IInv'
<1>1. CASE ClientLock(t)
  <2>1. slp' \in [Threads -> Sleeps] /\ mux' \in MuxType
    BY <1>1, SleepChosen, MuxTyped DEF ClientLock
  <2>2. Goto(t, "idle", "lock") /\ UNCHANGED <<cond, locked, owed>>
    BY <1>1 DEF ClientLock
  <2>3. "lock" \in Labels \ {"sigdec", "bzero"} /\ Weight("lock") <= Weight("idle")
    BY DEF Labels, Weight
  <2> QED BY <2>1, <2>2, <2>3, GotoIInv DEF IInv, TypeOK
<1>2. CASE ClientMutLock(t)
  <2>1. mux' \in MuxType
    BY <1>2, MuxTyped, MutOutcomesType DEF ClientMutLock
  <2>2. Return(t, "lock", "0") /\ UNCHANGED <<cond, owed>>
    BY <1>2 DEF ClientMutLock
  <2>3. locked' \in [Threads -> BOOLEAN] /\ owed' \in SUBSET Threads
    BY <1>2 DEF ClientMutLock, IInv, TypeOK
  <2> QED BY <2>1, <2>2, <2>3, ReturnIInv
<1>3. CASE ClientUnlock(t)
  <2>1. mux' \in MuxType
    BY <1>3, MuxTyped, MutOutcomesType DEF ClientUnlock
  <2>2. Return(t, "idle", UnlockCheck(mux, t)) /\ UNCHANGED <<cond, owed>>
    BY <1>3 DEF ClientUnlock
  <2>3. locked' \in [Threads -> BOOLEAN] /\ owed' \in SUBSET Threads
    BY <1>3 DEF ClientUnlock, IInv, TypeOK
  <2> QED BY <2>1, <2>2, <2>3, ReturnIInv
<1> QED BY <1>1, <1>2, <1>3

(* pthread_cond_init finds nobody registered. *)
LEMMA CondInitIInv ==
  ASSUME IInv, NEW t \in Threads, CondInit(t)
  PROVE  IInv'
<1>1. /\ cond' = [inited |-> TRUE, own |-> NoTask, val |-> 0, waiting |-> 0]
      /\ ~cond.inited /\ UNCHANGED <<mux, locked, owed>>
  BY DEF CondInit
<1>2. pc' = [pc EXCEPT ![t] = "idle"] /\ slp' \in [Threads -> Sleeps]
  BY DEF CondInit, Return, Goto, IInv, TypeOK, Sleeps
<1>3. \A x \in Threads : pc'[x] \in {"idle", "lock"}
  BY <1>1, <1>2 DEF IInv, UninitUnused, TypeOK
<1>4. Cardinality(Registered)' = 0
  <2>1. Registered' = {}
    BY <1>3 DEF Registered
  <2> QED BY <2>1, FS_EmptySet
<1>5. TypeOK'
  BY <1>1, <1>2 DEF IInv, TypeOK, Labels
<1> QED
  BY <1>1, <1>3, <1>4, <1>5, KernelAssumption DEF IInv, MuxExcludes, UninitUnused, Accounted

LEMMA WaitEnterIInv ==
  ASSUME IInv, NEW t \in Threads, NEW d \in Deadlines, WaitEnter(t, d)
  PROVE  IInv'
<1>1. /\ cond' = cond /\ mux' \in MuxType
      /\ locked' \in [Threads -> BOOLEAN] /\ owed' \in SUBSET Threads
  BY MuxTyped DEF WaitEnter, IInv, TypeOK
<1>2. CASE \E code \in Codes : Return(t, "idle", code)
  BY <1>1, <1>2, ReturnIInv
<1>3. CASE /\ cond.inited /\ Goto(t, "idle", "register")
           /\ slp' = [slp EXCEPT ![t] = IF d = "null" THEN "WAIT" ELSE "ticks"]
  <2>1. slp' \in [Threads -> Sleeps]
    BY <1>3 DEF IInv, TypeOK, Sleeps
  <2>2. "register" \in Labels \ {"sigdec", "bzero"} /\ Weight("register") <= Weight("idle")
    BY DEF Labels, Weight
  <2> QED BY <1>1, <1>3, <2>1, <2>2, GotoIInv
<1> QED BY <1>2, <1>3 DEF WaitEnter, Codes

(* waiting++ pays for the thread that registers. *)
LEMMA WaitRegisterIInv ==
  ASSUME IInv, NEW t \in Threads, WaitRegister(t)
  PROVE  IInv'
<1>1. /\ cond.own = NoTask /\ cond' = [cond EXCEPT !.waiting = @ + 1]
      /\ pc[t] = "register" /\ pc' = [pc EXCEPT ![t] = "unlock"]
      /\ UNCHANGED <<mux, slp, locked, owed>>
  BY DEF WaitRegister, Goto
<1>2. TypeOK'
  BY <1>1 DEF IInv, TypeOK, Labels
<1>3. pc'[t] = "unlock" /\ \A x \in Threads \ {t} : pc'[x] = pc[x]
  BY <1>1 DEF IInv, TypeOK
<1>4. /\ cond'.own = NoTask /\ cond'.val = cond.val /\ cond'.waiting = cond.waiting + 1
      /\ cond'.inited = cond.inited
  BY <1>1 DEF IInv, TypeOK
<1>5. Cardinality(Registered)' = Cardinality(Registered) + 1
  <2>1. Weight("unlock") = 1 /\ Weight(pc[t]) = 0 /\ "unlock" \in Labels
    BY <1>1 DEF Weight, Labels
  <2>2. Cardinality(Registered)' = Cardinality(Registered) + Weight("unlock") - Weight(pc[t])
    BY <1>1, <2>1, RegisteredMoves DEF IInv, TypeOK
  <2> QED BY <2>1, <2>2, RegisteredNat
<1>6. MuxExcludes'
  BY <1>1, <1>3, <1>4 DEF IInv, MuxExcludes
<1>7. UninitUnused'
  BY <1>1, <1>3, <1>4 DEF IInv, UninitUnused
<1>8. Accounted'
  BY <1>1, <1>4, <1>5, <1>6, RegisteredNat, KernelAssumption
  DEF IInv, TypeOK, Accounted, MuxExcludes
<1> QED BY <1>2, <1>6, <1>7, <1>8 DEF IInv

(* A wait that fails to unlock leaves its place in waiting behind: more is  *)
(* paid for than needed.                                                    *)
LEMMA WaitUnlockIInv ==
  ASSUME IInv, NEW t \in Threads, WaitUnlock(t)
  PROVE  IInv'
<1>1. CASE /\ Return(t, "unlock", UnlockCheck(mux, t))
           /\ owed' = owed \ {t}
           /\ UNCHANGED <<mux, cond, locked>>
  <2>1. mux' \in MuxType /\ locked' \in [Threads -> BOOLEAN] /\ owed' \in SUBSET Threads
    BY <1>1, MuxTyped DEF IInv, TypeOK
  <2> QED BY <1>1, <2>1, ReturnIInv
<1>2. CASE /\ Goto(t, "unlock", "sem")
           /\ \E m \in MutUnlockOutcomes(mux.m, t) : mux' = [mux EXCEPT !.m = m]
           /\ locked' = [locked EXCEPT ![t] = FALSE]
           /\ UNCHANGED <<cond, slp, owed>>
  <2>1. mux' \in MuxType
    BY <1>2, MuxTyped, MutOutcomesType
  <2>2. /\ locked' \in [Threads -> BOOLEAN] /\ owed' \in SUBSET Threads
        /\ slp' \in [Threads -> Sleeps]
    BY <1>2 DEF IInv, TypeOK
  <2>3. "sem" \in Labels \ {"sigdec", "bzero"} /\ Weight("sem") <= Weight("unlock")
    BY DEF Labels, Weight
  <2>4. cond.inited
    BY <1>2 DEF Goto, IInv, UninitUnused
  <2> QED BY <1>2, <2>1, <2>2, <2>3, <2>4, GotoIInv
<1> QED BY <1>1, <1>2 DEF WaitUnlock

(* A unit of the semaphore leaves together with the thread that it pays     *)
(* for, even while a signaller or a broadcaster has cond->mux.              *)
LEMMA WaitSemGetIInv ==
  ASSUME IInv, NEW t \in Threads, WaitSemGet(t)
  PROVE  IInv'
<1>1. /\ slp' \in [Threads -> Sleeps] /\ owed' \in SUBSET Threads
      /\ mux' = mux /\ mux' \in MuxType /\ locked' = locked
      /\ locked' \in [Threads -> BOOLEAN]
  BY SleepChosen, MuxTyped DEF WaitSemGet, IInv, TypeOK
<1>2. CASE /\ cond.val > 0
           /\ Goto(t, "sem", "relock")
           /\ cond' = [cond EXCEPT !.val = @ - 1]
  <2>1. pc[t] = "sem" /\ pc' = [pc EXCEPT ![t] = "relock"]
    BY <1>2 DEF Goto
  <2>2. TypeOK'
    BY <1>1, <1>2, <2>1 DEF IInv, TypeOK, Labels
  <2>3. pc'[t] = "relock" /\ \A x \in Threads \ {t} : pc'[x] = pc[x]
    BY <2>1 DEF IInv, TypeOK
  <2>4. /\ cond'.own = cond.own /\ cond'.val = cond.val - 1
        /\ cond'.waiting = cond.waiting /\ cond'.inited = cond.inited
    BY <1>2 DEF IInv, TypeOK
  <2>5. Cardinality(Registered)' = Cardinality(Registered) - 1
    <3>1. Weight("relock") = 0 /\ Weight(pc[t]) = 1 /\ "relock" \in Labels
      BY <2>1 DEF Weight, Labels
    <3>2. Cardinality(Registered)' = Cardinality(Registered) + Weight("relock") - Weight(pc[t])
      BY <2>1, <3>1, RegisteredMoves DEF IInv, TypeOK
    <3> QED BY <3>1, <3>2, RegisteredNat
  <2>6. MuxExcludes'
    BY <2>1, <2>3, <2>4 DEF IInv, MuxExcludes
  <2>7. UninitUnused'
    BY <2>1, <2>3, <2>4 DEF IInv, UninitUnused
  <2>8. Accounted'
    BY <2>3, <2>4, <2>5, RegisteredNat DEF IInv, TypeOK, Accounted
  <2> QED BY <2>2, <2>6, <2>7, <2>8 DEF IInv
<1>3. CASE Goto(t, "sem", "trelock") /\ UNCHANGED cond
  <2>1. "trelock" \in Labels \ {"sigdec", "bzero"} /\ Weight("trelock") <= Weight("sem")
    BY DEF Labels, Weight
  <2>2. cond.inited
    BY <1>3 DEF Goto, IInv, UninitUnused
  <2> QED BY <1>1, <1>3, <2>1, <2>2, GotoIInv
<1> QED BY <1>2, <1>3 DEF WaitSemGet

LEMMA WaitRelockIInv ==
  ASSUME IInv, NEW t \in Threads, WaitRelock(t)
  PROVE  IInv'
<1>1. mux' \in MuxType
  BY MuxTyped, MutOutcomesType DEF WaitRelock
<1>2. PICK code : Return(t, "relock", code)
  BY DEF WaitRelock
<1>3. /\ locked' \in [Threads -> BOOLEAN] /\ owed' \in SUBSET Threads
      /\ cond' = cond
  BY DEF WaitRelock, IInv, TypeOK
<1> QED BY <1>1, <1>2, <1>3, ReturnIInv

LEMMA WaitRelockTimedOutIInv ==
  ASSUME IInv, NEW t \in Threads, WaitRelockTimedOut(t)
  PROVE  IInv'
<1>1. mux' \in MuxType
  BY MuxTyped, MutOutcomesType DEF WaitRelockTimedOut
<1>2. Goto(t, "trelock", "dec")
  BY DEF WaitRelockTimedOut
<1>3. /\ locked' \in [Threads -> BOOLEAN] /\ owed' \in SUBSET Threads
      /\ cond' = cond /\ slp' \in [Threads -> Sleeps]
  BY DEF WaitRelockTimedOut, IInv, TypeOK
<1>4. "dec" \in Labels \ {"sigdec", "bzero"} /\ Weight("dec") <= Weight("trelock")
  BY DEF Labels, Weight
<1>5. cond.inited
  BY <1>2 DEF Goto, IInv, UninitUnused
<1> QED BY <1>1, <1>2, <1>3, <1>4, <1>5, GotoIInv

(* A timeout takes itself off waiting, also when a signal had counted it    *)
(* off: the unit of that signal is still there.                             *)
LEMMA WaitDecrementIInv ==
  ASSUME IInv, NEW t \in Threads, WaitDecrement(t)
  PROVE  IInv'
<1>1. /\ cond.own = NoTask /\ cond' = [cond EXCEPT !.waiting = @ - 1]
      /\ pc[t] = "dec" /\ pc' = [pc EXCEPT ![t] = "idle"]
      /\ slp' \in [Threads -> Sleeps] /\ UNCHANGED <<mux, locked, owed>>
  BY DEF WaitDecrement, Return, Goto, IInv, TypeOK, Sleeps
<1>2. TypeOK'
  BY <1>1 DEF IInv, TypeOK, Labels
<1>3. pc'[t] = "idle" /\ \A x \in Threads \ {t} : pc'[x] = pc[x]
  BY <1>1 DEF IInv, TypeOK
<1>4. /\ cond'.own = NoTask /\ cond'.val = cond.val /\ cond'.waiting = cond.waiting - 1
      /\ cond'.inited = cond.inited
  BY <1>1 DEF IInv, TypeOK
<1>5. Cardinality(Registered)' = Cardinality(Registered) - 1
  <2>1. Weight("idle") = 0 /\ Weight(pc[t]) = 1 /\ "idle" \in Labels
    BY <1>1 DEF Weight, Labels
  <2>2. Cardinality(Registered)' = Cardinality(Registered) + Weight("idle") - Weight(pc[t])
    BY <1>1, <2>1, RegisteredMoves DEF IInv, TypeOK
  <2> QED BY <2>1, <2>2, RegisteredNat
<1>6. MuxExcludes'
  BY <1>1, <1>3, <1>4 DEF IInv, MuxExcludes
<1>7. UninitUnused'
  BY <1>1, <1>3, <1>4 DEF IInv, UninitUnused
<1>8. Accounted'
  BY <1>1, <1>4, <1>5, <1>6, RegisteredNat, KernelAssumption
  DEF IInv, TypeOK, Accounted, MuxExcludes
<1> QED BY <1>2, <1>6, <1>7, <1>8 DEF IInv

-----------------------------------------------------------------------------
LEMMA EnterIInv ==
  ASSUME IInv, NEW t \in Threads, SignalTest(t) \/ BroadcastEnter(t)
  PROVE  IInv'
<1>1. /\ cond' = cond /\ mux' \in MuxType
      /\ locked' \in [Threads -> BOOLEAN] /\ owed' \in SUBSET Threads
  BY MuxTyped DEF SignalTest, BroadcastEnter, IInv, TypeOK
<1>2. CASE \E code \in Codes : Return(t, "idle", code)
  BY <1>1, <1>2, ReturnIInv
<1>3. CASE cond.inited /\ UNCHANGED slp /\ \E to \in {"sig", "bcast"} : Goto(t, "idle", to)
  <2>1. PICK to \in {"sig", "bcast"} : Goto(t, "idle", to)
    BY <1>3
  <2>2. slp' \in [Threads -> Sleeps]
    BY <1>3 DEF IInv, TypeOK
  <2>3. to \in Labels \ {"sigdec", "bzero"} /\ Weight(to) <= Weight("idle")
    BY DEF Labels, Weight
  <2> QED BY <1>1, <1>3, <2>1, <2>2, <2>3, GotoIInv
<1> QED BY <1>2, <1>3 DEF SignalTest, BroadcastEnter, Codes

(* Entering a section: who finds cond->mux free becomes its only owner. *)
LEMMA SectionEntered ==
  ASSUME IInv, NEW t \in Threads, NEW to \in {"sigdec", "bzero"},
         cond.own = NoTask, cond'.own = t, cond'.inited = cond.inited,
         pc[t] \in {"sig", "bcast"}, pc' = [pc EXCEPT ![t] = to]
  PROVE  /\ MuxExcludes' /\ UninitUnused'
         /\ pc'[t] = to /\ \A x \in Threads \ {t} : pc'[x] \notin {"sigdec", "bzero"}
         /\ Cardinality(Registered)' = Cardinality(Registered)
<1>1. pc'[t] = to /\ \A x \in Threads \ {t} : pc'[x] = pc[x]
  BY DEF IInv, TypeOK
<1>2. \A x \in Threads : pc[x] \notin {"sigdec", "bzero"}
  BY KernelAssumption DEF IInv, MuxExcludes
<1>3. MuxExcludes'
  BY <1>1, <1>2 DEF MuxExcludes
<1>4. UninitUnused'
  BY <1>1 DEF IInv, UninitUnused
<1>5. Cardinality(Registered)' = Cardinality(Registered)
  <2>1. Weight(to) = 0 /\ Weight(pc[t]) = 0 /\ to \in Labels
    BY DEF Weight, Labels
  <2>2. Cardinality(Registered)' = Cardinality(Registered) + Weight(to) - Weight(pc[t])
    BY <2>1, RegisteredMoves DEF IInv, TypeOK
  <2> QED BY <2>1, <2>2, RegisteredNat
<1> QED BY <1>1, <1>2, <1>3, <1>4, <1>5

(* Leaving it *)
LEMMA SectionLeft ==
  ASSUME IInv, NEW t \in Threads,
         cond'.own = NoTask, cond'.inited = cond.inited,
         pc[t] \in {"sigdec", "bzero"}, pc' = [pc EXCEPT ![t] = "idle"]
  PROVE  /\ MuxExcludes' /\ UninitUnused'
         /\ \A x \in Threads : pc'[x] \notin {"sigdec", "bzero"}
         /\ Cardinality(Registered)' = Cardinality(Registered)
<1>1. pc'[t] = "idle" /\ \A x \in Threads \ {t} : pc'[x] = pc[x]
  BY DEF IInv, TypeOK
<1>2. \A x \in Threads \ {t} : pc[x] \notin {"sigdec", "bzero"}
  BY DEF IInv, MuxExcludes
<1>3. MuxExcludes'
  BY <1>1, <1>2, KernelAssumption DEF MuxExcludes
<1>4. UninitUnused'
  BY <1>1 DEF IInv, UninitUnused
<1>5. Cardinality(Registered)' = Cardinality(Registered)
  <2>1. Weight("idle") = 0 /\ Weight(pc[t]) = 0 /\ "idle" \in Labels
    BY DEF Weight, Labels
  <2>2. Cardinality(Registered)' = Cardinality(Registered) + Weight("idle") - Weight(pc[t])
    BY <2>1, RegisteredMoves DEF IInv, TypeOK
  <2> QED BY <2>1, <2>2, RegisteredNat
<1> QED BY <1>1, <1>2, <1>3, <1>4, <1>5

LEMMA SignalPostIInv ==
  ASSUME IInv, NEW t \in Threads, SignalPost(t)
  PROVE  IInv'
<1>1. CASE Return(t, "sig", "0") /\ UNCHANGED cond
  <2>1. mux' \in MuxType /\ locked' \in [Threads -> BOOLEAN] /\ owed' \in SUBSET Threads
    BY MuxTyped DEF SignalPost, IInv, TypeOK
  <2> QED BY <1>1, <2>1, ReturnIInv
<1>2. CASE /\ cond.waiting > 0
           /\ Goto(t, "sig", "sigdec")
           /\ cond' = [cond EXCEPT !.own = t, !.val = @ + 1]
           /\ UNCHANGED slp
  <2>1. cond.own = NoTask /\ UNCHANGED <<mux, locked, owed>>
    BY DEF SignalPost
  <2>2. pc[t] = "sig" /\ pc' = [pc EXCEPT ![t] = "sigdec"]
    BY <1>2 DEF Goto
  <2>3. /\ cond'.own = t /\ cond'.val = cond.val + 1 /\ cond'.waiting = cond.waiting
        /\ cond'.inited = cond.inited
    BY <1>2 DEF IInv, TypeOK
  <2>4. TypeOK'
    <3>1. cond \in CondType /\ cond.val + 1 \in Nat /\ 0 \in Int
      BY DEF IInv, TypeOK, CondType
    <3>2. cond' = [cond EXCEPT !.own = t, !.val = cond.val + 1]
      BY <1>2
    <3>3. cond' \in CondType
      BY <3>1, <3>2, CondUpdateType
    <3>4. pc' \in [Threads -> Labels]
      BY <2>2 DEF IInv, TypeOK, Labels
    <3> QED BY <1>2, <2>1, <3>3, <3>4 DEF IInv, TypeOK, CondType
  <2>5. /\ MuxExcludes' /\ UninitUnused'
        /\ pc'[t] = "sigdec" /\ \A x \in Threads \ {t} : pc'[x] \notin {"sigdec", "bzero"}
        /\ Cardinality(Registered)' = Cardinality(Registered)
    BY <2>1, <2>2, <2>3, SectionEntered
  <2>6. Accounted'
    BY <1>2, <2>1, <2>3, <2>5, RegisteredNat, KernelAssumption DEF IInv, TypeOK, Accounted
  <2> QED BY <2>4, <2>5, <2>6 DEF IInv
<1> QED BY <1>1, <1>2 DEF SignalPost

LEMMA SignalDecrementIInv ==
  ASSUME IInv, NEW t \in Threads, SignalDecrement(t)
  PROVE  IInv'
<1>1. /\ pc[t] = "sigdec" /\ pc' = [pc EXCEPT ![t] = "idle"]
      /\ cond' = [cond EXCEPT !.own = NoTask, !.waiting = @ - 1]
      /\ slp' \in [Threads -> Sleeps] /\ UNCHANGED <<mux, locked, owed>>
  BY DEF SignalDecrement, Return, Goto, IInv, TypeOK, Sleeps
<1>2. /\ cond'.own = NoTask /\ cond'.val = cond.val /\ cond'.waiting = cond.waiting - 1
      /\ cond'.inited = cond.inited
  BY <1>1 DEF IInv, TypeOK
<1>3. TypeOK'
  <2>1. cond \in CondType /\ cond.waiting - 1 \in Int /\ 0 \in Int
    BY DEF IInv, TypeOK, CondType
  <2>2. cond' \in CondType
    BY <1>1, <2>1, CondUpdateType
  <2>3. pc' \in [Threads -> Labels]
    BY <1>1 DEF IInv, TypeOK, Labels
  <2> QED BY <1>1, <2>2, <2>3 DEF IInv, TypeOK, CondType
<1>4. /\ MuxExcludes' /\ UninitUnused'
      /\ \A x \in Threads : pc'[x] \notin {"sigdec", "bzero"}
      /\ Cardinality(Registered)' = Cardinality(Registered)
  BY <1>1, <1>2, SectionLeft
<1>5. Accounted'
  BY <1>1, <1>2, <1>4, RegisteredNat DEF IInv, TypeOK, Accounted
<1> QED BY <1>3, <1>4, <1>5 DEF IInv

(* sem_post_n turns all of waiting into units.  When waiting is negative    *)
(* the semaphore holds more than enough, also if it loses the difference.   *)
LEMMA BroadcastPostIInv ==
  ASSUME IInv, NEW t \in Threads, BroadcastPost(t)
  PROVE  IInv'
<1>1. /\ cond.own = NoTask /\ pc[t] = "bcast" /\ pc' = [pc EXCEPT ![t] = "bzero"]
      /\ owed' \in SUBSET Threads /\ UNCHANGED <<mux, slp, locked>>
  BY DEF BroadcastPost, Goto
<1>2. PICK v \in SemPostN(cond.val, cond.waiting) :
        cond' = [cond EXCEPT !.own = t, !.val = v]
  BY DEF BroadcastPost
<1>3. v \in Nat /\ Cardinality(Registered) <= v
  BY <1>1, RegisteredNat DEF IInv, TypeOK, Accounted, SemPostN
<1>4. cond'.own = t /\ cond'.val = v /\ cond'.inited = cond.inited
  BY <1>2 DEF IInv, TypeOK
<1>5. TypeOK'
  BY <1>1, <1>2, <1>3 DEF IInv, TypeOK, Labels
<1>6. /\ MuxExcludes' /\ UninitUnused'
      /\ pc'[t] = "bzero" /\ \A x \in Threads \ {t} : pc'[x] \notin {"sigdec", "bzero"}
      /\ Cardinality(Registered)' = Cardinality(Registered)
  BY <1>1, <1>4, SectionEntered
<1>7. Accounted'
  BY <1>3, <1>4, <1>6, KernelAssumption DEF Accounted
<1> QED BY <1>5, <1>6, <1>7 DEF IInv

LEMMA BroadcastZeroIInv ==
  ASSUME IInv, NEW t \in Threads, BroadcastZero(t)
  PROVE  IInv'
<1>1. /\ pc[t] = "bzero" /\ pc' = [pc EXCEPT ![t] = "idle"]
      /\ cond' = [cond EXCEPT !.own = NoTask, !.waiting = 0]
      /\ slp' \in [Threads -> Sleeps] /\ UNCHANGED <<mux, locked, owed>>
  BY DEF BroadcastZero, Return, Goto, IInv, TypeOK, Sleeps
<1>2. /\ cond'.own = NoTask /\ cond'.val = cond.val /\ cond'.waiting = 0
      /\ cond'.inited = cond.inited
  BY <1>1 DEF IInv, TypeOK
<1>3. TypeOK'
  <2>1. cond \in CondType /\ cond.waiting - 1 \in Int /\ 0 \in Int
    BY DEF IInv, TypeOK, CondType
  <2>2. cond' \in CondType
    BY <1>1, <2>1, CondUpdateType
  <2>3. pc' \in [Threads -> Labels]
    BY <1>1 DEF IInv, TypeOK, Labels
  <2> QED BY <1>1, <2>2, <2>3 DEF IInv, TypeOK, CondType
<1>4. /\ MuxExcludes' /\ UninitUnused'
      /\ \A x \in Threads : pc'[x] \notin {"sigdec", "bzero"}
      /\ Cardinality(Registered)' = Cardinality(Registered)
  BY <1>1, <1>2, SectionLeft
<1>5. Accounted'
  BY <1>1, <1>2, <1>4, RegisteredNat DEF IInv, TypeOK, Accounted
<1> QED BY <1>3, <1>4, <1>5 DEF IInv

-----------------------------------------------------------------------------
LEMMA NextIInv == ASSUME IInv, [Next]_vars PROVE IInv'
<1>1. CASE UNCHANGED vars
  BY <1>1
  DEF vars, IInv, TypeOK, MuxExcludes, UninitUnused, Accounted, Registered
<1>2. ASSUME NEW t \in Threads, Begin(t)
      PROVE  IInv'
  BY <1>2, CondInitIInv, ClientIInv, WaitEnterIInv, EnterIInv DEF Begin
<1>3. ASSUME NEW t \in Threads, Continue(t)
      PROVE  IInv'
  BY <1>3, ClientIInv, WaitRegisterIInv, WaitUnlockIInv, WaitSemGetIInv, WaitRelockIInv,
     WaitRelockTimedOutIInv, WaitDecrementIInv, SignalPostIInv, SignalDecrementIInv,
     BroadcastPostIInv, BroadcastZeroIInv
  DEF Continue
<1> QED BY <1>1, <1>2, <1>3 DEF Next

THEOREM Invariance == Spec => []IInv
  BY InitIInv, NextIInv, PTL DEF Spec

(* The semaphore of a pthread_cond_t never gets a negative value, whatever  *)
(* sem_post_n does with the negative count pthread_cond_broadcast can hand  *)
(* to it.                                                                   *)
THEOREM TypeCorrect == Spec => []TypeOK
<1>1. IInv => TypeOK
  BY DEF IInv
<1> QED BY <1>1, Invariance, PTL

(* No wake-up is lost: when pthread_cond_signal would find nobody waiting,  *)
(* the semaphore holds a unit for every registered thread.                  *)
THEOREM NoWakeupLost == Spec => []NoLostWakeup
<1>1. ASSUME IInv PROVE NoLostWakeup
  <2>1. CASE cond.own = NoTask
    BY <1>1, <2>1, RegisteredNat DEF IInv, TypeOK, Accounted, NoLostWakeup
  <2>2. CASE cond.own # NoTask
    BY <1>1, <2>2, RegisteredNat DEF IInv, TypeOK, MuxExcludes, Accounted, NoLostWakeup
  <2> QED BY <2>1, <2>2
<1> QED BY <1>1, Invariance, PTL

=============================================================================
