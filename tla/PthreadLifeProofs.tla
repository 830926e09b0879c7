-------------------------- MODULE PthreadLifeProofs -------------------------
(***************************************************************************)
(* Proofs about PthreadLife, for any set of threads and either behaviour   *)
(* of the kernel on a relock.                                              *)
(***************************************************************************)
EXTENDS PthreadLife, TLAPS

MutType == [own : Actors \cup {NoTask}, depth : Nat]

ObjType ==
  [mem : BOOLEAN, stack : BOOLEAN, joinable : BOOLEAN, mux : MutType,
   barrier : Nat, joined : Nat, val : {"unset", "value"}]

Tasks == {"none", "run", "post", "xpost", "get", "xget", "stack", "xstack", "obj", "xobj",
          "leave", "ended"}

CallType ==
  [pc : {"idle", "stale", "newstack", "newtask", "lock", "barrier", "joined", "unlock",
         "retval", "stack", "obj"},
   target : Threads \cup {NoTask}]

ResType == [code : {"none", "0", "EDEADLK"}, val : {"unset", "value"}]

Errors == {"useAfterFree", "doubleFree", "nullWrite", "runsFreed", "overwritten"}

(* TypeOK with its sets named *)
Types ==
  /\ obj \in [Threads -> ObjType]
  /\ task \in [Threads -> Tasks]
  /\ call \in [Actors -> CallType]
  /\ res \in [Actors -> ResType]
  /\ ids \subseteq Threads
  /\ careful \in BOOLEAN
  /\ bad \subseteq Errors

New == {"newstack", "newtask"}

Inside == {"barrier", "joined", "unlock"}

Dying == {"stack", "xstack", "obj", "xobj"}

Exiting == {"post", "xpost", "get", "xget"}

(* Creator a still has block t to itself. *)
Creates(a, t) == call[a].target = t /\ call[a].pc \in New

(* A call has a target, which is allocated, and its caller runs its         *)
(* routine.  A thread under creation is known to its creator alone.         *)
CallShape(a) ==
  /\ call[a].pc \in {"idle", "stale"} <=> call[a].target = NoTask
  /\ call[a].pc # "idle" => a = Main \/ task[a] = "run"
  /\ \A t \in Threads : call[a].target = t =>
       /\ obj[t].mem
       /\ call[a].pc \notin New => obj[t].joinable
       /\ call[a].pc = "obj" => ~obj[t].stack
       /\ call[a].pc \in New =>
            /\ ~Live(t) /\ t \notin ids
            /\ \A x \in Actors : call[x].target = t => x = a
            /\ obj[t].stack <=> call[a].pc = "newtask"

(* Who still has to free a thread: its creator, the application that may    *)
(* join it, or the detached thread itself; and exit_thread has taken the    *)
(* branch for the thread it has.                                            *)
ThreadShape(t) ==
  /\ obj[t].stack => obj[t].mem
  /\ obj[t].joinable => obj[t].mem
  /\ t \in ids => obj[t].joinable
  /\ obj[t].mem =>
       \/ \E a \in Actors : Creates(a, t)
       \/ t \in ids
       \/ ~obj[t].joinable /\ (task[t] = "run" \/ task[t] \in Dying)
  /\ task[t] \in Dying => obj[t].mem /\ ~obj[t].joinable
  /\ task[t] \in {"obj", "xobj"} => ~obj[t].stack
  /\ task[t] \in Exiting /\ obj[t].mem => obj[t].joinable

(* Until the first error that has an effect *)
Shape ==
  Going =>
    /\ \A a \in Actors : CallShape(a)
    /\ \A t \in Threads : ThreadShape(t)

(* In a careful application a thread runs on memory of its own, joined by   *)
(* nobody but itself, and leaves its value and its stack to its joiner.     *)
CarefulThread(t) ==
  /\ task[t] \notin Dying
  /\ Live(t) =>
       /\ obj[t].mem /\ obj[t].stack
       /\ \A a \in Actors : call[a].target = t => a = t
  /\ task[t] \in Exiting \cup {"leave"} => obj[t].val = "value"
  /\ t \in ids /\ ~Live(t) =>
       /\ obj[t].val = "value"
       /\ obj[t].stack \/ \E a \in Actors : call[a].target = t /\ call[a].pc = "obj"

(* A join of another thread is the only one, and the thread has ended. *)
CarefulCall(a) ==
  /\ call[a].pc # "stale"
  /\ \A t \in Threads : call[a].target = t /\ call[a].pc \notin New =>
       IF a = t THEN call[a].pc = "lock"
       ELSE /\ ~Live(t)
            /\ \A x \in Actors : call[x].target = t => x = a
            /\ call[a].pc # "obj" => obj[t].stack
  /\ call[a].pc \in {"stack", "obj"} => res[a].val = "value"
  /\ res[a].code = "0" => res[a].val = "value"

CarefulInv ==
  careful =>
    /\ bad = {}
    /\ \A t \in Threads : CarefulThread(t)
    /\ \A a \in Actors : CarefulCall(a)

(* A caller that joins another thread has locked its mutex once. *)
LockedOnce ==
  \A t \in Threads :
    /\ obj[t].mux.own = NoTask => obj[t].mux.depth = 0
    /\ obj[t].mux.own \notin {NoTask, t} => obj[t].mux.depth = 1

(* The inductive invariant *)
IInv ==
  /\ Types
  /\ NoLeak
  /\ JoinMutexHeld
  /\ LockedOnce
  /\ Shape
  /\ CarefulInv

-----------------------------------------------------------------------------
LEMMA Names == NoTask \notin Actors /\ NoTask \notin Threads /\ Main \notin Threads
  BY LifeAssumption, KernelAssumption DEF Actors

LEMMA UnusedType ==
  /\ Unused \in ObjType /\ Unused.mux = MutFree
  /\ ~Unused.mem /\ ~Unused.stack /\ ~Unused.joinable
  BY DEF Unused, ObjType, MutType, MutFree

LEMMA CreatedType ==
  ASSUME NEW j \in BOOLEAN
  PROVE  /\ Created(j) \in ObjType /\ Created(j).mux = MutFree
         /\ Created(j).mem /\ ~Created(j).stack /\ Created(j).joinable = j
  BY DEF Created, ObjType, MutType, MutFree

LEMMA FreedType ==
  ASSUME Types, NEW t \in Threads
  PROVE  /\ Freed(t) \in ObjType /\ Freed(t).mux = MutFree
         /\ ~Freed(t).mem /\ ~Freed(t).joinable /\ Freed(t).stack = obj[t].stack
<1>1. obj[t].stack \in BOOLEAN
  BY DEF Types, ObjType
<1> QED BY <1>1 DEF Freed, Unused, ObjType, MutType, MutFree

LEMMA InitIInv == Init => IInv
<1> SUFFICES ASSUME Init PROVE IInv
  OBVIOUS
<1> USE DEF Init
<1>1. Types
  BY UnusedType DEF Types, Tasks, CallType, ResType, NoCall, NoResult
<1>2. /\ \A t \in Threads : obj[t] = Unused /\ task[t] = "none" /\ t \notin ids
      /\ \A a \in Actors : call[a] = NoCall /\ res[a] = NoResult
  OBVIOUS
<1>3. \A t \in Threads : ~Live(t) /\ ~obj[t].mem /\ ~obj[t].stack /\ ~obj[t].joinable
  BY <1>2, UnusedType DEF Live
<1>4. NoLeak /\ JoinMutexHeld /\ LockedOnce
  BY <1>2, <1>3, UnusedType, Names DEF NoLeak, JoinMutexHeld, LockedOnce, MutFree
<1>5. Shape
  BY <1>2, <1>3, Names DEF Shape, CallShape, ThreadShape, NoCall, Dying, Exiting
<1>6. CarefulInv
  BY <1>2, <1>3, Names
  DEF CarefulInv, CarefulThread, CarefulCall, NoCall, NoResult, Live, Dying, Exiting
<1> QED BY <1>1, <1>4, <1>5, <1>6 DEF IInv

(* A step that locks no join mutex, and in which a caller only leaves the   *)
(* critical section of one that is freed                                    *)
LEMMA MuxKept ==
  ASSUME IInv,
         \A t \in Threads :
           \/ obj'[t].mux = MutFree
           \/ /\ obj'[t].mux = obj[t].mux
              /\ \A a \in Actors : call[a].target = t /\ call[a].pc \in Inside =>
                   call'[a].target = t /\ call'[a].pc \in Inside
  PROVE  JoinMutexHeld' /\ LockedOnce'
<1>1. MutFree.own = NoTask /\ MutFree.depth = 0
  BY DEF MutFree
<1>2. JoinMutexHeld'
  BY <1>1, Names DEF IInv, JoinMutexHeld, Inside
<1>3. LockedOnce'
  BY <1>1 DEF IInv, LockedOnce
<1> QED BY <1>2, <1>3

(* As long as the model goes on, NoLeak follows from the rest. *)
LEMMA ShapeNoLeak ==
  ASSUME \A a \in Actors : CallShape(a)', \A t \in Threads : ThreadShape(t)'
  PROVE  NoLeak'
  BY DEF ThreadShape, CallShape, NoLeak, Creates, New, Live, Dying

-----------------------------------------------------------------------------
(* pthread_create *)

LEMMA CreateAllocIInv ==
  ASSUME IInv, NEW a \in Actors, NEW t \in Threads, NEW j \in BOOLEAN, CreateAlloc(a, t, j)
  PROVE  IInv'
<1>1. /\ Going /\ ~obj[t].mem /\ call[a] = NoCall /\ (a # Main => task[a] = "run")
      /\ obj' = [obj EXCEPT ![t] = Created(j)]
      /\ call' = [call EXCEPT ![a] = [pc |-> "newstack", target |-> t]]
      /\ bad' = IF Live(t) THEN bad \cup {"overwritten"} ELSE bad
      /\ UNCHANGED <<task, res, ids, careful>>
  BY DEF CreateAlloc, CanCall, Able
<1>2. Types'
  <2>1. [pc |-> "newstack", target |-> t] \in CallType
    BY DEF CallType
  <2> QED BY <1>1, <2>1, CreatedType DEF IInv, Types, Errors
<1>3. /\ \A x \in Threads \ {t} : obj'[x] = obj[x]
      /\ obj'[t] = Created(j)
      /\ \A x \in Actors \ {a} : call'[x] = call[x]
      /\ call'[a].pc = "newstack" /\ call'[a].target = t
      /\ call[a].pc = "idle" /\ call[a].target = NoTask
      /\ \A x \in Threads : Live(x)' <=> Live(x)
  BY <1>1 DEF IInv, Types, NoCall, Live
<1>4. /\ obj'[t].mem /\ ~obj'[t].stack /\ obj'[t].joinable = j /\ obj'[t].mux = MutFree
  BY <1>3, CreatedType
<1>5. JoinMutexHeld' /\ LockedOnce'
  BY <1>3, <1>4, MuxKept DEF Inside
<1>6. NoLeak'
  BY <1>1, <1>3, <1>4 DEF IInv, NoLeak
<1>7. \A x \in Actors : CallShape(x)
  BY <1>1 DEF IInv, Shape
<1>8. \A x \in Threads : ThreadShape(x)
  BY <1>1 DEF IInv, Shape
<1>9. ASSUME Going' PROVE Shape'
  <2>1. ~Live(t) /\ bad' = bad
    BY <1>1, <1>9 DEF Going
  <2>2. t \notin ids /\ \A x \in Actors : call[x].target # t
    BY <1>1, <1>7, <1>8 DEF CallShape, ThreadShape
  <2>3. ASSUME NEW x \in Actors PROVE CallShape(x)'
    <3>1. CASE x = a
      BY <1>1, <1>3, <1>4, <2>1, <2>2, <3>1, Names DEF CallShape, New
    <3>2. CASE x # a
      BY <1>1, <1>3, <1>4, <1>7, <2>1, <2>2, <3>2 DEF CallShape, New
    <3> QED BY <3>1, <3>2
  <2>4. ASSUME NEW x \in Threads PROVE ThreadShape(x)'
    <3>1. CASE x = t
      BY <1>1, <1>3, <1>4, <2>1, <2>2, <3>1 DEF ThreadShape, Creates, New, Live, Dying, Exiting
    <3>2. CASE x # t
      BY <1>1, <1>3, <1>8, <2>1, <2>2, <3>2, Names DEF ThreadShape, Creates, New
    <3> QED BY <3>1, <3>2
  <2> QED BY <2>3, <2>4 DEF Shape
<1>10. ASSUME careful' PROVE CarefulInv'
  <2>1. /\ careful /\ bad = {} /\ \A x \in Threads : CarefulThread(x)
        /\ \A x \in Actors : CarefulCall(x)
    BY <1>1, <1>10 DEF IInv, CarefulInv
  <2>2. ~Live(t) /\ bad' = {}
    BY <1>1, <2>1 DEF CarefulThread
  <2>3. t \notin ids /\ \A x \in Actors : call[x].target # t
    BY <1>1, <1>7, <1>8 DEF CallShape, ThreadShape
  <2>4. ASSUME NEW x \in Threads PROVE CarefulThread(x)'
    BY <1>1, <1>3, <2>1, <2>2, <2>3, Names DEF CarefulThread, Live, Exiting
  <2>5. ASSUME NEW x \in Actors PROVE CarefulCall(x)'
    BY <1>1, <1>3, <2>1, <2>2, <2>3, Names DEF CarefulCall, New
  <2> QED BY <2>2, <2>4, <2>5 DEF CarefulInv
<1> QED BY <1>2, <1>5, <1>6, <1>9, <1>10 DEF IInv, Shape, CarefulInv

(* The null write: the application was not careful, nothing else changes. *)
LEMMA CreateNoMemoryIInv ==
  ASSUME IInv, NEW a \in Actors, CreateNoMemory(a)
  PROVE  IInv'
<1>1. careful' = FALSE /\ bad' = bad \cup {"nullWrite"} /\ UNCHANGED <<obj, task, call, res, ids>>
  BY DEF CreateNoMemory
<1>2. Types' /\ ~Going'
  BY <1>1 DEF IInv, Types, Errors, Going
<1> QED
  BY <1>1, <1>2 DEF IInv, NoLeak, JoinMutexHeld, LockedOnce, Shape, CarefulInv, Live

(* A creator has its block to itself. *)
LEMMA CreatorAlone ==
  ASSUME IInv, NEW a \in Actors, Going, call[a].pc \in New
  PROVE  \E t \in Threads :
           /\ call[a].target = t /\ Creates(a, t) /\ a # t
           /\ obj[t].mem /\ ~Live(t) /\ t \notin ids
           /\ obj[t].stack <=> call[a].pc = "newtask"
           /\ \A x \in Actors \ {a} : call[x].target # t
           /\ t \in Actors /\ call[t].pc = "idle"
<1>1. \A x \in Actors : CallShape(x) /\ call[x].target \in Threads \cup {NoTask}
  BY DEF IInv, Shape, Types, CallType
<1>2. PICK t \in Threads : call[a].target = t
  BY <1>1 DEF CallShape, New
<1>3. t \in Actors /\ t # Main
  BY Names DEF Actors
<1>4. ~Live(t) /\ (task[a] = "run" \/ a = Main)
  BY <1>1, <1>2 DEF CallShape, New
<1> QED BY <1>1, <1>2, <1>3, <1>4 DEF CallShape, New, Creates, Live

LEMMA CreateStackIInv ==
  ASSUME IInv, NEW a \in Actors, CreateStack(a)
  PROVE  IInv'
<1>1. Going /\ call[a].pc = "newstack"
  BY DEF CreateStack, Goto, Able
<1>2. PICK t \in Threads :
        /\ call[a].target = t /\ Creates(a, t) /\ a # t
        /\ obj[t].mem /\ ~Live(t) /\ t \notin ids
        /\ \A x \in Actors \ {a} : call[x].target # t
        /\ t \in Actors /\ call[t].pc = "idle"
  BY <1>1, CreatorAlone DEF New
<1>3. /\ call' = [call EXCEPT ![a].pc = "newtask"]
      /\ obj' = [obj EXCEPT ![t].stack = TRUE]
      /\ UNCHANGED <<task, res, ids, careful>>
      /\ \/ bad' = bad
         \/ /\ \E x \in Threads : Live(x) /\ ~obj[x].stack
            /\ bad' = bad \cup {"overwritten"}
  BY <1>2 DEF CreateStack, Goto
<1>4. Types'
  <2>1. obj' \in [Threads -> ObjType]
    BY <1>3 DEF IInv, Types, ObjType
  <2>2. call' \in [Actors -> CallType]
    BY <1>3 DEF IInv, Types, CallType
  <2> QED BY <1>3, <2>1, <2>2 DEF IInv, Types, Errors
<1>5. /\ \A x \in Threads \ {t} : obj'[x] = obj[x]
      /\ obj'[t].mem /\ obj'[t].stack /\ obj'[t].joinable = obj[t].joinable
      /\ \A x \in Threads : obj'[x].mux = obj[x].mux
      /\ \A x \in Actors \ {a} : call'[x] = call[x]
      /\ call'[a].pc = "newtask" /\ call'[a].target = t
      /\ \A x \in Threads : Live(x)' <=> Live(x)
  BY <1>2, <1>3 DEF IInv, Types, ObjType, CallType, Live
<1>6. JoinMutexHeld' /\ LockedOnce'
  BY <1>1, <1>5, MuxKept DEF Inside
<1>7. NoLeak'
  BY <1>2, <1>3, <1>5 DEF IInv, NoLeak
<1>8. \A x \in Actors : CallShape(x)
  BY <1>1 DEF IInv, Shape
<1>9. \A x \in Threads : ThreadShape(x)
  BY <1>1 DEF IInv, Shape
<1>10. ASSUME NEW x \in Actors PROVE CallShape(x)'
  BY <1>1, <1>2, <1>3, <1>5, <1>8, Names DEF CallShape, New
<1>11. ASSUME NEW x \in Threads PROVE ThreadShape(x)'
  BY <1>1, <1>2, <1>3, <1>5, <1>9 DEF ThreadShape, Creates, New, Live, Dying, Exiting
<1>12. ASSUME careful' PROVE CarefulInv'
  <2>1. /\ careful /\ bad = {} /\ \A x \in Threads : CarefulThread(x)
        /\ \A x \in Actors : CarefulCall(x)
    BY <1>3, <1>12 DEF IInv, CarefulInv
  <2>2. bad' = {}
    BY <1>3, <2>1 DEF CarefulThread
  <2>3. ASSUME NEW x \in Threads PROVE CarefulThread(x)'
    BY <1>1, <1>2, <1>3, <1>5, <2>1 DEF CarefulThread, Live, Exiting
  <2>4. ASSUME NEW x \in Actors PROVE CarefulCall(x)'
    BY <1>1, <1>2, <1>3, <1>5, <2>1 DEF CarefulCall, New
  <2> QED BY <2>2, <2>3, <2>4 DEF CarefulInv
<1> QED BY <1>4, <1>6, <1>7, <1>10, <1>11, <1>12 DEF IInv, Shape, CarefulInv

(* A creation that fails frees its object, or its stack and its object. *)
LEMMA CreateGivesUpIInv ==
  ASSUME IInv, NEW a \in Actors, CreateNoStack(a) \/ CreateNoTask(a)
  PROVE  IInv'
<1>1. Going /\ call[a].pc \in New
  BY DEF CreateNoStack, CreateNoTask, Able, New
<1>2. PICK t \in Threads :
        /\ call[a].target = t /\ Creates(a, t) /\ a # t
        /\ obj[t].mem /\ ~Live(t) /\ t \notin ids
        /\ obj[t].stack <=> call[a].pc = "newtask"
        /\ \A x \in Actors \ {a} : call[x].target # t
        /\ t \in Actors /\ call[t].pc = "idle"
  BY <1>1, CreatorAlone
<1>3. /\ call' = [call EXCEPT ![a] = NoCall]
      /\ \/ obj' = [obj EXCEPT ![t] = Freed(t)] /\ ~obj[t].stack
         \/ obj' = [obj EXCEPT ![t] = Unused]
      /\ UNCHANGED <<task, res, ids, careful, bad>>
  BY <1>2 DEF CreateNoStack, CreateNoTask
<1>4. Types
  BY DEF IInv
<1>5. Types'
  <2>1. NoCall \in CallType
    BY DEF NoCall, CallType
  <2> QED BY <1>3, <1>4, <2>1, FreedType, UnusedType DEF Types
<1>6. /\ \A x \in Threads \ {t} : obj'[x] = obj[x]
      /\ ~obj'[t].mem /\ ~obj'[t].stack /\ ~obj'[t].joinable /\ obj'[t].mux = MutFree
      /\ \A x \in Actors \ {a} : call'[x] = call[x]
      /\ call'[a].pc = "idle" /\ call'[a].target = NoTask
      /\ \A x \in Threads : Live(x)' <=> Live(x)
      /\ Going' <=> Going
  <2>1. obj'[t] = Unused \/ (obj'[t] = Freed(t) /\ ~obj[t].stack)
    BY <1>3, <1>4 DEF Types
  <2>2. ~obj'[t].mem /\ ~obj'[t].stack /\ ~obj'[t].joinable /\ obj'[t].mux = MutFree
    BY <1>4, <2>1, UnusedType, FreedType
  <2> QED BY <1>3, <1>4, <2>2 DEF Types, Live, NoCall, Going
<1>7. JoinMutexHeld' /\ LockedOnce'
  BY <1>1, <1>2, <1>6, MuxKept DEF Inside, New
<1>8. \A x \in Actors : CallShape(x)
  BY <1>1 DEF IInv, Shape
<1>9. \A x \in Threads : ThreadShape(x)
  BY <1>1 DEF IInv, Shape
<1>10. ASSUME NEW x \in Actors PROVE CallShape(x)'
  BY <1>1, <1>2, <1>3, <1>6, <1>8, Names DEF CallShape, New
<1>11. ASSUME NEW x \in Threads PROVE ThreadShape(x)'
  BY <1>1, <1>2, <1>3, <1>6, <1>9 DEF ThreadShape, Creates, New, Live, Dying, Exiting
<1>12. NoLeak'
  BY <1>10, <1>11, ShapeNoLeak
<1>13. ASSUME careful' PROVE CarefulInv'
  <2>1. /\ careful /\ bad' = {} /\ \A x \in Threads : CarefulThread(x)
        /\ \A x \in Actors : CarefulCall(x)
    BY <1>3, <1>13 DEF IInv, CarefulInv
  <2>2. ASSUME NEW x \in Threads PROVE CarefulThread(x)'
    BY <1>1, <1>2, <1>3, <1>6, <2>1, Names DEF CarefulThread, Live, Exiting, New
  <2>3. ASSUME NEW x \in Actors PROVE CarefulCall(x)'
    BY <1>1, <1>2, <1>3, <1>6, <2>1, Names DEF CarefulCall, New
  <2> QED BY <2>1, <2>2, <2>3 DEF CarefulInv
<1> QED BY <1>5, <1>7, <1>10, <1>11, <1>12, <1>13 DEF IInv, Shape, CarefulInv

(* The task starts: the thread now belongs to those who may join it, or to  *)
(* itself.                                                                  *)
LEMMA CreateTaskIInv ==
  ASSUME IInv, NEW a \in Actors, CreateTask(a)
  PROVE  IInv'
<1>1. Going /\ call[a].pc = "newtask"
  BY DEF CreateTask, Able
<1>2. PICK t \in Threads :
        /\ call[a].target = t /\ Creates(a, t) /\ a # t
        /\ obj[t].mem /\ obj[t].stack /\ ~Live(t) /\ t \notin ids
        /\ \A x \in Actors \ {a} : call[x].target # t
        /\ t \in Actors /\ call[t].pc = "idle"
  BY <1>1, CreatorAlone DEF New
<1>3. /\ call' = [call EXCEPT ![a] = NoCall]
      /\ task' = [task EXCEPT ![t] = "run"]
      /\ res' = [res EXCEPT ![t] = NoResult]
      /\ ids' = IF obj[t].joinable THEN ids \cup {t} ELSE ids
      /\ UNCHANGED <<obj, careful, bad>>
  BY <1>2 DEF CreateTask
<1>4. Types'
  <2>1. NoCall \in CallType /\ NoResult \in ResType /\ "run" \in Tasks
    BY DEF NoCall, CallType, NoResult, ResType, Tasks
  <2> QED BY <1>2, <1>3, <2>1 DEF IInv, Types
<1>5. /\ \A x \in Threads \ {t} : task'[x] = task[x] /\ (x \in ids' <=> x \in ids)
      /\ task'[t] = "run" /\ (t \in ids' <=> obj[t].joinable)
      /\ \A x \in Actors \ {a} : call'[x] = call[x]
      /\ call'[a].pc = "idle" /\ call'[a].target = NoTask
      /\ \A x \in Actors \ {t} : res'[x] = res[x]
      /\ res'[t].code = "none"
      /\ Live(t)' /\ \A x \in Threads \ {t} : Live(x)' <=> Live(x)
      /\ Going' <=> Going
  BY <1>2, <1>3 DEF IInv, Types, Live, NoCall, NoResult, Going
<1>6. JoinMutexHeld' /\ LockedOnce'
  BY <1>1, <1>3, <1>5, MuxKept DEF Inside
<1>7. \A x \in Actors : CallShape(x)
  BY <1>1 DEF IInv, Shape
<1>8. \A x \in Threads : ThreadShape(x)
  BY <1>1 DEF IInv, Shape
<1>9. ASSUME NEW x \in Actors PROVE CallShape(x)'
  BY <1>1, <1>2, <1>3, <1>5, <1>7, Names DEF CallShape, New, Actors
<1>10. ASSUME NEW x \in Threads PROVE ThreadShape(x)'
  BY <1>1, <1>2, <1>3, <1>5, <1>8 DEF ThreadShape, Creates, New, Dying, Exiting
<1>11. NoLeak'
  BY <1>9, <1>10, ShapeNoLeak
<1>12. ASSUME careful' PROVE CarefulInv'
  <2>1. /\ careful /\ bad' = {} /\ \A x \in Threads : CarefulThread(x)
        /\ \A x \in Actors : CarefulCall(x)
    BY <1>3, <1>12 DEF IInv, CarefulInv
  <2>2. ASSUME NEW x \in Threads PROVE CarefulThread(x)'
    BY <1>1, <1>2, <1>3, <1>5, <2>1, Names DEF CarefulThread, Live, Exiting, Dying
  <2>3. ASSUME NEW x \in Actors PROVE CarefulCall(x)'
    BY <1>1, <1>2, <1>3, <1>5, <2>1, Names DEF CarefulCall, New
  <2> QED BY <2>1, <2>2, <2>3 DEF CarefulInv
<1> QED BY <1>4, <1>6, <1>9, <1>10, <1>11, <1>12 DEF IInv, Shape, CarefulInv

-----------------------------------------------------------------------------
(* The end of a thread *)

LEMMA EnterExitCases ==
  ASSUME NEW t \in Threads, Types, NEW from \in {"return", "exit"}, EnterExit(t, from)
  PROVE  \E to \in {"post", "xpost", "stack", "xstack"} :
           /\ task' = [task EXCEPT ![t] = to]
           /\ obj[t].joinable <=> to \in {"post", "xpost"}
           /\ careful' \in BOOLEAN
           /\ careful' => careful /\ obj[t].joinable
<1>1. obj[t].joinable \in BOOLEAN /\ careful \in BOOLEAN
  BY DEF Types, ObjType
<1>2. CASE obj[t].joinable /\ from = "return"
  BY <1>1, <1>2 DEF EnterExit
<1>3. CASE obj[t].joinable /\ from = "exit"
  BY <1>1, <1>3 DEF EnterExit
<1>4. CASE ~obj[t].joinable /\ from = "return"
  BY <1>1, <1>4 DEF EnterExit
<1>5. CASE ~obj[t].joinable /\ from = "exit"
  BY <1>1, <1>5 DEF EnterExit
<1> QED BY <1>2, <1>3, <1>4, <1>5

(* The routine returns or calls pthread_exit. *)
LEMMA LeaveIInv ==
  ASSUME IInv, NEW t \in Threads, RoutineReturns(t) \/ PthreadExit(t)
  PROVE  IInv'
<1>1. /\ Going /\ Housed(t) /\ call[t] = NoCall /\ task[t] = "run"
      /\ obj' = [obj EXCEPT ![t].val = "value"]
      /\ UNCHANGED <<call, res, ids, bad>>
  BY LifeAssumption DEF RoutineReturns, PthreadExit, CanCall, Able
<1>2. PICK to \in {"post", "xpost", "stack", "xstack"} :
        /\ task' = [task EXCEPT ![t] = to]
        /\ obj[t].joinable <=> to \in {"post", "xpost"}
        /\ careful' \in BOOLEAN
        /\ careful' => careful /\ obj[t].joinable
  BY EnterExitCases DEF RoutineReturns, PthreadExit, IInv
<1>3. Types'
  <2>1. obj' \in [Threads -> ObjType] /\ task' \in [Threads -> Tasks]
    BY <1>1, <1>2 DEF IInv, Types, ObjType, Tasks
  <2> QED BY <1>1, <1>2, <2>1 DEF IInv, Types
<1>4. /\ \A x \in Threads \ {t} : obj'[x] = obj[x] /\ task'[x] = task[x]
      /\ task'[t] = to
      /\ \A x \in Threads : /\ obj'[x].mem = obj[x].mem /\ obj'[x].stack = obj[x].stack
                            /\ obj'[x].joinable = obj[x].joinable
                            /\ obj'[x].mux = obj[x].mux
      /\ obj'[t].val = "value"
      /\ \A x \in Threads : Live(x)' <=> Live(x)
      /\ obj[t].mem /\ call[t].pc = "idle"
  BY <1>1, <1>2, Names DEF IInv, Types, ObjType, Live, Housed, NoCall
<1>5. JoinMutexHeld' /\ LockedOnce'
  BY <1>1, <1>4, MuxKept
<1>6. \A x \in Actors : CallShape(x)
  BY <1>1 DEF IInv, Shape
<1>7. \A x \in Threads : ThreadShape(x)
  BY <1>1 DEF IInv, Shape
<1>8. ASSUME NEW x \in Actors PROVE CallShape(x)'
  BY <1>1, <1>4, <1>6 DEF CallShape, Actors
<1>9. ASSUME NEW x \in Threads PROVE ThreadShape(x)'
  <2>1. CASE x = t
    BY <1>1, <1>2, <1>4, <1>6, <1>7, <2>1
    DEF ThreadShape, CallShape, Creates, New, Live, Dying, Exiting
  <2>2. CASE x # t
    BY <1>1, <1>4, <1>7, <2>2 DEF ThreadShape, Creates, New
  <2> QED BY <2>1, <2>2
<1>10. NoLeak'
  BY <1>8, <1>9, ShapeNoLeak
<1>11. ASSUME careful' PROVE CarefulInv'
  <2>1. /\ careful /\ bad' = {} /\ \A x \in Threads : CarefulThread(x)
        /\ \A x \in Actors : CarefulCall(x)
    BY <1>1, <1>2, <1>11 DEF IInv, CarefulInv
  <2>2. ASSUME NEW x \in Threads PROVE CarefulThread(x)'
    BY <1>1, <1>2, <1>4, <1>11, <2>1 DEF CarefulThread, Live, Exiting, Dying
  <2>3. ASSUME NEW x \in Actors PROVE CarefulCall(x)'
    BY <1>1, <1>4, <2>1 DEF CarefulCall
  <2> QED BY <2>1, <2>2, <2>3 DEF CarefulInv
<1> QED BY <1>3, <1>5, <1>8, <1>9, <1>10, <1>11 DEF IInv, Shape, CarefulInv

(* The semaphore calls of a joinable thread that ends *)
LEMMA ExitSemsIInv ==
  ASSUME IInv, NEW t \in Threads, ExitPost(t) \/ ExitGet(t)
  PROVE  IInv'
<1>1. Going /\ Housed(t) /\ task[t] \in Exiting /\ UNCHANGED <<call, res, ids, careful, bad>>
  BY DEF ExitPost, ExitGet, Able, Exiting
<1>2. PICK to \in {"get", "xget", "leave", "run"} : task' = [task EXCEPT ![t] = to]
  BY DEF ExitPost, ExitGet
<1>3. PICK v \in Nat : obj' = [obj EXCEPT ![t].barrier = v] \/ obj' = [obj EXCEPT ![t].joined = v]
  <2>1. obj[t].barrier \in Nat /\ obj[t].joined \in Nat
    BY DEF IInv, Types, ObjType
  <2>2. CASE ExitPost(t)
    <3>1. obj' = [obj EXCEPT ![t].barrier = obj[t].barrier + 1] /\ obj[t].barrier + 1 \in Nat
      BY <2>1, <2>2 DEF ExitPost
    <3> QED BY <3>1
  <2>3. CASE ExitGet(t)
    <3>1. obj' = [obj EXCEPT ![t].joined = obj[t].joined - 1] /\ obj[t].joined - 1 \in Nat
      BY <2>1, <2>3 DEF ExitGet
    <3> QED BY <3>1
  <2> QED BY <2>2, <2>3
<1>4. Types'
  <2>1. obj' \in [Threads -> ObjType]
    BY <1>3 DEF IInv, Types, ObjType
  <2>2. task' \in [Threads -> Tasks]
    BY <1>2 DEF IInv, Types, Tasks
  <2> QED BY <1>1, <2>1, <2>2 DEF IInv, Types
<1>5. /\ \A x \in Threads \ {t} : task'[x] = task[x]
      /\ task'[t] = to
      /\ \A x \in Threads : /\ obj'[x].mem = obj[x].mem /\ obj'[x].stack = obj[x].stack
                            /\ obj'[x].joinable = obj[x].joinable
                            /\ obj'[x].mux = obj[x].mux /\ obj'[x].val = obj[x].val
  BY <1>2, <1>3 DEF IInv, Types, ObjType
<1>6. \A x \in Threads : Live(x)' <=> Live(x)
  BY <1>1, <1>2, <1>5 DEF Live, Exiting
<1>7. JoinMutexHeld' /\ LockedOnce'
  BY <1>1, <1>5, MuxKept
<1>8. \A x \in Actors : CallShape(x)
  BY <1>1 DEF IInv, Shape
<1>9. \A x \in Threads : ThreadShape(x)
  BY <1>1 DEF IInv, Shape
<1>10. obj[t].mem /\ obj[t].joinable /\ call[t].pc = "idle"
  BY <1>1, <1>8, <1>9, Names DEF Housed, ThreadShape, CallShape, Exiting, Actors
<1>11. ASSUME NEW x \in Actors PROVE CallShape(x)'
  BY <1>1, <1>5, <1>6, <1>8, <1>10 DEF CallShape, Actors
<1>12. ASSUME NEW x \in Threads PROVE ThreadShape(x)'
  BY <1>1, <1>2, <1>5, <1>9, <1>10 DEF ThreadShape, Creates, Dying, Exiting
<1>13. NoLeak'
  BY <1>11, <1>12, ShapeNoLeak
<1>14. ASSUME careful' PROVE CarefulInv'
  <2>1. /\ careful /\ bad' = {} /\ \A x \in Threads : CarefulThread(x)
        /\ \A x \in Actors : CarefulCall(x)
    BY <1>1, <1>14 DEF IInv, CarefulInv
  <2>2. ASSUME NEW x \in Threads PROVE CarefulThread(x)'
    BY <1>1, <1>2, <1>5, <1>6, <2>1 DEF CarefulThread, Exiting, Dying
  <2>3. ASSUME NEW x \in Actors PROVE CarefulCall(x)'
    BY <1>1, <1>5, <1>6, <2>1 DEF CarefulCall
  <2> QED BY <2>1, <2>2, <2>3 DEF CarefulInv
<1> QED BY <1>4, <1>7, <1>11, <1>12, <1>13, <1>14 DEF IInv, Shape, CarefulInv

(* A detached thread that ends: not in a careful application *)
LEMMA ExitFreeStackIInv ==
  ASSUME IInv, NEW t \in Threads, ExitFreeStack(t)
  PROVE  IInv'
<1>1. /\ Going /\ Housed(t) /\ task[t] \in {"stack", "xstack"}
      /\ obj' = [obj EXCEPT ![t].stack = FALSE]
      /\ UNCHANGED <<call, res, ids, careful, bad>>
  BY DEF ExitFreeStack, Able
<1>2. PICK to \in {"obj", "xobj"} : task' = [task EXCEPT ![t] = to]
  BY DEF ExitFreeStack
<1>3. Types'
  <2>1. obj' \in [Threads -> ObjType] /\ task' \in [Threads -> Tasks]
    BY <1>1, <1>2 DEF IInv, Types, ObjType, Tasks
  <2> QED BY <1>1, <2>1 DEF IInv, Types
<1>4. /\ \A x \in Threads \ {t} : obj'[x] = obj[x] /\ task'[x] = task[x]
      /\ task'[t] = to /\ ~obj'[t].stack
      /\ \A x \in Threads : /\ obj'[x].mem = obj[x].mem
                            /\ obj'[x].joinable = obj[x].joinable
                            /\ obj'[x].mux = obj[x].mux
      /\ \A x \in Threads : Live(x)' <=> Live(x)
  BY <1>1, <1>2 DEF IInv, Types, ObjType, Live
<1>5. JoinMutexHeld' /\ LockedOnce'
  BY <1>1, <1>4, MuxKept
<1>6. \A x \in Actors : CallShape(x)
  BY <1>1 DEF IInv, Shape
<1>7. \A x \in Threads : ThreadShape(x)
  BY <1>1 DEF IInv, Shape
<1>8. Live(t) /\ call[t].pc = "idle"
  BY <1>1, <1>6, Names DEF CallShape, Actors, Live
<1>9. ASSUME NEW x \in Actors PROVE CallShape(x)'
  BY <1>1, <1>4, <1>6, <1>8 DEF CallShape, Actors
<1>10. ASSUME NEW x \in Threads PROVE ThreadShape(x)'
  BY <1>1, <1>2, <1>4, <1>7 DEF ThreadShape, Creates, Dying, Exiting
<1>11. NoLeak'
  BY <1>9, <1>10, ShapeNoLeak
<1>12. ~careful'
  BY <1>1 DEF IInv, CarefulInv, CarefulThread, Dying
<1> QED BY <1>3, <1>5, <1>9, <1>10, <1>11, <1>12 DEF IInv, Shape, CarefulInv

LEMMA ExitFreeThreadIInv ==
  ASSUME IInv, NEW t \in Threads, ExitFreeThread(t)
  PROVE  IInv'
<1>1. /\ Going /\ task[t] \in {"obj", "xobj"}
      /\ obj' = [obj EXCEPT ![t] = Freed(t)]
      /\ bad' = bad \cup {"runsFreed"}
      /\ UNCHANGED <<call, res, ids, careful>>
  BY DEF ExitFreeThread
<1>2. PICK to \in {"leave", "run"} : task' = [task EXCEPT ![t] = to]
  BY DEF ExitFreeThread
<1>3. Types
  BY DEF IInv
<1>4. Types'
  <2>1. obj' \in [Threads -> ObjType]
    BY <1>1, <1>3, FreedType DEF Types
  <2>2. task' \in [Threads -> Tasks]
    BY <1>2, <1>3 DEF Types, Tasks
  <2> QED BY <1>1, <1>3, <2>1, <2>2 DEF Types, Errors
<1>5. \A x \in Actors : CallShape(x)
  BY <1>1 DEF IInv, Shape
<1>6. \A x \in Threads : ThreadShape(x)
  BY <1>1 DEF IInv, Shape
<1>7. /\ ~obj[t].stack /\ ~obj[t].joinable /\ Live(t) /\ t \notin ids
      /\ \A x \in Actors : call[x].target # t
      /\ call[t].pc = "idle"
  BY <1>1, <1>5, <1>6, Names DEF ThreadShape, CallShape, Dying, Live, Actors
<1>8. /\ \A x \in Threads \ {t} : obj'[x] = obj[x] /\ task'[x] = task[x]
      /\ task'[t] = to
      /\ ~obj'[t].mem /\ ~obj'[t].stack /\ ~obj'[t].joinable /\ obj'[t].mux = MutFree
      /\ \A x \in Threads : Live(x)' <=> Live(x)
  <2>1. obj'[t] = Freed(t)
    BY <1>1, <1>3 DEF Types
  <2>2. ~obj'[t].mem /\ ~obj'[t].stack /\ ~obj'[t].joinable /\ obj'[t].mux = MutFree
    BY <1>3, <1>7, <2>1, FreedType
  <2> QED BY <1>1, <1>2, <1>3, <2>2 DEF Types, Live
<1>9. JoinMutexHeld' /\ LockedOnce'
  BY <1>1, <1>8, MuxKept
<1>10. ASSUME NEW x \in Actors PROVE CallShape(x)'
  BY <1>1, <1>5, <1>7, <1>8 DEF CallShape, Actors
<1>11. ASSUME NEW x \in Threads PROVE ThreadShape(x)'
  BY <1>1, <1>2, <1>6, <1>7, <1>8 DEF ThreadShape, Creates, Dying, Exiting
<1>12. NoLeak'
  BY <1>10, <1>11, ShapeNoLeak
<1>13. ~careful'
  BY <1>1 DEF IInv, CarefulInv, CarefulThread, Dying
<1> QED BY <1>4, <1>9, <1>10, <1>11, <1>12, <1>13 DEF IInv, Shape, CarefulInv

(* The task ends, on its own memory in a careful application. *)
LEMMA RunThreadReturnsIInv ==
  ASSUME IInv, NEW t \in Threads, RunThreadReturns(t)
  PROVE  IInv'
<1>1. /\ Going /\ task[t] = "leave"
      /\ task' = [task EXCEPT ![t] = "ended"]
      /\ bad' = IF Housed(t) THEN bad ELSE bad \cup {"runsFreed"}
      /\ UNCHANGED <<obj, call, res, ids, careful>>
  BY DEF RunThreadReturns
<1>2. Types'
  <2>1. task' \in [Threads -> Tasks]
    BY <1>1 DEF IInv, Types, Tasks
  <2> QED BY <1>1, <2>1 DEF IInv, Types, Errors
<1>3. /\ \A x \in Threads \ {t} : task'[x] = task[x]
      /\ task'[t] = "ended" /\ ~Live(t)' /\ Live(t)
      /\ \A x \in Threads \ {t} : Live(x)' <=> Live(x)
  BY <1>1 DEF IInv, Types, Live
<1>4. JoinMutexHeld' /\ LockedOnce'
  BY <1>1, MuxKept
<1>5. \A x \in Actors : CallShape(x)
  BY <1>1 DEF IInv, Shape
<1>6. \A x \in Threads : ThreadShape(x)
  BY <1>1 DEF IInv, Shape
<1>7. call[t].pc = "idle" /\ \A x \in Actors : ~Creates(x, t)
  BY <1>1, <1>3, <1>5, Names DEF CallShape, Creates, Actors
<1>8. ASSUME NEW x \in Actors PROVE CallShape(x)'
  BY <1>1, <1>3, <1>5, <1>7 DEF CallShape, Actors
<1>9. ASSUME NEW x \in Threads PROVE ThreadShape(x)'
  BY <1>1, <1>3, <1>6, <1>7 DEF ThreadShape, Creates, Dying, Exiting
<1>10. NoLeak'
  BY <1>8, <1>9, ShapeNoLeak
<1>11. ASSUME careful' PROVE CarefulInv'
  <2>1. /\ careful /\ bad = {} /\ \A x \in Threads : CarefulThread(x)
        /\ \A x \in Actors : CarefulCall(x)
    BY <1>1, <1>11 DEF IInv, CarefulInv
  <2>2. Housed(t) /\ bad' = {}
    BY <1>1, <1>3, <2>1 DEF CarefulThread, Housed
  <2>3. \A x \in Actors : call[x].target # t
    BY <1>3, <1>5, <1>7, <2>1, Names DEF CarefulThread, CallShape
  <2>4. ASSUME NEW x \in Threads PROVE CarefulThread(x)'
    BY <1>1, <1>3, <2>1, <2>3 DEF CarefulThread, Exiting, Dying
  <2>5. ASSUME NEW x \in Actors PROVE CarefulCall(x)'
    BY <1>1, <1>3, <2>1, <2>3 DEF CarefulCall
  <2> QED BY <2>2, <2>4, <2>5 DEF CarefulInv
<1> QED BY <1>2, <1>4, <1>8, <1>9, <1>10, <1>11 DEF IInv, Shape, CarefulInv

-----------------------------------------------------------------------------
(* pthread_join *)

LEMMA JoinEnterIInv ==
  ASSUME IInv, NEW a \in Actors, NEW t \in Threads, JoinEnter(a, t)
  PROVE  IInv'
<1>1. /\ Going /\ Housed(a) /\ call[a] = NoCall /\ (a # Main => task[a] = "run")
      /\ t \in ids \/ Live(t)
      /\ UNCHANGED <<obj, task, ids>>
  BY DEF JoinEnter, CanCall, Able
<1>2. /\ careful' \in BOOLEAN
      /\ careful' => /\ careful
                     /\ a = t \/ (~Live(t) /\ \A x \in Actors : call[x].target # t)
  <2>1. careful' = (careful /\ (a = t \/ (~Live(t) /\ \A x \in Actors : call[x].target # t)))
    BY DEF JoinEnter
  <2>2. careful \in BOOLEAN
    BY DEF IInv, Types
  <2> QED BY <2>1, <2>2
<1>3. bad' = IF obj[t].mem THEN bad ELSE bad \cup {"useAfterFree"}
  BY DEF JoinEnter
<1>4. \/ /\ obj[t].joinable
         /\ call' = [call EXCEPT ![a] = [pc |-> "lock", target |-> t]]
         /\ res' = [res EXCEPT ![a] = NoResult]
      \/ /\ call' = [call EXCEPT ![a] = NoCall]
         /\ res' = [res EXCEPT ![a] = [code |-> "EDEADLK", val |-> "unset"]]
  BY DEF JoinEnter, JoinReturn
<1>5. Types'
  <2>1. /\ [pc |-> "lock", target |-> t] \in CallType /\ NoCall \in CallType
        /\ NoResult \in ResType /\ [code |-> "EDEADLK", val |-> "unset"] \in ResType
    BY DEF CallType, ResType, NoCall, NoResult
  <2> QED BY <1>1, <1>2, <1>3, <1>4, <2>1 DEF IInv, Types, Errors
<1>6. /\ \A x \in Actors \ {a} : call'[x] = call[x] /\ res'[x] = res[x]
      /\ res'[a].code # "0"
      /\ \/ obj[t].joinable /\ call'[a].pc = "lock" /\ call'[a].target = t
         \/ call'[a].pc = "idle" /\ call'[a].target = NoTask
      /\ call[a].pc = "idle" /\ call[a].target = NoTask
      /\ \A x \in Threads : Live(x)' <=> Live(x)
  BY <1>1, <1>4 DEF IInv, Types, NoCall, NoResult, Live
<1>7. JoinMutexHeld' /\ LockedOnce'
  BY <1>1, <1>6, MuxKept DEF Inside
<1>8. \A x \in Actors : CallShape(x)
  BY <1>1 DEF IInv, Shape
<1>9. \A x \in Threads : ThreadShape(x)
  BY <1>1 DEF IInv, Shape
<1>10. \A x \in Actors : ~Creates(x, t)
  BY <1>1, <1>8 DEF CallShape, Creates
<1>11. ASSUME NEW x \in Actors PROVE CallShape(x)'
  <2>1. CASE x = a
    BY <1>1, <1>6, <1>9, <2>1, Names DEF CallShape, ThreadShape, New
  <2>2. CASE x # a
    BY <1>1, <1>6, <1>8, <1>10, <2>2, Names DEF CallShape, Creates
  <2> QED BY <2>1, <2>2
<1>12. ASSUME NEW x \in Threads PROVE ThreadShape(x)'
  <2>1. \A y \in Actors : Creates(y, x)' <=> Creates(y, x)
    BY <1>6 DEF Creates, New
  <2> QED BY <1>1, <1>9, <2>1 DEF ThreadShape
<1>13. NoLeak'
  BY <1>11, <1>12, ShapeNoLeak
<1>14. ASSUME careful' PROVE CarefulInv'
  <2>1. /\ careful /\ bad = {} /\ \A x \in Threads : CarefulThread(x)
        /\ \A x \in Actors : CarefulCall(x)
    BY <1>2, <1>14 DEF IInv, CarefulInv
  <2>2. bad' = {}
    BY <1>1, <1>3, <1>9, <2>1 DEF CarefulThread, ThreadShape
  <2>3. CASE call'[a].target = NoTask
    <3>1. ASSUME NEW x \in Threads PROVE CarefulThread(x)'
      BY <1>1, <1>6, <2>1, <2>3, Names DEF CarefulThread
    <3>2. ASSUME NEW x \in Actors PROVE CarefulCall(x)'
      BY <1>1, <1>6, <2>1, <2>3, Names DEF CarefulCall
    <3> QED BY <2>2, <3>1, <3>2 DEF CarefulInv
  <2>4. CASE call'[a].target = t /\ call'[a].pc = "lock"
    <3>1. \A x \in Actors : call[x].target # t
      BY <1>1, <1>2, <1>6, <1>14, <2>1, Names DEF CarefulThread, Live
    <3>2. a # t => ~Live(t) /\ obj[t].stack
      BY <1>1, <1>2, <1>14, <2>1, <3>1 DEF CarefulThread
    <3>3. ASSUME NEW x \in Threads PROVE CarefulThread(x)'
      BY <1>1, <1>6, <2>1, <2>4, <3>1, <3>2, Names DEF CarefulThread
    <3>4. ASSUME NEW x \in Actors PROVE CarefulCall(x)'
      BY <1>1, <1>6, <2>1, <2>4, <3>1, <3>2, Names DEF CarefulCall
    <3> QED BY <2>2, <3>3, <3>4 DEF CarefulInv
  <2> QED BY <1>6, <2>3, <2>4
<1> QED BY <1>5, <1>7, <1>11, <1>12, <1>13, <1>14 DEF IInv, Shape, CarefulInv

Joining == {"lock", "barrier", "joined", "unlock", "retval", "stack", "obj"}

LEMMA JoinTarget ==
  ASSUME IInv, NEW a \in Actors, Going, call[a].pc \in Joining
  PROVE  \E t \in Threads :
           /\ call[a].target = t /\ obj[t].mem /\ obj[t].joinable
           /\ \A x \in Actors : ~Creates(x, t)
<1>1. \A x \in Actors : CallShape(x) /\ call[x].target \in Threads \cup {NoTask}
  BY DEF IInv, Shape, Types, CallType
<1>2. PICK t \in Threads : call[a].target = t
  BY <1>1 DEF CallShape, Joining
<1>3. call[a].pc \notin New
  BY DEF Joining, New
<1> QED BY <1>1, <1>2, <1>3 DEF CallShape, Creates

(* What the steps of pthread_join that free nothing have in common: the     *)
(* caller goes on or returns, and the object keeps its shape.               *)
LEMMA JoinAdvances ==
  ASSUME IInv, NEW a \in Actors, NEW t \in Threads, Going, call[a].target = t,
         call[a].pc \in Joining \ {"stack", "obj"},
         \A x \in Threads :
           /\ obj'[x].mem = obj[x].mem /\ obj'[x].stack = obj[x].stack
           /\ obj'[x].joinable = obj[x].joinable /\ obj'[x].val = obj[x].val,
         \A x \in Actors \ {a} : call'[x] = call[x] /\ res'[x] = res[x],
         \/ /\ call'[a].target = t /\ res'[a] = res[a]
            /\ call'[a].pc \in Inside \cup {"retval"} /\ (call[a].pc = "lock" => a # t)
         \/ /\ call'[a].target = t /\ res'[a].val = obj[t].val
            /\ call'[a].pc = "stack" /\ call[a].pc # "lock"
         \/ call'[a].target = NoTask /\ call'[a].pc = "idle" /\ res'[a].code = "EDEADLK",
         task' = task, ids' = ids, careful' = careful, bad' = bad
  PROVE  NoLeak' /\ Shape' /\ CarefulInv'
<1>1. \A x \in Threads : Live(x)' <=> Live(x)
  BY DEF Live
<1>2. \A x \in Actors : CallShape(x)
  BY DEF IInv, Shape
<1>3. \A x \in Threads : ThreadShape(x)
  BY DEF IInv, Shape
<1>4. call[a].pc \notin New /\ call[a].pc \notin {"idle", "stale", "stack", "obj"}
  BY DEF Joining, New
<1>5. call'[a].pc \notin New \cup {"stale", "obj"}
  BY DEF New, Inside
<1>6. obj[t].mem /\ obj[t].joinable /\ \A x \in Actors : ~Creates(x, t)
  BY JoinTarget
<1>7. ASSUME NEW x \in Actors PROVE CallShape(x)'
  <2>1. CASE x = a
    <3>1. call'[a].pc \in {"idle", "stale"} <=> call'[a].target = NoTask
      BY Names DEF Inside
    <3>2. a = Main \/ task[a] = "run"
      BY <1>2, <1>4 DEF CallShape
    <3>3. \A y \in Threads : call'[a].target = y => y = t
      BY Names
    <3> QED BY <1>5, <1>6, <2>1, <3>1, <3>2, <3>3 DEF CallShape
  <2>2. CASE x # a
    <3>1. CallShape(x) /\ call'[x] = call[x]
      BY <1>2, <2>2
    <3>2. ASSUME NEW y \in Threads, call[x].target = y, call[x].pc \in New
          PROVE  y # t /\ \A z \in Actors : call'[z].target = y => z = x
      BY <1>6, <3>1, <3>2, Names DEF CallShape, Creates
    <3> QED BY <1>1, <3>1, <3>2 DEF CallShape
  <2> QED BY <2>1, <2>2
<1>8. ASSUME NEW x \in Threads PROVE ThreadShape(x)'
  <2>1. \A y \in Actors : Creates(y, x)' <=> Creates(y, x)
    BY <1>4, <1>5 DEF Creates
  <2> QED BY <1>3, <2>1 DEF ThreadShape
<1>9. NoLeak'
  BY <1>7, <1>8, ShapeNoLeak
<1>10. ASSUME careful' PROVE CarefulInv'
  <2>1. /\ careful /\ bad' = {} /\ \A x \in Threads : CarefulThread(x)
        /\ \A x \in Actors : CarefulCall(x)
    BY <1>10 DEF IInv, CarefulInv
  <2>2. ASSUME NEW x \in Threads PROVE CarefulThread(x)'
    <3>1. \A y \in Actors : call'[y].target = x => call[y].target = x
      BY Names
    <3>2. \A y \in Actors : call[y].target = x /\ call[y].pc = "obj" =>
            call'[y].target = x /\ call'[y].pc = "obj"
      BY <1>4
    <3> QED BY <1>1, <2>1, <3>1, <3>2 DEF CarefulThread
  <2>3. a # t => t \in ids /\ ~Live(t) /\ obj[t].val = "value"
    BY <1>3, <1>4, <1>6, <2>1 DEF CarefulCall, CarefulThread, ThreadShape
  <2>4. /\ a = t => call[a].pc = "lock"
        /\ a # t => obj[t].stack /\ \A x \in Actors : call[x].target = t => x = a
    BY <1>4, <2>1 DEF CarefulCall
  <2>5. CarefulCall(a)'
    <3>1. CASE call'[a].target = NoTask
      BY <3>1, Names DEF CarefulCall, Inside
    <3>2. CASE call'[a].target = t
      <4>1. a # t
        BY <2>4, <3>2, Names
      <4>2. call'[a].pc \in {"stack", "obj"} => res'[a].val = "value"
        BY <1>5, <2>3, <3>2, <4>1, Names DEF Inside
      <4>3. res'[a].code = "0" => res'[a].val = "value"
        BY <2>1, <2>3, <3>2, <4>1, Names DEF CarefulCall
      <4> QED BY <1>1, <1>5, <2>3, <2>4, <3>2, <4>1, <4>2, <4>3 DEF CarefulCall
    <3> QED BY <3>1, <3>2
  <2>6. ASSUME NEW x \in Actors \ {a} PROVE CarefulCall(x)'
    <3>1. \A y \in Threads : \A z \in Actors : call'[z].target = y => call[z].target = y
      BY Names
    <3> QED BY <1>1, <2>1, <3>1 DEF CarefulCall
  <2> QED BY <2>1, <2>2, <2>5, <2>6 DEF CarefulInv
<1> QED BY <1>7, <1>8, <1>9, <1>10 DEF Shape, CarefulInv

LEMMA MutTypes ==
  ASSUME NEW m \in MutType, NEW a \in Actors
  PROVE  /\ MutTaken(m, a) \in MutType
         /\ MutUnlockOutcomes(m, a) \subseteq MutType
<1>1. m.depth \in Nat /\ m.own \in Actors \cup {NoTask}
  BY DEF MutType
<1>2. MutReleased(m) \in MutType
  BY <1>1 DEF MutReleased, MutFree, MutType
<1> QED BY <1>1, <1>2 DEF MutTaken, MutUnlockOutcomes, MutType

LEMMA MuxUpdate ==
  ASSUME IInv, NEW t \in Threads, NEW m \in MutType, obj' = [obj EXCEPT ![t].mux = m]
  PROVE  /\ obj' \in [Threads -> ObjType] /\ obj'[t].mux = m
         /\ \A x \in Threads \ {t} : obj'[x] = obj[x]
         /\ \A x \in Threads :
              /\ obj'[x].mem = obj[x].mem /\ obj'[x].stack = obj[x].stack
              /\ obj'[x].joinable = obj[x].joinable /\ obj'[x].val = obj[x].val
  BY DEF IInv, Types, ObjType

(* The mutex that the caller finds free is then its own. *)
LEMMA JoinLockIInv ==
  ASSUME IInv, NEW a \in Actors, JoinLock(a)
  PROVE  IInv'
<1>1. Going /\ call[a].pc = "lock" /\ UNCHANGED <<task, ids, careful, bad>>
  BY DEF JoinLock, Able
<1>2. PICK t \in Threads : call[a].target = t /\ obj[t].mem /\ obj[t].joinable
  BY <1>1, JoinTarget DEF Joining
<1>3. /\ obj[t].mux \in MutType /\ obj[t].mux.own \in Actors \cup {NoTask}
      /\ obj[t].mux.depth \in Nat
  BY DEF IInv, Types, ObjType, MutType
<1>4. /\ \/ UNCHANGED obj
         \/ /\ MutAvailable(obj[t].mux, a)
            /\ obj' = [obj EXCEPT ![t].mux = MutTaken(obj[t].mux, a)]
      /\ \/ /\ call' = [call EXCEPT ![a] = NoCall]
            /\ res' = [res EXCEPT ![a] = [code |-> "EDEADLK", val |-> "unset"]]
            /\ UNCHANGED obj \/ a = t
         \/ a # t /\ call' = [call EXCEPT ![a].pc = "barrier"] /\ UNCHANGED res
  BY <1>2 DEF JoinLock, JoinReturn, Goto
<1>5. /\ call' \in [Actors -> CallType] /\ res' \in [Actors -> ResType]
      /\ \A x \in Actors \ {a} : call'[x] = call[x] /\ res'[x] = res[x]
      /\ \/ /\ call'[a].target = NoTask /\ call'[a].pc = "idle" /\ res'[a].code = "EDEADLK"
            /\ UNCHANGED obj \/ a = t
         \/ a # t /\ call'[a].target = t /\ call'[a].pc = "barrier" /\ res'[a] = res[a]
  <2>1. [code |-> "EDEADLK", val |-> "unset"] \in ResType /\ NoCall \in CallType
    BY DEF ResType, CallType, NoCall
  <2>2. CASE call' = [call EXCEPT ![a] = NoCall]
    BY <1>2, <1>4, <2>1, <2>2 DEF IInv, Types, CallType, NoCall
  <2>3. CASE a # t /\ call' = [call EXCEPT ![a].pc = "barrier"] /\ UNCHANGED res
    BY <1>2, <2>3 DEF IInv, Types, CallType
  <2> QED BY <1>4, <2>2, <2>3
<1>6. /\ obj' \in [Threads -> ObjType]
      /\ \A x \in Threads :
           /\ obj'[x].mem = obj[x].mem /\ obj'[x].stack = obj[x].stack
           /\ obj'[x].joinable = obj[x].joinable /\ obj'[x].val = obj[x].val
  <2>1. CASE UNCHANGED obj
    BY <2>1 DEF IInv, Types
  <2>2. CASE obj' = [obj EXCEPT ![t].mux = MutTaken(obj[t].mux, a)]
    BY <1>3, <2>2, MutTypes, MuxUpdate
  <2> QED BY <1>4, <2>1, <2>2
<1>7. Types'
  BY <1>1, <1>5, <1>6 DEF IInv, Types
<1>8. NoLeak' /\ Shape' /\ CarefulInv'
  BY <1>1, <1>2, <1>5, <1>6, JoinAdvances DEF Joining, Inside
<1>9. JoinMutexHeld' /\ LockedOnce'
  <2>1. CASE UNCHANGED obj
    BY <1>1, <1>5, <2>1, MuxKept DEF Inside
  <2>2. CASE /\ MutAvailable(obj[t].mux, a)
             /\ obj' = [obj EXCEPT ![t].mux = MutTaken(obj[t].mux, a)]
    <3>1. /\ obj'[t].mux.own = a /\ obj'[t].mux.depth = obj[t].mux.depth + 1
          /\ \A x \in Threads \ {t} : obj'[x] = obj[x]
      <4>1. /\ obj'[t].mux = MutTaken(obj[t].mux, a)
            /\ \A x \in Threads \ {t} : obj'[x] = obj[x]
        BY <1>3, <2>2, MutTypes, MuxUpdate
      <4> QED BY <4>1 DEF MutTaken
    <3>2. a # t => obj[t].mux.own = NoTask
      BY <1>1, <2>2 DEF MutAvailable, IInv, JoinMutexHeld
    <3>3. obj'[t].mux # obj[t].mux
      BY <1>3, <3>1
    <3>4. a # t => call'[a].target = t /\ call'[a].pc = "barrier"
      BY <1>5, <3>3
    <3>5. JoinMutexHeld'
      BY <1>1, <1>5, <3>1, <3>4 DEF IInv, JoinMutexHeld
    <3>6. LockedOnce'
      BY <3>1, <3>2, Names DEF IInv, LockedOnce
    <3> QED BY <3>5, <3>6
  <2> QED BY <1>4, <2>1, <2>2
<1> QED BY <1>7, <1>8, <1>9 DEF IInv

(* The semaphore calls, and the return value *)
LEMMA JoinMiddleIInv ==
  ASSUME IInv, NEW a \in Actors, JoinBarrier(a) \/ JoinPost(a) \/ JoinRetval(a)
  PROVE  IInv'
<1>1. Going /\ call[a].pc \in {"barrier", "joined", "retval"}
      /\ UNCHANGED <<task, ids, careful, bad>>
  BY DEF JoinBarrier, JoinPost, JoinRetval, Goto, Able
<1>2. PICK t \in Threads : call[a].target = t /\ obj[t].mem /\ obj[t].joinable
  BY <1>1, JoinTarget DEF Joining
<1>3. obj[t].barrier \in Nat /\ obj[t].joined \in Nat /\ obj[t].val \in {"unset", "value"}
  BY DEF IInv, Types, ObjType
<1>4. \/ /\ call' = [call EXCEPT ![a].pc = "joined"] /\ UNCHANGED res /\ call[a].pc = "barrier"
         /\ obj' = [obj EXCEPT ![t].barrier = obj[t].barrier - 1] /\ obj[t].barrier > 0
      \/ /\ call' = [call EXCEPT ![a].pc = "unlock"] /\ UNCHANGED res /\ call[a].pc = "joined"
         /\ obj' = [obj EXCEPT ![t].joined = obj[t].joined + 1]
      \/ /\ call' = [call EXCEPT ![a].pc = "stack"] /\ UNCHANGED obj /\ call[a].pc = "retval"
         /\ res' = [res EXCEPT ![a].val = obj[t].val]
  BY <1>2 DEF JoinBarrier, JoinPost, JoinRetval, Goto
<1>5. /\ call' \in [Actors -> CallType] /\ res' \in [Actors -> ResType]
      /\ \A x \in Actors \ {a} : call'[x] = call[x] /\ res'[x] = res[x]
      /\ \/ /\ call'[a].target = t /\ call'[a].pc \in {"joined", "unlock"}
            /\ res'[a] = res[a]
         \/ /\ call'[a].target = t /\ call'[a].pc = "stack" /\ call[a].pc = "retval"
            /\ res'[a].val = obj[t].val
  <2>1. call \in [Actors -> CallType] /\ res \in [Actors -> ResType]
    BY DEF IInv, Types
  <2>2. ASSUME NEW to \in {"joined", "unlock", "stack"}, call' = [call EXCEPT ![a].pc = to]
        PROVE  /\ call' \in [Actors -> CallType]
               /\ \A x \in Actors \ {a} : call'[x] = call[x]
               /\ call'[a].target = t /\ call'[a].pc = to
    BY <1>2, <2>1, <2>2 DEF CallType
  <2>3. CASE /\ UNCHANGED res
             /\ \E to \in {"joined", "unlock"} : call' = [call EXCEPT ![a].pc = to]
    BY <2>1, <2>2, <2>3
  <2>4. CASE /\ call' = [call EXCEPT ![a].pc = "stack"] /\ call[a].pc = "retval"
             /\ res' = [res EXCEPT ![a].val = obj[t].val]
    <3>1. /\ res' \in [Actors -> ResType] /\ res'[a].val = obj[t].val
          /\ \A x \in Actors \ {a} : res'[x] = res[x]
      BY <1>3, <2>1, <2>4 DEF ResType
    <3> QED BY <2>2, <2>4, <3>1
  <2> QED BY <1>4, <2>3, <2>4
<1>6. /\ obj' \in [Threads -> ObjType]
      /\ \A x \in Threads :
           /\ obj'[x].mem = obj[x].mem /\ obj'[x].stack = obj[x].stack
           /\ obj'[x].joinable = obj[x].joinable /\ obj'[x].val = obj[x].val
           /\ obj'[x].mux = obj[x].mux
  BY <1>3, <1>4 DEF IInv, Types, ObjType
<1>7. Types'
  BY <1>1, <1>5, <1>6 DEF IInv, Types
<1>8. NoLeak' /\ Shape' /\ CarefulInv'
  BY <1>1, <1>2, <1>5, <1>6, JoinAdvances DEF Joining, Inside
<1>9. JoinMutexHeld' /\ LockedOnce'
  BY <1>1, <1>2, <1>5, <1>6, MuxKept DEF Inside
<1> QED BY <1>7, <1>8, <1>9 DEF IInv

(* The unlock frees the mutex that the caller locked once. *)
LEMMA JoinUnlockIInv ==
  ASSUME IInv, NEW a \in Actors, JoinUnlock(a)
  PROVE  IInv'
<1>1. /\ Going /\ call[a].pc = "unlock" /\ call' = [call EXCEPT ![a].pc = "retval"]
      /\ UNCHANGED <<task, res, ids, careful, bad>>
  BY DEF JoinUnlock, Goto, Able
<1>2. PICK t \in Threads : call[a].target = t /\ obj[t].mem /\ obj[t].joinable
  BY <1>1, JoinTarget DEF Joining
<1>3. /\ obj[t].mux \in MutType /\ obj[t].mux.own \in Actors \cup {NoTask}
      /\ obj[t].mux.depth \in Nat
  BY DEF IInv, Types, ObjType, MutType
<1>4. PICK m \in MutUnlockOutcomes(obj[t].mux, a) : obj' = [obj EXCEPT ![t].mux = m]
  BY <1>2 DEF JoinUnlock
<1>5. m \in MutType
  BY <1>3, MutTypes
<1>6. /\ call' \in [Actors -> CallType]
      /\ \A x \in Actors \ {a} : call'[x] = call[x]
      /\ call'[a].target = t /\ call'[a].pc = "retval"
  BY <1>1, <1>2 DEF IInv, Types, CallType
<1>7. Types'
  BY <1>1, <1>4, <1>5, <1>6, MuxUpdate DEF IInv, Types
<1>8. NoLeak' /\ Shape' /\ CarefulInv'
  BY <1>1, <1>2, <1>4, <1>5, <1>6, MuxUpdate, JoinAdvances DEF Joining
<1>9. obj'[t].mux = m /\ \A x \in Threads \ {t} : obj'[x] = obj[x]
  BY <1>4, <1>5, MuxUpdate
<1>10. \/ m = obj[t].mux /\ obj[t].mux.own # a
       \/ m.own = obj[t].mux.own /\ m.depth = obj[t].mux.depth - 1 /\ obj[t].mux.depth > 1
       \/ m.own = NoTask /\ m.depth = 0
  BY <1>3 DEF MutUnlockOutcomes, MutReleased, MutFree, MutType
<1>11. obj[t].mux.depth > 1 => obj[t].mux.own = t
  BY <1>3 DEF IInv, LockedOnce
<1>12. JoinMutexHeld'
  BY <1>2, <1>6, <1>9, <1>10, <1>11, Names DEF IInv, JoinMutexHeld
<1>13. LockedOnce'
  BY <1>9, <1>10, <1>11, Names DEF IInv, LockedOnce
<1> QED BY <1>7, <1>8, <1>12, <1>13 DEF IInv

(* In a careful application the stack is there and the caller is the only   *)
(* one that frees it.                                                       *)
LEMMA JoinFreeStackIInv ==
  ASSUME IInv, NEW a \in Actors, JoinFreeStack(a)
  PROVE  IInv'
<1>1. /\ Going /\ call[a].pc = "stack" /\ call' = [call EXCEPT ![a].pc = "obj"]
      /\ UNCHANGED <<task, res, ids, careful>>
  BY DEF JoinFreeStack, Goto, Able
<1>2. PICK t \in Threads :
        /\ call[a].target = t /\ obj[t].mem /\ obj[t].joinable
        /\ \A x \in Actors : ~Creates(x, t)
  BY <1>1, JoinTarget DEF Joining
<1>3. /\ obj' = [obj EXCEPT ![t].stack = FALSE]
      /\ bad' = IF obj[t].stack THEN bad ELSE bad \cup {"doubleFree"}
  BY <1>2 DEF JoinFreeStack
<1>4. Types'
  <2>1. obj' \in [Threads -> ObjType]
    BY <1>3 DEF IInv, Types, ObjType
  <2>2. call' \in [Actors -> CallType]
    BY <1>1 DEF IInv, Types, CallType
  <2> QED BY <1>1, <1>3, <2>1, <2>2 DEF IInv, Types, Errors
<1>5. /\ \A x \in Threads \ {t} : obj'[x] = obj[x]
      /\ \A x \in Threads : /\ obj'[x].mem = obj[x].mem /\ obj'[x].mux = obj[x].mux
                            /\ obj'[x].joinable = obj[x].joinable
                            /\ obj'[x].val = obj[x].val
      /\ ~obj'[t].stack
      /\ \A x \in Actors \ {a} : call'[x] = call[x]
      /\ call'[a].pc = "obj" /\ call'[a].target = t
      /\ \A x \in Threads : Live(x)' <=> Live(x)
  BY <1>1, <1>2, <1>3 DEF IInv, Types, ObjType, CallType, Live
<1>6. JoinMutexHeld' /\ LockedOnce'
  BY <1>1, <1>5, MuxKept DEF Inside
<1>7. \A x \in Actors : CallShape(x)
  BY <1>1 DEF IInv, Shape
<1>8. \A x \in Threads : ThreadShape(x)
  BY <1>1 DEF IInv, Shape
<1>9. ASSUME NEW x \in Actors PROVE CallShape(x)'
  BY <1>1, <1>2, <1>5, <1>7, Names DEF CallShape, Creates, New
<1>10. ASSUME NEW x \in Threads PROVE ThreadShape(x)'
  <2>1. \A y \in Actors : Creates(y, x)' <=> Creates(y, x)
    BY <1>1, <1>5 DEF Creates, New
  <2> QED BY <1>1, <1>5, <1>8, <2>1 DEF ThreadShape
<1>11. NoLeak'
  BY <1>9, <1>10, ShapeNoLeak
<1>12. ASSUME careful' PROVE CarefulInv'
  <2>1. /\ careful /\ bad = {} /\ \A x \in Threads : CarefulThread(x)
        /\ \A x \in Actors : CarefulCall(x)
    BY <1>1, <1>12 DEF IInv, CarefulInv
  <2>2. a # t /\ ~Live(t) /\ obj[t].stack /\ \A x \in Actors : call[x].target = t => x = a
    BY <1>1, <1>2, <2>1 DEF CarefulCall, New
  <2>3. bad' = {}
    BY <1>3, <2>1, <2>2
  <2>4. ASSUME NEW x \in Threads PROVE CarefulThread(x)'
    BY <1>1, <1>2, <1>5, <2>1, <2>2 DEF CarefulThread
  <2>5. ASSUME NEW x \in Actors PROVE CarefulCall(x)'
    BY <1>1, <1>2, <1>5, <2>1, <2>2 DEF CarefulCall, New
  <2> QED BY <2>3, <2>4, <2>5 DEF CarefulInv
<1> QED BY <1>4, <1>6, <1>9, <1>10, <1>11, <1>12 DEF IInv, Shape, CarefulInv

(* The object is freed, with its mutex; nobody else is in a call on it when *)
(* the application is careful.                                              *)
LEMMA JoinFreeThreadIInv ==
  ASSUME IInv, NEW a \in Actors, JoinFreeThread(a)
  PROVE  IInv'
<1>1. Going /\ call[a].pc = "obj" /\ UNCHANGED <<task, careful, bad>>
  BY DEF JoinFreeThread, Able
<1>2. PICK t \in Threads :
        /\ call[a].target = t /\ obj[t].mem /\ obj[t].joinable
        /\ \A x \in Actors : ~Creates(x, t)
  BY <1>1, JoinTarget DEF Joining
<1>3. /\ obj' = [obj EXCEPT ![t] = Freed(t)]
      /\ call' = [x \in Actors |->
           IF x = a THEN NoCall ELSE IF call[x].target = t THEN Stale ELSE call[x]]
      /\ res' = [res EXCEPT ![a].code = "0"]
      /\ ids' = ids \ {t}
  BY <1>2 DEF JoinFreeThread
<1>4. Types
  BY DEF IInv
<1>5. Types'
  <2>1. NoCall \in CallType /\ Stale \in CallType
    BY DEF NoCall, Stale, CallType
  <2>2. call' \in [Actors -> CallType]
    BY <1>3, <1>4, <2>1 DEF Types
  <2>3. obj' \in [Threads -> ObjType] /\ res' \in [Actors -> ResType]
    BY <1>3, <1>4, FreedType DEF Types, ResType
  <2> QED BY <1>1, <1>3, <1>4, <2>2, <2>3 DEF Types
<1>6. /\ call'[a].pc = "idle" /\ call'[a].target = NoTask
      /\ \A x \in Actors \ {a} :
           IF call[x].target = t THEN call'[x].pc = "stale" /\ call'[x].target = NoTask
                                 ELSE call'[x] = call[x]
  BY <1>3 DEF NoCall, Stale
<1>7. /\ \A x \in Threads \ {t} : obj'[x] = obj[x]
      /\ ~obj'[t].mem /\ ~obj'[t].joinable /\ obj'[t].mux = MutFree
      /\ obj'[t].stack = obj[t].stack
      /\ \A x \in Threads : Live(x)' <=> Live(x)
  <2>1. obj'[t] = Freed(t)
    BY <1>3, <1>4 DEF Types
  <2> QED BY <1>1, <1>3, <1>4, <2>1, FreedType DEF Types, Live
<1>8. /\ \A x \in Actors \ {a} : res'[x] = res[x]
      /\ res'[a].val = res[a].val
  BY <1>3, <1>4 DEF Types, ResType
<1>9. JoinMutexHeld' /\ LockedOnce'
  BY <1>1, <1>2, <1>6, <1>7, MuxKept DEF Inside
<1>10. \A x \in Actors : CallShape(x)
  BY <1>1 DEF IInv, Shape
<1>11. \A x \in Threads : ThreadShape(x)
  BY <1>1 DEF IInv, Shape
<1>12. ASSUME NEW x \in Actors PROVE CallShape(x)'
  BY <1>1, <1>2, <1>3, <1>6, <1>7, <1>10, Names DEF CallShape, New
<1>13. ~obj[t].stack
  BY <1>1, <1>2, <1>10 DEF CallShape
<1>14. ASSUME NEW x \in Threads PROVE ThreadShape(x)'
  <2>1. x # t => \A y \in Actors : Creates(y, x)' <=> Creates(y, x)
    BY <1>1, <1>2, <1>6, Names DEF Creates, New
  <2>2. ~(task[t] \in Dying)
    BY <1>2, <1>11 DEF ThreadShape
  <2> QED BY <1>1, <1>3, <1>7, <1>11, <1>13, <2>1, <2>2 DEF ThreadShape, Dying
<1>15. NoLeak'
  BY <1>12, <1>14, ShapeNoLeak
<1>16. ASSUME careful' PROVE CarefulInv'
  <2>1. /\ careful /\ bad' = {} /\ \A x \in Threads : CarefulThread(x)
        /\ \A x \in Actors : CarefulCall(x)
    BY <1>1, <1>16 DEF IInv, CarefulInv
  <2>2. /\ a # t /\ ~Live(t) /\ res[a].val = "value"
        /\ \A x \in Actors : call[x].target = t => x = a
    BY <1>1, <1>2, <2>1 DEF CarefulCall, New
  <2>3. \A x \in Actors \ {a} : call'[x] = call[x]
    BY <1>6, <2>2
  <2>4. ASSUME NEW x \in Threads PROVE CarefulThread(x)'
    BY <1>1, <1>2, <1>3, <1>6, <1>7, <2>1, <2>2, <2>3, Names DEF CarefulThread, Live, Exiting
  <2>5. ASSUME NEW x \in Actors PROVE CarefulCall(x)'
    BY <1>1, <1>2, <1>6, <1>7, <1>8, <2>1, <2>2, <2>3, Names DEF CarefulCall, New
  <2> QED BY <2>1, <2>4, <2>5 DEF CarefulInv
<1> QED BY <1>5, <1>9, <1>12, <1>14, <1>15, <1>16 DEF IInv, Shape, CarefulInv

-----------------------------------------------------------------------------
(* A careful application never gets here. *)
LEMMA UseAfterFreeIInv ==
  ASSUME IInv, NEW a \in Actors, UseAfterFree(a)
  PROVE  IInv'
<1>1. /\ bad' = bad \cup {"useAfterFree"} /\ UNCHANGED <<obj, task, call, res, ids, careful>>
      /\ \/ call[a].pc = "stale"
         \/ a # Main /\ Live(a) /\ ~Housed(a)
  BY DEF UseAfterFree
<1>2. Types' /\ ~Going'
  BY <1>1 DEF IInv, Types, Errors, Going
<1>3. ~careful
  BY <1>1 DEF IInv, CarefulInv, CarefulCall, CarefulThread, Housed, Actors
<1> QED
  BY <1>1, <1>2, <1>3 DEF IInv, NoLeak, JoinMutexHeld, LockedOnce, Shape, CarefulInv, Live

LEMMA NextIInv == ASSUME IInv, [Next]_vars PROVE IInv'
<1>1. CASE UNCHANGED vars
  BY <1>1
  DEF vars, IInv, Types, NoLeak, JoinMutexHeld, LockedOnce, Shape, CallShape, ThreadShape,
      Creates, CarefulInv, CarefulThread, CarefulCall, Live, Going
<1>2. ASSUME NEW a \in Actors, NEW t \in Threads,
             \/ \E joinable \in BOOLEAN : CreateAlloc(a, t, joinable)
             \/ JoinEnter(a, t)
      PROVE  IInv'
  BY <1>2, CreateAllocIInv, JoinEnterIInv
<1>3. ASSUME NEW a \in Actors, CreateNoMemory(a) \/ CreateStep(a) PROVE IInv'
  BY <1>3, CreateNoMemoryIInv, CreateStackIInv, CreateGivesUpIInv, CreateTaskIInv
  DEF CreateStep
<1>4. ASSUME NEW a \in Actors, JoinStep(a) \/ UseAfterFree(a) PROVE IInv'
  BY <1>4, JoinLockIInv, JoinMiddleIInv, JoinUnlockIInv, JoinFreeStackIInv,
     JoinFreeThreadIInv, UseAfterFreeIInv
  DEF JoinStep
<1>5. ASSUME NEW t \in Threads, RoutineReturns(t) \/ PthreadExit(t) \/ ExitStep(t)
      PROVE  IInv'
  BY <1>5, LeaveIInv, ExitSemsIInv, ExitFreeStackIInv, ExitFreeThreadIInv,
     RunThreadReturnsIInv
  DEF ExitStep
<1> QED BY <1>1, <1>2, <1>3, <1>4, <1>5 DEF Next

LEMMA Invariance == Spec => []IInv
  BY InitIInv, NextIInv, PTL DEF Spec

-----------------------------------------------------------------------------
(* The types hold: no semaphore of a thread is counted below zero.          *)
THEOREM TypeCorrect == Spec => []TypeOK
<1>1. IInv => TypeOK
  BY DEF IInv, Types, TypeOK, ObjType, MutType, Tasks, CallType, ResType, Errors
<1> QED BY <1>1, Invariance, PTL

(* Whatever the application does, and on every error path of                *)
(* pthread_create, memory that is allocated has an owner who will free it.  *)
THEOREM NothingLeaks == Spec => []NoLeak
<1>1. IInv => NoLeak
  BY DEF IInv
<1> QED BY <1>1, Invariance, PTL

(* A join before the task has ended, a second join, the end of a detached   *)
(* thread and a full heap are the only ways to a memory error, for any      *)
(* number of threads.                                                       *)
THEOREM MemoryIsSafe == Spec => []MemorySafe
<1>1. IInv => MemorySafe
  BY DEF IInv, CarefulInv, MemorySafe
<1> QED BY <1>1, Invariance, PTL

(* A careful application gets the value of the routine from pthread_join.   *)
THEOREM RetvalIsDelivered == Spec => []RetvalDelivered
<1>1. IInv => RetvalDelivered
  BY DEF IInv, CarefulInv, CarefulCall, RetvalDelivered
<1> QED BY <1>1, Invariance, PTL

(* The join mutex of a thread is only ever held by a pthread_join under way *)
(* or by a thread that tried to join itself.                                *)
THEOREM JoinMutexIsHeld == Spec => []JoinMutexHeld
<1>1. IInv => JoinMutexHeld
  BY DEF IInv
<1> QED BY <1>1, Invariance, PTL

=============================================================================
