----------------------------- MODULE PthreadLife ----------------------------
(***************************************************************************)
(* src/src/posix_pthread.c: the life of threads from pthread_create over   *)
(* pthread_exit to pthread_join, with the memory they live in.             *)
(*                                                                         *)
(* A thread is its pthread_internal_t: a block of the heap that also holds *)
(* the kernel task, with a second block for the stack.  Main is a task of  *)
(* the application that is no pthread.  Every access to a block that       *)
(* somebody else can reach is a step of its own.                           *)
(*                                                                         *)
(* Memory.  A thread whose stack or object was freed still runs on it.     *)
(* What it does then besides ending is a use after free, and so is the     *)
(* next step of a call on a thread that somebody else has freed.  After    *)
(* that, after a double free, a write through a null pointer, or when the  *)
(* heap hands out memory that a task still runs on, nothing is known about *)
(* the program: the model records the error and stops.                     *)
(***************************************************************************)
EXTENDS HcosKernel

CONSTANT
  Main          \* the task that creates the first thread

(* A thread is named by the block that can hold its pthread_internal_t. *)
ASSUME LifeAssumption == Main \notin Threads \cup {NoTask}

VARIABLES
  obj,      \* obj[t]: the pthread_internal_t in block t
  task,     \* task[t]: where the task of t is
  call,     \* call[a]: the pthread_create or pthread_join that a is in
  res,      \* res[a]: result of a's last pthread_join and the *retval it got
  ids,      \* the joinable threads the application knows and has not joined
  careful,  \* history: has the application joined threads only once and after
            \* their tasks ended, kept detached threads from ending, and had
            \* memory for its threads?
  bad       \* history: memory errors

vars == <<obj, task, call, res, ids, careful, bad>>

Actors == Threads \cup {Main}

NoCall == [pc |-> "idle", target |-> NoTask]

(* A call on a thread that was freed under it: the pointer it holds dangles,*)
(* whatever the block is used for now.                                      *)
Stale == [pc |-> "stale", target |-> NoTask]

NoResult == [code |-> "none", val |-> "unset"]

(* An unused block, whose contents no longer matter: an access is an error. *)
(* mem, stack: are the object and the stack allocated?                      *)
(* val: thread->ret, "unset" until the routine returns or exits.            *)
Unused == [mem |-> FALSE, stack |-> FALSE, joinable |-> FALSE,
           mux |-> MutFree, barrier |-> 0, joined |-> 0, val |-> "unset"]

Init ==
  /\ obj = [t \in Threads |-> Unused]
  /\ task = [t \in Threads |-> "none"]
  /\ call = [a \in Actors |-> NoCall]
  /\ res = [a \in Actors |-> NoResult]
  /\ ids = {}
  /\ careful = TRUE
  /\ bad = {}

Live(t) == task[t] \notin {"none", "ended"}

(* Running on freed memory that nobody else uses yet has no effect. *)
Going == bad \subseteq {"runsFreed"}

(* The actor runs on memory that is its own. *)
Housed(a) == a # Main => obj[a].mem /\ obj[a].stack

Able(a) == Going /\ Housed(a)

(* An actor can call libposix: it runs its routine and is in no other call. *)
CanCall(a) == Able(a) /\ call[a] = NoCall /\ (a # Main => task[a] = "run")

Goto(a, from, to) ==
  /\ Able(a) /\ call[a].pc = from
  /\ call' = [call EXCEPT ![a].pc = to]

(* What is left of block t when its object is freed *)
Freed(t) == [Unused EXCEPT !.stack = obj[t].stack]

-----------------------------------------------------------------------------
(* What pthread_create puts into the object before it has a stack.  Both    *)
(* semaphores of a joinable thread start at 1.                              *)
Created(joinable) ==
  [mem |-> TRUE, stack |-> FALSE, joinable |-> joinable, mux |-> MutFree,
   barrier |-> IF joinable THEN 1 ELSE 0,
   joined  |-> IF joinable THEN 1 ELSE 0, val |-> "unset"]

(* The heap hands out block t, perhaps while the task of a thread that was  *)
(* freed still runs: memset then clears a task the kernel uses.  (Without   *)
(* an allocator pthread_create returns at once.)                            *)
CreateAlloc(a, t, joinable) ==
  /\ CanCall(a) /\ ~obj[t].mem
  /\ obj' = [obj EXCEPT ![t] = Created(joinable)]
  /\ call' = [call EXCEPT ![a] = [pc |-> "newstack", target |-> t]]
  /\ bad' = IF Live(t) THEN bad \cup {"overwritten"} ELSE bad
  /\ UNCHANGED <<task, res, ids, careful>>

(* No memory for the object: memset clears it before the test for null.     *)
CreateNoMemory(a) ==
  /\ CanCall(a)
  /\ careful' = FALSE
  /\ bad' = bad \cup {"nullWrite"}
  /\ UNCHANGED <<obj, task, call, res, ids>>

(* The stack is allocated, perhaps from memory that a task still runs on. *)
CreateStack(a) ==
  LET t == call[a].target
  IN  /\ Goto(a, "newstack", "newtask")
      /\ obj' = [obj EXCEPT ![t].stack = TRUE]
      /\ \/ UNCHANGED bad
         \/ /\ \E x \in Threads : Live(x) /\ ~obj[x].stack
            /\ bad' = bad \cup {"overwritten"}
      /\ UNCHANGED <<task, res, ids, careful>>

(* A pthread_create that fails and keeps the object. *)
CreateNoStack_Leaks(a) ==
  /\ Able(a) /\ call[a].pc = "newstack"
  /\ call' = [call EXCEPT ![a] = NoCall]
  /\ UNCHANGED <<obj, task, res, ids, careful, bad>>

(* No memory for the stack: the object is freed, EAGAIN *)
CreateNoStack(a) ==
  /\ Able(a) /\ call[a].pc = "newstack"
  /\ obj' = [obj EXCEPT ![call[a].target] = Freed(call[a].target)]
  /\ call' = [call EXCEPT ![a] = NoCall]
  /\ UNCHANGED <<task, res, ids, careful, bad>>

(* task_init starts the task *)
CreateTask(a) ==
  LET t == call[a].target
  IN  /\ Able(a) /\ call[a].pc = "newtask"
      /\ task' = [task EXCEPT ![t] = "run"]
      /\ res' = [res EXCEPT ![t] = NoResult]
      /\ ids' = IF obj[t].joinable THEN ids \cup {t} ELSE ids
      /\ call' = [call EXCEPT ![a] = NoCall]
      /\ UNCHANGED <<obj, careful, bad>>

(* task_init fails: stack and object, known to nobody, are freed, EAGAIN *)
CreateNoTask(a) ==
  /\ Able(a) /\ call[a].pc = "newtask"
  /\ obj' = [obj EXCEPT ![call[a].target] = Unused]
  /\ call' = [call EXCEPT ![a] = NoCall]
  /\ UNCHANGED <<task, res, ids, careful, bad>>

-----------------------------------------------------------------------------
(* An exit_thread that mistakes detached threads for joinable ones. *)
EnterExit_Inverted(t, from) ==
  /\ task' = [task EXCEPT ![t] =
       IF obj[t].joinable THEN IF from = "return" THEN "stack" ELSE "xstack"
                          ELSE IF from = "return" THEN "post" ELSE "xpost"]
  /\ careful' = (careful /\ obj[t].joinable)

(* exit_thread up to its first action on a semaphore or the heap *)
EnterExit(t, from) ==
  /\ task' = [task EXCEPT ![t] =
       CASE obj[t].joinable /\ from = "return"  -> "post"
         [] obj[t].joinable /\ from = "exit"    -> "xpost"
         [] ~obj[t].joinable /\ from = "return" -> "stack"
         [] ~obj[t].joinable /\ from = "exit"   -> "xstack"]
  /\ careful' = (careful /\ obj[t].joinable)

(* A routine's return value that is not kept. *)
RoutineReturns_Drops(t) ==
  /\ CanCall(t)
  /\ EnterExit(t, "return")
  /\ UNCHANGED <<obj, call, res, ids, bad>>

(* The thread routine returns to run_thread *)
RoutineReturns(t) ==
  /\ CanCall(t)
  /\ obj' = [obj EXCEPT ![t].val = "value"]
  /\ EnterExit(t, "return")
  /\ UNCHANGED <<call, res, ids, bad>>

(* The thread routine calls pthread_exit *)
PthreadExit(t) ==
  /\ CanCall(t)
  /\ obj' = [obj EXCEPT ![t].val = "value"]
  /\ EnterExit(t, "exit")
  /\ UNCHANGED <<call, res, ids, bad>>

(* exit_thread of a joinable thread: sem_post(&thread->barrier) *)
ExitPost(t) ==
  /\ Able(t) /\ task[t] \in {"post", "xpost"}
  /\ obj' = [obj EXCEPT ![t].barrier = @ + 1]
  /\ task' = [task EXCEPT ![t] = IF @ = "post" THEN "get" ELSE "xget"]
  /\ UNCHANGED <<call, res, ids, careful, bad>>

(* An exit_thread that counts joined down without waiting for it. *)
ExitGet_NoWait(t) ==
  /\ Able(t) /\ task[t] \in {"get", "xget"}
  /\ obj' = [obj EXCEPT ![t].joined = @ - 1]
  /\ task' = [task EXCEPT ![t] = IF @ = "get" THEN "leave" ELSE "run"]
  /\ UNCHANGED <<call, res, ids, careful, bad>>

(* sem_get(&thread->joined, WAIT).  exit_thread then returns: to run_thread,*)
(* or through pthread_exit to the thread routine.                           *)
ExitGet(t) ==
  /\ Able(t) /\ task[t] \in {"get", "xget"}
  /\ obj[t].joined > 0
  /\ obj' = [obj EXCEPT ![t].joined = @ - 1]
  /\ task' = [task EXCEPT ![t] = IF @ = "get" THEN "leave" ELSE "run"]
  /\ UNCHANGED <<call, res, ids, careful, bad>>

(* exit_thread of a detached thread frees the stack it runs on, *)
ExitFreeStack(t) ==
  /\ Able(t) /\ task[t] \in {"stack", "xstack"}
  /\ obj' = [obj EXCEPT ![t].stack = FALSE]
  /\ task' = [task EXCEPT ![t] = IF @ = "stack" THEN "obj" ELSE "xobj"]
  /\ UNCHANGED <<call, res, ids, careful, bad>>

(* and then, still running on it, the object with its own kernel task. *)
ExitFreeThread(t) ==
  /\ Going /\ task[t] \in {"obj", "xobj"}
  /\ obj' = [obj EXCEPT ![t] = Freed(t)]
  /\ task' = [task EXCEPT ![t] = IF @ = "obj" THEN "leave" ELSE "run"]
  /\ bad' = bad \cup {"runsFreed"}
  /\ UNCHANGED <<call, res, ids, careful>>

(* run_thread returns to the kernel, which ends the task.  It runs on the   *)
(* stack, and the kernel uses the task, until then.                         *)
RunThreadReturns(t) ==
  /\ Going /\ task[t] = "leave"
  /\ task' = [task EXCEPT ![t] = "ended"]
  /\ bad' = IF Housed(t) THEN bad ELSE bad \cup {"runsFreed"}
  /\ UNCHANGED <<obj, call, res, ids, careful>>

-----------------------------------------------------------------------------
JoinReturn(a, code, val) ==
  /\ call' = [call EXCEPT ![a] = NoCall]
  /\ res' = [res EXCEPT ![a] = [code |-> code, val |-> val]]

(* pthread_join is called, for a joinable thread that was not joined yet or *)
(* for one that runs.  A thread that is not joinable is refused.            *)
JoinEnter(a, t) ==
  /\ CanCall(a)
  /\ t \in ids \/ Live(t)
  /\ careful' = (careful /\ (a = t \/ (~Live(t) /\ \A x \in Actors : call[x].target # t)))
  /\ bad' = IF obj[t].mem THEN bad ELSE bad \cup {"useAfterFree"}
  /\ \/ /\ obj[t].joinable
        /\ call' = [call EXCEPT ![a] = [pc |-> "lock", target |-> t]]
        /\ res' = [res EXCEPT ![a] = NoResult]
     \/ ~obj[t].joinable /\ JoinReturn(a, "EDEADLK", "unset")
  /\ UNCHANGED <<obj, task, ids>>

(* mut_lock(&thread->mux, WAIT_NO), and the test for the caller itself,     *)
(* which returns without unlocking.                                         *)
JoinLock(a) ==
  LET t == call[a].target
  IN  /\ Able(a) /\ call[a].pc = "lock"
      /\ \/ /\ ~MutAvailable(obj[t].mux, a)
            /\ JoinReturn(a, "EDEADLK", "unset")
            /\ UNCHANGED obj
         \/ /\ MutAvailable(obj[t].mux, a)
            /\ obj' = [obj EXCEPT ![t].mux = MutTaken(@, a)]
            /\ \/ a = t /\ JoinReturn(a, "EDEADLK", "unset")
               \/ a # t /\ Goto(a, "lock", "barrier") /\ UNCHANGED res
      /\ UNCHANGED <<task, ids, careful, bad>>

(* sem_get(&thread->barrier, WAIT) *)
JoinBarrier(a) ==
  LET t == call[a].target
  IN  /\ Goto(a, "barrier", "joined")
      /\ obj[t].barrier > 0
      /\ obj' = [obj EXCEPT ![t].barrier = @ - 1]
      /\ UNCHANGED <<task, res, ids, careful, bad>>

(* sem_post(&thread->joined) *)
JoinPost(a) ==
  LET t == call[a].target
  IN  /\ Goto(a, "joined", "unlock")
      /\ obj' = [obj EXCEPT ![t].joined = @ + 1]
      /\ UNCHANGED <<task, res, ids, careful, bad>>

(* A pthread_join that does not give the join mutex back. *)
JoinUnlock_Forgets(a) ==
  /\ Goto(a, "unlock", "retval")
  /\ UNCHANGED <<obj, task, res, ids, careful, bad>>

(* mut_unlock(&thread->mux) *)
JoinUnlock(a) ==
  LET t == call[a].target
  IN  /\ Goto(a, "unlock", "retval")
      /\ \E m \in MutUnlockOutcomes(obj[t].mux, a) :
           obj' = [obj EXCEPT ![t].mux = m]
      /\ UNCHANGED <<task, res, ids, careful, bad>>

(* *retval = thread->ret *)
JoinRetval(a) ==
  /\ Goto(a, "retval", "stack")
  /\ res' = [res EXCEPT ![a].val = obj[call[a].target].val]
  /\ UNCHANGED <<obj, task, ids, careful, bad>>

JoinFreeStack(a) ==
  LET t == call[a].target
  IN  /\ Goto(a, "stack", "obj")
      /\ bad' = IF obj[t].stack THEN bad ELSE bad \cup {"doubleFree"}
      /\ obj' = [obj EXCEPT ![t].stack = FALSE]
      /\ UNCHANGED <<task, res, ids, careful>>

(* The object is freed, under whoever else is in a call on it. *)
JoinFreeThread(a) ==
  LET t == call[a].target
  IN  /\ Able(a) /\ call[a].pc = "obj"
      /\ obj' = [obj EXCEPT ![t] = Freed(t)]
      /\ call' = [x \in Actors |->
           IF x = a THEN NoCall ELSE IF call[x].target = t THEN Stale ELSE call[x]]
      /\ res' = [res EXCEPT ![a].code = "0"]
      /\ ids' = ids \ {t}
      /\ UNCHANGED <<task, careful, bad>>

-----------------------------------------------------------------------------
(* A step on memory that was freed: of a call whose thread somebody else    *)
(* freed, waiting for its semaphore or mutex included, or of a thread that  *)
(* was freed before it came to its end.                                     *)
UseAfterFree(a) ==
  /\ Going
  /\ \/ call[a].pc = "stale"
     \/ /\ a # Main /\ Live(a) /\ task[a] \notin {"obj", "xobj", "leave"}
        /\ ~Housed(a)
  /\ bad' = bad \cup {"useAfterFree"}
  /\ UNCHANGED <<obj, task, call, res, ids, careful>>

CreateStep(a) ==
  CreateStack(a) \/ CreateNoStack(a) \/ CreateTask(a) \/ CreateNoTask(a)

JoinStep(a) ==
  \/ JoinLock(a) \/ JoinBarrier(a) \/ JoinPost(a) \/ JoinUnlock(a)
  \/ JoinRetval(a) \/ JoinFreeStack(a) \/ JoinFreeThread(a)

ExitStep(t) ==
  \/ ExitPost(t) \/ ExitGet(t) \/ ExitFreeStack(t) \/ ExitFreeThread(t)
  \/ RunThreadReturns(t)

Next ==
  \/ \E a \in Actors :
       \/ \E t \in Threads :
            \/ \E joinable \in BOOLEAN : CreateAlloc(a, t, joinable)
            \/ JoinEnter(a, t)
       \/ CreateNoMemory(a) \/ CreateStep(a) \/ JoinStep(a) \/ UseAfterFree(a)
  \/ \E t \in Threads : RoutineReturns(t) \/ PthreadExit(t) \/ ExitStep(t)

Spec == Init /\ [][Next]_vars

-----------------------------------------------------------------------------
(* Types. *)
TypeOK ==
  /\ obj \in [Threads ->
       [mem : BOOLEAN, stack : BOOLEAN, joinable : BOOLEAN,
        mux : [own : Actors \cup {NoTask}, depth : Nat],
        barrier : Nat, joined : Nat, val : {"unset", "value"}]]
  /\ task \in [Threads -> {"none", "run", "post", "xpost", "get", "xget",
                           "stack", "xstack", "obj", "xobj", "leave", "ended"}]
  /\ call \in [Actors ->
       [pc : {"idle", "stale", "newstack", "newtask", "lock", "barrier", "joined",
              "unlock", "retval", "stack", "obj"}, target : Threads \cup {NoTask}]]
  /\ res \in [Actors -> [code : {"none", "0", "EDEADLK"},
                         val : {"unset", "value"}]]
  /\ ids \subseteq Threads
  /\ careful \in BOOLEAN
  /\ bad \subseteq {"useAfterFree", "doubleFree", "nullWrite", "runsFreed",
                   "overwritten"}

(* These are the only ways to a memory error: a join by another thread      *)
(* before the task has ended, a second join, the end of a detached thread   *)
(* (which frees what it runs on), and a heap without room for a thread.     *)
(* Joins of oneself, pthread_exit, failing creations, and blocks that are   *)
(* used again for new threads do no harm, in whatever order they come.      *)
MemorySafe == careful => bad = {}

(* Nothing leaks, whatever the application does: what is allocated belongs  *)
(* to a thread that is being created, still runs or was not joined yet, and *)
(* a stack never outlives its object, on the error paths of pthread_create  *)
(* as well.                                                                 *)
NoLeak ==
  \A t \in Threads :
    /\ obj[t].mem =>
         \/ Live(t) \/ t \in ids
         \/ \E a \in Actors : call[a].target = t /\ call[a].pc \in {"newstack", "newtask"}
    /\ obj[t].stack => obj[t].mem

(* A join that succeeds hands over the value of the routine, as long as the *)
(* application is careful: no thread that was created later in the same     *)
(* block, and no creation that failed there, comes in between.              *)
RetvalDelivered ==
  careful => \A a \in Actors : res[a].code = "0" => res[a].val = "value"

(* The join mutex is held by a pthread_join between its lock and its        *)
(* unlock, or by the thread itself, which then has tried to join itself:    *)
(* no other path leaves it locked, whatever the application does.           *)
JoinMutexHeld ==
  \A t \in Threads : \A a \in Actors : obj[t].mux.own = a =>
    \/ a = t
    \/ call[a].target = t /\ call[a].pc \in {"barrier", "joined", "unlock"}

-----------------------------------------------------------------------------
(* Statements of the sources that the code does not keep. *)

(* posix_pthread.c:341, "Wait for the joining thread to finish."            *)
JoinWaits ==
  \A a \in Actors :
    call[a].pc \in {"joined", "unlock", "retval", "stack", "obj"} =>
      task[call[a].target] # "run"

(* posix_pthread.c:73, "For joinable threads, this function waits for       *)
(* pthread_join.": a joinable thread does not end before a join has begun.  *)
ExitWaits ==
  [][\A t \in Threads :
       task[t] = "get" /\ task'[t] = "leave" =>
         \E a \in Actors : call[a].target = t]_vars

(* posix_pthread.c:74, "Otherwise, it deletes the thread and frees up       *)
(* resources used by the thread.": not while it uses them.                  *)
ExitFreesUnused == \A t \in Threads : task[t] \in {"obj", "xobj"} => Housed(t)

(* posix_pthread.c:76, exit_thread "does not return": a thread that has     *)
(* begun to exit does not run its routine again.                            *)
ExitDoesNotReturn ==
  [][\A t \in Threads :
       task[t] \in {"xpost", "xget", "xstack", "xobj"} => task'[t] # "run"]_vars

(* posix_pthread.c:324, "Only one thread may attempt to join another": no   *)
(* two callers get beyond the join mutex of the same thread.                *)
OneJoiner ==
  LET Joiners(t) ==
        {a \in Actors : call[a].target = t /\ call[a].pc \notin {"lock", "newstack", "newtask"}}
  IN  \A t \in Threads : \A a, x \in Joiners(t) : a = x

(* posix_pthread.c:328, "Another thread has already joined the requested    *)
(* thread" is why the join mutex is found locked.                           *)
LockedMeansJoined ==
  \A t \in Threads :
    (obj[t].mem /\ obj[t].mux.own # NoTask) =>
      \E a \in Actors : call[a].target = t

(* posix_pthread.c:226, "No memory.": a failed allocation returns EAGAIN    *)
(* and does nothing else.                                                   *)
NoNullWrite == "nullWrite" \notin bad

=============================================================================
