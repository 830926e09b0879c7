------------------------ MODULE PthreadBarrierProofs ------------------------
(***************************************************************************)
(* Proofs about PthreadBarrier, for any finite set of threads and any      *)
(* counts: its safety properties, and that it implements Rendezvous.       *)
(***************************************************************************)
EXTENDS PthreadBarrier, FiniteSetTheorems, TLAPS

(* The threads that were counted in since the barrier was initialized *)
Arrived == Inside \cup gone

(* cur_thread is their number, and nobody is inside who has passed. *)
Counted ==
  /\ Cardinality(Arrived) = b.cur_thread
  /\ Inside \cap gone = {}

(* Only a full barrier is opened: somebody is about to post, has posted, or *)
(* has passed.                                                              *)
OpenIsFull ==
  (b.sem > 0 \/ gone # {} \/ \E t \in Threads : pc[t] = "post") =>
     b.cur_thread = b.threshold

(* Exactly one of the threads counted in was the first. *)
FirstIsUnique ==
  b.cur_thread > 0 =>
    \E f \in Arrived : \A t \in Arrived : cur[t] = 1 <=> t = f

(* A thread that was counted in has a number. *)
Numbered == \A t \in Arrived : cur[t] > 0

SerialIsFirst == serial = {t \in gone : cur[t] = 1}

(* The inductive invariant *)
IInv ==
  /\ TypeOK
  /\ Counted
  /\ OpenIsFull
  /\ FirstIsUnique
  /\ Numbered
  /\ SerialIsFirst
  /\ NoStranded

-----------------------------------------------------------------------------
LEMMA ArrivedFinite ==
  ASSUME TypeOK
  PROVE  /\ IsFiniteSet(Arrived) /\ Cardinality(Arrived) \in Nat
         /\ IsFiniteSet(Inside)  /\ Cardinality(Inside) \in Nat
         /\ IsFiniteSet(gone)    /\ Cardinality(gone) \in Nat
         /\ Cardinality(Inside) <= Cardinality(Arrived)
<1>1. Arrived \in SUBSET Threads /\ Inside \in SUBSET Threads
      /\ gone \in SUBSET Threads /\ Inside \in SUBSET Arrived
  BY DEF Arrived, Inside, TypeOK
<1> QED BY <1>1, BarrierAssumption, FS_Subset, FS_CardinalityType

LEMMA InitIInv == Init => IInv
<1> SUFFICES ASSUME Init PROVE IInv
  OBVIOUS
<1>1. TypeOK
  BY DEF Init, TypeOK, Labels
<1>2. Inside = {} /\ Arrived = {} /\ gone = {} /\ serial = {}
  BY DEF Init, Inside, Arrived
<1>3. Cardinality({}) = 0
  BY FS_EmptySet
<1> QED
  BY <1>1, <1>2, <1>3
  DEF Init, IInv, Counted, OpenIsFull, FirstIsUnique, Numbered, SerialIsFirst,
      NoStranded

LEMMA BarrierInitIInv ==
  ASSUME IInv, NEW count \in Counts, BarrierInit(count)
  PROVE  IInv'
<1>1. CASE count = 0
  <2>1. UNCHANGED vars
    BY <1>1 DEF BarrierInit, vars
  <2> QED BY <2>1 DEF vars, IInv, TypeOK, Counted, OpenIsFull, FirstIsUnique,
                      Numbered, SerialIsFirst, NoStranded, Arrived, Inside
<1>2. CASE count # 0
  <2>1. TypeOK'
    BY <1>2, BarrierAssumption DEF BarrierInit, IInv, TypeOK
  <2>2. Inside' = {} /\ Arrived' = {} /\ gone' = {} /\ serial' = {}
    BY <1>2 DEF BarrierInit, Inside, Arrived
  <2>3. b' = [cur_thread |-> 0, threshold |-> count, sem |-> 0]
        /\ count \in Nat /\ count > 0
    BY <1>2, BarrierAssumption DEF BarrierInit
  <2>4. \A t \in Threads : pc'[t] = "idle"
    BY <2>2 DEF Inside
  <2>5. Cardinality({}) = 0
    BY FS_EmptySet
  <2> QED
    BY <2>1, <2>2, <2>3, <2>4, <2>5
    DEF IInv, Counted, OpenIsFull, FirstIsUnique, Numbered, SerialIsFirst,
        NoStranded
<1> QED BY <1>1, <1>2

(* A thread that is let in was not counted in before. *)
LEMMA EnterArrives ==
  ASSUME IInv, NEW t \in Threads, pc[t] = "idle", b.cur_thread < b.threshold
  PROVE  t \notin Arrived /\ gone = {} /\ b.sem = 0
  BY DEF IInv, TypeOK, OpenIsFull, Arrived, Inside

LEMMA WaitEnterIInv ==
  ASSUME IInv, NEW t \in Threads, WaitEnter(t)
  PROVE  IInv'
<1>1. CASE b.cur_thread >= b.threshold
  <2>1. UNCHANGED vars
    BY <1>1 DEF WaitEnter, vars, IInv, TypeOK
  <2> QED BY <2>1 DEF vars, IInv, TypeOK, Counted, OpenIsFull, FirstIsUnique,
                      Numbered, SerialIsFirst, NoStranded, Arrived, Inside
<1>2. CASE b.cur_thread < b.threshold
  <2>1. /\ b' = [b EXCEPT !.cur_thread = @ + 1]
        /\ cur' = [cur EXCEPT ![t] = b.cur_thread + 1]
        /\ pc' = [pc EXCEPT ![t] = "test"]
        /\ UNCHANGED <<gone, serial>>
        /\ pc[t] = "idle"
    BY <1>2 DEF WaitEnter, IInv, TypeOK
  <2>2. t \notin Arrived /\ gone = {} /\ b.sem = 0
    BY <1>2, <2>1, EnterArrives
  <2>3. TypeOK'
    BY <1>2, <2>1 DEF IInv, TypeOK, Labels
  <2>4. Inside' = Inside \cup {t} /\ Arrived' = Arrived \cup {t}
    BY <2>1 DEF Inside, Arrived, IInv, TypeOK
  <2>5. Cardinality(Arrived') = b'.cur_thread
    <3>1. Cardinality(Arrived \cup {t}) = Cardinality(Arrived) + 1
      BY <2>2, ArrivedFinite, FS_AddElement DEF IInv
    <3> QED BY <2>1, <2>4, <3>1 DEF IInv, TypeOK, Counted
  <2>6. Counted'
    BY <2>1, <2>2, <2>5 DEF Counted
  <2>7. OpenIsFull'
    BY <1>2, <2>1, <2>2 DEF OpenIsFull, IInv, TypeOK
  <2>8. Numbered'
    BY <2>1, <2>2, <2>4 DEF Numbered, IInv, TypeOK
  <2>9. FirstIsUnique'
    <3>1. CASE b.cur_thread = 0
      <4>1. Arrived = {}
        BY <3>1, ArrivedFinite, FS_EmptySet DEF IInv, Counted
      <4> QED BY <2>1, <2>4, <3>1, <4>1 DEF FirstIsUnique, IInv, TypeOK
    <3>2. CASE b.cur_thread > 0
      <4>1. PICK f \in Arrived : \A u \in Arrived : cur[u] = 1 <=> u = f
        BY <3>2 DEF IInv, FirstIsUnique
      <4>2. \A u \in Arrived' : cur'[u] = 1 <=> u = f
        BY <2>1, <2>2, <2>4, <3>2, <4>1 DEF IInv, TypeOK, Arrived, Inside
      <4> QED BY <2>4, <4>1, <4>2 DEF FirstIsUnique
    <3> QED BY <3>1, <3>2 DEF IInv, TypeOK
  <2>10. SerialIsFirst'
    BY <2>1, <2>2 DEF IInv, SerialIsFirst
  <2>11. NoStranded'
    BY <2>1 DEF NoStranded, IInv, TypeOK
  <2> QED BY <2>3, <2>6, <2>7, <2>8, <2>9, <2>10, <2>11 DEF IInv
<1> QED BY <1>1, <1>2 DEF IInv, TypeOK

LEMMA WaitTestIInv ==
  ASSUME IInv, NEW t \in Threads, WaitTest(t)
  PROVE  IInv'
<1>1. /\ pc[t] = "test"
      /\ pc' = [pc EXCEPT ![t] =
                  IF b.cur_thread >= b.threshold THEN "post" ELSE "get"]
      /\ UNCHANGED <<b, cur, gone, serial>>
  BY DEF WaitTest
<1>2. TypeOK'
  BY <1>1 DEF IInv, TypeOK, Labels
<1>3. Inside' = Inside /\ Arrived' = Arrived
  BY <1>1 DEF Inside, Arrived, IInv, TypeOK
<1>4. Counted' /\ FirstIsUnique' /\ Numbered' /\ SerialIsFirst'
  BY <1>1, <1>3 DEF IInv, Counted, FirstIsUnique, Numbered, SerialIsFirst
<1>5. OpenIsFull'
  <2>1. CASE b.cur_thread >= b.threshold
    BY <1>1, <2>1 DEF IInv, TypeOK, OpenIsFull
  <2>2. CASE b.cur_thread < b.threshold
    BY <1>1, <2>2 DEF IInv, TypeOK, OpenIsFull
  <2> QED BY <2>1, <2>2 DEF IInv, TypeOK
<1>6. NoStranded'
  BY <1>1 DEF NoStranded, IInv, TypeOK
<1> QED BY <1>2, <1>4, <1>5, <1>6 DEF IInv

LEMMA WaitPostIInv ==
  ASSUME IInv, NEW t \in Threads, WaitPost(t)
  PROVE  IInv'
<1>1. /\ pc[t] = "post"
      /\ b' = [b EXCEPT !.sem = b.sem + b.threshold]
      /\ pc' = [pc EXCEPT ![t] = "get"]
      /\ UNCHANGED <<cur, gone, serial>>
  BY DEF WaitPost, SemPostN, IInv, TypeOK
<1>2. TypeOK'
  BY <1>1 DEF IInv, TypeOK, Labels
<1>3. Inside' = Inside /\ Arrived' = Arrived
  BY <1>1 DEF Inside, Arrived, IInv, TypeOK
<1>4. Counted' /\ FirstIsUnique' /\ Numbered' /\ SerialIsFirst'
  BY <1>1, <1>3 DEF IInv, TypeOK, Counted, FirstIsUnique, Numbered, SerialIsFirst
<1>5. b.cur_thread = b.threshold
  BY <1>1 DEF IInv, OpenIsFull
<1>6. OpenIsFull'
  BY <1>1, <1>5 DEF IInv, TypeOK, OpenIsFull
<1>7. Cardinality(Inside) <= b.threshold
  BY <1>5, ArrivedFinite DEF IInv, TypeOK, Counted
<1>8. NoStranded'
  BY <1>1, <1>3, <1>7, ArrivedFinite DEF NoStranded, IInv, TypeOK
<1> QED BY <1>2, <1>4, <1>6, <1>8 DEF IInv

LEMMA WaitGetIInv ==
  ASSUME IInv, NEW t \in Threads, WaitGet(t)
  PROVE  IInv'
<1>1. /\ pc[t] = "get"
      /\ b.sem > 0
      /\ b' = [b EXCEPT !.sem = @ - 1]
      /\ pc' = [pc EXCEPT ![t] = "idle"]
      /\ gone' = gone \cup {t}
      /\ serial' = IF cur[t] = 1 THEN serial \cup {t} ELSE serial
      /\ cur' = cur
  BY DEF WaitGet
<1>2. TypeOK'
  BY <1>1 DEF IInv, TypeOK, Labels
<1>3. t \in Inside /\ t \notin gone
  BY <1>1 DEF Inside, IInv, Counted
<1>4. Inside' = Inside \ {t} /\ Arrived' = Arrived
  BY <1>1 DEF Inside, Arrived, IInv, TypeOK
<1>5. Counted'
  BY <1>1, <1>4 DEF IInv, TypeOK, Counted
<1>6. FirstIsUnique' /\ Numbered'
  BY <1>1, <1>4 DEF IInv, TypeOK, FirstIsUnique, Numbered
<1>7. SerialIsFirst'
  BY <1>1 DEF IInv, SerialIsFirst
<1>8. b'.cur_thread = b'.threshold
  BY <1>1 DEF IInv, TypeOK, OpenIsFull
<1>9. Cardinality(Inside') = Cardinality(Inside) - 1
  BY <1>3, <1>4, ArrivedFinite, FS_RemoveElement DEF IInv
<1>10. NoStranded'
  <2> SUFFICES ASSUME \A u \in Threads : pc'[u] \in {"idle", "get"}
               PROVE  Cardinality(Inside') <= b'.sem
    BY DEF NoStranded
  <2>1. \A u \in Threads : pc[u] \in {"idle", "get"}
    BY <1>1 DEF IInv, TypeOK
  <2>2. Cardinality(Inside) <= b.sem
    BY <1>1, <2>1 DEF IInv, NoStranded, OpenIsFull
  <2> QED BY <1>1, <1>9, <2>2, ArrivedFinite DEF IInv, TypeOK
<1> QED BY <1>2, <1>5, <1>6, <1>7, <1>8, <1>10 DEF IInv, OpenIsFull

LEMMA NextIInv == IInv /\ [Next]_vars => IInv'
<1> SUFFICES ASSUME IInv, [Next]_vars
             PROVE  IInv'
  OBVIOUS
<1>1. CASE UNCHANGED vars
  BY <1>1 DEF vars, IInv, TypeOK, Counted, OpenIsFull, FirstIsUnique, Numbered,
              SerialIsFirst, NoStranded, Arrived, Inside
<1> QED
  BY <1>1, BarrierInitIInv, WaitEnterIInv, WaitTestIInv, WaitPostIInv,
     WaitGetIInv DEF Next

(* The inductive invariant holds in every reachable state. *)
THEOREM Invariance == Spec => []IInv
  BY InitIInv, NextIInv, PTL DEF Spec

(* Every variable keeps its type, and cur_thread never passes threshold.    *)
THEOREM TypeCorrect == Spec => []TypeOK
<1>1. IInv => TypeOK
  BY DEF IInv
<1> QED BY <1>1, Invariance, PTL

(* Nobody passes a barrier that is not full.                                *)
THEOREM NoEarlyReleases == Spec => []NoEarlyRelease
<1>1. IInv => NoEarlyRelease
  BY DEF IInv, OpenIsFull, NoEarlyRelease
<1> QED BY <1>1, Invariance, PTL

(* The units posted suffice for everybody inside, however many threads post.*)
THEOREM NobodyStranded == Spec => []NoStranded
<1>1. IInv => NoStranded
  BY DEF IInv
<1> QED BY <1>1, Invariance, PTL

(* Exactly one thread is told that it is the serial one.                    *)
THEOREM SerialOnce == Spec => []OneSerial
<1>1. ASSUME IInv, b.threshold > 0, Cardinality(gone) = b.threshold
      PROVE  Cardinality(serial) = 1
  <2>1. gone # {}
    BY <1>1, FS_EmptySet DEF IInv, TypeOK
  <2>2. b.cur_thread = b.threshold /\ Cardinality(Arrived) = b.threshold
    BY <1>1, <2>1 DEF IInv, OpenIsFull, Counted
  <2>3. Arrived = gone
    BY <1>1, <2>2, ArrivedFinite, FS_Subset DEF IInv, Arrived
  <2>4. PICK f \in Arrived : \A t \in Arrived : cur[t] = 1 <=> t = f
    BY <1>1, <2>2 DEF IInv, FirstIsUnique
  <2>5. serial = {f}
    BY <1>1, <2>3, <2>4 DEF IInv, SerialIsFirst
  <2> QED BY <2>5, FS_Singleton
<1>2. IInv => OneSerial
  BY <1>1 DEF OneSerial
<1> QED BY <1>2, Invariance, PTL

-----------------------------------------------------------------------------
(* The instance counts elements as this module does. *)
LEMMA SameCardinality == \A S : R!Cardinality(S) = Cardinality(S)
  BY DEF R!Cardinality, Cardinality

LEMMA RefinesInit == Init => R!Init
  BY DEF Init, R!Init, Inside

(* Every step of the barrier is a step of the rendezvous or changes nothing *)
(* that the rendezvous sees.                                                *)
LEMMA RefinesNext ==
  ASSUME IInv, [Next]_vars
  PROVE  [R!Next]_(R!vars)
<1>1. CASE UNCHANGED vars
  BY <1>1 DEF vars, R!vars, Inside
<1>2. ASSUME NEW count \in Counts, BarrierInit(count)
      PROVE  [R!Next]_(R!vars)
  <2>1. CASE count = 0
    BY <1>2, <2>1 DEF BarrierInit, R!vars, Inside
  <2>2. CASE count # 0
    <3>1. R!SetUp
      BY <1>2, <2>2 DEF BarrierInit, R!SetUp, Inside
    <3> QED BY <3>1 DEF R!Next
  <2> QED BY <2>1, <2>2
<1>3. ASSUME NEW t \in Threads, WaitEnter(t)
      PROVE  [R!Next]_(R!vars)
  <2>1. CASE b.cur_thread >= b.threshold
    BY <1>3, <2>1 DEF WaitEnter, vars, R!vars, Inside, IInv, TypeOK
  <2>2. CASE b.cur_thread < b.threshold
    <3>1. pc[t] = "idle"
      BY <1>3 DEF WaitEnter
    <3>2. t \notin Arrived
      BY <2>2, <3>1, EnterArrives
    <3>3. Cardinality(Arrived) < b.threshold
      BY <2>2 DEF IInv, Counted
    <3>4. Arrived' = Arrived \cup {t} /\ b'.threshold = b.threshold
          /\ UNCHANGED <<gone, serial>>
      BY <1>3, <2>2 DEF WaitEnter, Arrived, Inside, IInv, TypeOK
    <3>5. R!Arrive(t)
      BY <3>2, <3>3, <3>4, SameCardinality DEF R!Arrive, Arrived
    <3> QED BY <3>5 DEF R!Next
  <2> QED BY <2>1, <2>2 DEF IInv, TypeOK
<1>4. ASSUME NEW t \in Threads, WaitTest(t) \/ WaitPost(t)
      PROVE  [R!Next]_(R!vars)
  <2>1. Inside' = Inside /\ b'.threshold = b.threshold /\ UNCHANGED <<gone, serial>>
    BY <1>4 DEF WaitTest, WaitPost, Inside, IInv, TypeOK
  <2> QED BY <2>1 DEF R!vars
<1>5. ASSUME NEW t \in Threads, WaitGet(t)
      PROVE  [R!Next]_(R!vars)
  <2>1. t \in Arrived \ gone
    BY <1>5 DEF WaitGet, Arrived, Inside, IInv, Counted
  <2>2. Cardinality(Arrived) = b.threshold /\ b.cur_thread = b.threshold
    BY <1>5 DEF WaitGet, IInv, OpenIsFull, Counted
  <2>3. Arrived' = Arrived /\ b'.threshold = b.threshold /\ gone' = gone \cup {t}
    BY <1>5 DEF WaitGet, Arrived, Inside, IInv, TypeOK
  <2>4. b.cur_thread > 0
    BY <2>1, <2>2, ArrivedFinite, FS_EmptySet DEF IInv, TypeOK
  <2>5. PICK f \in Arrived : \A u \in Arrived : cur[u] = 1 <=> u = f
    BY <2>4 DEF IInv, FirstIsUnique
  <2>6. CASE cur[t] = 1
    <3>1. serial = {}
      BY <2>1, <2>5, <2>6 DEF IInv, SerialIsFirst, Arrived
    <3>2. serial' = {t}
      BY <1>5, <2>6, <3>1 DEF WaitGet
    <3>3. R!Leave(t)
      BY <2>1, <2>2, <2>3, <3>1, <3>2, SameCardinality DEF R!Leave, Arrived
    <3> QED BY <3>3 DEF R!Next
  <2>7. CASE cur[t] # 1
    <3>1. serial' = serial
      BY <1>5, <2>7 DEF WaitGet
    <3>2. serial # {} \/ gone' # Arrived
      BY <2>1, <2>3, <2>5, <2>7 DEF IInv, SerialIsFirst, Arrived
    <3>3. R!Leave(t)
      BY <2>1, <2>2, <2>3, <3>1, <3>2, SameCardinality DEF R!Leave, Arrived
    <3> QED BY <3>3 DEF R!Next
  <2> QED BY <2>6, <2>7
<1> QED BY <1>1, <1>2, <1>3, <1>4, <1>5 DEF Next

(* The barrier implements the rendezvous.                                   *)
THEOREM Refinement == Spec => RendezvousSpec
<1>1. IInv /\ [Next]_vars => [R!Next]_(R!vars)
  BY RefinesNext
<1> QED BY <1>1, RefinesInit, Invariance, PTL DEF Spec, RendezvousSpec, R!Spec

=============================================================================
