------------------------- MODULE Scheduling_proofs -------------------------
(***************************************************************************)
(* The safety properties of GCScheduler, for every max_background_gc and   *)
(* any number of requests and drops, whether or not drops fail; then those *)
(* of WriteBlocking.  Blocking writers for size keeps everything the       *)
(* scheduler promises: a step of WriteBlocking is a step of GCScheduler or *)
(* leaves it alone.  What is proved of GCScheduler therefore holds there,  *)
(* and the wakeups of size_cv_ are proved on top of it.                    *)
(***************************************************************************)
EXTENDS WriteBlocking, TLAPS

-----------------------------------------------------------------------------
\* What the counters need besides: a drop in progress is counted, the close
\* has emptied the pool, and it holds unscheduled tasks only between taking
\* them and subtracting them.
DropsCounted ==
  dropReqs >= dropEntering + dropWaiting + dropBase + dropDone

CloseOrder ==
  /\ closePc # "subtract" => unscheduledByClose = 0
  /\ closePc \in {"subtract", "check", "waiting", "closed"} => pool = 0
  /\ closePc = "closed" => scheduled = 0

\* The inductive invariant.
Inv == /\ TypeOK /\ CountersExact /\ QueueCoversTasks /\ DropExcludesGC
       /\ DropsCounted /\ CloseOrder

\* What MaybeScheduleGC hands out is between nothing and what was asked for, and
\* keeps bg_gc_scheduled_ within max_background_gc; a shutdown grants nothing,
\* and otherwise a request is refused only when the slots are all taken.
LEMMA GrantedBounds ==
  ASSUME NEW u \in Nat, NEW s \in Nat, s <= MaxBackgroundGC
  PROVE  /\ Granted(u, s) \in 0..u
         /\ s + Granted(u, s) <= MaxBackgroundGC
         /\ closePc # "open" => Granted(u, s) = 0
         /\ closePc = "open" /\ Granted(u, s) < u
              => s + Granted(u, s) = MaxBackgroundGC
  BY SchedulerAssumption DEF Granted, shuttingDown

LEMMA InitInv == Init => Inv
  <1> SUFFICES ASSUME Init PROVE Inv
    OBVIOUS
  <1> USE SchedulerAssumption DEF Init
  <1>1. TypeOK  BY DEF TypeOK
  <1>2. CountersExact  BY DEF CountersExact
  <1>3. QueueCoversTasks /\ DropExcludesGC /\ DropsCounted
    BY DEF QueueCoversTasks, DropExcludesGC, DropsCounted
  <1>4. CloseOrder  BY DEF CloseOrder
  <1> QED  BY <1>1, <1>2, <1>3, <1>4 DEF Inv

LEMMA RequestGCInv == Inv /\ RequestGC => Inv'
  <1> SUFFICES ASSUME Inv, RequestGC PROVE Inv'
    OBVIOUS
  <1> DEFINE u == unscheduled + 1
             g == Granted(u, scheduled)
  <1>1. /\ g \in 0..u /\ scheduled + g <= MaxBackgroundGC
        /\ closePc # "open" => g = 0
    <2>1. u \in Nat /\ scheduled \in Nat /\ scheduled <= MaxBackgroundGC
      BY DEF Inv, TypeOK, CountersExact
    <2> HIDE DEF u
    <2> QED  BY <2>1, GrantedBounds
  <1>2. unscheduled' = u - g /\ scheduled' = scheduled + g /\ pool' = pool + g
    <2>1. MaybeScheduleGC(u, scheduled)  BY DEF RequestGC
    <2> HIDE DEF u
    <2> QED  BY <2>1 DEF MaybeScheduleGC
  <1> HIDE DEF g
  <1>3. /\ queued' = queued + 1 /\ requests' = requests + 1
        /\ requests < MaxRequests /\ closePc # "closed"
        /\ UNCHANGED <<running, dropReqs, entering, waiting, collecting,
                       ending, dropEntering, dropWaiting, dropBase, dropDone,
                       closePc, unscheduledByClose, drops>>
    BY DEF RequestGC, droppers
  <1> USE SchedulerAssumption DEF Inv, TypeOK, CountersExact
  <1>4. TypeOK' /\ CountersExact'  BY <1>1, <1>2, <1>3
  <1>5. QueueCoversTasks'  BY <1>1, <1>2, <1>3 DEF QueueCoversTasks
  <1>6. DropExcludesGC' /\ DropsCounted'
    BY <1>3 DEF DropExcludesGC, DropsCounted
  <1>7. CloseOrder'  BY <1>1, <1>2, <1>3 DEF CloseOrder
  <1> QED  BY <1>4, <1>5, <1>6, <1>7 DEF Inv

\* What bg_cv_.SignalAll does to the threads that wait, and to CloseImpl.
Unsignalled == UNCHANGED <<waiting, entering, dropWaiting, dropEntering, closePc>>
Signalled ==
  /\ waiting' = 0 /\ entering' = entering + waiting
  /\ dropWaiting' = 0 /\ dropEntering' = dropEntering + dropWaiting
  /\ closePc' = IF closePc = "waiting" THEN "check" ELSE closePc

LEMMA SignalEffect ==
  ASSUME NEW go \in BOOLEAN, SignalWorkers(go), SignalOthers(go)
  PROVE  Unsignalled \/ Signalled
  <1>1. CASE go  BY <1>1 DEF SignalWorkers, SignalOthers, Signalled
  <1>2. CASE ~go  BY <1>2 DEF SignalWorkers, SignalOthers, Unsignalled
  <1> QED  BY <1>1, <1>2

LEMMA EndGCInv == Inv /\ EndGC => Inv'
  <1> SUFFICES ASSUME Inv, EndGC PROVE Inv'
    OBVIOUS
  <1> DEFINE s == scheduled - 1
             g == Granted(unscheduled, s)
  <1>1. /\ s \in Nat /\ s <= MaxBackgroundGC /\ unscheduled \in Nat
        /\ running > 0 /\ ending > 0
    BY SchedulerAssumption DEF Inv, TypeOK, CountersExact, EndGC
  <1>2. /\ g \in 0..unscheduled /\ s + g <= MaxBackgroundGC
        /\ closePc # "open" => g = 0
    <2> HIDE DEF s
    <2> QED  BY <1>1, GrantedBounds
  <1>3. unscheduled' = unscheduled - g /\ scheduled' = s + g /\ pool' = pool + g
    <2>1. MaybeScheduleGC(unscheduled, s)  BY DEF EndGC
    <2> HIDE DEF s
    <2> QED  BY <2>1 DEF MaybeScheduleGC
  <1>4. /\ running' = running - 1 /\ ending' = ending - 1
        /\ UNCHANGED <<queued, dropReqs, collecting, dropBase, dropDone,
                       unscheduledByClose, requests, drops>>
    BY DEF EndGC
  <1>5. Unsignalled \/ Signalled
    BY SignalEffect DEF EndGC, GCShouldSignal
  <1> HIDE DEF g
  <1> USE SchedulerAssumption DEF Inv, TypeOK, CountersExact,
          QueueCoversTasks, DropExcludesGC, DropsCounted, CloseOrder
  <1>6. CASE Unsignalled  BY <1>1, <1>2, <1>3, <1>4, <1>6 DEF Unsignalled
  <1>7. CASE Signalled  BY <1>1, <1>2, <1>3, <1>4, <1>7 DEF Signalled
  <1> QED  BY <1>5, <1>6, <1>7

LEMMA EndDropInv == Inv /\ EndDrop => Inv'
  <1> SUFFICES ASSUME Inv, EndDrop PROVE Inv'
    OBVIOUS
  <1>1. Unsignalled \/ Signalled
    BY SignalEffect DEF EndDrop, DropShouldSignal
  <1>2. /\ dropDone > 0
        /\ dropDone' = dropDone - 1 /\ dropReqs' = dropReqs - 1
        /\ UNCHANGED <<queued, unscheduled, scheduled, running, pool,
                       collecting, ending, dropBase, unscheduledByClose,
                       requests, drops>>
    BY DEF EndDrop
  <1> USE SchedulerAssumption DEF Inv, TypeOK, CountersExact,
          QueueCoversTasks, DropExcludesGC, DropsCounted, CloseOrder
  <1>3. CASE Unsignalled  BY <1>2, <1>3 DEF Unsignalled
  <1>4. CASE Signalled  BY <1>2, <1>4 DEF Signalled
  <1> QED  BY <1>1, <1>3, <1>4

LEMMA NextInv == Inv /\ [Next]_vars => Inv'
  <1> SUFFICES ASSUME Inv, [Next]_vars PROVE Inv'
    OBVIOUS
  <1> USE SchedulerAssumption DEF Inv, TypeOK, CountersExact,
          QueueCoversTasks, DropExcludesGC, DropsCounted, CloseOrder
  <1>1. CASE RequestGC  BY <1>1, RequestGCInv
  <1>2. CASE TakeTask  BY <1>2 DEF TakeTask, droppers
  <1>3. CASE WaitForDrops  BY <1>3 DEF WaitForDrops, droppers
  <1>4. CASE StartGC  BY <1>4 DEF StartGC, droppers
  <1>5. ASSUME NEW again \in BOOLEAN, FinishBackgroundGC(again) PROVE Inv'
    <2>1. CASE again  BY <1>5, <2>1 DEF FinishBackgroundGC, droppers
    <2>2. CASE ~again  BY <1>5, <2>2 DEF FinishBackgroundGC, droppers
    <2> QED  BY <2>1, <2>2
  <1>6. CASE EndGC  BY <1>6, EndGCInv
  <1>7. CASE BeginDrop  BY <1>7 DEF BeginDrop, threads
  <1>8. CASE WaitForGC  BY <1>8 DEF WaitForGC, threads
  <1>9. CASE StartDrop  BY <1>9 DEF StartDrop, threads
  <1>10. CASE BaseDropOK  BY <1>10 DEF BaseDropOK, threads
  <1>11. CASE BaseDropFails  BY <1>11 DEF BaseDropFails, threads
  <1>12. CASE EndDrop  BY <1>12, EndDropInv
  <1>13. CASE BeginClose  BY <1>13 DEF BeginClose, threads, droppers
  <1>14. CASE UnSchedule  BY <1>14 DEF UnSchedule, droppers
  <1>15. CASE SubtractUnscheduled
    BY <1>15 DEF SubtractUnscheduled, threads, droppers
  <1>16. CASE CheckScheduled  BY <1>16 DEF CheckScheduled, threads, droppers
  <1>17. CASE UNCHANGED vars  BY <1>17 DEF vars, threads, droppers
  <1> QED
    BY <1>1, <1>2, <1>3, <1>4, <1>5, <1>6, <1>7, <1>8, <1>9, <1>10, <1>11,
       <1>12, <1>13, <1>14, <1>15, <1>16, <1>17
    DEF Next, WorkerStep, DropStep, CloseStep

LEMMA AlwaysInv == Spec => []Inv
  BY InitInv, NextInv, PTL DEF Spec

\* The slots are handed out whenever MaybeScheduleGC runs; nothing else frees
\* one before the database shuts down, and a request that BackgroundGC makes
\* without it is made by a job that is about to end.
LEMMA NoIdleSlotStep == Inv /\ NoIdleSlot /\ [Next]_vars => NoIdleSlot'
  <1> SUFFICES ASSUME Inv, NoIdleSlot, [Next]_vars PROVE NoIdleSlot'
    OBVIOUS
  <1> USE SchedulerAssumption DEF NoIdleSlot, shuttingDown
  <1>0. TypeOK /\ scheduled <= MaxBackgroundGC /\ running = collecting + ending
        /\ scheduled >= running
    BY DEF Inv, TypeOK, CountersExact
  <1>1. CASE RequestGC
    <2> DEFINE u == unscheduled + 1
               g == Granted(u, scheduled)
    <2>1. g \in 0..u /\ (closePc = "open" /\ g < u
                            => scheduled + g = MaxBackgroundGC)
      <3>1. u \in Nat /\ scheduled \in Nat  BY <1>0 DEF TypeOK
      <3> HIDE DEF u
      <3> QED  BY <3>1, <1>0, GrantedBounds
    <2>2. unscheduled' = u - g /\ scheduled' = scheduled + g
          /\ UNCHANGED closePc
      <3>1. MaybeScheduleGC(u, scheduled) /\ UNCHANGED closePc
        BY <1>1 DEF RequestGC
      <3> HIDE DEF u
      <3> QED  BY <3>1 DEF MaybeScheduleGC
    <2> HIDE DEF g
    <2> QED  BY <1>0, <2>1, <2>2 DEF TypeOK
  <1>2. CASE EndGC
    <2> DEFINE s == scheduled - 1
               g == Granted(unscheduled, s)
    <2>1. s \in Nat /\ s <= MaxBackgroundGC /\ unscheduled \in Nat
      BY <1>0, <1>2 DEF TypeOK, EndGC
    <2>2. g \in 0..unscheduled /\ (closePc = "open" /\ g < unscheduled
                                      => s + g = MaxBackgroundGC)
      <3> HIDE DEF s
      <3> QED  BY <2>1, GrantedBounds
    <2>3. unscheduled' = unscheduled - g /\ scheduled' = s + g
      <3>1. MaybeScheduleGC(unscheduled, s)  BY <1>2 DEF EndGC
      <3> HIDE DEF s
      <3> QED  BY <3>1 DEF MaybeScheduleGC
    <2>4. closePc # "open" => closePc' # "open"
      BY <1>2 DEF EndGC, SignalOthers
    <2> HIDE DEF g
    <2> QED  BY <2>1, <2>2, <2>3, <2>4
  <1>3. CASE StartGC  BY <1>0, <1>3 DEF StartGC, TypeOK
  <1>4. ASSUME NEW again \in BOOLEAN, FinishBackgroundGC(again)
        PROVE NoIdleSlot'
    BY <1>0, <1>4 DEF FinishBackgroundGC, TypeOK
  <1>5. CASE EndDrop
    BY <1>5 DEF EndDrop, SignalOthers
  <1>6. CASE TakeTask \/ WaitForDrops
    BY <1>6 DEF TakeTask, WaitForDrops, droppers
  <1>7. CASE BeginDrop \/ WaitForGC \/ StartDrop \/ BaseDropOK \/ BaseDropFails
    BY <1>7 DEF BeginDrop, WaitForGC, StartDrop, BaseDropOK, BaseDropFails,
                threads
  <1>8. CASE BeginClose \/ UnSchedule \/ SubtractUnscheduled \/ CheckScheduled
    BY <1>8 DEF BeginClose, UnSchedule, SubtractUnscheduled, CheckScheduled
  <1>9. CASE UNCHANGED vars  BY <1>9 DEF vars, threads, droppers
  <1> QED
    BY <1>1, <1>2, <1>3, <1>4, <1>5, <1>6, <1>7, <1>8, <1>9
    DEF Next, WorkerStep, DropStep, CloseStep

\* No GC request is left behind while a slot of max_background_gc is free.
THEOREM SlotsUsed == Spec => []NoIdleSlot
  <1>1. Init => NoIdleSlot  BY DEF Init, NoIdleSlot
  <1> QED  BY <1>1, AlwaysInv, NoIdleSlotStep, PTL DEF Spec

\* Type correctness: in particular no counter of TitanDBImpl goes below 0.
THEOREM TypeCorrect == Spec => []TypeOK
  <1>1. Inv => TypeOK  BY DEF Inv
  <1> QED  BY <1>1, AlwaysInv, PTL

\* bg_gc_scheduled_ and bg_gc_running_ count the threads they stand for, and
\* max_background_gc is never exceeded.
THEOREM CountersAreExact == Spec => []CountersExact
  <1>1. Inv => CountersExact  BY DEF Inv
  <1> QED  BY <1>1, AlwaysInv, PTL

\* A GC thread that gets past its wait finds a column family to collect: the
\* assertion of PopFirstFromGCQueue holds.
THEOREM QueueNeverShort == Spec => []QueueCoversTasks
  <1>1. Inv => QueueCoversTasks  BY DEF Inv
  <1> QED  BY <1>1, AlwaysInv, PTL

\* GC and the base database's drop of column families exclude each other.
THEOREM DropAndGCExclusive == Spec => []DropExcludesGC
  <1>1. Inv => DropExcludesGC  BY DEF Inv
  <1> QED  BY <1>1, AlwaysInv, PTL

\* When CloseImpl returns no GC thread of the database is left.
THEOREM ClosedIsQuiet == Spec => []CloseQuiesces
  <1>1. Inv => CloseQuiesces
    BY DEF Inv, TypeOK, CountersExact, CloseOrder, CloseQuiesces
  <1> QED  BY <1>1, AlwaysInv, PTL

-----------------------------------------------------------------------------
(***************************************************************************)
(* Writers blocked for size                                                *)
(***************************************************************************)
LEMMA BlockingStepIsSchedulerStep == [BlockingNext]_allVars => [Next]_vars
  <1> SUFFICES ASSUME [BlockingNext]_allVars PROVE [Next]_vars
    OBVIOUS
  <1>1. CASE SchedulerStep
    BY <1>1 DEF SchedulerStep, Next, WorkerStep
  <1>2. ASSUME NEW size \in Size, OnCompactionCompleted(size)
        PROVE [Next]_vars
    BY <1>2 DEF OnCompactionCompleted, Next
  <1>3. ASSUME NEW size \in Size, NEW again \in BOOLEAN,
               BackgroundGCReturns(size, again)
        PROVE [Next]_vars
    BY <1>3 DEF BackgroundGCReturns, Next, WorkerStep
  <1>4. CASE BeginPut  BY <1>4 DEF BeginPut
  <1>5. CASE PutStep
    BY <1>5 DEF PutStep, PutPasses, PutRequestsGC, PutLocks, PutWaits, Next
  <1>6. CASE CloseUnblocks  BY <1>6 DEF CloseUnblocks, Next
  <1>7. CASE UNCHANGED allVars  BY <1>7 DEF allVars
  <1> QED  BY <1>1, <1>2, <1>3, <1>4, <1>5, <1>6, <1>7 DEF BlockingNext

\* Writers that are blocked for size use the scheduler as OnCompactionCompleted
\* does: WriteBlocking implements GCScheduler.
THEOREM BlockingImplementsScheduler == BlockingSpec => Spec
  <1>1. BlockingInit => Init  BY DEF BlockingInit
  <1> QED  BY <1>1, BlockingStepIsSchedulerStep, PTL DEF BlockingSpec, Spec

-----------------------------------------------------------------------------
\* At most one thread holds size_mutex_, and a writer that missed a wakeup can
\* do so only because one held it.
BlockingInv ==
  /\ BlockingTypeOK /\ SleepersBlocked
  /\ putHeld <= 1

LEMMA BlockingInitInv == BlockingInit => BlockingInv
  <1> SUFFICES ASSUME BlockingInit PROVE BlockingInv
    OBVIOUS
  <1>1. TypeOK  BY InitInv DEF BlockingInit, Inv
  <1>2. blocked \in BOOLEAN /\ missed \in BOOLEAN /\ raisedLate \in BOOLEAN
    BY Zenon DEF BlockingInit
  <1>3. putTest = 0 /\ putSchedule = 0 /\ putLock = 0 /\ putHeld = 0
        /\ asleep = 0
    BY DEF BlockingInit
  <1> QED
    BY <1>1, <1>2, <1>3 DEF BlockingInv, BlockingTypeOK, SleepersBlocked

\* A lowering of the flag under size_mutex_ leaves no writer asleep, and none
\* about to fall asleep.
LEMMA LockedUnblockInv ==
  ASSUME BlockingInv, TypeOK', LockedUnblock
  PROVE  BlockingInv'
  <1>1. /\ blocked' \in BOOLEAN /\ missed' \in BOOLEAN
        /\ raisedLate' \in BOOLEAN
    BY Zenon DEF BlockingInv, BlockingTypeOK, LockedUnblock, Unblock
  <1>2. /\ asleep' = 0 /\ putTest' = putTest + asleep /\ putHeld = 0
        /\ UNCHANGED <<putSchedule, putLock, putHeld>>
    BY DEF LockedUnblock, Unblock, SizeMutexFree
  <1> QED
    BY <1>1, <1>2 DEF BlockingInv, BlockingTypeOK, SleepersBlocked

LEMMA UnchangedPutInv ==
  ASSUME BlockingInv, TypeOK', UNCHANGED putVars
  PROVE  BlockingInv'
  BY DEF BlockingInv, BlockingTypeOK, SleepersBlocked, putVars

LEMMA BlockingNextInv ==
  BlockingInv /\ TypeOK' /\ [BlockingNext]_allVars => BlockingInv'
  <1> SUFFICES ASSUME BlockingInv, TypeOK', [BlockingNext]_allVars
               PROVE  BlockingInv'
    OBVIOUS
  <1>1. CASE SchedulerStep  BY <1>1, UnchangedPutInv DEF SchedulerStep
  <1>2. ASSUME NEW size \in Size, OnCompactionCompleted(size)
        PROVE BlockingInv'
    <2>1. CASE size = "above"
      BY <1>2, <2>1 DEF OnCompactionCompleted, BlockingInv, BlockingTypeOK,
                        SleepersBlocked
    <2>2. CASE size # "above" /\ blocked
      <3>1. Unblock /\ missed' = ~SizeMutexFree
        BY <1>2, <2>2 DEF OnCompactionCompleted
      <3>2. /\ blocked' \in BOOLEAN /\ missed' \in BOOLEAN
            /\ raisedLate' \in BOOLEAN
        BY <3>1, Zenon DEF BlockingInv, BlockingTypeOK, Unblock, SizeMutexFree
      <3>3. /\ asleep' = 0 /\ putTest' = putTest + asleep
            /\ UNCHANGED <<putSchedule, putLock, putHeld>>
        BY <3>1 DEF Unblock
      <3>4. TypeOK' /\ putTest' \in Nat /\ putSchedule' \in Nat
            /\ putLock' \in Nat /\ putHeld' \in Nat /\ asleep' \in Nat
            /\ putHeld' <= 1
        BY <3>3 DEF BlockingInv, BlockingTypeOK, SizeMutexFree
      <3>5. asleep' + putHeld' > 0 => ~SizeMutexFree
        BY <3>3 DEF BlockingInv, BlockingTypeOK, SizeMutexFree
      <3>6. SleepersBlocked'
        BY <3>1, <3>5, Zenon DEF SleepersBlocked
      <3> QED  BY <3>2, <3>4, <3>6 DEF BlockingInv, BlockingTypeOK
    <2>3. CASE size # "above" /\ ~blocked
      <3>1. UNCHANGED putVars  BY <1>2, <2>3 DEF OnCompactionCompleted
      <3> QED  BY <3>1, UnchangedPutInv
    <2> QED  BY <2>1, <2>2, <2>3 DEF BlockingInv, BlockingTypeOK
  <1>3. ASSUME NEW size \in Size, NEW again \in BOOLEAN,
               BackgroundGCReturns(size, again)
        PROVE BlockingInv'
    BY <1>3, LockedUnblockInv, UnchangedPutInv DEF BackgroundGCReturns
  <1>4. CASE BeginPut
    BY <1>4 DEF BeginPut, BlockingInv, BlockingTypeOK, SleepersBlocked
  <1>5. CASE PutPasses
    BY <1>5 DEF PutPasses, BlockingInv, BlockingTypeOK, SleepersBlocked
  <1>6. CASE PutRequestsGC
    BY <1>6 DEF PutRequestsGC, BlockingInv, BlockingTypeOK, SleepersBlocked
  <1>7. CASE PutLocks
    BY <1>7 DEF PutLocks, SizeMutexFree, BlockingInv, BlockingTypeOK,
                SleepersBlocked
  <1>8. CASE PutWaits
    BY <1>8 DEF PutWaits, BlockingInv, BlockingTypeOK, SleepersBlocked
  <1>9. CASE CloseUnblocks  BY <1>9, LockedUnblockInv DEF CloseUnblocks
  <1>10. CASE UNCHANGED allVars
    BY <1>10, UnchangedPutInv DEF allVars
  <1> QED
    BY <1>1, <1>2, <1>3, <1>4, <1>5, <1>6, <1>7, <1>8, <1>9, <1>10
    DEF BlockingNext, PutStep

LEMMA AlwaysBlockingInv == BlockingSpec => []BlockingInv
  <1>1. BlockingSpec => []TypeOK
    BY BlockingImplementsScheduler, TypeCorrect, PTL
  <1> QED  BY <1>1, BlockingInitInv, BlockingNextInv, PTL DEF BlockingSpec

\* Type correctness with writers: no count of threads goes below 0.
THEOREM BlockingTypeCorrect == BlockingSpec => []BlockingTypeOK
  <1>1. BlockingInv => BlockingTypeOK  BY DEF BlockingInv
  <1> QED  BY <1>1, AlwaysBlockingInv, PTL

\* BackgroundGC and CloseImpl lose no wakeup of size_cv_: a writer sleeps with
\* the flag down only when OnCompactionCompleted lowered it without size_mutex_.
THEOREM NoWakeupLostUnderLock == BlockingSpec => []SleepersBlocked
  <1>1. BlockingInv => SleepersBlocked  BY DEF BlockingInv
  <1> QED  BY <1>1, AlwaysBlockingInv, PTL

\* With writers that ask for GC too, the counters stay exact, a GC thread finds
\* its column family, drops and GC exclude each other, no slot is left idle and
\* the close leaves no GC thread behind.
THEOREM SchedulerKept ==
  BlockingSpec => [](/\ CountersExact /\ QueueCoversTasks /\ DropExcludesGC
                     /\ NoIdleSlot /\ CloseQuiesces)
  BY BlockingImplementsScheduler, CountersAreExact, QueueNeverShort,
     DropAndGCExclusive, SlotsUsed, ClosedIsQuiet, PTL
=============================================================================
