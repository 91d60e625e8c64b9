--------------------------- MODULE WriteBlocking ---------------------------
(***************************************************************************)
(* The limit on the total size of the blob files (block_write_size), which *)
(* couples the user's Put to the GC scheduler: OnCompactionCompleted and   *)
(* BackgroundGC raise and lower block_for_size_, and Put, while the flag   *)
(* is up, asks for a GC and sleeps on size_cv_ (diffkv/src/db_impl.cc,     *)
(* db_impl_gc.cc).                                                         *)
(*                                                                         *)
(* The flag is lowered under three different sets of locks:                *)
(* OnCompactionCompleted holds mutex_ but not size_mutex_, BackgroundGC    *)
(* and CloseImpl hold both.  Put calls the scheduler without mutex_:       *)
(* BlockingSpec has that call in one step, as if it held mutex_, and       *)
(* UnlockedSpec has it in two, with other threads between them.  What the  *)
(* sizes are is a nondeterministic choice at every look at them.           *)
(***************************************************************************)
EXTENDS GCScheduler

CONSTANT Writers  \* how many threads are inside Put at once, at most

ASSUME WritersAssumption == Writers \in Nat

VARIABLES
  blocked,      \* block_for_size_
  putTest,      \* writers that are about to test the flag
  putSchedule,  \* writers inside MaybeScheduleGC, past the look at shuting_down_
  putLock,      \* writers that are about to lock size_mutex_
  putHeld,      \* writers that hold it and have seen the flag up
  asleep,       \* writers in size_cv_.Wait
  \* history, read by properties only
  missed,       \* the flag went down between a writer's look and its Wait
  raisedLate    \* the flag went up after CloseImpl had lowered it

putVars == <<blocked, putTest, putSchedule, putLock, putHeld, asleep, missed,
             raisedLate>>
allVars == <<vars, putVars>>

inPut == putTest + putSchedule + putLock + putHeld + asleep

BlockingTypeOK ==
  /\ TypeOK
  /\ blocked \in BOOLEAN
  /\ putTest \in Nat /\ putSchedule \in Nat /\ putLock \in Nat
  /\ putHeld \in Nat /\ asleep \in Nat
  /\ missed \in BOOLEAN /\ raisedLate \in BOOLEAN

BlockingInit ==
  /\ Init
  /\ blocked = FALSE
  /\ putTest = 0 /\ putSchedule = 0 /\ putLock = 0 /\ putHeld = 0
  /\ asleep = 0 /\ missed = FALSE /\ raisedLate = FALSE

-----------------------------------------------------------------------------
\* block_for_size_.store(false) and size_cv_.SignalAll().
Unblock ==
  /\ blocked' = FALSE
  /\ asleep' = 0 /\ putTest' = putTest + asleep
  /\ UNCHANGED <<putSchedule, putLock, putHeld, raisedLate>>

\* size_mutex_ is free.
SizeMutexFree == putHeld = 0

\* Mutant: BackgroundGC and CloseImpl lower the flag without size_mutex_.
LockedUnblockWithoutLock == Unblock /\ missed' = FALSE

\* The same under size_mutex_.
LockedUnblock == SizeMutexFree /\ Unblock /\ missed' = FALSE

\* Where the total size of the blob files is relative to block_write_size.
Size == {"below", "at", "above"}

\* OnCompactionCompleted: the flag follows the size, and a GC may be asked for.
OnCompactionCompleted(size) ==
  /\ RequestGC \/ UNCHANGED vars
  /\ CASE size = "above" ->
            /\ blocked' = TRUE
            /\ raisedLate' = (raisedLate \/ shuttingDown)
            /\ UNCHANGED <<putTest, putSchedule, putLock, putHeld, asleep,
                           missed>>
       [] size # "above" /\ blocked  -> Unblock /\ missed' = ~SizeMutexFree
       [] size # "above" /\ ~blocked -> UNCHANGED putVars

\* BackgroundGC returns: it only ever lowers the flag.
BackgroundGCReturns(size, again) ==
  /\ FinishBackgroundGC(again)
  /\ IF blocked /\ size = "below" THEN LockedUnblock ELSE UNCHANGED putVars

-----------------------------------------------------------------------------
(***************************************************************************)
(* Put                                                                     *)
(***************************************************************************)
BeginPut ==
  /\ closePc = "open" /\ inPut < Writers
  /\ putTest' = putTest + 1
  /\ UNCHANGED <<vars, blocked, putSchedule, putLock, putHeld, asleep, missed,
                 raisedLate>>

\* The flag is down: the value is written and Put returns.
PutPasses ==
  /\ putTest > 0 /\ ~blocked
  /\ putTest' = putTest - 1
  /\ UNCHANGED <<vars, blocked, putSchedule, putLock, putHeld, asleep, missed,
                 raisedLate>>

\* The flag is up: AddToGCQueue and MaybeScheduleGC.  Requests past the bound
\* are not counted.
PutRequestsGC ==
  /\ putTest > 0 /\ blocked
  /\ IF closePc # "closed" /\ requests < MaxRequests
       THEN RequestGC ELSE UNCHANGED vars
  /\ putTest' = putTest - 1 /\ putLock' = putLock + 1
  /\ UNCHANGED <<blocked, putSchedule, putHeld, asleep, missed, raisedLate>>

\* The same without mutex_, up to MaybeScheduleGC's look at shuting_down_ ...
PutQueuesUnlocked ==
  /\ putTest > 0 /\ blocked
  /\ requests < MaxRequests
  /\ requests' = requests + 1 /\ queued' = queued + 1
  /\ unscheduled' = unscheduled + 1
  /\ putTest' = putTest - 1
  /\ putSchedule' = IF shuttingDown THEN putSchedule ELSE putSchedule + 1
  /\ putLock' = IF shuttingDown THEN putLock + 1 ELSE putLock
  /\ UNCHANGED <<scheduled, running, dropReqs, threads, droppers, closePc,
                 unscheduledByClose, drops, blocked, putHeld, asleep, missed,
                 raisedLate>>

\* ... and from there on, whatever happened in between.
PutSchedulesUnlocked ==
  /\ putSchedule > 0
  /\ LET slots == IF scheduled < MaxBackgroundGC
                    THEN MaxBackgroundGC - scheduled ELSE 0
         granted == IF unscheduled < slots THEN unscheduled ELSE slots IN
       /\ unscheduled' = unscheduled - granted
       /\ scheduled' = scheduled + granted
       /\ pool' = pool + granted
  /\ putSchedule' = putSchedule - 1 /\ putLock' = putLock + 1
  /\ UNCHANGED <<queued, running, dropReqs, entering, waiting, collecting,
                 ending, droppers, closePc, unscheduledByClose, requests,
                 drops, blocked, putTest, putHeld, asleep, missed,
                 raisedLate>>

\* Lock size_mutex_ and look again ...
PutLocks ==
  /\ putLock > 0 /\ SizeMutexFree
  /\ putLock' = putLock - 1
  /\ IF blocked THEN putHeld' = putHeld + 1 /\ UNCHANGED putTest
                ELSE putTest' = putTest + 1 /\ UNCHANGED putHeld
  /\ UNCHANGED <<vars, blocked, putSchedule, asleep, missed, raisedLate>>

\* ... size_cv_.Wait.
PutWaits ==
  /\ putHeld > 0
  /\ putHeld' = putHeld - 1 /\ asleep' = asleep + 1
  /\ UNCHANGED <<vars, blocked, putTest, putSchedule, putLock, missed,
                 raisedLate>>

\* Mutant: the flag goes down, and nobody is told.
CloseQuietly ==
  /\ BeginClose
  /\ SizeMutexFree /\ blocked' = FALSE
  /\ UNCHANGED <<putTest, putSchedule, putLock, putHeld, asleep, missed,
                 raisedLate>>

\* The first section of CloseImpl, under both locks.
CloseUnblocks == BeginClose /\ LockedUnblock

PutStep == PutPasses \/ PutRequestsGC \/ PutLocks \/ PutWaits

\* What does not touch the writers.
SchedulerStep ==
  /\ \/ TakeTask \/ WaitForDrops \/ StartGC \/ EndGC
     \/ BeginDrop \/ DropStep \/ CloseStep
  /\ UNCHANGED putVars

BlockingNext ==
  \/ SchedulerStep
  \/ \E size \in Size : OnCompactionCompleted(size)
  \/ \E size \in Size, again \in BOOLEAN : BackgroundGCReturns(size, again)
  \/ BeginPut \/ PutStep \/ CloseUnblocks

BlockingSpec == BlockingInit /\ [][BlockingNext]_allVars

UnlockedSpec ==
  BlockingInit
  /\ [][BlockingNext \/ PutQueuesUnlocked \/ PutSchedulesUnlocked]_allVars

(***************************************************************************)
(* The pool runs its tasks, a GC job and a call of the base database end,  *)
(* and mutex_ and size_mutex_ are granted to each thread that asks for     *)
(* them; a thread inside Put that is not asleep goes on.  Nothing forces a *)
(* request, a drop, a close, a Put or a compaction, nor a size to shrink.  *)
(***************************************************************************)
BlockingFairness ==
  /\ WF_allVars(TakeTask /\ UNCHANGED putVars)
  /\ WF_allVars(WaitForDrops /\ UNCHANGED putVars)
  /\ WF_allVars(StartGC /\ UNCHANGED putVars)
  /\ WF_allVars(EndGC /\ UNCHANGED putVars)
  /\ WF_allVars(\E size \in Size, again \in BOOLEAN :
                  BackgroundGCReturns(size, again))
  /\ WF_allVars(WaitForGC /\ UNCHANGED putVars)
  /\ WF_allVars(StartDrop /\ UNCHANGED putVars)
  /\ WF_allVars((BaseDropOK \/ BaseDropFails) /\ UNCHANGED putVars)
  /\ WF_allVars(EndDrop /\ UNCHANGED putVars)
  /\ WF_allVars(CloseStep /\ UNCHANGED putVars)
  /\ WF_allVars(PutPasses \/ PutRequestsGC)
  /\ WF_allVars(PutLocks) /\ WF_allVars(PutWaits)

BlockingFairSpec == BlockingSpec /\ BlockingFairness

-----------------------------------------------------------------------------
(***************************************************************************)
(* Properties                                                              *)
(***************************************************************************)

\* No wakeup is lost but the one that OnCompactionCompleted sends without
\* size_mutex_, between a writer's look at the flag and its Wait: every other
\* writer that sleeps, or is about to, does so while the flag is up.
SleepersBlocked == asleep + putHeld > 0 /\ ~missed => blocked

\* A close gets every writer out of Put, also one that had missed a wakeup,
\* unless a compaction that ends after the first section of CloseImpl raises
\* the flag again.
CloseFreesWriters == closePc # "open" ~> inPut = 0 \/ raisedLate
=============================================================================
