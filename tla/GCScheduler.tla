---------------------------- MODULE GCScheduler ----------------------------
(***************************************************************************)
(* How DiffKV schedules background GC and keeps it apart from dropping a   *)
(* column family and from closing the database (diffkv/src/db_impl_gc.cc,  *)
(* db_impl.cc, db_impl.h).                                                 *)
(*                                                                         *)
(* The queue gc_queue_, the counters and the condition variable bg_cv_ are *)
(* guarded by mutex_: an action is one critical section, or a step outside *)
(* it.  Threads of the same kind are interchangeable, so the model counts  *)
(* the threads at each program point.  A thread in bg_cv_.Wait moves only  *)
(* when bg_cv_ is signalled, and then checks its condition again.          *)
(***************************************************************************)
EXTENDS Integers

CONSTANTS
  MaxBackgroundGC,  \* TitanDBOptions::max_background_gc
  MaxRequests,      \* bound: GC requests
  MaxDrops,         \* bound: calls of DropColumnFamilies
  DropFaults        \* may the base database refuse to drop?

ASSUME SchedulerAssumption ==
  /\ MaxBackgroundGC \in Nat \ {0}
  /\ MaxRequests \in Nat /\ MaxDrops \in Nat
ASSUME DropFaultsAssumption == DropFaults \in BOOLEAN

VARIABLES
  queued,       \* size of gc_queue_
  unscheduled,  \* unscheduled_gc_
  scheduled,    \* bg_gc_scheduled_
  running,      \* bg_gc_running_
  dropReqs,     \* drop_cf_requests_
  pool,         \* tasks in the Env's thread pool that no thread has taken
  entering,     \* GC threads that are about to lock mutex_ and check
  waiting,      \* GC threads in bg_cv_.Wait
  collecting,   \* GC threads inside BackgroundGC
  ending,       \* GC threads past it, flushing their log outside mutex_
  dropEntering, \* droppers that are about to check bg_gc_running_
  dropWaiting,  \* droppers in bg_cv_.Wait
  dropBase,     \* droppers inside the base database's DropColumnFamilies
  dropDone,     \* droppers whose base drop succeeded, before the last section
  closePc,      \* CloseImpl
  unscheduledByClose,  \* gc_unscheduled of CloseImpl
  requests, drops      \* history: how many requests and drops so far

threads == <<pool, entering, waiting, collecting, ending>>
droppers == <<dropEntering, dropWaiting, dropBase, dropDone>>
vars == <<queued, unscheduled, scheduled, running, dropReqs, threads, droppers,
          closePc, unscheduledByClose, requests, drops>>

TypeOK ==
  /\ queued \in Nat /\ unscheduled \in Nat /\ scheduled \in Nat
  /\ running \in Nat /\ dropReqs \in Nat
  /\ pool \in Nat /\ entering \in Nat /\ waiting \in Nat /\ collecting \in Nat
  /\ ending \in Nat
  /\ dropEntering \in Nat /\ dropWaiting \in Nat
  /\ dropBase \in Nat /\ dropDone \in Nat
  /\ closePc \in {"open", "unschedule", "subtract", "check", "waiting",
                  "closed"}
  /\ unscheduledByClose \in Nat
  /\ requests \in 0..MaxRequests /\ drops \in 0..MaxDrops

Init ==
  /\ queued = 0 /\ unscheduled = 0 /\ scheduled = 0 /\ running = 0
  /\ dropReqs = 0
  /\ pool = 0 /\ entering = 0 /\ waiting = 0 /\ collecting = 0
  /\ ending = 0
  /\ dropEntering = 0 /\ dropWaiting = 0 /\ dropBase = 0 /\ dropDone = 0
  /\ closePc = "open" /\ unscheduledByClose = 0
  /\ requests = 0 /\ drops = 0

-----------------------------------------------------------------------------
\* shuting_down_, which CloseImpl sets first.
shuttingDown == closePc # "open"

\* Mutants: one task too many; one too few.
GrantedOneMore(u, s) ==
  IF shuttingDown \/ s > MaxBackgroundGC THEN 0
  ELSE IF u <= MaxBackgroundGC + 1 - s THEN u ELSE MaxBackgroundGC + 1 - s
GrantedOneLess(u, s) ==
  IF shuttingDown \/ s >= MaxBackgroundGC - 1 THEN 0
  ELSE IF u <= MaxBackgroundGC - 1 - s THEN u ELSE MaxBackgroundGC - 1 - s

\* MaybeScheduleGC, from u unscheduled requests, s scheduled tasks and p tasks in
\* the pool: as many requests become tasks as max_background_gc allows.
Granted(u, s) ==
  IF shuttingDown \/ s >= MaxBackgroundGC THEN 0
  ELSE IF u <= MaxBackgroundGC - s THEN u ELSE MaxBackgroundGC - s

MaybeScheduleGC(u, s) ==
  /\ unscheduled' = u - Granted(u, s)
  /\ scheduled' = s + Granted(u, s)
  /\ pool' = pool + Granted(u, s)

\* Mutant: a family that is queued already is not queued again.
RequestGCOnce ==
  /\ closePc # "closed" /\ requests < MaxRequests
  /\ requests' = requests + 1
  /\ queued' = IF queued > 0 THEN queued ELSE queued + 1
  /\ MaybeScheduleGC(unscheduled + 1, scheduled)
  /\ UNCHANGED <<running, dropReqs, entering, waiting,
                 collecting, ending, droppers, closePc, unscheduledByClose,
                 drops>>

\* OnCompactionCompleted: AddToGCQueue and MaybeScheduleGC.
RequestGC ==
  /\ closePc # "closed" /\ requests < MaxRequests
  /\ requests' = requests + 1
  /\ queued' = queued + 1
  /\ MaybeScheduleGC(unscheduled + 1, scheduled)
  /\ UNCHANGED <<running, dropReqs, entering, waiting,
                 collecting, ending, droppers, closePc, unscheduledByClose,
                 drops>>

\* Mutant: the task is counted out twice.
TakeTaskTwice ==
  /\ pool > 0
  /\ pool' = pool - 2 /\ entering' = entering + 1
  /\ UNCHANGED <<queued, unscheduled, scheduled, running, dropReqs, waiting, collecting, ending, droppers, closePc,
                 unscheduledByClose, requests, drops>>

\* A thread of the pool takes a task and enters BackgroundCallGC.
TakeTask ==
  /\ pool > 0
  /\ pool' = pool - 1 /\ entering' = entering + 1
  /\ UNCHANGED <<queued, unscheduled, scheduled, running, dropReqs, waiting, collecting, ending, droppers, closePc,
                 unscheduledByClose, requests, drops>>

\* BackgroundCallGC with a drop pending: wait.
WaitForDrops ==
  /\ entering > 0 /\ dropReqs > 0
  /\ entering' = entering - 1 /\ waiting' = waiting + 1
  /\ UNCHANGED <<queued, unscheduled, scheduled, running, dropReqs, pool, collecting, ending, droppers, closePc,
                 unscheduledByClose, requests, drops>>

\* Mutant: GC starts without looking at drop_cf_requests_.
StartGCUnchecked ==
  /\ entering > 0
  /\ entering' = entering - 1
  /\ running' = running + 1
  /\ queued' = IF queued > 0 THEN queued - 1 ELSE queued
  /\ collecting' = collecting + 1
  /\ UNCHANGED <<unscheduled, scheduled, dropReqs, pool,
                 waiting, ending, droppers, closePc, unscheduledByClose,
                 requests, drops>>

\* BackgroundCallGC without: count the job, pop the queue, start BackgroundGC.
StartGC ==
  /\ entering > 0 /\ dropReqs = 0
  /\ entering' = entering - 1
  /\ running' = running + 1
  /\ IF queued > 0
       THEN queued' = queued - 1 /\ collecting' = collecting + 1
                                 /\ UNCHANGED ending
       ELSE ending' = ending + 1 /\ UNCHANGED <<queued, collecting>>
  /\ UNCHANGED <<unscheduled, scheduled, dropReqs, pool,
                 waiting, droppers, closePc, unscheduledByClose, requests,
                 drops>>

\* BackgroundGC returns; when files are left, the family is queued again.
FinishBackgroundGC(again) ==
  /\ collecting > 0
  /\ again => requests < MaxRequests
  /\ collecting' = collecting - 1 /\ ending' = ending + 1
  /\ requests' = IF again THEN requests + 1 ELSE requests
  /\ queued' = IF again THEN queued + 1 ELSE queued
  /\ unscheduled' = IF again THEN unscheduled + 1 ELSE unscheduled
  /\ UNCHANGED <<scheduled, running, dropReqs, pool, entering,
                 waiting, droppers, closePc, unscheduledByClose, drops>>

\* bg_cv_.SignalAll wakes the waiters of all three kinds, or nobody.
SignalWorkers(go) ==
  /\ waiting' = IF go THEN 0 ELSE waiting
  /\ entering' = IF go THEN entering + waiting ELSE entering
\* Mutant: the thread in CloseImpl is not woken.
SignalOthersButClose(go) ==
  /\ dropWaiting' = IF go THEN 0 ELSE dropWaiting
  /\ dropEntering' = IF go THEN dropEntering + dropWaiting ELSE dropEntering
  /\ UNCHANGED closePc

SignalOthers(go) ==
  /\ dropWaiting' = IF go THEN 0 ELSE dropWaiting
  /\ dropEntering' = IF go THEN dropEntering + dropWaiting ELSE dropEntering
  /\ closePc' = IF go /\ closePc = "waiting" THEN "check" ELSE closePc

\* Mutant: signal only when no task is left.
GCShouldSignalIdle(s, r) == s = 0

\* The end of BackgroundCallGC: signal when one of the counters is 0, after the
\* queue was given the free slot.
GCShouldSignal(s, r) == s = 0 \/ r = 0

EndGC ==
  /\ ending > 0
  /\ running' = running - 1
  /\ ending' = ending - 1
  /\ MaybeScheduleGC(unscheduled, scheduled - 1)
  /\ SignalWorkers(GCShouldSignal(scheduled', running'))
  /\ SignalOthers(GCShouldSignal(scheduled', running'))
  /\ UNCHANGED <<queued, dropReqs, collecting, dropBase,
                 dropDone, unscheduledByClose, requests, drops>>

-----------------------------------------------------------------------------
\* DropColumnFamilies: announce the drop ...
BeginDrop ==
  /\ closePc = "open" /\ drops < MaxDrops
  /\ drops' = drops + 1
  /\ dropReqs' = dropReqs + 1
  /\ dropEntering' = dropEntering + 1
  /\ UNCHANGED <<queued, unscheduled, scheduled, running,
                 threads, dropWaiting, dropBase, dropDone, closePc,
                 unscheduledByClose, requests>>

\* ... wait while a GC runs ...
WaitForGC ==
  /\ dropEntering > 0 /\ running > 0
  /\ dropEntering' = dropEntering - 1 /\ dropWaiting' = dropWaiting + 1
  /\ UNCHANGED <<queued, unscheduled, scheduled, running, dropReqs, threads, dropBase, dropDone, closePc,
                 unscheduledByClose, requests, drops>>

\* ... and call the base database, outside mutex_.
StartDrop ==
  /\ dropEntering > 0 /\ running = 0
  /\ dropEntering' = dropEntering - 1 /\ dropBase' = dropBase + 1
  /\ UNCHANGED <<queued, unscheduled, scheduled, running, dropReqs, threads, dropWaiting, dropDone, closePc,
                 unscheduledByClose, requests, drops>>

BaseDropOK ==
  /\ dropBase > 0
  /\ dropBase' = dropBase - 1 /\ dropDone' = dropDone + 1
  /\ UNCHANGED <<queued, unscheduled, scheduled, running, dropReqs, threads, dropEntering, dropWaiting, closePc,
                 unscheduledByClose, requests, drops>>

\* The base drop failed: DropColumnFamilies returns, the request stays counted.
BaseDropFails ==
  /\ DropFaults
  /\ dropBase > 0
  /\ dropBase' = dropBase - 1
  /\ UNCHANGED <<queued, unscheduled, scheduled, running, dropReqs, threads, dropEntering, dropWaiting, dropDone,
                 closePc, unscheduledByClose, requests, drops>>

\* Mutant: nobody is told that the last drop has ended.
DropShouldSignalNever(d) == d < 0

\* The last section of DropColumnFamilies.
DropShouldSignal(d) == d = 0

EndDrop ==
  /\ dropDone > 0
  /\ dropDone' = dropDone - 1
  /\ dropReqs' = dropReqs - 1
  /\ SignalWorkers(DropShouldSignal(dropReqs'))
  /\ SignalOthers(DropShouldSignal(dropReqs'))
  /\ UNCHANGED <<queued, unscheduled, scheduled, running, pool,
                 collecting, ending, dropBase, unscheduledByClose, requests, drops>>

-----------------------------------------------------------------------------
\* CloseImpl: no drop is in progress when the user closes the database.
BeginClose ==
  /\ closePc = "open"
  /\ dropEntering + dropWaiting + dropBase + dropDone = 0
  /\ closePc' = "unschedule"
  /\ UNCHANGED <<queued, unscheduled, scheduled, running, dropReqs, threads,
                 droppers, unscheduledByClose, requests, drops>>

\* env_->UnSchedule takes the tasks that no thread has taken, without mutex_.
UnSchedule ==
  /\ closePc = "unschedule"
  /\ unscheduledByClose' = pool /\ pool' = 0
  /\ closePc' = "subtract"
  /\ UNCHANGED <<queued, unscheduled, scheduled, running, dropReqs, entering, waiting, collecting, ending, droppers,
                 requests, drops>>

\* Mutant: CloseImpl does not wait for the tasks that have started.
SubtractWithoutWait ==
  /\ closePc = "subtract"
  /\ scheduled' = scheduled - unscheduledByClose
  /\ unscheduledByClose' = 0
  /\ closePc' = "closed"
  /\ UNCHANGED <<queued, unscheduled, running, dropReqs,
                 threads, droppers, requests, drops>>

\* bg_gc_scheduled_ -= gc_unscheduled, and the first check of the wait loop.
SubtractUnscheduled ==
  /\ closePc = "subtract"
  /\ scheduled' = scheduled - unscheduledByClose
  /\ unscheduledByClose' = 0
  /\ closePc' = IF scheduled' > 0 THEN "waiting" ELSE "closed"
  /\ UNCHANGED <<queued, unscheduled, running, dropReqs,
                 threads, droppers, requests, drops>>

CheckScheduled ==
  /\ closePc = "check"
  /\ closePc' = IF scheduled > 0 THEN "waiting" ELSE "closed"
  /\ UNCHANGED <<queued, unscheduled, scheduled, running, dropReqs, threads, droppers, unscheduledByClose,
                 requests, drops>>

-----------------------------------------------------------------------------
WorkerStep == \/ TakeTask \/ WaitForDrops \/ StartGC
              \/ \E again \in BOOLEAN : FinishBackgroundGC(again)
              \/ EndGC
DropStep   == WaitForGC \/ StartDrop \/ BaseDropOK \/ BaseDropFails \/ EndDrop
CloseStep  == UnSchedule \/ SubtractUnscheduled \/ CheckScheduled

Next == \/ RequestGC \/ WorkerStep
        \/ BeginDrop \/ DropStep \/ BeginClose \/ CloseStep

Spec == Init /\ [][Next]_vars

-----------------------------------------------------------------------------
(***************************************************************************)
(* Properties                                                              *)
(***************************************************************************)

\* The counters count: bg_gc_scheduled_ the tasks from MaybeScheduleGC to the
\* end of BackgroundCallGC, never more than max_background_gc,
\* bg_gc_running_ the jobs past the wait for drops.
CountersExact ==
  /\ scheduled = pool + entering + waiting + running + unscheduledByClose
  /\ scheduled <= MaxBackgroundGC
  /\ running = collecting + ending

\* A GC thread that gets past the wait finds a column family in gc_queue_.
QueueCoversTasks == entering + waiting + pool + unscheduled <= queued

\* No GC runs while the base database drops column families.
DropExcludesGC == dropBase + dropDone > 0 => running = 0

\* No GC thread is left when CloseImpl returns: the destructor frees the object.
CloseQuiesces ==
  closePc = "closed" => pool + entering + waiting + collecting + ending = 0

\* No GC request is left behind while a slot is free: either the slots are all
\* taken or a running job will hand out slots when it ends.
NoIdleSlot ==
  unscheduled > 0 /\ ~shuttingDown
    => scheduled = MaxBackgroundGC \/ collecting + ending > 0

\* Every drop that was announced ends.
DropEnds == dropEntering + dropWaiting > 0 ~> dropEntering + dropWaiting = 0

\* A drop that the base database refused has left its request counted.
Leaked == dropReqs > dropEntering + dropWaiting + dropBase + dropDone

\* Every close ends, unless a refused drop has blocked the GC threads for good.
CloseEnds == closePc # "open" ~> closePc = "closed" \/ Leaked

\* A GC thread that waits for drops eventually runs, with the same exception.
WaiterServed == waiting > 0 ~> waiting = 0 \/ Leaked
=============================================================================
