-------------------------------- MODULE Worker --------------------------------
(***************************************************************************)
(* sched::worker (src/src/sched/worker.hpp, worker.cpp): a thread that     *)
(* sleeps on a condition variable until its owner wakes it, executes the   *)
(* jobs queued for it, clears its _awake flag and sleeps again.  The owner *)
(* is the thread that calls the member functions: the one inside           *)
(* runner::start() first, the arbiter afterwards, one call at a time.      *)
(*                                                                         *)
(* pc[w] is the position of the worker's thread in worker_main, call[w]    *)
(* the position of the owner in the member function it is executing.  A    *)
(* step is one access to an atomic flag or to the queue, or one operation  *)
(* on the mutex and the condition variable.                                *)
(***************************************************************************)
EXTENDS Naturals, Sequences

CONSTANTS
  Workers,     \* the workers of the pool
  Jobs,        \* the jobs that can be assigned
  NoJob,       \* no job is being executed
  QueueBound   \* bound on a queue's length, for model checking only

ASSUME WorkerAssumption ==
  /\ NoJob \notin Jobs
  /\ QueueBound \in Nat

VARIABLES
  pc,       \* position of the thread in worker_main
  call,     \* position of the owner in the worker's member functions
  active,   \* worker::_active
  awake,    \* worker::_awake
  mutex,    \* worker::mutex: "free", or held by the "thread" or the "owner"
  jobs,     \* worker::_jobs
  current,  \* the job worker_main is executing
  overlap   \* history: since the last barrier a wake() has stored _awake after
            \* the thread had decided to clear it and before it did

vars == <<pc, call, active, awake, mutex, jobs, current, overlap>>

ThreadWaits == {"lock", "test", "parking", "parked", "signal"}

ThreadPoints ==
  ThreadWaits \cup
  {"unborn", "check", "pop", "run", "rest", "leave", "farewell", "ended"}

FinishWaits == {"finish_test", "finish_parking", "finish_parked", "finish_lock"}

StopWaits ==
  {"stop_lock", "stop_test", "stop_parking", "stop_parked", "stop_relock"}

OwnerPoints ==
  FinishWaits \cup StopWaits \cup
  {"none", "built", "ready", "assigned", "woken", "fed", "stop_awake", "gone"}

TypeOK ==
  /\ pc \in [Workers -> ThreadPoints]
  /\ call \in [Workers -> OwnerPoints]
  /\ active \in [Workers -> BOOLEAN]
  /\ awake \in [Workers -> BOOLEAN]
  /\ mutex \in [Workers -> {"free", "thread", "owner"}]
  /\ jobs \in [Workers -> Seq(Jobs)]
  /\ current \in [Workers -> Jobs \cup {NoJob}]
  /\ overlap \in [Workers -> BOOLEAN]

Init ==
  /\ pc      = [w \in Workers |-> "unborn"]
  /\ call    = [w \in Workers |-> "none"]
  /\ active  = [w \in Workers |-> FALSE]
  /\ awake   = [w \in Workers |-> FALSE]
  /\ mutex   = [w \in Workers |-> "free"]
  /\ jobs    = [w \in Workers |-> <<>>]
  /\ current = [w \in Workers |-> NoJob]
  /\ overlap = [w \in Workers |-> FALSE]

-------------------------------------------------------------------------------
(* The two sides of the condition variable.  Only the thread and the owner  *)
(* ever wait on it, so notify_one reaches the other side if it is parked;   *)
(* a notified waiter has to take the mutex and test its predicate again.    *)

NotifyThread(w) ==
  pc' = IF pc[w] = "parked" THEN [pc EXCEPT ![w] = "lock"] ELSE pc

NotifyOwner(w) ==
  call' = CASE call[w] = "finish_parked" -> [call EXCEPT ![w] = "finish_lock"]
            [] call[w] = "stop_parked"   -> [call EXCEPT ![w] = "stop_relock"]
            [] OTHER                     -> call

ThreadGoes(w, from, to) ==
  /\ pc[w] = from
  /\ pc' = [pc EXCEPT ![w] = to]

OwnerGoes(w, from, to) ==
  /\ call[w] = from
  /\ call' = [call EXCEPT ![w] = to]

Take(w, who) ==
  /\ mutex[w] = "free"
  /\ mutex' = [mutex EXCEPT ![w] = who]

Release(w) == mutex' = [mutex EXCEPT ![w] = "free"]

-------------------------------------------------------------------------------
(* worker_main *)

\* The lock_guard before the wait; also a parked thread that was notified.
MainLock(w) ==
  /\ ThreadGoes(w, "lock", "test")
  /\ Take(w, "thread")
  /\ UNCHANGED <<call, active, awake, jobs, current, overlap>>

\* The predicate of the wait: _awake || !_active.  When it holds, the wait
\* returns and the guard's scope ends; when it fails the thread, still holding
\* the mutex, is about to block.
MainTest(w) ==
  /\ \/ /\ awake[w] \/ ~active[w]
        /\ ThreadGoes(w, "test", "check")
        /\ Release(w)
     \/ /\ ~awake[w] /\ active[w]
        /\ ThreadGoes(w, "test", "parking")
        /\ UNCHANGED mutex
  /\ UNCHANGED <<call, active, awake, jobs, current, overlap>>

\* The wait blocks and releases the mutex in one atomic step.
MainPark(w) ==
  /\ ThreadGoes(w, "parking", "parked")
  /\ Release(w)
  /\ UNCHANGED <<call, active, awake, jobs, current, overlap>>

\* A condition variable may wake up without a notification.
MainSpurious(w) ==
  /\ ThreadGoes(w, "parked", "lock")
  /\ UNCHANGED <<call, active, awake, mutex, jobs, current, overlap>>

\* Mutant: the activity check is gone.
MainNoCheck(w) ==
  /\ ThreadGoes(w, "check", "pop")
  /\ UNCHANGED <<call, active, awake, mutex, jobs, current, overlap>>

\* The activity check: an inactive worker leaves the loop.
MainCheck(w) ==
  /\ ThreadGoes(w, "check", IF active[w] THEN "pop" ELSE "leave")
  /\ UNCHANGED <<call, active, awake, mutex, jobs, current, overlap>>

\* _jobs.try_pop: the cycle ends when it finds the queue empty.
MainPop(w) ==
  /\ \/ /\ jobs[w] # <<>>
        /\ ThreadGoes(w, "pop", "run")
        /\ current' = [current EXCEPT ![w] = Head(jobs[w])]
        /\ jobs' = [jobs EXCEPT ![w] = Tail(@)]
     \/ /\ jobs[w] = <<>>
        /\ ThreadGoes(w, "pop", "rest")
        /\ UNCHANGED <<jobs, current>>
  /\ UNCHANGED <<call, active, awake, mutex, overlap>>

\* Mutant: an if where the loop over the queue is.
MainRunOnce(w) ==
  /\ ThreadGoes(w, "run", "rest")
  /\ current' = [current EXCEPT ![w] = NoJob]
  /\ UNCHANGED <<call, active, awake, mutex, jobs, overlap>>

\* execute() returns, or throws a std::exception that the loop swallows.
MainRun(w) ==
  /\ ThreadGoes(w, "run", "pop")
  /\ current' = [current EXCEPT ![w] = NoJob]
  /\ UNCHANGED <<call, active, awake, mutex, jobs, overlap>>

\* The end of a cycle: _awake = false, outside the mutex ...
MainRest(w) ==
  /\ ThreadGoes(w, "rest", "signal")
  /\ awake' = [awake EXCEPT ![w] = FALSE]
  /\ UNCHANGED <<call, active, mutex, jobs, current, overlap>>

\* Mutant: the cycle ends without notify_one.
MainSignalNobody(w) ==
  /\ ThreadGoes(w, "signal", "lock")
  /\ mutex[w] = "free"
  /\ UNCHANGED <<call, active, awake, mutex, jobs, current, overlap>>

\* ... and then, under the mutex, notify_one.
MainSignal(w) ==
  /\ ThreadGoes(w, "signal", "lock")
  /\ mutex[w] = "free"
  /\ NotifyOwner(w)
  /\ UNCHANGED <<active, awake, mutex, jobs, current, overlap>>

\* After the loop the thread does the same two things and returns.
MainLeave(w) ==
  /\ ThreadGoes(w, "leave", "farewell")
  /\ awake' = [awake EXCEPT ![w] = FALSE]
  /\ UNCHANGED <<call, active, mutex, jobs, current, overlap>>

\* Mutant: the thread returns without notify_one.
MainFarewellNobody(w) ==
  /\ ThreadGoes(w, "farewell", "ended")
  /\ mutex[w] = "free"
  /\ UNCHANGED <<call, active, awake, mutex, jobs, current, overlap>>

MainFarewell(w) ==
  /\ ThreadGoes(w, "farewell", "ended")
  /\ mutex[w] = "free"
  /\ NotifyOwner(w)
  /\ UNCHANGED <<active, awake, mutex, jobs, current, overlap>>

-------------------------------------------------------------------------------
(* The owner *)

\* The constructor launches worker_main while _active is still false.
Construct(w) ==
  /\ OwnerGoes(w, "none", "built")
  /\ pc' = [pc EXCEPT ![w] = "lock"]
  /\ UNCHANGED <<active, awake, mutex, jobs, current, overlap>>

Detach(w) ==
  /\ OwnerGoes(w, "built", "ready")
  /\ active' = [active EXCEPT ![w] = TRUE]
  /\ UNCHANGED <<pc, awake, mutex, jobs, current, overlap>>

\* Mutant: assign() queues a pointer it has already moved from.
AssignMovedFrom(w, j) ==
  /\ call[w] \in {"ready", "fed"}
  /\ call' = [call EXCEPT ![w] = "assigned"]
  /\ jobs' = [jobs EXCEPT ![w] = Append(@, NoJob)]
  /\ overlap' = [overlap EXCEPT ![w] = @ /\ call[w] = "fed"]
  /\ UNCHANGED <<pc, active, awake, mutex, current>>

\* assign() and wake() always come together, any number of times between two
\* barriers: call[w] = "ready" right after a barrier, "fed" otherwise.
Assign(w, j) ==
  /\ call[w] \in {"ready", "fed"}
  /\ call' = [call EXCEPT ![w] = "assigned"]
  /\ jobs' = [jobs EXCEPT ![w] = Append(@, j)]
  /\ overlap' = [overlap EXCEPT ![w] = @ /\ call[w] = "fed"]
  /\ UNCHANGED <<pc, active, awake, mutex, current>>

WakeStore(w) ==
  /\ OwnerGoes(w, "assigned", "woken")
  /\ awake' = [awake EXCEPT ![w] = TRUE]
  /\ overlap' = [overlap EXCEPT ![w] = @ \/ pc[w] \in {"rest", "leave"}]
  /\ UNCHANGED <<pc, active, mutex, jobs, current>>

\* Mutant: wake() notifies without taking the mutex.
WakeNotifyUnlocked(w) ==
  /\ OwnerGoes(w, "woken", "fed")
  /\ NotifyThread(w)
  /\ UNCHANGED <<active, awake, mutex, jobs, current, overlap>>

WakeNotify(w) ==
  /\ OwnerGoes(w, "woken", "fed")
  /\ mutex[w] = "free"
  /\ NotifyThread(w)
  /\ UNCHANGED <<active, awake, mutex, jobs, current, overlap>>

\* The wait for !_awake, shared by wait_cycle_finish and stop.
OwnerTests(w, test, parking, return) ==
  /\ \/ /\ ~awake[w]
        /\ OwnerGoes(w, test, return)
        /\ Release(w)
     \/ /\ awake[w]
        /\ OwnerGoes(w, test, parking)
        /\ UNCHANGED mutex
  /\ UNCHANGED <<pc, active, awake, jobs, current, overlap>>

OwnerParks(w, parking, parked) ==
  /\ OwnerGoes(w, parking, parked)
  /\ Release(w)
  /\ UNCHANGED <<pc, active, awake, jobs, current, overlap>>

OwnerLocks(w, from, test) ==
  /\ OwnerGoes(w, from, test)
  /\ Take(w, "owner")
  /\ UNCHANGED <<pc, active, awake, jobs, current, overlap>>

OwnerSpurious(w, parked, lock) ==
  /\ OwnerGoes(w, parked, lock)
  /\ UNCHANGED <<pc, active, awake, mutex, jobs, current, overlap>>

\* wait_cycle_finish: the barrier.  It returns to "ready".
FinishBegin(w) == \E from \in {"ready", "fed"} : OwnerLocks(w, from, "finish_test")

\* Mutant: wait_cycle_finish waits without a predicate.
FinishContinueNoPredicate(w) ==
  \/ OwnerTests(w, "finish_test", "finish_parking", "ready")
  \/ OwnerParks(w, "finish_parking", "finish_parked")
  \/ mutex[w] = "free" /\ OwnerGoes(w, "finish_lock", "ready")
     /\ UNCHANGED <<pc, active, awake, mutex, jobs, current, overlap>>

FinishContinue(w) ==
  \/ OwnerTests(w, "finish_test", "finish_parking", "ready")
  \/ OwnerParks(w, "finish_parking", "finish_parked")
  \/ OwnerLocks(w, "finish_lock", "finish_test")

\* ~worker calls stop(), which runs after a barrier: _active and _awake are
\* stored outside the mutex, then notify_one and the wait happen inside it.
\* When it returns the worker object is freed.
StopActive(w) ==
  /\ OwnerGoes(w, "ready", "stop_awake")
  /\ active' = [active EXCEPT ![w] = FALSE]
  /\ UNCHANGED <<pc, awake, mutex, jobs, current, overlap>>

StopAwake(w) ==
  /\ OwnerGoes(w, "stop_awake", "stop_lock")
  /\ awake' = [awake EXCEPT ![w] = TRUE]
  /\ UNCHANGED <<pc, active, mutex, jobs, current, overlap>>

StopNotify(w) ==
  /\ OwnerGoes(w, "stop_lock", "stop_test")
  /\ Take(w, "owner")
  /\ NotifyThread(w)
  /\ UNCHANGED <<active, awake, jobs, current, overlap>>

StopContinue(w) ==
  \/ StopAwake(w)
  \/ StopNotify(w)
  \/ OwnerTests(w, "stop_test", "stop_parking", "gone")
  \/ OwnerParks(w, "stop_parking", "stop_parked")
  \/ OwnerLocks(w, "stop_relock", "stop_test")

-------------------------------------------------------------------------------
\* The steps of worker_main, but for the spurious wake-up.
Thread(w) ==
  \/ MainLock(w) \/ MainTest(w) \/ MainPark(w) \/ MainCheck(w) \/ MainPop(w)
  \/ MainRun(w) \/ MainRest(w) \/ MainSignal(w) \/ MainLeave(w)
  \/ MainFarewell(w)

\* The steps of the owner inside a call it has begun.
Continue(w) ==
  \/ Detach(w) \/ WakeStore(w) \/ WakeNotify(w)
  \/ FinishContinue(w) \/ StopContinue(w)

Spurious(w) ==
  \/ MainSpurious(w)
  \/ OwnerSpurious(w, "finish_parked", "finish_lock")
  \/ OwnerSpurious(w, "stop_parked", "stop_relock")

\* The steps that begin a call, in any order the class allows.
Begin(w) ==
  \/ Construct(w)
  \/ \E j \in Jobs : Len(jobs[w]) < QueueBound /\ Assign(w, j)
  \/ FinishBegin(w)
  \/ StopActive(w)

Next == \E w \in Workers : Thread(w) \/ Continue(w) \/ Spurious(w) \/ Begin(w)

\* The operating system runs every thread that can run, and a thread that keeps
\* trying for a mutex that is free again and again gets it in the end.  Nothing
\* obliges the owner to begin a call.
Fairness == \A w \in Workers : SF_vars(Thread(w)) /\ SF_vars(Continue(w))

Spec == Init /\ [][Next]_vars

FairSpec == Spec /\ Fairness

-------------------------------------------------------------------------------
(* Properties *)

\* Who is inside a critical section of worker::mutex holds it, so at most one
\* side is (worker.cpp:21-22, 119-122, 137-139).
MutexHeld ==
  \A w \in Workers :
    /\ pc[w] \in {"test", "parking"} <=> mutex[w] = "thread"
    /\ call[w] \in {"finish_test", "finish_parking", "stop_test", "stop_parking"}
         <=> mutex[w] = "owner"

\* The flags are stored outside the mutex (worker.cpp:50, 114-115, 127), and
\* still no notification is lost: a side that is blocked, or committed to
\* blocking, although its predicate holds has a notify_one coming to it.
NoLostNotification ==
  \A w \in Workers :
    /\ pc[w] \in {"parking", "parked"} /\ (awake[w] \/ ~active[w])
         => call[w] \in {"woken", "stop_awake", "stop_lock"}
    /\ call[w] \in {"finish_parking", "finish_parked",
                    "stop_parking", "stop_parked"} /\ ~awake[w]
         => pc[w] \in {"signal", "farewell"}

\* Worker implements WorkerMonitor: a thread between its waits is idle, a
\* finished store is a finished wake, and the waits of the owner are awaits.
threadPoint ==
  [w \in Workers |->
     CASE pc[w] \in ThreadWaits           -> "idle"
       [] pc[w] \in {"farewell", "ended"} -> "ended"
       [] OTHER                           -> pc[w]]

ownerPoint ==
  [w \in Workers |->
     CASE call[w] = "woken"       -> "fed"
       [] call[w] \in FinishWaits -> "wait"
       [] call[w] \in StopWaits   -> "stopping"
       [] OTHER                   -> call[w]]

Monitor == INSTANCE WorkerMonitor WITH pc <- threadPoint, call <- ownerPoint

\* What the monitor promises about pending work and about the barrier holds of
\* the implementation (worker.cpp:34-50, 95-99, 113-140).
WorkerBarrier == Monitor!Barrier

PendingWork == Monitor!PendingWorkHoldsBarrier

\* Every behaviour of the worker with its mutex and condition variable is one
\* the monitor allows, and its waits end whenever the awaits of the monitor
\* would (worker.cpp:9-68, 95-140).
ImplementsMonitor == Monitor!MonitorFairSpec

\* wait_cycle_finish returns, unless the thread has ended (worker.cpp:136-140).
WaitReturns ==
  \A w \in Workers :
    call[w] \in FinishWaits ~> call[w] = "ready" \/ pc[w] = "ended"

\* stop() returns, unless the thread ended before stop() raised _awake
\* (worker.cpp:113-122).
StopReturns ==
  \A w \in Workers :
    call[w] \in StopWaits ~> call[w] = "gone" \/ (pc[w] = "ended" /\ awake[w])

\* worker.cpp:113, "These two variables are atomic, so we don't need to lock":
\* a stop() of a worker whose thread is in its loop returns.
StopNeedsNoLock ==
  \A w \in Workers :
    (call[w] = "stop_awake" /\ pc[w] \in ThreadWaits) ~> call[w] = "gone"

===============================================================================
