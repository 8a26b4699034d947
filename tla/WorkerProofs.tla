----------------------------- MODULE WorkerProofs -----------------------------
(***************************************************************************)
(* Theorems about sched::worker, for every set of workers and of jobs.     *)
(***************************************************************************)
EXTENDS Worker, TLAPS

\* Every variable that an action of a worker reads or writes is a function of
\* the workers: these are the definitions a step expands.
USE DEF ThreadGoes, OwnerGoes, Take, Release, NotifyThread, NotifyOwner

-------------------------------------------------------------------------------
(* Type correctness *)

\* Each variable keeps its type (worker.hpp:20-54).
LEMMA TypeThread ==
  ASSUME TypeOK, NEW w \in Workers, Thread(w) \/ Spurious(w)
  PROVE  TypeOK'
<1> USE DEF TypeOK, ThreadPoints, OwnerPoints, ThreadWaits, FinishWaits, StopWaits
<1>1. CASE MainLock(w)  BY <1>1 DEF MainLock
<1>2. CASE MainTest(w)  BY <1>2 DEF MainTest
<1>3. CASE MainPark(w)  BY <1>3 DEF MainPark
<1>4. CASE MainCheck(w) BY <1>4 DEF MainCheck
<1>5. CASE MainPop(w)
  <2>1. jobs[w] # <<>> => Head(jobs[w]) \in Jobs /\ Tail(jobs[w]) \in Seq(Jobs)
    OBVIOUS
  <2> QED BY <1>5, <2>1 DEF MainPop
<1>6. CASE MainRun(w)   BY <1>6 DEF MainRun
<1>7. CASE MainRest(w)  BY <1>7 DEF MainRest
<1>8. CASE MainSignal(w) BY <1>8 DEF MainSignal
<1>9. CASE MainLeave(w) BY <1>9 DEF MainLeave
<1>10. CASE MainFarewell(w) BY <1>10 DEF MainFarewell
<1>11. CASE Spurious(w) BY <1>11 DEF Spurious, MainSpurious, OwnerSpurious
<1> QED BY <1>1, <1>2, <1>3, <1>4, <1>5, <1>6, <1>7, <1>8, <1>9, <1>10, <1>11
        DEF Thread

LEMMA TypeOwner ==
  ASSUME TypeOK, NEW w \in Workers, Continue(w) \/ Begin(w)
  PROVE  TypeOK'
<1> USE DEF TypeOK, ThreadPoints, OwnerPoints, ThreadWaits, FinishWaits, StopWaits
<1>1. CASE Construct(w)  BY <1>1 DEF Construct
<1>2. CASE Detach(w)     BY <1>2 DEF Detach
<1>3. CASE \E j \in Jobs : Assign(w, j) BY <1>3 DEF Assign
<1>4. CASE WakeStore(w)  BY <1>4 DEF WakeStore
<1>5. CASE WakeNotify(w) BY <1>5 DEF WakeNotify
<1>6. CASE FinishBegin(w) BY <1>6 DEF FinishBegin, OwnerLocks
<1>7. CASE FinishContinue(w)
  BY <1>7 DEF FinishContinue, OwnerTests, OwnerParks, OwnerLocks
<1>8. CASE StopActive(w) BY <1>8 DEF StopActive
<1>9. CASE StopAwake(w)  BY <1>9 DEF StopAwake
<1>10. CASE StopNotify(w) BY <1>10 DEF StopNotify
<1>11. CASE StopContinue(w) /\ ~StopAwake(w) /\ ~StopNotify(w)
  BY <1>11 DEF StopContinue, OwnerTests, OwnerParks, OwnerLocks
<1> QED BY <1>1, <1>2, <1>3, <1>4, <1>5, <1>6, <1>7, <1>8, <1>9, <1>10, <1>11
        DEF Continue, Begin

THEOREM WorkerTyping == Spec => []TypeOK
<1>1. Init => TypeOK
  BY DEF Init, TypeOK, ThreadPoints, OwnerPoints, ThreadWaits
<1>2. TypeOK /\ [Next]_vars => TypeOK'
  <2> SUFFICES ASSUME TypeOK, [Next]_vars PROVE TypeOK'
    OBVIOUS
  <2>1. CASE Next BY <2>1, TypeThread, TypeOwner DEF Next
  <2>2. CASE UNCHANGED vars BY <2>2 DEF vars, TypeOK
  <2> QED BY <2>1, <2>2
<1> QED BY <1>1, <1>2, PTL DEF Spec

-------------------------------------------------------------------------------
(* No notification is lost *)

\* Before detach() the worker is inactive, and before the constructor has
\* launched it the thread is nowhere.
Unstarted ==
  \A w \in Workers :
    /\ call[w] = "none"  => pc[w] = "unborn"
    /\ call[w] \in {"none", "built"} => ~active[w]

\* NoLostNotification is not inductive on its own: that a notify_one under the
\* mutex finds the other side parked and not on its way to park is what
\* MutexHeld adds, and Unstarted covers the time before detach().
SignalInv == TypeOK /\ MutexHeld /\ NoLostNotification /\ Unstarted

LEMMA SignalThread ==
  ASSUME SignalInv, TypeOK', NEW w \in Workers, Thread(w) \/ Spurious(w)
  PROVE  SignalInv'
<1> USE DEF SignalInv, MutexHeld, NoLostNotification, Unstarted, TypeOK,
            ThreadPoints, OwnerPoints, ThreadWaits, FinishWaits, StopWaits
<1>1. CASE MainLock(w)  BY <1>1 DEF MainLock
<1>2. CASE MainTest(w)
  <2>1. CASE (awake[w] \/ ~active[w]) /\ ThreadGoes(w, "test", "check")
    BY <1>2, <2>1 DEF MainTest
  <2>2. CASE ~awake[w] /\ active[w] /\ ThreadGoes(w, "test", "parking")
    BY <1>2, <2>2 DEF MainTest
  <2> QED BY <1>2, <2>1, <2>2 DEF MainTest
<1>3. CASE MainPark(w)  BY <1>3 DEF MainPark
<1>4. CASE MainCheck(w) BY <1>4 DEF MainCheck
<1>5. CASE MainPop(w)
  <2>1. CASE ThreadGoes(w, "pop", "run")  BY <1>5, <2>1 DEF MainPop
  <2>2. CASE ThreadGoes(w, "pop", "rest") BY <1>5, <2>2 DEF MainPop
  <2> QED BY <1>5, <2>1, <2>2 DEF MainPop
<1>6. CASE MainRun(w)   BY <1>6 DEF MainRun
<1>7. CASE MainRest(w)  BY <1>7 DEF MainRest
<1>8. CASE MainSignal(w) BY <1>8 DEF MainSignal
<1>9. CASE MainLeave(w) BY <1>9 DEF MainLeave
<1>10. CASE MainFarewell(w) BY <1>10 DEF MainFarewell
<1>11. CASE MainSpurious(w) BY <1>11 DEF MainSpurious
<1>12. CASE OwnerSpurious(w, "finish_parked", "finish_lock")
  BY <1>12 DEF OwnerSpurious
<1>13. CASE OwnerSpurious(w, "stop_parked", "stop_relock")
  BY <1>13 DEF OwnerSpurious
<1> QED BY <1>1, <1>2, <1>3, <1>4, <1>5, <1>6, <1>7, <1>8, <1>9, <1>10, <1>11,
           <1>12, <1>13 DEF Thread, Spurious

LEMMA SignalOwner ==
  ASSUME SignalInv, TypeOK', NEW w \in Workers, Continue(w) \/ Begin(w)
  PROVE  SignalInv'
<1> USE DEF SignalInv, MutexHeld, NoLostNotification, Unstarted, TypeOK,
            ThreadPoints, OwnerPoints, ThreadWaits, FinishWaits, StopWaits
<1>1. CASE Construct(w)  BY <1>1 DEF Construct
<1>2. CASE Detach(w)     BY <1>2 DEF Detach
<1>3. CASE \E j \in Jobs : Assign(w, j) BY <1>3 DEF Assign
<1>4. CASE WakeStore(w)  BY <1>4 DEF WakeStore
<1>5. CASE WakeNotify(w) BY <1>5 DEF WakeNotify
<1>6. CASE FinishBegin(w) BY <1>6 DEF FinishBegin, OwnerLocks
<1>7. CASE FinishContinue(w)
  BY <1>7 DEF FinishContinue, OwnerTests, OwnerParks, OwnerLocks
<1>8. CASE StopActive(w) BY <1>8 DEF StopActive
<1>9. CASE StopAwake(w)  BY <1>9 DEF StopAwake
<1>10. CASE StopNotify(w) BY <1>10 DEF StopNotify
<1>11. CASE OwnerTests(w, "stop_test", "stop_parking", "gone")
  BY <1>11 DEF OwnerTests
<1>12. CASE OwnerParks(w, "stop_parking", "stop_parked") BY <1>12 DEF OwnerParks
<1>13. CASE OwnerLocks(w, "stop_relock", "stop_test") BY <1>13 DEF OwnerLocks
<1> QED BY <1>1, <1>2, <1>3, <1>4, <1>5, <1>6, <1>7, <1>8, <1>9, <1>10, <1>11,
           <1>12, <1>13 DEF Continue, Begin, StopContinue

LEMMA SignalInvariance == Spec => []SignalInv
<1>1. Init => SignalInv
  BY DEF Init, SignalInv, TypeOK, MutexHeld, NoLostNotification, Unstarted,
         ThreadPoints, OwnerPoints, ThreadWaits
<1>2. SignalInv /\ TypeOK' /\ [Next]_vars => SignalInv'
  <2> SUFFICES ASSUME SignalInv, TypeOK', [Next]_vars PROVE SignalInv'
    OBVIOUS
  <2>1. CASE Next BY <2>1, SignalThread, SignalOwner DEF Next
  <2>2. CASE UNCHANGED vars
    BY <2>2 DEF vars, SignalInv, TypeOK, MutexHeld, NoLostNotification, Unstarted
  <2> QED BY <2>1, <2>2
<1> QED BY <1>1, <1>2, WorkerTyping, PTL DEF Spec

\* worker::mutex excludes: who is in a critical section holds it, and so only
\* one side is (worker.cpp:21-22, 119-122, 137-139).
THEOREM MutexExcludes == Spec => []MutexHeld
<1>1. SignalInv => MutexHeld
  BY DEF SignalInv
<1> QED BY <1>1, SignalInvariance, PTL

\* A side that blocks although its predicate holds has a notify_one coming to
\* it, for any number of workers (worker.cpp:21-22, 50-54, 113-139).
THEOREM NotificationsArrive == Spec => []NoLostNotification
<1>1. SignalInv => NoLostNotification
  BY DEF SignalInv
<1> QED BY <1>1, SignalInvariance, PTL

-------------------------------------------------------------------------------
(* Worker implements WorkerMonitor *)

LEMMA ImplementThread ==
  ASSUME TypeOK, NEW w \in Workers, Thread(w) \/ Spurious(w)
  PROVE  [Monitor!MonitorNext]_(Monitor!monitorVars)
<1> USE DEF TypeOK, ThreadPoints, OwnerPoints, ThreadWaits, FinishWaits, StopWaits,
            threadPoint, ownerPoint, Monitor!ThreadGoes
<1>1. CASE MainLock(w)
  BY <1>1 DEF MainLock, Monitor!monitorVars
<1>2. CASE MainTest(w)
  <2>1. CASE ThreadGoes(w, "test", "parking")
    BY <1>2, <2>1 DEF MainTest, Monitor!monitorVars
  <2>2. CASE ThreadGoes(w, "test", "check")
    <3>1. Monitor!Rise(w)
      BY <1>2, <2>2 DEF MainTest, Monitor!Rise
    <3> QED BY <3>1 DEF Monitor!MonitorNext, Monitor!Thread
  <2> QED BY <1>2, <2>1, <2>2 DEF MainTest
<1>3. CASE MainPark(w)
  BY <1>3 DEF MainPark, Monitor!monitorVars
<1>4. CASE MainCheck(w)
  <2>1. Monitor!Check(w) BY <1>4 DEF MainCheck, Monitor!Check
  <2> QED BY <2>1 DEF Monitor!MonitorNext, Monitor!Thread
<1>5. CASE MainPop(w)
  <2>1. CASE jobs[w] # <<>>
    <3>1. Monitor!PopJob(w) BY <1>5, <2>1 DEF MainPop, Monitor!PopJob
    <3> QED BY <3>1 DEF Monitor!MonitorNext, Monitor!Thread
  <2>2. CASE jobs[w] = <<>>
    <3>1. Monitor!PopNothing(w) BY <1>5, <2>2 DEF MainPop, Monitor!PopNothing
    <3> QED BY <3>1 DEF Monitor!MonitorNext, Monitor!Thread
  <2> QED BY <2>1, <2>2
<1>6. CASE MainRun(w)
  <2>1. Monitor!Run(w) BY <1>6 DEF MainRun, Monitor!Run
  <2> QED BY <2>1 DEF Monitor!MonitorNext, Monitor!Thread
<1>7. CASE MainRest(w)
  <2>1. Monitor!Rest(w) BY <1>7 DEF MainRest, Monitor!Rest
  <2> QED BY <2>1 DEF Monitor!MonitorNext, Monitor!Thread
<1>8. CASE MainSignal(w)
  BY <1>8 DEF MainSignal, Monitor!monitorVars
<1>9. CASE MainLeave(w)
  <2>1. Monitor!Leave(w) BY <1>9 DEF MainLeave, Monitor!Leave
  <2> QED BY <2>1 DEF Monitor!MonitorNext, Monitor!Thread
<1>10. CASE MainFarewell(w)
  BY <1>10 DEF MainFarewell, Monitor!monitorVars
<1>11. CASE MainSpurious(w)
  BY <1>11 DEF MainSpurious, Monitor!monitorVars
<1>12. CASE OwnerSpurious(w, "finish_parked", "finish_lock")
  BY <1>12 DEF OwnerSpurious, Monitor!monitorVars
<1>13. CASE OwnerSpurious(w, "stop_parked", "stop_relock")
  BY <1>13 DEF OwnerSpurious, Monitor!monitorVars
<1> QED BY <1>1, <1>2, <1>3, <1>4, <1>5, <1>6, <1>7, <1>8, <1>9, <1>10, <1>11,
           <1>12, <1>13 DEF Thread, Spurious

LEMMA ImplementOwner ==
  ASSUME TypeOK, Unstarted, NEW w \in Workers, Continue(w) \/ Begin(w)
  PROVE  [Monitor!MonitorNext]_(Monitor!monitorVars)
<1> USE DEF TypeOK, ThreadPoints, OwnerPoints, ThreadWaits, FinishWaits, StopWaits,
            threadPoint, ownerPoint, Monitor!OwnerGoes
<1>1. CASE Construct(w)
  <2>1. Monitor!Construct(w) BY <1>1 DEF Construct, Unstarted, Monitor!Construct
  <2> QED BY <2>1 DEF Monitor!MonitorNext, Monitor!Begin
<1>2. CASE Detach(w)
  <2>1. Monitor!Detach(w) BY <1>2 DEF Detach, Monitor!Detach
  <2> QED BY <2>1 DEF Monitor!MonitorNext, Monitor!Continue
<1>3. ASSUME NEW j \in Jobs, Assign(w, j)
      PROVE  [Monitor!MonitorNext]_(Monitor!monitorVars)
  <2>1. Monitor!Assign(w, j) BY <1>3 DEF Assign, Monitor!Assign
  <2> QED BY <2>1 DEF Monitor!MonitorNext, Monitor!Begin
<1>4. CASE WakeStore(w)
  <2>1. Monitor!Wake(w) BY <1>4 DEF WakeStore, Monitor!Wake
  <2> QED BY <2>1 DEF Monitor!MonitorNext, Monitor!Continue
<1>5. CASE WakeNotify(w)
  BY <1>5 DEF WakeNotify, Monitor!monitorVars
<1>6. CASE FinishBegin(w)
  <2>1. PICK from \in {"ready", "fed"} : OwnerLocks(w, from, "finish_test")
    BY <1>6 DEF FinishBegin
  <2>2. Monitor!OwnerGoes(w, from, "wait")
    BY <2>1 DEF OwnerLocks
  <2>3. Monitor!WaitBegin(w)
    BY <2>1, <2>2 DEF OwnerLocks, Monitor!WaitBegin
  <2> QED BY <2>3 DEF Monitor!MonitorNext, Monitor!Begin
<1>7. CASE OwnerTests(w, "finish_test", "finish_parking", "ready")
  <2>1. CASE OwnerGoes(w, "finish_test", "finish_parking")
    BY <1>7, <2>1 DEF OwnerTests, Monitor!monitorVars
  <2>2. CASE ~awake[w] /\ OwnerGoes(w, "finish_test", "ready")
    <3>1. Monitor!WaitReturn(w)
      BY <1>7, <2>2 DEF OwnerTests, Monitor!WaitReturn
    <3> QED BY <3>1 DEF Monitor!MonitorNext, Monitor!Continue
  <2> QED BY <1>7, <2>1, <2>2 DEF OwnerTests
<1>8. CASE OwnerParks(w, "finish_parking", "finish_parked")
  BY <1>8 DEF OwnerParks, Monitor!monitorVars
<1>9. CASE OwnerLocks(w, "finish_lock", "finish_test")
  BY <1>9 DEF OwnerLocks, Monitor!monitorVars
<1>10. CASE StopActive(w)
  <2>1. Monitor!StopActive(w) BY <1>10 DEF StopActive, Monitor!StopActive
  <2> QED BY <2>1 DEF Monitor!MonitorNext, Monitor!Begin
<1>11. CASE StopAwake(w)
  <2>1. Monitor!StopAwake(w) BY <1>11 DEF StopAwake, Monitor!StopAwake
  <2> QED BY <2>1 DEF Monitor!MonitorNext, Monitor!Continue
<1>12. CASE StopNotify(w)
  BY <1>12 DEF StopNotify, Monitor!monitorVars
<1>13. CASE OwnerTests(w, "stop_test", "stop_parking", "gone")
  <2>1. CASE OwnerGoes(w, "stop_test", "stop_parking")
    BY <1>13, <2>1 DEF OwnerTests, Monitor!monitorVars
  <2>2. CASE ~awake[w] /\ OwnerGoes(w, "stop_test", "gone")
    <3>1. Monitor!StopReturn(w)
      BY <1>13, <2>2 DEF OwnerTests, Monitor!StopReturn
    <3> QED BY <3>1 DEF Monitor!MonitorNext, Monitor!Continue
  <2> QED BY <1>13, <2>1, <2>2 DEF OwnerTests
<1>14. CASE OwnerParks(w, "stop_parking", "stop_parked")
  BY <1>14 DEF OwnerParks, Monitor!monitorVars
<1>15. CASE OwnerLocks(w, "stop_relock", "stop_test")
  BY <1>15 DEF OwnerLocks, Monitor!monitorVars
<1> QED BY <1>1, <1>2, <1>3, <1>4, <1>5, <1>6, <1>7, <1>8, <1>9, <1>10, <1>11,
           <1>12, <1>13, <1>14, <1>15
        DEF Continue, Begin, FinishContinue, StopContinue

\* Every behaviour of the worker with its mutex and condition variable is one
\* that the monitor allows (worker.cpp:9-140): the safety half of
\* ImplementsMonitor.
THEOREM WorkerImplementsMonitor == Spec => Monitor!MonitorSpec
<1>1. Init => Monitor!MonitorInit
  BY DEF Init, Monitor!MonitorInit, threadPoint, ownerPoint, ThreadWaits,
         FinishWaits, StopWaits
<1>2. TypeOK /\ Unstarted /\ [Next]_vars
        => [Monitor!MonitorNext]_(Monitor!monitorVars)
  <2> SUFFICES ASSUME TypeOK, Unstarted, [Next]_vars
               PROVE  [Monitor!MonitorNext]_(Monitor!monitorVars)
    OBVIOUS
  <2>1. CASE Next BY <2>1, ImplementThread, ImplementOwner DEF Next
  <2>2. CASE UNCHANGED vars
    BY <2>2 DEF vars, Monitor!monitorVars, threadPoint, ownerPoint
  <2> QED BY <2>1, <2>2
<1>3. SignalInv => Unstarted
  BY DEF SignalInv
<1> QED BY <1>1, <1>2, <1>3, WorkerTyping, SignalInvariance, PTL
        DEF Spec, Monitor!MonitorSpec

-------------------------------------------------------------------------------
(* The barrier of the implementation *)

Proved == INSTANCE WorkerMonitorProofs WITH pc <- threadPoint, call <- ownerPoint

\* What is proved of the monitor holds in the worker that implements it.
LEMMA MonitorPromises == Spec => [](WorkerBarrier /\ PendingWork)
<1>1. Proved!MonitorSpec => [](Proved!Barrier /\ Proved!PendingWorkHoldsBarrier)
  BY WorkerAssumption, Proved!BarrierHolds DEF WorkerAssumption, Proved!MonitorAssumption
<1>2. Monitor!MonitorInit => Proved!MonitorInit
  BY DEF Monitor!MonitorInit, Proved!MonitorInit
<1>3. [Monitor!MonitorNext]_(Monitor!monitorVars)
        => [Proved!MonitorNext]_(Proved!monitorVars)
  BY DEF Monitor!MonitorNext, Proved!MonitorNext, Monitor!Thread,
         Proved!Thread, Monitor!Continue, Proved!Continue,
         Monitor!Begin, Proved!Begin, Monitor!Rise, Proved!Rise,
         Monitor!Check, Proved!Check, Monitor!PopJob, Proved!PopJob,
         Monitor!PopNothing, Proved!PopNothing, Monitor!Run,
         Proved!Run, Monitor!Rest, Proved!Rest, Monitor!Leave,
         Proved!Leave, Monitor!Construct, Proved!Construct,
         Monitor!Detach, Proved!Detach, Monitor!Assign, Proved!Assign,
         Monitor!Wake, Proved!Wake, Monitor!WaitBegin,
         Proved!WaitBegin, Monitor!WaitReturn, Proved!WaitReturn,
         Monitor!StopActive, Proved!StopActive, Monitor!StopAwake,
         Proved!StopAwake, Monitor!StopReturn, Proved!StopReturn,
         Monitor!ThreadGoes, Proved!ThreadGoes, Monitor!OwnerGoes,
         Proved!OwnerGoes, Monitor!monitorVars, Proved!monitorVars
<1>4. Proved!Barrier => WorkerBarrier
  BY DEF Proved!Barrier, WorkerBarrier, Monitor!Barrier
<1>5. Proved!PendingWorkHoldsBarrier => PendingWork
  BY DEF Proved!PendingWorkHoldsBarrier, PendingWork, Monitor!PendingWorkHoldsBarrier
<1> QED BY <1>1, <1>2, <1>3, <1>4, <1>5, WorkerImplementsMonitor, PTL
        DEF Monitor!MonitorSpec, Proved!MonitorSpec

\* When wait_cycle_finish or stop has returned, the thread executes nothing and
\* the queue is empty unless a wake was forgotten (worker.cpp:113-140).
THEOREM WorkerBarrierHolds == Spec => []WorkerBarrier
BY MonitorPromises, PTL

\* While jobs are queued or one runs, the flag that keeps the barrier closed is
\* up, or the owner is about to raise it, or a wake was forgotten (worker.cpp:
\* 34-50, 95-99, 125-134).
THEOREM PendingWorkGuarded == Spec => []PendingWork
BY MonitorPromises, PTL

===============================================================================
