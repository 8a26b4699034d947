------------------------- MODULE WorkerMonitorProofs -------------------------
(***************************************************************************)
(* Theorems about the promise of sched::worker, for every set of workers   *)
(* and of jobs.                                                            *)
(***************************************************************************)
EXTENDS WorkerMonitor, TLAPS

USE DEF ThreadGoes, OwnerGoes

-------------------------------------------------------------------------------
(* Type correctness *)

LEMMA MonitorTypeStep ==
  ASSUME TypeOK, [MonitorNext]_monitorVars
  PROVE  TypeOK'
<1> USE DEF TypeOK, ThreadPoints, OwnerPoints
<1>1. CASE UNCHANGED monitorVars BY <1>1 DEF monitorVars
<1>2. ASSUME NEW w \in Workers, Thread(w) PROVE TypeOK'
  <2>1. CASE Rise(w)  BY <2>1 DEF Rise
  <2>2. CASE Check(w) BY <2>2 DEF Check
  <2>3. CASE PopJob(w)
    <3>1. Head(jobs[w]) \in Jobs /\ Tail(jobs[w]) \in Seq(Jobs)
      BY <2>3 DEF PopJob
    <3> QED BY <2>3, <3>1 DEF PopJob
  <2>4. CASE PopNothing(w) BY <2>4 DEF PopNothing
  <2>5. CASE Run(w)   BY <2>5 DEF Run
  <2>6. CASE Rest(w)  BY <2>6 DEF Rest
  <2>7. CASE Leave(w) BY <2>7 DEF Leave
  <2> QED BY <1>2, <2>1, <2>2, <2>3, <2>4, <2>5, <2>6, <2>7 DEF Thread
<1>3. ASSUME NEW w \in Workers, Continue(w) PROVE TypeOK'
  BY <1>3 DEF Continue, Detach, Wake, WaitReturn, StopAwake, StopReturn
<1>4. ASSUME NEW w \in Workers, Begin(w) PROVE TypeOK'
  <2>1. CASE Construct(w)  BY <2>1 DEF Construct
  <2>2. CASE \E j \in Jobs : Assign(w, j) BY <2>2 DEF Assign
  <2>3. CASE WaitBegin(w)  BY <2>3 DEF WaitBegin
  <2>4. CASE StopActive(w) BY <2>4 DEF StopActive
  <2> QED BY <1>4, <2>1, <2>2, <2>3, <2>4 DEF Begin
<1> QED BY <1>1, <1>2, <1>3, <1>4 DEF MonitorNext

THEOREM MonitorTyping == MonitorSpec => []TypeOK
<1>1. MonitorInit => TypeOK
  BY DEF MonitorInit, TypeOK, ThreadPoints, OwnerPoints
<1> QED BY <1>1, MonitorTypeStep, PTL DEF MonitorSpec

-------------------------------------------------------------------------------
(* The barrier *)

\* The owner is not in a call that hands out work: nothing is, and nothing can
\* be, executed until the next assign().
AtRest(w) == call[w] \in {"ready", "stop_awake", "stopping", "gone"}

\* What the barrier rests on.  Between detach() and stop() the worker is active,
\* so its thread leaves the wait only with the flag up; the flag then stays up
\* until the thread has found the queue empty; so when the owner sees the flag
\* down, the work it announced is done, unless the announcement was forgotten.
BarrierInv ==
  \A w \in Workers :
    /\ call[w] \in {"none", "built"} =>
         /\ ~active[w] /\ ~awake[w] /\ jobs[w] = <<>>
         /\ pc[w] \notin {"pop", "run", "rest"}
    /\ call[w] = "none" => pc[w] = "unborn"
    /\ call[w] \in {"ready", "assigned", "fed", "wait"} => active[w]
    /\ call[w] \in {"stop_awake", "stopping", "gone"} => ~active[w]
    /\ call[w] = "ready" => ~awake[w]
    /\ AtRest(w) =>
         /\ pc[w] # "run"
         /\ jobs[w] = <<>> \/ (overlap[w] /\ pc[w] # "pop")
    /\ call[w] = "ready" /\ pc[w] = "check" => jobs[w] = <<>>
    /\ call[w] \in {"fed", "wait"} =>
         /\ pc[w] = "run" => awake[w]
         /\ pc[w] \in {"check", "pop"} => awake[w] \/ jobs[w] = <<>>
         /\ jobs[w] = <<>> \/ overlap[w]
              \/ (awake[w] /\ pc[w] \notin {"rest", "leave"})

LEMMA BarrierStep ==
  ASSUME TypeOK, BarrierInv, [MonitorNext]_monitorVars
  PROVE  BarrierInv'
<1> USE DEF TypeOK, BarrierInv, AtRest, ThreadPoints, OwnerPoints
<1>1. CASE UNCHANGED monitorVars BY <1>1 DEF monitorVars
<1>2. ASSUME NEW w \in Workers, Thread(w) PROVE BarrierInv'
  <2>1. CASE Rise(w)  BY <2>1 DEF Rise
  <2>2. CASE Check(w) BY <2>2 DEF Check
  <2>3. CASE PopJob(w)
    <3>1. jobs[w] # <<>> /\ pc[w] = "pop" /\ pc' = [pc EXCEPT ![w] = "run"]
      BY <2>3 DEF PopJob
    <3>2. \A v \in Workers : v # w => jobs'[v] = jobs[v]
      BY <2>3 DEF PopJob
    <3>3. call[w] = "assigned" \/ (call[w] \in {"fed", "wait"} /\ awake[w])
      BY <3>1
    <3>4. UNCHANGED <<call, active, awake, overlap>>
      BY <2>3 DEF PopJob
    <3> QED BY <3>1, <3>2, <3>3, <3>4
  <2>4. CASE PopNothing(w) BY <2>4 DEF PopNothing
  <2>5. CASE Run(w)   BY <2>5 DEF Run
  <2>6. CASE Rest(w)  BY <2>6 DEF Rest
  <2>7. CASE Leave(w) BY <2>7 DEF Leave
  <2> QED BY <1>2, <2>1, <2>2, <2>3, <2>4, <2>5, <2>6, <2>7 DEF Thread
<1>3. ASSUME NEW w \in Workers, Continue(w) PROVE BarrierInv'
  <2>1. CASE Detach(w)     BY <2>1 DEF Detach
  <2>2. CASE Wake(w)       BY <2>2 DEF Wake
  <2>3. CASE WaitReturn(w) BY <2>3 DEF WaitReturn
  <2>4. CASE StopAwake(w)  BY <2>4 DEF StopAwake
  <2>5. CASE StopReturn(w) BY <2>5 DEF StopReturn
  <2> QED BY <1>3, <2>1, <2>2, <2>3, <2>4, <2>5 DEF Continue
<1>4. ASSUME NEW w \in Workers, Begin(w) PROVE BarrierInv'
  <2>1. CASE Construct(w)  BY <2>1 DEF Construct
  <2>2. CASE \E j \in Jobs : Assign(w, j) BY <2>2 DEF Assign
  <2>3. CASE WaitBegin(w)  BY <2>3 DEF WaitBegin
  <2>4. CASE StopActive(w) BY <2>4 DEF StopActive
  <2> QED BY <1>4, <2>1, <2>2, <2>3, <2>4 DEF Begin
<1> QED BY <1>1, <1>2, <1>3, <1>4 DEF MonitorNext

\* When wait_cycle_finish or stop has returned nothing runs, and what is left in
\* the queue was left by a forgotten wake (worker.cpp:34-50, 113-140).
THEOREM BarrierHolds == MonitorSpec => [](Barrier /\ PendingWorkHoldsBarrier)
<1>1. MonitorInit => BarrierInv
  BY DEF MonitorInit, BarrierInv, AtRest
<1>2. TypeOK /\ BarrierInv => Barrier /\ PendingWorkHoldsBarrier
  BY DEF TypeOK, BarrierInv, AtRest, Barrier, PendingWorkHoldsBarrier, OwnerPoints
<1> QED BY <1>1, <1>2, BarrierStep, MonitorTyping, PTL DEF MonitorSpec

===============================================================================
