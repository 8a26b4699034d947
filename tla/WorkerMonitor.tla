---------------------------- MODULE WorkerMonitor ----------------------------
(***************************************************************************)
(* What sched::worker promises to the code that uses it, with the mutex    *)
(* and the condition variable abstracted away: each of the three waits is  *)
(* one atomic await on the flags, and a wake-up is one store.  Worker      *)
(* implements this specification, and Runner builds the scheduler on it.   *)
(*                                                                         *)
(* The promise is weaker than it looks: _awake is one flag that the owner  *)
(* raises and the thread clears, so a wake that falls between the moment   *)
(* the thread found its queue empty and the moment it clears the flag is   *)
(* forgotten.  overlap[w] remembers that this happened.                    *)
(***************************************************************************)
EXTENDS Naturals, Sequences

CONSTANTS
  Workers,     \* the workers of the pool
  Jobs,        \* the jobs that can be assigned
  NoJob        \* no job is being executed

ASSUME MonitorAssumption == NoJob \notin Jobs

VARIABLES
  pc,       \* position of the thread in worker_main
  call,     \* position of the owner in the worker's member functions
  active,   \* worker::_active
  awake,    \* worker::_awake
  jobs,     \* worker::_jobs
  current,  \* the job worker_main is executing
  overlap   \* history: since the last barrier a wake() has stored _awake after
            \* the thread had decided to clear it and before it did

monitorVars == <<pc, call, active, awake, jobs, current, overlap>>

ThreadPoints ==
  {"unborn", "idle", "check", "pop", "run", "rest", "leave", "ended"}

OwnerPoints ==
  {"none", "built", "ready", "assigned", "fed", "wait", "stop_awake",
   "stopping", "gone"}

TypeOK ==
  /\ pc \in [Workers -> ThreadPoints]
  /\ call \in [Workers -> OwnerPoints]
  /\ active \in [Workers -> BOOLEAN]
  /\ awake \in [Workers -> BOOLEAN]
  /\ jobs \in [Workers -> Seq(Jobs)]
  /\ current \in [Workers -> Jobs \cup {NoJob}]
  /\ overlap \in [Workers -> BOOLEAN]

MonitorInit ==
  /\ pc      = [w \in Workers |-> "unborn"]
  /\ call    = [w \in Workers |-> "none"]
  /\ active  = [w \in Workers |-> FALSE]
  /\ awake   = [w \in Workers |-> FALSE]
  /\ jobs    = [w \in Workers |-> <<>>]
  /\ current = [w \in Workers |-> NoJob]
  /\ overlap = [w \in Workers |-> FALSE]

ThreadGoes(w, from, to) ==
  /\ pc[w] = from
  /\ pc' = [pc EXCEPT ![w] = to]

OwnerGoes(w, from, to) ==
  /\ call[w] = from
  /\ call' = [call EXCEPT ![w] = to]

-------------------------------------------------------------------------------
(* worker_main *)

Rise(w) ==
  /\ awake[w] \/ ~active[w]
  /\ ThreadGoes(w, "idle", "check")
  /\ UNCHANGED <<call, active, awake, jobs, current, overlap>>

Check(w) ==
  /\ ThreadGoes(w, "check", IF active[w] THEN "pop" ELSE "leave")
  /\ UNCHANGED <<call, active, awake, jobs, current, overlap>>

PopJob(w) ==
  /\ jobs[w] # <<>>
  /\ ThreadGoes(w, "pop", "run")
  /\ current' = [current EXCEPT ![w] = Head(jobs[w])]
  /\ jobs' = [jobs EXCEPT ![w] = Tail(@)]
  /\ UNCHANGED <<call, active, awake, overlap>>

PopNothing(w) ==
  /\ jobs[w] = <<>>
  /\ ThreadGoes(w, "pop", "rest")
  /\ UNCHANGED <<call, active, awake, jobs, current, overlap>>

Run(w) ==
  /\ ThreadGoes(w, "run", "pop")
  /\ current' = [current EXCEPT ![w] = NoJob]
  /\ UNCHANGED <<call, active, awake, jobs, overlap>>

\* Mutant: the flag is not cleared at the end of a cycle.
RestAwake(w) ==
  /\ ThreadGoes(w, "rest", "idle")
  /\ UNCHANGED <<call, active, awake, jobs, current, overlap>>

\* End of a cycle, and end of the thread: _awake is cleared unconditionally.
Rest(w) ==
  /\ ThreadGoes(w, "rest", "idle")
  /\ awake' = [awake EXCEPT ![w] = FALSE]
  /\ UNCHANGED <<call, active, jobs, current, overlap>>

Leave(w) ==
  /\ ThreadGoes(w, "leave", "ended")
  /\ awake' = [awake EXCEPT ![w] = FALSE]
  /\ UNCHANGED <<call, active, jobs, current, overlap>>

-------------------------------------------------------------------------------
(* The owner *)

Construct(w) ==
  /\ OwnerGoes(w, "none", "built")
  /\ pc' = [pc EXCEPT ![w] = "idle"]
  /\ UNCHANGED <<active, awake, jobs, current, overlap>>

Detach(w) ==
  /\ OwnerGoes(w, "built", "ready")
  /\ active' = [active EXCEPT ![w] = TRUE]
  /\ UNCHANGED <<pc, awake, jobs, current, overlap>>

Assign(w, j) ==
  /\ call[w] \in {"ready", "fed"}
  /\ call' = [call EXCEPT ![w] = "assigned"]
  /\ jobs' = [jobs EXCEPT ![w] = Append(@, j)]
  /\ overlap' = [overlap EXCEPT ![w] = @ /\ call[w] = "fed"]
  /\ UNCHANGED <<pc, active, awake, current>>

Wake(w) ==
  /\ OwnerGoes(w, "assigned", "fed")
  /\ awake' = [awake EXCEPT ![w] = TRUE]
  /\ overlap' = [overlap EXCEPT ![w] = @ \/ pc[w] \in {"rest", "leave"}]
  /\ UNCHANGED <<pc, active, jobs, current>>

\* wait_cycle_finish
WaitBegin(w) ==
  /\ \E from \in {"ready", "fed"} : OwnerGoes(w, from, "wait")
  /\ UNCHANGED <<pc, active, awake, jobs, current, overlap>>

WaitReturn(w) ==
  /\ ~awake[w]
  /\ OwnerGoes(w, "wait", "ready")
  /\ UNCHANGED <<pc, active, awake, jobs, current, overlap>>

\* stop, called by ~worker
StopActive(w) ==
  /\ OwnerGoes(w, "ready", "stop_awake")
  /\ active' = [active EXCEPT ![w] = FALSE]
  /\ UNCHANGED <<pc, awake, jobs, current, overlap>>

StopAwake(w) ==
  /\ OwnerGoes(w, "stop_awake", "stopping")
  /\ awake' = [awake EXCEPT ![w] = TRUE]
  /\ UNCHANGED <<pc, active, jobs, current, overlap>>

StopReturn(w) ==
  /\ ~awake[w]
  /\ OwnerGoes(w, "stopping", "gone")
  /\ UNCHANGED <<pc, active, awake, jobs, current, overlap>>

-------------------------------------------------------------------------------
Thread(w) ==
  \/ Rise(w) \/ Check(w) \/ PopJob(w) \/ PopNothing(w) \/ Run(w)
  \/ Rest(w) \/ Leave(w)

Continue(w) ==
  \/ Detach(w) \/ Wake(w) \/ WaitReturn(w) \/ StopAwake(w) \/ StopReturn(w)

Begin(w) ==
  \/ Construct(w)
  \/ \E j \in Jobs : Assign(w, j)
  \/ WaitBegin(w)
  \/ StopActive(w)

MonitorNext == \E w \in Workers : Thread(w) \/ Continue(w) \/ Begin(w)

MonitorSpec == MonitorInit /\ [][MonitorNext]_monitorVars

\* Each thread keeps going, and the owner completes a call that can complete.
MonitorFairSpec ==
  /\ MonitorSpec
  /\ \A w \in Workers : WF_monitorVars(Thread(w)) /\ WF_monitorVars(Continue(w))

-------------------------------------------------------------------------------
(* Properties *)

\* The worker's thread has left worker_main's loop although nobody has called
\* stop(): it tested _active before detach() had set it (worker.cpp:22-27
\* against worker.cpp:101-107).
Stillborn(w) == pc[w] \in {"leave", "ended"} /\ active[w]

\* The barrier (worker.cpp:136-140): when wait_cycle_finish or stop has
\* returned, the thread executes no job, and the queue is empty unless a wake
\* of the cycle was forgotten.
Barrier ==
  \A w \in Workers :
    call[w] \in {"ready", "gone"} =>
      /\ pc[w] # "run"
      /\ jobs[w] = <<>> \/ overlap[w]

\* Work is never left behind a sleeping worker without a reason (worker.cpp:
\* 34-50, 95-99, 125-134): while jobs are queued or one runs, the flag that
\* keeps the barrier closed is up, or the owner is about to raise it, or a wake
\* was forgotten.
PendingWorkHoldsBarrier ==
  \A w \in Workers :
    (jobs[w] # <<>> \/ pc[w] = "run") =>
      awake[w] \/ call[w] = "assigned" \/ overlap[w]

===============================================================================
