-------------------------------- MODULE Runner --------------------------------
(***************************************************************************)
(* sched::runner (src/src/sched/runner.hpp, runner.cpp) with a pool of     *)
(* fixed size: start() pushes the workers, the arbiter thread runs frame   *)
(* after frame, and when the runner is no longer active it pops the        *)
(* workers.  A frame is a sequence of sub-cycles: the root jobs first,     *)
(* then their children, and so on; between two sub-cycles the arbiter      *)
(* waits for every worker.  The workers are those of WorkerMonitor, the    *)
(* specification that Worker implements.                                   *)
(*                                                                         *)
(* Jobs form a forest and a job is scheduled once: sched::job graphs that  *)
(* share children or have cycles are not in this module.                   *)
(***************************************************************************)
EXTENDS WorkerMonitor, SequencesExt

CONSTANTS
  NumWorkers,  \* the thread_count of start()
  IdSpace,     \* number of values of _worker_id_counter, 2^32 in the code
  Forest,      \* the parent under which each job is scheduled, or NoJob
  FirstRoots,  \* the roots that are scheduled before start(), in order
  FirstKids,   \* the children of each job that are
  MayExit      \* the jobs whose execute() may call exit()

Parentage == [Jobs -> Jobs \cup {NoJob}]

NoneTwice(seq) == \A i, k \in DOMAIN seq : seq[i] = seq[k] => i = k

ASSUME RunnerAssumption ==
  /\ NumWorkers \in Nat \ {0}
  /\ Workers = 0 .. NumWorkers - 1
  /\ IdSpace \in Nat /\ IdSpace > NumWorkers
  /\ Forest \in Parentage
  /\ FirstRoots \in Seq(Jobs) /\ FirstKids \in [Jobs -> Seq(Jobs)]
  /\ NoneTwice(FirstRoots) /\ \A p \in Jobs : NoneTwice(FirstKids[p])
  /\ \A j \in Jobs :
       /\ j \in ToSet(FirstRoots) => Forest[j] = NoJob
       /\ \A p \in Jobs : j \in ToSet(FirstKids[p]) => Forest[j] = p
  /\ MayExit \subseteq Jobs

\* Whoever goes from parent to parent comes to a root.
ASSUME ForestAssumption ==
  \A S \in SUBSET Jobs :
    (\A j \in Jobs : Forest[j] \in S \cup {NoJob} => j \in S) => S = Jobs

VARIABLES
  apc,           \* position of start() and then of the arbiter thread
  runnerActive,  \* runner::_active
  counter,       \* runner::_worker_id_counter
  nextId,        \* next_worker_id of runner_arbiter
  waitId,        \* worker_id of wait_for_workers
  now, later,    \* the two job buffers, by the role they have in the sub-cycle
  roots,         \* runner::_root_jobs
  kids,          \* job::_children
  parent,        \* job::_parent
  exited,        \* job::_exited
  due,           \* history: the jobs attached when the frame began
  carried,       \* history: the jobs in the workers' queues when it began
  ran,           \* history: how often a job was taken from a queue in the frame
  tally          \* history: jobs assigned to each worker in the sub-cycle

arbiterVars == <<apc, runnerActive, counter, nextId, waitId, now, later>>
graphVars   == <<roots, kids, parent, exited>>
historyVars == <<due, carried, ran, tally>>
runnerVars  == <<monitorVars, arbiterVars, graphVars, historyVars>>

ArbiterPoints ==
  {"start", "pushed", "top", "assign", "wake", "kids", "wait", "pop",
   "stopping", "done", "terminated"}

RunnerTypeOK ==
  /\ TypeOK
  /\ apc \in ArbiterPoints
  /\ runnerActive \in BOOLEAN
  /\ counter \in 0 .. IdSpace - 1
  /\ nextId \in 0 .. NumWorkers
  /\ waitId \in 0 .. NumWorkers
  /\ now \in Seq(Jobs) /\ later \in Seq(Jobs) /\ roots \in Seq(Jobs)
  /\ kids \in [Jobs -> Seq(Jobs)]
  /\ parent \in Parentage
  /\ exited \in [Jobs -> BOOLEAN]
  /\ due \subseteq Jobs /\ carried \subseteq Jobs
  /\ ran \in [Jobs -> Nat]
  /\ tally \in [Workers -> Nat]

\* The jobs that are scheduled at any time, by a job or by a thread outside.
Late ==
  {j \in Jobs : j \notin ToSet(FirstRoots) /\ \A p \in Jobs : j \notin ToSet(FirstKids[p])}

Init ==
  /\ MonitorInit
  /\ apc = "start" /\ runnerActive = FALSE
  /\ counter = 0 /\ nextId = 0 /\ waitId = 0
  /\ now = <<>> /\ later = <<>>
  /\ roots  = FirstRoots
  /\ kids   = FirstKids
  /\ parent = [j \in Jobs |-> IF j \in Late THEN NoJob ELSE Forest[j]]
  /\ exited = [j \in Jobs |-> FALSE]
  /\ due = {} /\ carried = {}
  /\ ran = [j \in Jobs |-> 0]
  /\ tally = [w \in Workers |-> 0]

ArbiterGoes(from, to) == apc = from /\ apc' = to

-------------------------------------------------------------------------------
(* start *)

\* push_worker: the counter is incremented first, then the thread is launched ...
PushConstruct ==
  /\ ArbiterGoes("start", "pushed")
  /\ counter < NumWorkers
  /\ Construct(counter)
  /\ counter' = counter + 1
  /\ UNCHANGED <<runnerActive, nextId, waitId, now, later, graphVars, historyVars>>

\* ... and the worker is detached after it was put into the pool.
PushDetach ==
  /\ ArbiterGoes("pushed", "start")
  /\ Detach(counter - 1)
  /\ UNCHANGED <<runnerActive, counter, nextId, waitId, now, later, graphVars,
                 historyVars>>

Launch ==
  /\ ArbiterGoes("start", "top")
  /\ counter = NumWorkers
  /\ runnerActive' = TRUE
  /\ UNCHANGED <<monitorVars, counter, nextId, waitId, now, later, graphVars,
                 historyVars>>

-------------------------------------------------------------------------------
(* runner_arbiter *)

\* A list without a job, which is on it at most once: a job is scheduled once.
Without(seq, j) ==
  IF j \in ToSet(seq) THEN RemoveAt(seq, CHOOSE i \in DOMAIN seq : seq[i] = j)
                      ELSE seq

\* The jobs a frame that begins now has to execute, the roots and everything below
\* them: the smallest set that has the roots and the children of its members.
Attached ==
  {j \in Jobs : \A S \in SUBSET Jobs :
     ToSet(roots) \cup UNION {ToSet(kids[p]) : p \in S} \subseteq S => j \in S}

\* Mutant: the loop never looks at _active.
FrameBeginAlways ==
  /\ ArbiterGoes("top", "assign")
  /\ now' = now \o roots
  /\ due' = {j \in Attached : ~exited[j]}
  /\ carried' = {j \in Jobs : \E w \in Workers : j \in ToSet(jobs[w])}
  /\ ran' = [j \in Jobs |-> 0]
  /\ tally' = [w \in Workers |-> 0]
  /\ UNCHANGED <<monitorVars, runnerActive, counter, nextId, waitId, later, graphVars>>

\* The loop condition, and the copy of the root jobs.
FrameBegin ==
  /\ ArbiterGoes("top", "assign")
  /\ runnerActive
  /\ now' = now \o roots
  /\ due' = {j \in Attached : ~exited[j]}
  /\ carried' = {j \in Jobs : \E w \in Workers : j \in ToSet(jobs[w])}
  /\ ran' = [j \in Jobs |-> 0]
  /\ tally' = [w \in Workers |-> 0]
  /\ UNCHANGED <<monitorVars, runnerActive, counter, nextId, waitId, later, graphVars>>

\* Mutant: the parent forgets to take the child off its list.
EraseKeepsChild(j) ==
  \/ /\ parent[j] # NoJob
     /\ parent' = [parent EXCEPT ![j] = NoJob]
     /\ apc' = "assign"
     /\ UNCHANGED <<kids, roots>>
  \/ /\ parent[j] = NoJob /\ j \in ToSet(roots)
     /\ roots' = Without(roots, j)
     /\ apc' = "assign"
     /\ UNCHANGED <<kids, parent>>
  \/ /\ parent[j] = NoJob /\ j \notin ToSet(roots)
     /\ apc' = "terminated"
     /\ UNCHANGED <<kids, parent, roots>>

\* runner::erase: a job with a parent leaves its children, any other the roots.
\* A job that is not among the roots makes erase throw, and assign_job is
\* noexcept.
Erase(j) ==
  IF parent[j] # NoJob
  THEN /\ kids' = [kids EXCEPT ![parent[j]] = Without(@, j)]
       /\ parent' = [parent EXCEPT ![j] = NoJob]
       /\ apc' = "assign"
       /\ UNCHANGED roots
  ELSE IF j \in ToSet(roots)
  THEN /\ roots' = Without(roots, j)
       /\ apc' = "assign"
       /\ UNCHANGED <<kids, parent>>
  ELSE /\ apc' = "terminated"
       /\ UNCHANGED <<kids, parent, roots>>

\* assign_job of a job that has exited.
AssignExited ==
  /\ apc = "assign" /\ now # <<>>
  /\ exited[Head(now)]
  /\ Erase(Head(now))
  /\ now' = Tail(now)
  /\ UNCHANGED <<monitorVars, runnerActive, counter, nextId, waitId, later,
                 exited, historyVars>>

\* Mutant: the turn wraps around one worker too early.
AssignNextWrapsEarly ==
  /\ ArbiterGoes("assign", "wake") /\ now # <<>>
  /\ ~exited[Head(now)]
  /\ LET id == IF nextId >= counter - 1 THEN 0 ELSE nextId
     IN  /\ Assign(id, Head(now))
         /\ nextId' = id + 1
         /\ tally' = [tally EXCEPT ![id] = @ + 1]
  /\ UNCHANGED <<runnerActive, counter, waitId, now, later, graphVars, due,
                 carried, ran>>

\* assign_job of any other: it goes to the next worker in turn ...
AssignNext ==
  /\ ArbiterGoes("assign", "wake") /\ now # <<>>
  /\ ~exited[Head(now)]
  /\ LET id == IF nextId = counter THEN 0 ELSE nextId
     IN  /\ Assign(id, Head(now))
         /\ nextId' = id + 1
         /\ tally' = [tally EXCEPT ![id] = @ + 1]
  /\ UNCHANGED <<runnerActive, counter, waitId, now, later, graphVars, due,
                 carried, ran>>

\* ... which is woken at once ...
AssignWake ==
  /\ ArbiterGoes("wake", "kids")
  /\ Wake(nextId - 1)
  /\ UNCHANGED <<runnerActive, counter, nextId, waitId, now, later, graphVars,
                 historyVars>>

\* Mutant: the children replace those of the jobs before it.
AssignKidsReplace ==
  /\ ArbiterGoes("kids", "assign")
  /\ later' = kids[Head(now)]
  /\ now' = Tail(now)
  /\ UNCHANGED <<monitorVars, runnerActive, counter, nextId, waitId, graphVars,
                 historyVars>>

\* ... and the children the job has by then are for the next sub-cycle.
AssignKids ==
  /\ ArbiterGoes("kids", "assign")
  /\ later' = later \o kids[Head(now)]
  /\ now' = Tail(now)
  /\ UNCHANGED <<monitorVars, runnerActive, counter, nextId, waitId, graphVars,
                 historyVars>>

\* Mutant: the barrier passes over worker 0.
BarrierBeginAtOne ==
  /\ ArbiterGoes("assign", "wait") /\ now = <<>>
  /\ waitId' = 1
  /\ UNCHANGED <<monitorVars, runnerActive, counter, nextId, now, later, graphVars,
                 historyVars>>

\* wait_for_workers, in the order of the ids.
BarrierBegin ==
  /\ ArbiterGoes("assign", "wait") /\ now = <<>>
  /\ waitId' = 0
  /\ UNCHANGED <<monitorVars, runnerActive, counter, nextId, now, later, graphVars,
                 historyVars>>

BarrierWait ==
  /\ apc = "wait" /\ waitId < counter
  /\ WaitBegin(waitId)
  /\ UNCHANGED <<arbiterVars, graphVars, historyVars>>

BarrierNext ==
  /\ apc = "wait" /\ waitId < counter
  /\ WaitReturn(waitId)
  /\ waitId' = waitId + 1
  /\ UNCHANGED <<apc, runnerActive, counter, nextId, now, later, graphVars,
                 historyVars>>

\* Mutant: the buffer of the finished sub-cycle is not cleared before the swap.
NextSubCycleUncleared ==
  /\ ArbiterGoes("wait", "assign")
  /\ waitId = counter /\ later # <<>>
  /\ now' = later /\ UNCHANGED later
  /\ tally' = [w \in Workers |-> 0]
  /\ UNCHANGED <<monitorVars, runnerActive, counter, nextId, waitId, graphVars, due,
                 carried, ran>>

NextSubCycle ==
  /\ ArbiterGoes("wait", "assign")
  /\ waitId = counter /\ later # <<>>
  /\ now' = later /\ later' = <<>>
  /\ tally' = [w \in Workers |-> 0]
  /\ UNCHANGED <<monitorVars, runnerActive, counter, nextId, waitId, graphVars, due,
                 carried, ran>>

\* Mutant: an if where the loop over the frames is.
FrameEndLast ==
  /\ ArbiterGoes("wait", "pop")
  /\ waitId = counter /\ later = <<>>
  /\ UNCHANGED <<monitorVars, runnerActive, counter, nextId, waitId, now, later,
                 graphVars, historyVars>>

\* The pause that completes the frame changes nothing.
FrameEnd ==
  /\ ArbiterGoes("wait", "top")
  /\ waitId = counter /\ later = <<>>
  /\ UNCHANGED <<monitorVars, runnerActive, counter, nextId, waitId, now, later,
                 graphVars, historyVars>>

FramesStop ==
  /\ ArbiterGoes("top", "pop")
  /\ ~runnerActive
  /\ UNCHANGED <<monitorVars, runnerActive, counter, nextId, waitId, now, later,
                 graphVars, historyVars>>

\* Mutant: the counter goes below zero.
BeforeUnwrapped(id) == id - 1

\* pop_worker takes an id off the counter before it looks into the pool; the
\* destructor of the worker calls stop().
Before(id) == (id + IdSpace - 1) % IdSpace

PopBegin ==
  /\ ArbiterGoes("pop", "stopping")
  /\ \E w \in Workers : call[w] # "gone"
  /\ counter' = Before(counter)
  /\ StopActive(counter')
  /\ UNCHANGED <<runnerActive, nextId, waitId, now, later, graphVars, historyVars>>

PopAwake ==
  /\ apc = "stopping"
  /\ StopAwake(counter)
  /\ UNCHANGED <<arbiterVars, graphVars, historyVars>>

PopEnd ==
  /\ ArbiterGoes("stopping", "pop")
  /\ StopReturn(counter)
  /\ UNCHANGED <<runnerActive, counter, nextId, waitId, now, later, graphVars,
                 historyVars>>

PopNone ==
  /\ ArbiterGoes("pop", "done")
  /\ \A w \in Workers : call[w] = "gone"
  /\ counter' = Before(counter)
  /\ UNCHANGED <<monitorVars, runnerActive, nextId, waitId, now, later, graphVars,
                 historyVars>>

Arbiter ==
  \/ PushConstruct \/ PushDetach \/ Launch
  \/ FrameBegin \/ AssignExited \/ AssignNext \/ AssignWake \/ AssignKids
  \/ BarrierBegin \/ BarrierWait \/ BarrierNext \/ NextSubCycle \/ FrameEnd
  \/ FramesStop \/ PopBegin \/ PopAwake \/ PopEnd \/ PopNone

-------------------------------------------------------------------------------
(* The workers' threads and everybody else *)

\* std::terminate ends every thread of the process.
Running == apc # "terminated"

\* A job that is taken from the queue counts for the frame.
Take(w) ==
  /\ Running
  /\ PopJob(w)
  /\ ran' = [ran EXCEPT ![Head(jobs[w])] = @ + 1]
  /\ UNCHANGED <<arbiterVars, graphVars, due, carried, tally>>

\* execute(), which may call exit().
Execute(w) ==
  /\ Running
  /\ Run(w)
  /\ \/ UNCHANGED exited
     \/ current[w] \in MayExit /\ exited' = [exited EXCEPT ![current[w]] = TRUE]
  /\ UNCHANGED <<arbiterVars, roots, kids, parent, historyVars>>

Cycle(w) ==
  /\ Running
  /\ Rise(w) \/ Check(w) \/ PopNothing(w) \/ Rest(w) \/ Leave(w)
  /\ UNCHANGED <<arbiterVars, graphVars, historyVars>>

WorkerThread(w) == Take(w) \/ Execute(w) \/ Cycle(w)

\* runner::schedule or job::schedule, by a job or by a thread outside.
Schedule(j) ==
  /\ Running
  /\ j \in Late
  /\ j \notin ToSet(roots) /\ parent[j] = NoJob /\ ~exited[j]
  /\ LET p == Forest[j]
     IN  IF p = NoJob
         THEN roots' = Append(roots, j) /\ UNCHANGED <<kids, parent>>
         ELSE /\ parent' = [parent EXCEPT ![j] = p]
              /\ kids' = [kids EXCEPT ![p] = Append(@, j)]
              /\ UNCHANGED roots
  /\ UNCHANGED <<monitorVars, arbiterVars, exited, historyVars>>

\* signal_stop, by a job or by a signal handler, or the store in stop().
SignalStop ==
  /\ Running
  /\ runnerActive
  /\ runnerActive' = FALSE
  /\ UNCHANGED <<monitorVars, apc, counter, nextId, waitId, now, later, graphVars,
                 historyVars>>

Next ==
  \/ Arbiter
  \/ \E w \in Workers : WorkerThread(w)
  \/ \E j \in Jobs : Schedule(j)
  \/ SignalStop

Spec == Init /\ [][Next]_runnerVars

\* The arbiter and the worker threads are threads of the operating system, and
\* a job's execute() returns.  Nobody has to schedule a job or to stop.
FairSpec ==
  /\ Spec
  /\ WF_runnerVars(Arbiter)
  /\ \A w \in Workers : WF_runnerVars(WorkerThread(w))

-------------------------------------------------------------------------------
(* Properties *)

\* Between two sub-cycles nothing runs and nothing is left in a queue, unless
\* the worker forgot a wake (runner.cpp:107-119, 152-168).
SubCycleBarrier ==
  apc \in {"top", "pop"} \/ (apc = "wait" /\ waitId = counter) =>
    \A w \in Workers :
      /\ call[w] \in {"ready", "gone"}
      /\ pc[w] # "run"
      /\ jobs[w] = <<>> \/ overlap[w]

\* A job with its parent, the parent of that, and so on.
Line(j) ==
  {p \in Jobs : \A S \in SUBSET Jobs :
     j \in S /\ (\A i \in S : Forest[i] \in S \cup {NoJob}) => p \in S}

\* A frame executes every job that was attached when it began and is not cut
\* off by an exit(), or leaves it in the queue of a worker that forgot a wake:
\* no job is dropped (runner.cpp:131-168).
FrameComplete ==
  apc = "top" =>
    \A j \in due :
      \/ ran[j] > 0
      \/ \E p \in Line(j) : exited[p]
      \/ \E w \in Workers : overlap[w] /\ j \in ToSet(jobs[w])

\* No job is executed twice in a frame, but for one that an earlier frame left
\* in a queue (runner.cpp:131-168).
OncePerFrame ==
  \A j \in Jobs : ran[j] > 1 => j \in carried

\* In every sub-cycle the jobs are spread over the workers as evenly as they can
\* be, wherever the turn stood when it began (runner.cpp:65-67, 75-84).
EvenDistribution ==
  \A v, w \in Workers : tally[v] <= tally[w] + 1

\* The erase of an exited job never throws out of the noexcept assign_job
\* (runner.cpp:69-73, 280-303).
NeverTerminates == apc # "terminated"

\* The arbiter gets stuck at a worker only if that worker's thread ended with
\* _awake up: it was stillborn, or stop() was too slow (worker.cpp:22-27,
\* 113-122).
Stuck == \E w \in Workers : pc[w] = "ended" /\ awake[w]

\* While the runner is active, frames end (runner.cpp:131-188).
FramesKeepEnding ==
  runnerActive ~> apc = "top" \/ Stuck

\* Once the runner was told to stop, the arbiter empties the pool and reports
\* (runner.cpp:131, 190-195).
StopsInTheEnd ==
  (~runnerActive /\ apc # "start" /\ apc # "pushed") ~> apc = "done" \/ Stuck

\* A job left in a queue is executed by a later frame, as long as there are
\* roots to hand out and nobody stops the runner (runner.cpp:60-105).
LeftoversExecuted ==
  \A w \in Workers, j \in Jobs :
    j \in ToSet(jobs[w]) ~>
      \/ current[w] = j
      \/ ~runnerActive \/ Stuck
      \/ \A i \in DOMAIN roots : exited[roots[i]]

===============================================================================
