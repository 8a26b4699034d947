------------------------------- MODULE Lifecycle -------------------------------
(***************************************************************************)
(* The life of a sched::runner (runner.cpp:60-131, 190-272) between the    *)
(* threads that use it: its owner starts, stops and destroys it, another   *)
(* thread pushes and pops workers, stops it or signals it to stop, and the *)
(* arbiter threads, of which there may be two, execute frames on the pool  *)
(* that Pool describes.  A frame is one sub-cycle of Batch jobs here; what *)
(* is in a frame is for Runner.                                            *)
(***************************************************************************)
EXTENDS Pool

CONSTANTS
  Owner, Other,  \* the two threads outside
  Arbiters,      \* the threads that a start() can launch
  Batch,         \* number of jobs in a frame
  Starts,        \* arguments of start()
  MaxCalls       \* bound: calls that the two threads outside make

Clients == {Owner, Other}

ASSUME LifecycleAssumption ==
  /\ Callers = Clients \cup Arbiters /\ Owner # Other /\ Clients \cap Arbiters = {}
  /\ Batch \in Nat \ {0} /\ MaxCalls \in Nat
  /\ Starts \subseteq [floating : BOOLEAN, count : Ids]

VARIABLES
  active,     \* runner::_active
  floating, left, launched,  \* of start(): the argument, the pushes left, the thread
  nextId,     \* next_worker_id of each arbiter
  waitId,     \* worker_id of its wait_for_workers, where obj is the pointer it keeps
  todo,       \* the jobs of the frame that it has not assigned
  calls,      \* calls made so far
  dying,      \* the owner is in the destructor
  meddled,    \* history: the pool was changed beside start() or frames
  skipped,    \* history: a job was dropped although there were workers
  twice,      \* history: an arbiter was launched while another one ran
  unwaited    \* history: a stop was only signalled, or its wait ended by itself

startVars   == <<active, floating, left, launched>>
arbiterVars == <<nextId, waitId, todo>>
lifeHistory == <<meddled, skipped, twice, unwaited>>
lifeVars    == <<poolVars, workerVars, at, callVars, poolHistory, startVars,
                 arbiterVars, calls, dying, lifeHistory>>

ClientPoints  == {"idle", "pushing", "pin", "join", "closing", "waiting", "destroyed"}
ArbiterPoints == {"none", "top", "turn", "find", "selflock", "wait", "await", "popping",
                  "report"}

TypeOK ==
  /\ PoolTypeOK
  /\ \A t \in Clients  : at[t] \in ClientPoints \cup Pushing \cup Popping
  /\ \A a \in Arbiters : at[a] \in ArbiterPoints \cup Popping
  /\ active \in BOOLEAN /\ floating \in BOOLEAN
  /\ left \in Ids /\ launched \in Arbiters \cup {None}
  /\ nextId \in [Arbiters -> Ids] /\ waitId \in [Arbiters -> Ids]
  /\ todo \in [Arbiters -> 0 .. Batch]
  /\ calls \in 0 .. MaxCalls /\ dying \in BOOLEAN
  /\ lifeHistory \in BOOLEAN \X BOOLEAN \X BOOLEAN \X BOOLEAN

Init ==
  /\ PoolInit
  /\ at = [t \in Callers |-> IF t \in Arbiters THEN "none" ELSE "idle"]
  /\ active = FALSE /\ floating = FALSE /\ left = 0 /\ launched = None
  /\ nextId = [a \in Arbiters |-> 0] /\ waitId = [a \in Arbiters |-> 0]
  /\ todo = [a \in Arbiters |-> 0]
  /\ calls = 0 /\ dying = FALSE
  /\ meddled = FALSE /\ skipped = FALSE /\ twice = FALSE /\ unwaited = FALSE

Running == \E a \in Arbiters : at[a] # "none"

Call(t, to) ==
  /\ Goes(t, "idle", to)
  /\ calls < MaxCalls /\ calls' = calls + 1

-------------------------------------------------------------------------------
(* start *)

\* start() of a runner that is active throws and changes nothing.  The last core
\* is for a floating arbiter.
StartBegin ==
  /\ Call(Owner, "pushing")
  /\ ~active
  /\ \E s \in Starts :
       /\ floating' = s.floating
       /\ left' = IF s.floating THEN Down(s.count) ELSE s.count
  /\ meddled' = (meddled \/ Running \/ at[Other] \in Pushing \cup Popping)
  /\ UNCHANGED <<poolVars, workerVars, callVars, poolHistory, active, launched,
                 arbiterVars, dying, skipped, twice, unwaited>>

StartPushes ==
  /\ left > 0 /\ left' = left - 1
  /\ PushCount(Owner, "pushing")
  /\ UNCHANGED <<active, floating, launched, arbiterVars, calls, dying, lifeHistory>>

\* _active is set and the arbiter's thread is created.
StartLaunches ==
  /\ at[Owner] = "pushing" /\ left = 0
  /\ active' = TRUE
  /\ \E a \in Arbiters : at[a] = "none"
  /\ LET a == CHOOSE b \in Arbiters : at[b] = "none"
     IN  /\ launched' = a
         /\ at' = [at EXCEPT ![Owner] = IF floating THEN "pin" ELSE "join", ![a] = "top"]
         /\ nextId' = [nextId EXCEPT ![a] = 0]
  /\ twice' = (twice \/ Running)
  /\ unwaited' = FALSE
  /\ UNCHANGED <<poolVars, workerVars, callVars, poolHistory, floating, left, waitId,
                 todo, calls, dying, meddled, skipped>>

\* A floating arbiter is given a core of its own.  If there is none the exception
\* destroys the thread object while it is joinable.
StartPins ==
  /\ Goes(Owner, "pin", "idle")
  /\ IF unused = {}
     THEN crashed' = "terminated" /\ thrown' = TRUE /\ UNCHANGED unused
     ELSE unused' = unused \ {Min(unused)} /\ UNCHANGED <<crashed, thrown>>
  /\ UNCHANGED <<counter, pool, holder, workerVars, callVars, overtaken, emptied,
                 startVars, arbiterVars, calls, dying, lifeHistory>>

StartJoins ==
  /\ Goes(Owner, "join", "idle")
  /\ at[launched] = "none"
  /\ UNCHANGED <<poolVars, workerVars, callVars, poolHistory, startVars, arbiterVars,
                 calls, dying, lifeHistory>>

-------------------------------------------------------------------------------
(* stop, signal_stop, ~runner *)

\* stop() of a runner that is not active returns at once and changes nothing.
StopBegins(t) ==
  /\ Call(t, "closing")
  /\ active /\ active' = FALSE
  /\ UNCHANGED <<poolVars, workerVars, callVars, poolHistory, floating, left, launched,
                 arbiterVars, dying, lifeHistory>>

\* Mutant: the destructor does not wait.
StopWaitsNot(t) ==
  /\ Goes(t, "closing", IF t = Owner /\ dying THEN "destroyed" ELSE "idle")
  /\ UNCHANGED <<poolVars, workerVars, callVars, poolHistory, startVars, arbiterVars,
                 calls, dying, lifeHistory>>

\* The wait for the report has no predicate: a report that came before is missed.
StopWaits(t) ==
  /\ Goes(t, "closing", "waiting")
  /\ UNCHANGED <<poolVars, workerVars, callVars, poolHistory, startVars, arbiterVars,
                 calls, dying, lifeHistory>>

Stopped(t) == IF t = Owner /\ dying THEN "destroyed" ELSE "idle"

\* ... and it may end without a report.
StopWakesSpuriously(t) ==
  /\ Goes(t, "waiting", Stopped(t))
  /\ unwaited' = TRUE
  /\ UNCHANGED <<poolVars, workerVars, callVars, poolHistory, startVars, arbiterVars,
                 calls, dying, meddled, skipped, twice>>

Signals(t) ==
  /\ Call(t, "idle")
  /\ active /\ active' = FALSE
  /\ unwaited' = TRUE
  /\ UNCHANGED <<poolVars, workerVars, callVars, poolHistory, floating, left, launched,
                 arbiterVars, dying, meddled, skipped, twice>>

\* The owner destroys the runner when nobody else is in a call of it.
Destroys ==
  /\ at[Other] = "idle"
  /\ Call(Owner, IF active THEN "closing" ELSE "destroyed")
  /\ active' = FALSE
  /\ dying' = TRUE
  /\ UNCHANGED <<poolVars, workerVars, callVars, poolHistory, floating, left, launched,
                 arbiterVars, lifeHistory>>

-------------------------------------------------------------------------------
(* push_worker and pop_worker by a thread outside *)

Meddles ==
  /\ calls < MaxCalls /\ calls' = calls + 1
  /\ meddled' = (meddled \/ Running \/ at[Owner] \in Pushing \cup {"pushing"})
  /\ UNCHANGED <<startVars, arbiterVars, dying, skipped, twice, unwaited>>

Pushes == PushCount(Other, "idle") /\ Meddles
Pops   == PopCount(Other, "idle") /\ Meddles

\* Where the caller of push_worker and of pop_worker goes on; an exception ends
\* start() as well.
Pushed(t)  == IF t = Owner THEN "pushing" ELSE "idle"
Popped(t)  == IF t \in Arbiters THEN "popping" ELSE "idle"

Continues(t) ==
  /\ \/ t \in Clients /\ PushThrows(t, "idle")
     \/ t \in Clients /\ PushChoose(t)
     \/ t \in Clients /\ PushConstruct(t)
     \/ t \in Clients /\ PushInsert(t, Pushed(t))
     \/ t \in Clients /\ PushClashes(t)
     \/ PopNone(t, IF t \in Arbiters THEN "report" ELSE "idle")
     \/ PopNull(t, Popped(t))
     \/ PopTake(t)
     \/ PopRaise(t)
     \/ PopDestroy(t, Popped(t))
  /\ UNCHANGED <<startVars, arbiterVars, calls, dying, lifeHistory>>

-------------------------------------------------------------------------------
(* runner_arbiter *)

FrameBegins(a) ==
  /\ Goes(a, "top", "turn")
  /\ active
  /\ todo' = [todo EXCEPT ![a] = Batch]
  /\ UNCHANGED <<poolVars, workerVars, callVars, poolHistory, startVars, nextId, waitId,
                 calls, dying, lifeHistory>>

\* Mutant: the turn wraps one worker too late.
TakesTurnLate(a) ==
  /\ Goes(a, "turn", "find")
  /\ todo[a] > 0
  /\ nextId' = [nextId EXCEPT ![a] = IF @ > counter THEN 0 ELSE @]
  /\ UNCHANGED <<poolVars, workerVars, callVars, poolHistory, startVars, waitId, todo,
                 calls, dying, lifeHistory>>

\* assign_job looks at the counter before it locks the pool ...
TakesTurn(a) ==
  /\ Goes(a, "turn", "find")
  /\ todo[a] > 0
  /\ nextId' = [nextId EXCEPT ![a] = IF @ = counter THEN 0 ELSE @]
  /\ UNCHANGED <<poolVars, workerVars, callVars, poolHistory, startVars, waitId, todo,
                 calls, dying, lifeHistory>>

Found(a) == nextId[a] \in DOMAIN pool

\* ... assigns the job to the worker with that id and wakes it ...
Assigns(a) ==
  /\ Goes(a, "find", "turn")
  /\ holder = None /\ Found(a)
  /\ awake' = [awake EXCEPT ![pool[nextId[a]]] = TRUE]
  /\ nextId' = [nextId EXCEPT ![a] = Up(@)]
  /\ todo' = [todo EXCEPT ![a] = @ - 1]
  /\ UNCHANGED <<poolVars, thread, live, callVars, poolHistory, startVars, waitId, calls,
                 dying, lifeHistory>>

\* ... drops it if there are no workers, or if the id was the lowest ...
Drops(a) ==
  /\ Goes(a, "find", "turn")
  /\ holder = None /\ ~Found(a)
  /\ DOMAIN pool = {} \/ nextId[a] = 0
  /\ nextId' = [nextId EXCEPT ![a] = Up(@)]
  /\ todo' = [todo EXCEPT ![a] = @ - 1]
  /\ skipped' = (skipped \/ DOMAIN pool # {})
  /\ UNCHANGED <<poolVars, workerVars, callVars, poolHistory, startVars, waitId, calls,
                 dying, meddled, twice, unwaited>>

\* ... and tries again otherwise, while it holds the mutex it is about to lock.
Retries(a) ==
  /\ Goes(a, "find", "selflock")
  /\ holder = None /\ ~Found(a)
  /\ DOMAIN pool # {} /\ nextId[a] # 0
  /\ holder' = a
  /\ UNCHANGED <<counter, pool, unused, workerVars, callVars, poolHistory, startVars,
                 arbiterVars, calls, dying, lifeHistory>>

BarrierBegins(a) ==
  /\ Goes(a, "turn", "wait")
  /\ todo[a] = 0
  /\ waitId' = [waitId EXCEPT ![a] = 0]
  /\ UNCHANGED <<poolVars, workerVars, callVars, poolHistory, startVars, nextId, todo,
                 calls, dying, lifeHistory>>

\* wait_for_workers looks a worker up under the mutex ...
BarrierFinds(a) ==
  /\ Goes(a, "wait", "await")
  /\ waitId[a] < counter
  /\ holder = None /\ waitId[a] \in DOMAIN pool
  /\ obj' = [obj EXCEPT ![a] = pool[waitId[a]]]
  /\ UNCHANGED <<poolVars, workerVars, id, core, poolHistory, startVars, arbiterVars,
                 calls, dying, lifeHistory>>

\* ... and waits for it without, when it may have been destroyed.
BarrierPasses(a) ==
  /\ Goes(a, "await", "wait")
  /\ IF thread[obj[a]] = "freed"
     THEN crashed' = "dangling" /\ UNCHANGED waitId
     ELSE /\ ~awake[obj[a]]
          /\ waitId' = [waitId EXCEPT ![a] = Up(@)]
          /\ UNCHANGED crashed
  /\ UNCHANGED <<poolVars, workerVars, callVars, thrown, overtaken, emptied, startVars,
                 nextId, todo, calls, dying, lifeHistory>>

\* The first id that is not in the pool ends the barrier as well.
FrameEnds(a) ==
  /\ Goes(a, "wait", "top")
  /\ \/ waitId[a] >= counter
     \/ holder = None /\ waitId[a] \notin DOMAIN pool
  /\ UNCHANGED <<poolVars, workerVars, callVars, poolHistory, startVars, arbiterVars,
                 calls, dying, lifeHistory>>

\* Mutant: the workers are not popped.
FramesStopUnpopped(a) ==
  /\ Goes(a, "top", "report")
  /\ ~active
  /\ UNCHANGED <<poolVars, workerVars, callVars, poolHistory, startVars, arbiterVars,
                 calls, dying, lifeHistory>>

FramesStop(a) ==
  /\ Goes(a, "top", "popping")
  /\ ~active
  /\ UNCHANGED <<poolVars, workerVars, callVars, poolHistory, startVars, arbiterVars,
                 calls, dying, lifeHistory>>

PopsNext(a) ==
  /\ PopCount(a, "popping")
  /\ UNCHANGED <<startVars, arbiterVars, calls, dying, lifeHistory>>

\* Mutant: nobody is notified.
ReportsNobody(a) ==
  /\ Goes(a, "report", "none")
  /\ UNCHANGED <<poolVars, workerVars, callVars, poolHistory, startVars, arbiterVars,
                 calls, dying, lifeHistory>>

\* notify_all, the last thing the thread does.
Reports(a) ==
  /\ at[a] = "report"
  /\ at' = [t \in Callers |-> CASE t = a                -> "none"
                                [] at[t] = "waiting"    -> Stopped(t)
                                [] OTHER                -> at[t]]
  /\ UNCHANGED <<poolVars, workerVars, callVars, poolHistory, startVars, arbiterVars,
                 calls, dying, lifeHistory>>

-------------------------------------------------------------------------------
(* The threads *)

Arbiter(a) ==
  \/ FrameBegins(a) \/ TakesTurn(a) \/ Assigns(a) \/ Drops(a) \/ Retries(a)
  \/ BarrierBegins(a) \/ BarrierFinds(a) \/ BarrierPasses(a) \/ FrameEnds(a)
  \/ FramesStop(a) \/ PopsNext(a) \/ Reports(a)

\* What a client has begun goes on; nobody is obliged to begin.
ClientContinues ==
  \/ StartPushes \/ StartLaunches \/ StartPins \/ StartJoins
  \/ \E t \in Clients : StopWaits(t)

ClientBegins ==
  \/ StartBegin \/ Destroys \/ Pushes \/ Pops
  \/ \E t \in Clients : StopBegins(t) \/ Signals(t)

Works(o) ==
  /\ WorkerThread(o)
  /\ UNCHANGED <<startVars, arbiterVars, calls, dying, lifeHistory>>

\* The process and the runner are there.
Alive == crashed = "no" /\ at[Owner] # "destroyed"

Next ==
  /\ Alive
  /\ \/ \E a \in Arbiters : Arbiter(a)
     \/ \E t \in Callers : Continues(t)
     \/ ClientContinues \/ ClientBegins
     \/ \E t \in Clients : StopWakesSpuriously(t)
     \/ \E o \in Objects : Works(o)

Spec == Init /\ [][Next]_lifeVars

FairSpec ==
  /\ Spec
  /\ \A a \in Arbiters : WF_lifeVars(Alive /\ (Arbiter(a) \/ Continues(a)))
  /\ \A t \in Clients : WF_lifeVars(Alive /\ Continues(t))
  /\ WF_lifeVars(Alive /\ ClientContinues)
  /\ \A o \in Objects : WF_lifeVars(Alive /\ Works(o))

-------------------------------------------------------------------------------
(* Properties *)

\* Nothing is in the middle of changing the pool.
PoolAtRest == \A t \in Callers : at[t] \notin Pushing \cup Popping

\* The ids of the pool are those below the counter, which assign_job and
\* wait_for_workers rely on, unless a push failed, a pop overtook another push or
\* pop, or the pool was empty (runner.cpp:18-58).
PoolNumbered ==
  PoolAtRest /\ crashed = "no" =>
    thrown \/ overtaken \/ emptied \/ DOMAIN pool = {i \in Ids : i < counter}

\* What it takes for the ids of the pool and the counter to disagree while frames
\* run: a change of the pool beside them, a push that failed, or a pop of an empty
\* pool before the runner was started, the last one of an earlier run among them.
Disturbed == meddled \/ thrown \/ emptied

SelfLocked == \E a \in Arbiters : at[a] = "selflock"

\* Otherwise no worker is pushed under an id that is taken, a floating arbiter finds
\* a core, the arbiter uses no worker that is gone, does not lock the pool mutex
\* twice, and drops no job while there are workers (runner.cpp:18-119, 248-255).  The
\* worker's own thread is another matter: stop() returns when _awake is clear, and
\* even in an undisturbed pool the thread may have to use the worker after that, to
\* go back to its wait or to take the mutex for the last time (worker.cpp:50-66, 121).
SteadyPool ==
  crashed \in {"terminated", "dangling"} \/ skipped \/ SelfLocked => Disturbed

\* Whoever a report wakes finds every worker stopped and no arbiter left, unless
\* somebody changed the pool beside start() or frames (runner.cpp:190-195, 256-266;
\* runner.hpp:101).
StopFinishesJobs ==
  [][\A a \in Arbiters, t \in Clients :
       at[a] = "report" /\ at'[a] = "none" /\ at[t] = "waiting" =>
         \/ meddled
         \/ /\ ~Running'
            /\ \A o \in Objects : thread'[o] \in {"unborn", "freed"}]_lifeVars

\* The destructor finds the arbiter running only after a stop that did not wait
\* (runner.cpp:198-201, 256-272).
DestroyedAtRest ==
  at[Owner] = "destroyed" /\ Running => unwaited \/ twice

\* A thread that waits for the arbiter's report is not there for ever, unless the
\* report has already been given, somebody starts the runner again, an arbiter
\* locked the pool twice, or a worker's thread has left its loop with _awake up
\* (runner.cpp:190-196, 256-266).
StopReturns ==
  \A t \in Clients :
    (at[t] = "waiting" /\ Running) ~>
      \/ at[t] # "waiting" \/ active \/ ~Alive \/ SelfLocked
      \/ \E o \in Objects : thread[o] = "ended" /\ awake[o]

===============================================================================
