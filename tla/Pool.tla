--------------------------------- MODULE Pool ---------------------------------
(***************************************************************************)
(* The worker pool of sched::runner while threads change it               *)
(* (runner.cpp:18-58, 211-227): push_worker and pop_worker of any caller,  *)
(* step by step, with the pool mutex, the counter of the ids and the mask  *)
(* of unused cores.  Of a worker only what the pool can tell apart is      *)
(* kept, its two flags and how far its thread is, without the worker's     *)
(* mutex and notifications; Worker and WorkerMonitor have the rest.        *)
(***************************************************************************)
EXTENDS Integers, FiniteSetsExt, Functions

CONSTANTS
  Callers,  \* the threads that call into the runner
  Cores,    \* the cores, 0 .. _core_count - 1
  Objects,  \* the worker objects, numbered in the order of their construction
  IdSpace,  \* number of values of _worker_id_counter, 2^32 in the code
  None

Ids == 0 .. IdSpace - 1

\* There is one core for each bit of a mask, and there are far more ids.
ASSUME PoolAssumption ==
  /\ IdSpace \in Nat \ {0}
  /\ IsFiniteSet(Callers)
  /\ IsFiniteSet(Cores) /\ Cores \subseteq Nat /\ 2 * Cardinality(Cores) + 1 < IdSpace
  /\ IsFiniteSet(Objects) /\ Objects \subseteq Nat
  /\ None \notin Callers \cup Cores \cup Objects

VARIABLES
  counter,    \* runner::_worker_id_counter
  pool,       \* runner::_worker_pool, from ids to objects
  holder,     \* the thread that holds _worker_pool_mutex, or None
  unused,     \* the cores set in _unused_cores
  thread,     \* how far the thread of each worker object is
  live,       \* worker::_active
  awake,      \* worker::_awake
  at,         \* where each caller is
  id, core, obj,  \* the id, the core and the object of a caller's push or pop
  crashed,    \* why the process ended, or "no"
  thrown,     \* history: next_affinity_mask threw
  overtaken,  \* history: a pop found no worker while another call changed the pool
  emptied     \* history: a pop found the pool empty

workerVars  == <<thread, live, awake>>
callVars    == <<id, core, obj>>
poolVars    == <<counter, pool, holder, unused>>
poolHistory == <<crashed, thrown, overtaken, emptied>>

\* Where a caller is inside push_worker and inside pop_worker.
Pushing == {"choose", "construct", "insert"}
Popping == {"take", "raise", "stop"}

\* Where the thread of a worker is inside worker_main: it is new, waits, runs its
\* jobs, has left the loop, has cleared _awake after that, or is done.
Stages == {"born", "wait", "run", "leave", "farewell", "ended"}

PoolTypeOK ==
  /\ counter \in Ids
  /\ DOMAIN pool \subseteq Ids /\ Range(pool) \subseteq Objects
  /\ holder \in Callers \cup {None}
  /\ unused \subseteq Cores
  /\ thread \in [Objects -> Stages \cup {"unborn", "freed"}]
  /\ live \in [Objects -> BOOLEAN] /\ awake \in [Objects -> BOOLEAN]
  /\ id \in [Callers -> Ids]
  /\ core \in [Callers -> Cores \cup {None}]
  /\ obj \in [Callers -> Objects \cup {None}]
  /\ crashed \in {"no", "terminated", "dangling", "orphaned"}
  /\ <<thrown, overtaken, emptied>> \in BOOLEAN \X BOOLEAN \X BOOLEAN

PoolInit ==
  /\ counter = 0 /\ pool = [i \in {} |-> None] /\ holder = None
  /\ unused = Cores
  /\ thread = [o \in Objects |-> "unborn"]
  /\ live = [o \in Objects |-> FALSE] /\ awake = [o \in Objects |-> FALSE]
  /\ id = [t \in Callers |-> 0]
  /\ core = [t \in Callers |-> None] /\ obj = [t \in Callers |-> None]
  /\ crashed = "no" /\ thrown = FALSE /\ overtaken = FALSE /\ emptied = FALSE

Goes(t, from, to) == at[t] = from /\ at' = [at EXCEPT ![t] = to]

Up(n) == (n + 1) % IdSpace

\* Mutant: the counter goes below zero.
DownUnwrapped(n) == n - 1

Down(n) == (n + IdSpace - 1) % IdSpace

-------------------------------------------------------------------------------
(* push_worker *)

\* Mutant: the id is that of the next worker.
PushCountFirst(t, from) ==
  /\ Goes(t, from, "choose")
  /\ counter' = Up(counter)
  /\ id' = [id EXCEPT ![t] = counter']
  /\ UNCHANGED <<pool, holder, unused, workerVars, core, obj, poolHistory>>

\* The id is taken before anything can fail.
PushCount(t, from) ==
  /\ Goes(t, from, "choose")
  /\ id' = [id EXCEPT ![t] = counter]
  /\ counter' = Up(counter)
  /\ UNCHANGED <<pool, holder, unused, workerVars, core, obj, poolHistory>>

\* next_affinity_mask throws when no core is left ...
PushThrows(t, to) ==
  /\ Goes(t, "choose", to)
  /\ unused = {}
  /\ thrown' = TRUE
  /\ UNCHANGED <<poolVars, workerVars, callVars, crashed, overtaken, emptied>>

\* ... or picks the lowest one ...
PushChoose(t) ==
  /\ Goes(t, "choose", "construct")
  /\ unused # {}
  /\ core' = [core EXCEPT ![t] = Min(unused)]
  /\ UNCHANGED <<poolVars, workerVars, id, obj, poolHistory>>

\* ... and takes it out of the mask; the constructor launches the thread.
PushConstruct(t) ==
  /\ Goes(t, "construct", "insert")
  /\ unused' = unused \ {core[t]}
  /\ LET unborn == {o \in Objects : thread[o] = "unborn"}
     IN  /\ unborn # {}
         /\ obj' = [obj EXCEPT ![t] = Min(unborn)]
         /\ thread' = [thread EXCEPT ![Min(unborn)] = "born"]
  /\ UNCHANGED <<counter, pool, holder, live, awake, id, core, poolHistory>>

\* Under the mutex the worker is put into the pool and detached.
PushInsert(t, to) ==
  /\ Goes(t, "insert", to)
  /\ holder = None
  /\ id[t] \notin DOMAIN pool
  /\ pool' = [i \in DOMAIN pool \cup {id[t]} |-> IF i = id[t] THEN obj[t] ELSE pool[i]]
  /\ live' = [live EXCEPT ![obj[t]] = TRUE]
  /\ UNCHANGED <<counter, holder, unused, thread, awake, callVars, poolHistory>>

\* emplace refuses an id that is taken: the new worker is destroyed at once, and
\* the stop() of a worker that is not active throws out of its destructor.
PushClashes(t) ==
  /\ at[t] = "insert" /\ holder = None
  /\ id[t] \in DOMAIN pool
  /\ crashed' = "terminated"
  /\ UNCHANGED <<at, poolVars, workerVars, callVars, thrown, overtaken, emptied>>

-------------------------------------------------------------------------------
(* pop_worker *)

PopCount(t, from) ==
  /\ Goes(t, from, "take")
  /\ counter' = Down(counter)
  /\ id' = [id EXCEPT ![t] = counter']
  /\ UNCHANGED <<pool, holder, unused, workerVars, core, obj, poolHistory>>

PopNone(t, to) ==
  /\ Goes(t, "take", to)
  /\ holder = None
  /\ DOMAIN pool = {}
  /\ emptied' = TRUE
  /\ UNCHANGED <<poolVars, workerVars, callVars, crashed, thrown, overtaken>>

\* operator[] makes an entry for an id that is not there: a null worker is
\* destroyed, and the pop has succeeded.
PopNull(t, to) ==
  /\ Goes(t, "take", to)
  /\ holder = None
  /\ DOMAIN pool # {} /\ id[t] \notin DOMAIN pool
  /\ overtaken' = (overtaken \/ \E u \in Callers \ {t} : at[u] \in Pushing \cup Popping)
  /\ UNCHANGED <<poolVars, workerVars, callVars, crashed, thrown, emptied>>

\* The worker leaves the pool; its destructor calls stop() under the mutex, which
\* clears _active ...
PopTake(t) ==
  /\ Goes(t, "take", "raise")
  /\ holder = None
  /\ id[t] \in DOMAIN pool
  /\ holder' = t
  /\ obj' = [obj EXCEPT ![t] = pool[id[t]]]
  /\ live' = [live EXCEPT ![pool[id[t]]] = FALSE]
  /\ pool' = Restrict(pool, DOMAIN pool \ {id[t]})
  /\ UNCHANGED <<counter, unused, thread, awake, id, core, poolHistory>>

\* ... raises _awake, by then perhaps after the thread has gone ...
PopRaise(t) ==
  /\ Goes(t, "raise", "stop")
  /\ awake' = [awake EXCEPT ![obj[t]] = TRUE]
  /\ UNCHANGED <<poolVars, thread, live, callVars, poolHistory>>

\* ... and waits until _awake is clear, which says that the thread has ended its
\* cycle or left its loop, not that it is done with the worker.  Only a thread with
\* nothing but its farewell left may get through that unharmed.
PopDestroy(t, to) ==
  /\ Goes(t, "stop", to)
  /\ ~awake[obj[t]]
  /\ holder' = None
  /\ thread' = [thread EXCEPT ![obj[t]] = "freed"]
  /\ \/ thread[obj[t]] \in {"farewell", "ended"} /\ UNCHANGED crashed
     \/ thread[obj[t]] # "ended" /\ crashed' = "orphaned"
  /\ UNCHANGED <<counter, pool, unused, live, awake, callVars, thrown, overtaken, emptied>>

-------------------------------------------------------------------------------
(* worker_main *)

Steps(o, from, to) == thread[o] = from /\ thread' = [thread EXCEPT ![o] = to]

\* Before detach() a new thread does not wait, as it is not active; it may look
\* again when it has been detached, and then it makes a cycle that nobody asked for.
Hurries(o) ==
  /\ Steps(o, "born", IF live[o] THEN "run" ELSE "leave")
  /\ UNCHANGED <<awake, live, at, poolVars, callVars, poolHistory>>

\* Detached, it waits until it is awake or not active any more.
Waits(o) ==
  /\ live[o] /\ Steps(o, "born", "wait")
  /\ UNCHANGED <<awake, live, at, poolVars, callVars, poolHistory>>

Rises(o) ==
  /\ Steps(o, "wait", IF live[o] THEN "run" ELSE "leave")
  /\ awake[o] \/ ~live[o]
  /\ UNCHANGED <<awake, live, at, poolVars, callVars, poolHistory>>

\* After its jobs, and when it has left the loop, it clears _awake ...
Clears(o) ==
  /\ Steps(o, "run", "wait") \/ Steps(o, "leave", "farewell")
  /\ awake' = [awake EXCEPT ![o] = FALSE]
  /\ UNCHANGED <<live, at, poolVars, callVars, poolHistory>>

\* ... and takes the mutex of the worker for the last time after that.
Parts(o) ==
  /\ Steps(o, "farewell", "ended")
  /\ UNCHANGED <<awake, live, at, poolVars, callVars, poolHistory>>

WorkerThread(o) == Hurries(o) \/ Waits(o) \/ Rises(o) \/ Clears(o) \/ Parts(o)

===============================================================================
