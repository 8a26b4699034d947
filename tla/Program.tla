-------------------------------- MODULE Program --------------------------------
(***************************************************************************)
(* The program from main to exit: the logger, the handlers of SIGINT and   *)
(* SIGTERM, the scheduler as far as main sees it, and the filter that      *)
(* std::terminate calls (main.cpp, platform/linux.cpp, util/logger.cpp).   *)
(*                                                                         *)
(* A handler runs on whatever thread the signal is delivered to, and that  *)
(* thread stands still until it returns.  So what executes is a context, a *)
(* thread or a handler, and each thread has a stack of the handlers that   *)
(* interrupt it.                                                           *)
(***************************************************************************)
EXTENDS Integers, SequencesExt

CONSTANTS
  main, arbiter, worker,  \* the threads; worker stands for those that execute the jobs
  SIGINT, SIGTERM,
  None,
  MaxSignals              \* bound: signals that arrive

Threads  == {main, arbiter, worker}
Signals  == {SIGINT, SIGTERM}
Contexts == Threads \cup Signals
Statics  == {"logger", "callbacks"}

ASSUME ProgramAssumption ==
  /\ main # arbiter /\ main # worker /\ arbiter # worker /\ SIGINT # SIGTERM
  /\ Threads \cap Signals = {} /\ None \notin Contexts /\ MaxSignals \in Nat

VARIABLES
  proc,       \* how the process is
  pos,        \* where each context is
  stack,      \* the handlers that interrupt each thread, the last one on top
  holder,     \* the context that holds log::_mutex, or None
  callbacks,  \* signal_dispatcher::callbacks
  installed,  \* the signals that std::signal was called for
  statics,    \* the objects with static storage that are alive
  active,     \* runner::_active
  live,       \* worker::_active
  awake,      \* worker::_awake
  arrived     \* signals that have arrived

\* The flags of the scheduler, and what the handlers are registered with.
flags  == <<active, live, awake>>
tables == <<callbacks, installed>>

vars == <<proc, pos, stack, holder, tables, statics, flags, arrived>>

\* A context that is at one of these is about to write a line to the log, and goes
\* on as given.
After ==
  [warn     |-> "start",   \* world::set_fps, if SDL does not know the display
   farewell |-> "quit",    \* main, after the scheduler has stopped
   note     |-> "stop",    \* the callback of a handler
   fatal    |-> "reason",  \* exception_filter, its first line,
   reason   |-> "box",     \* ... its second,
   report   |-> "dump"]    \* ... and that the box failed, or that a URL is opened

Logging == DOMAIN After
Filter  == {"fatal", "reason", "box", "report", "dump"}

Points  == Logging \cup Filter \cup
  {"none", "init", "keepINT", "installINT", "keepTERM", "growTERM", "installTERM", "fps",
   "start", "detach", "launch", "spawn", "join", "quit", "unwind",
   "frames", "assign", "barrier", "raise", "await", "born", "job", "leave", "parting", "ended",
   "enter", "stop", "return"}

TypeOK ==
  /\ proc \in {"runs", "exited", "killed", "aborted", "crashed"}
  /\ pos \in [Contexts -> Points]
  /\ stack \in [Threads -> Seq(Signals)]
  /\ \A s \in Signals :
       pos[s] # "none" <=> \E t \in Threads : s \in ToSet(stack[t])
  /\ holder \in Contexts \cup {None}
  /\ callbacks \in [Signals -> {"absent", "empty", "full"}]
  /\ installed \subseteq Signals /\ statics \subseteq Statics
  /\ active \in BOOLEAN /\ live \in BOOLEAN /\ awake \in BOOLEAN
  /\ arrived \in 0 .. MaxSignals

Init ==
  /\ proc = "runs"
  /\ pos = [c \in Contexts |-> IF c = main THEN "init" ELSE "none"]
  /\ stack = [t \in Threads |-> <<>>]
  /\ holder = None
  /\ callbacks = [s \in Signals |-> "absent"] /\ installed = {}
  /\ statics = {"callbacks"}
  /\ active = FALSE /\ live = FALSE /\ awake = FALSE
  /\ arrived = 0

\* A context executes: it is the handler on top of its thread's stack, or a thread
\* that is not interrupted.
Executes(c) ==
  /\ proc = "runs"
  /\ \E t \in Threads : c = IF stack[t] = <<>> THEN t ELSE Last(stack[t])

Goes(c, from, to) ==
  /\ Executes(c)
  /\ pos[c] = from /\ pos' = [pos EXCEPT ![c] = to]

-------------------------------------------------------------------------------
(* log::send *)

LogLocks(c) ==
  /\ Executes(c) /\ pos[c] \in Logging /\ holder = None
  /\ IF "logger" \in statics THEN holder' = c /\ UNCHANGED proc
                             ELSE proc' = "crashed" /\ UNCHANGED holder
  /\ UNCHANGED <<pos, stack, tables, statics, flags, arrived>>

\* Mutant: the mutex is not released.
LogWritesLocked(c) ==
  /\ holder = c /\ pos[c] \in Logging
  /\ Goes(c, pos[c], After[pos[c]])
  /\ UNCHANGED <<proc, stack, holder, tables, statics, flags, arrived>>

LogWrites(c) ==
  /\ holder = c /\ pos[c] \in Logging
  /\ Goes(c, pos[c], After[pos[c]])
  /\ holder' = None
  /\ UNCHANGED <<proc, stack, tables, statics, flags, arrived>>

-------------------------------------------------------------------------------
(* main *)

LogInit ==
  /\ Goes(main, "init", "keepINT")
  /\ statics' = statics \cup {"logger"}
  /\ UNCHANGED <<proc, stack, holder, tables, flags, arrived>>

\* on_close moves its callback into the map for SIGINT ...
KeepInt ==
  /\ Goes(main, "keepINT", "installINT")
  /\ callbacks' = [callbacks EXCEPT ![SIGINT] = "full"]
  /\ UNCHANGED <<proc, stack, holder, installed, statics, flags, arrived>>

InstallInt ==
  /\ Goes(main, "installINT", "keepTERM")
  /\ installed' = installed \cup {SIGINT}
  /\ UNCHANGED <<proc, stack, holder, callbacks, statics, flags, arrived>>

\* ... and what is left of it for SIGTERM; while the map grows nobody may read it.
KeepTerm ==
  /\ Goes(main, "keepTERM", "growTERM")
  /\ UNCHANGED <<proc, stack, holder, tables, statics, flags, arrived>>

GrowTerm ==
  /\ Goes(main, "growTERM", "installTERM")
  /\ callbacks' = [callbacks EXCEPT ![SIGTERM] = "empty"]
  /\ UNCHANGED <<proc, stack, holder, installed, statics, flags, arrived>>

InstallTerm ==
  /\ Goes(main, "installTERM", "fps")
  /\ installed' = installed \cup {SIGTERM}
  /\ UNCHANGED <<proc, stack, holder, callbacks, statics, flags, arrived>>

SetFps ==
  /\ Goes(main, "fps", "warn") \/ Goes(main, "fps", "start")
  /\ UNCHANGED <<proc, stack, holder, tables, statics, flags, arrived>>

\* start() launches the workers, each of which runs before it is detached, and then
\* the arbiter, which it joins.
Launch ==
  /\ Executes(main) /\ pos[main] = "start"
  /\ pos' = [pos EXCEPT ![main] = "detach", ![worker] = "born"]
  /\ UNCHANGED <<proc, stack, holder, tables, statics, flags, arrived>>

Detach ==
  /\ Goes(main, "detach", "launch")
  /\ live' = TRUE
  /\ UNCHANGED <<proc, stack, holder, tables, statics, active, awake, arrived>>

Activate ==
  /\ Goes(main, "launch", "spawn")
  /\ active' = TRUE
  /\ UNCHANGED <<proc, stack, holder, tables, statics, live, awake, arrived>>

Start ==
  /\ Executes(main) /\ pos[main] = "spawn"
  /\ pos' = [pos EXCEPT ![main] = "join", ![arbiter] = "frames"]
  /\ UNCHANGED <<proc, stack, holder, tables, statics, flags, arrived>>

\* A thread cannot be created, and main does not catch the exception.
StartFails ==
  /\ Goes(main, "start", "fatal") \/ Goes(main, "spawn", "fatal")
  /\ UNCHANGED <<proc, stack, holder, tables, statics, flags, arrived>>

Joined ==
  /\ pos[arbiter] = "ended"
  /\ Goes(main, "join", "farewell")
  /\ UNCHANGED <<proc, stack, holder, tables, statics, flags, arrived>>

Quit ==
  /\ Goes(main, "quit", "unwind")
  /\ UNCHANGED <<proc, stack, holder, tables, statics, flags, arrived>>

\* exit() destroys the statics of the files in an order that is not specified.
Unwind ==
  /\ Executes(main) /\ pos[main] = "unwind"
  /\ \/ \E x \in statics : statics' = statics \ {x} /\ UNCHANGED proc
     \/ statics = {} /\ proc' = "exited" /\ UNCHANGED statics
  /\ UNCHANGED <<pos, stack, holder, tables, flags, arrived>>

Main ==
  \/ LogInit \/ KeepInt \/ InstallInt \/ KeepTerm \/ GrowTerm \/ InstallTerm \/ SetFps
  \/ Launch \/ Detach \/ Activate \/ Start \/ StartFails \/ Joined \/ Quit \/ Unwind

-------------------------------------------------------------------------------
(* The worker *)

\* A thread that runs before detach() finds _active false and does not wait, whether
\* or not it is true at the next test.
Hurries ==
  /\ Goes(worker, "born", IF live THEN "job" ELSE "leave")
  /\ UNCHANGED <<proc, stack, holder, tables, statics, flags, arrived>>

Waits ==
  /\ live /\ ~awake
  /\ Goes(worker, "born", "frames")
  /\ UNCHANGED <<proc, stack, holder, tables, statics, flags, arrived>>

Rises ==
  /\ awake \/ ~live
  /\ Goes(worker, "frames", IF live THEN "job" ELSE "leave")
  /\ UNCHANGED <<proc, stack, holder, tables, statics, flags, arrived>>

\* The last of the jobs returns, if there was one; the render job stops the scheduler
\* when the window is closed, and a job may throw what a worker does not catch.
JobReturns ==
  /\ Goes(worker, "job", "frames")
  /\ awake' = FALSE
  /\ UNCHANGED <<proc, stack, holder, tables, statics, active, live, arrived>>

JobCloses ==
  /\ Executes(worker) /\ pos[worker] = "job"
  /\ active /\ active' = FALSE
  /\ UNCHANGED <<proc, pos, stack, holder, tables, statics, live, awake, arrived>>

JobFails ==
  /\ Goes(worker, "job", "fatal")
  /\ UNCHANGED <<proc, stack, holder, tables, statics, flags, arrived>>

Leaves ==
  /\ Goes(worker, "leave", "parting")
  /\ awake' = FALSE
  /\ UNCHANGED <<proc, stack, holder, tables, statics, active, live, arrived>>

\* The thread locks the mutex of its worker for the last time: if the worker has been
\* destroyed, anything may happen.
Parts ==
  /\ \/ Goes(worker, "parting", "ended") /\ UNCHANGED proc
     \/ /\ Executes(worker) /\ pos[worker] = "parting" /\ pos[arbiter] = "ended"
        /\ proc' = "crashed" /\ UNCHANGED pos
  /\ UNCHANGED <<stack, holder, tables, statics, flags, arrived>>

WorkerThread ==
  Hurries \/ Waits \/ Rises \/ JobReturns \/ Leaves \/ Parts

-------------------------------------------------------------------------------
(* The arbiter *)

\* A frame: jobs are assigned, each with a wake, and the arbiter waits at the barrier.
FrameBegins ==
  /\ active
  /\ Goes(arbiter, "frames", "assign")
  /\ UNCHANGED <<proc, stack, holder, tables, statics, flags, arrived>>

Wakes ==
  /\ Goes(arbiter, "assign", "assign")
  /\ awake' = TRUE
  /\ UNCHANGED <<proc, stack, holder, tables, statics, active, live, arrived>>

FrameWaits ==
  /\ Goes(arbiter, "assign", "barrier")
  /\ UNCHANGED <<proc, stack, holder, tables, statics, flags, arrived>>

FrameEnds ==
  /\ ~awake
  /\ Goes(arbiter, "barrier", "frames")
  /\ UNCHANGED <<proc, stack, holder, tables, statics, flags, arrived>>

\* Between two frames the arbiter looks at _active and pops the worker, whose
\* destructor stops it.
Stops ==
  /\ ~active
  /\ Goes(arbiter, "frames", "raise")
  /\ live' = FALSE
  /\ UNCHANGED <<proc, stack, holder, tables, statics, active, awake, arrived>>

Raises ==
  /\ Goes(arbiter, "raise", "await")
  /\ awake' = TRUE
  /\ UNCHANGED <<proc, stack, holder, tables, statics, active, live, arrived>>

\* The worker is destroyed and the arbiter ends; a thread that has not ended goes on
\* with what is left of its worker, if it does not crash.
Reaps ==
  /\ ~awake
  /\ \/ Goes(arbiter, "await", "ended") /\ UNCHANGED proc
     \/ /\ Executes(arbiter) /\ pos[arbiter] = "await" /\ pos[worker] \in {"frames", "leave"}
        /\ proc' = "crashed" /\ UNCHANGED pos
  /\ UNCHANGED <<stack, holder, tables, statics, flags, arrived>>

Arbiter ==
  FrameBegins \/ FrameWaits \/ FrameEnds \/ Stops \/ Raises \/ Reaps

-------------------------------------------------------------------------------
(* Signals *)

\* A signal without a handler kills the process.  A handler is not interrupted by
\* its own signal, and one that is delivered elsewhere is not modelled.
Arrives(s, t) ==
  /\ proc = "runs" /\ arrived < MaxSignals
  /\ pos[t] \notin {"none", "ended"} /\ pos[s] = "none"
  /\ arrived' = arrived + 1
  /\ IF s \in installed
     THEN /\ stack' = [stack EXCEPT ![t] = Append(@, s)]
          /\ pos' = [pos EXCEPT ![s] = "enter"]
          /\ UNCHANGED proc
     ELSE proc' = "killed" /\ UNCHANGED <<stack, pos>>
  /\ UNCHANGED <<holder, tables, statics, flags>>

\* The dispatcher looks its callback up: in a map that grows or is destroyed it finds
\* anything, and a callback that was moved from throws.
Dispatches(s) ==
  /\ Executes(s) /\ pos[s] = "enter"
  /\ IF "callbacks" \notin statics \/ pos[main] = "growTERM"
     THEN proc' = "crashed" /\ UNCHANGED pos
     ELSE /\ pos' = [pos EXCEPT ![s] = IF callbacks[s] = "full" THEN "note" ELSE "fatal"]
          /\ UNCHANGED proc
  /\ UNCHANGED <<stack, holder, tables, statics, flags, arrived>>

\* The exception that an empty callback throws may also reach the catch clauses of the
\* worker that is interrupted: the one around a job, or the one around the loop.
WorkerCatches(s) ==
  /\ Executes(s) /\ pos[s] = "enter"
  /\ "callbacks" \in statics /\ callbacks[s] = "empty"
  /\ stack[worker] = <<s>> /\ pos[worker] \in {"born", "frames", "job"}
  /\ stack' = [stack EXCEPT ![worker] = <<>>]
  /\ \E p \in {"job", "leave"} :
       /\ p = "job" => pos[worker] = "job"
       /\ pos' = [pos EXCEPT ![s] = "none", ![worker] = p]
  /\ UNCHANGED <<proc, holder, tables, statics, flags, arrived>>


\* world::stop(true): a scheduler that is not active is left alone.
HandlerStops(s) ==
  /\ Goes(s, "stop", "return")
  /\ active' = FALSE
  /\ UNCHANGED <<proc, stack, holder, tables, statics, live, awake, arrived>>

\* Mutant: the handler stays on the stack.
HandlerReturnsTwice(s) ==
  /\ Goes(s, "return", "none")
  /\ UNCHANGED <<proc, stack, holder, tables, statics, flags, arrived>>

HandlerReturns(s) ==
  /\ Goes(s, "return", "none")
  /\ stack' = [t \in Threads |-> IF s \in ToSet(stack[t]) THEN Front(stack[t]) ELSE stack[t]]
  /\ UNCHANGED <<proc, holder, tables, statics, flags, arrived>>

-------------------------------------------------------------------------------
(* exception_filter *)

\* The message box is answered; that it failed, or that an URL is opened, is logged.
BoxAnswered(c) ==
  /\ Goes(c, "box", "report") \/ Goes(c, "box", "dump")
  /\ UNCHANGED <<proc, stack, holder, tables, statics, flags, arrived>>

Dumps(c) ==
  /\ Executes(c) /\ pos[c] = "dump"
  /\ proc' = "aborted"
  /\ UNCHANGED <<pos, stack, holder, tables, statics, flags, arrived>>

-------------------------------------------------------------------------------

Context(c) == LogLocks(c) \/ LogWrites(c) \/ BoxAnswered(c) \/ Dumps(c)
Handler(s) == Dispatches(s) \/ WorkerCatches(s) \/ HandlerStops(s) \/ HandlerReturns(s)

Next ==
  \/ Main
  \/ WorkerThread \/ JobCloses \/ JobFails
  \/ Arbiter \/ Wakes
  \/ \E s \in Signals, t \in Threads : Arrives(s, t)
  \/ \E s \in Signals : Handler(s)
  \/ \E c \in Contexts : Context(c)

Spec == Init /\ [][Next]_vars

\* Threads and handlers go on, jobs return, a frame has an end to its jobs, the message
\* box is answered.  Frames need not stop and signals need not come.  The log's mutex is
\* not withheld from one thread for ever.
FairSpec ==
  /\ Spec
  /\ WF_vars(Main) /\ WF_vars(WorkerThread) /\ WF_vars(Arbiter)
  /\ \A s \in Signals : WF_vars(Handler(s))
  /\ \A c \in Contexts : WF_vars(LogWrites(c) \/ BoxAnswered(c) \/ Dumps(c))
  /\ \A c \in Contexts : SF_vars(LogLocks(c))

-------------------------------------------------------------------------------
(* Properties *)

\* A context waits for the log's mutex on the very thread it interrupts in the
\* middle of a line: that thread is stuck, and the mutex with it.
LogStuck ==
  \E c \in Contexts, t \in Threads :
    /\ Executes(c) /\ pos[c] \in Logging
    /\ holder \in {t} \cup ToSet(stack[t]) /\ c \in ToSet(stack[t])
    /\ holder # c

\* exception_filter is running, or the process is past it.
Fatal == proc \in {"aborted", "crashed"} \/ \E c \in Contexts : pos[c] \in Filter

\* The worker's thread is past its loop and _awake is up: whoever waits for the worker
\* waits for ever.  It left the loop because it ran before detach(), because a handler's
\* exception ended the loop, or because stop() raised _awake after it saw _active
\* (worker.cpp:22-27, 57, 114-115).
Hung == awake /\ pos[worker] \in {"parting", "ended"}


\* The crash filter ends the process, also while other threads go on, unless a
\* signal interrupts a line of the log (main.cpp:25-96).
FilterEnds ==
  (\E c \in Contexts : pos[c] \in Filter) ~> proc # "runs" \/ LogStuck

\* When the log is destroyed the arbiter has ended and the worker is past its last
\* job.  The worker's thread may outlive stop(), so a handler that uses the log
\* afterwards is on main's stack or on the worker's (main.cpp:111-135,
\* worker.cpp:63-68, 121, logger.cpp:12-16).
LogOutlivesUsers ==
  "logger" \notin statics /\ pos[main] # "init" =>
    /\ pos[arbiter] = "ended"
    /\ pos[worker] \in {"frames", "leave", "parting", "ended"} /\ ~live
    /\ \A s \in Signals : pos[s] # "none" =>
         \/ s \in ToSet(stack[main])
         \/ pos[worker] # "ended" /\ s \in ToSet(stack[worker])

-------------------------------------------------------------------------------
(* What the comments say *)

\* main.cpp:101, "If we get an interrupt signal, we will stop the scheduler to allow
\* for a graceful shutdown": no handler that is installed ends in the crash filter.
SignalsAreGraceful ==
  \A s \in Signals : pos[s] # "fatal"

===============================================================================
