--------------------------------- MODULE Game ---------------------------------
(***************************************************************************)
(* The three jobs of game::world (src/src/game/world.cpp:23-38) in the     *)
(* frames of the scheduler: the write job, the event pump and the jobs of  *)
(* the game are the roots, the render job is the child of the write job.   *)
(* The jobs of a sub-cycle execute at the same time, and a sub-cycle       *)
(* begins when every job of the one before has returned: this is what      *)
(* Runner shows of frames in which no worker forgets a wake.               *)
(*                                                                         *)
(* A key goes a long way: SDL queues it, the render job polls it and fires *)
(* key_down, the pump calls the connected callback in a later frame, the   *)
(* callback queues a write, the write job executes it and sets a text box, *)
(* and the render job builds its texture.  Keys are numbered in the order  *)
(* in which they are pressed, and the text of the box is the last one.     *)
(***************************************************************************)
EXTENDS WriteJob, Rendering, Events

CONSTANTS
  Keys,       \* how many keys are pressed, a bound
  Label,      \* the text box that shows the last key
  show,       \* the callback that is connected to key_down from the start
  JobsThatYield  \* the yielders that are jobs of the game, run by a worker

ASSUME GameAssumption ==
  /\ Keys \in Nat
  /\ Contexts = 1 .. Keys /\ Texts = Contexts
  /\ Label \in Boxes
  /\ Callbacks = {show}
  /\ JobsThatYield \subseteq Yielders \ {"write", "pump", "render"}

VARIABLES
  subcycle,  \* "roots", "children", or "over" when the scheduler has stopped
  done,      \* the jobs of the sub-cycle that have returned
  active,    \* runner::_active
  pressed,   \* the keys that have been pressed are 1 .. pressed
  sdl,       \* SDL's event queue
  calls,     \* history: the contexts with which show was called
  age        \* history: 1 when a key was fired at show, and one more for every
             \* frame that ended since and in which it did not stay queued

frameVars == <<subcycle, done, active>>
inputVars == <<pressed, sdl, calls, age>>
vars == <<writeVars, renderVars, eventVars, frameVars, inputVars>>

Roots == {"write", "pump"} \cup JobsThatYield

Quit == 0

TypeOK ==
  /\ RenderTypeOK /\ EventsTypeOK
  /\ writes \in Seq(Contexts) /\ holder \in Holders
  /\ subcycle \in {"roots", "children", "over"}
  /\ done \subseteq Roots \cup {"render"}
  /\ active \in BOOLEAN
  /\ pressed \in 0 .. Keys
  /\ sdl \in Seq(Contexts \cup {Quit})
  /\ calls \in Seq(Contexts)
  /\ age \in [Contexts -> 0 .. 4]

Init ==
  /\ WriteInit /\ RenderInit /\ EventsInit(<<show>>)
  /\ subcycle = "roots" /\ done = {} /\ active = TRUE
  /\ pressed = 0 /\ sdl = <<>> /\ calls = <<>>
  /\ age = [k \in Contexts |-> 0]

Alive == ~crashed /\ subcycle # "over"

Executing(job) ==
  /\ Alive
  /\ subcycle = IF job = "render" THEN "children" ELSE "roots"
  /\ job \notin done

Returned(job) == done' = done \cup {job} /\ UNCHANGED <<subcycle, active>>

-------------------------------------------------------------------------------
(* The frames *)

Children ==
  /\ Alive /\ subcycle = "roots" /\ done = Roots
  /\ subcycle' = "children" /\ done' = {}
  /\ UNCHANGED <<writeVars, renderVars, eventVars, active, inputVars>>

\* A request to show the key has not been executed.
Waiting(k) ==
  \E i \in DOMAIN requests :
    requests[i].callback = show /\ requests[i].context = k

\* The arbiter looks at _active between two frames.
FrameEnd ==
  /\ Alive /\ subcycle = "children" /\ done = {"render"}
  /\ subcycle' = IF active THEN "roots" ELSE "over"
  /\ done' = {}
  /\ age' = [k \in Contexts |-> IF age[k] \in {0, 4} THEN age[k]
                               ELSE IF Waiting(k) THEN 2 ELSE age[k] + 1]
  /\ UNCHANGED <<writeVars, renderVars, eventVars, active, pressed, sdl, calls>>

-------------------------------------------------------------------------------
(* The write job, and the setters it executes *)

WriteJobBegins ==
  /\ Executing("write")
  /\ WriteBegin
  /\ UNCHANGED <<renderVars, eventVars, frameVars, inputVars>>

WriteJobSets ==
  /\ Executing("write") /\ setter = Idle
  /\ \E k \in Contexts : WritePop(k) /\ SetBegin(Label, k)
  /\ UNCHANGED <<eventVars, frameVars, inputVars>>

WriteJobReturns ==
  /\ Executing("write") /\ setter = Idle
  /\ WriteEnd
  /\ Returned("write")
  /\ UNCHANGED <<renderVars, eventVars, inputVars>>

Setter ==
  /\ Alive
  /\ Set
  /\ UNCHANGED <<writeVars, eventVars, frameVars, inputVars>>

\* SG_SYNSET by a thread outside of the scheduler, at any time.
OutsideSets ==
  /\ Alive
  /\ OutsideLocks
  /\ \E b \in Boxes \ {Label}, v \in Texts : SetBegin(b, v)
  /\ UNCHANGED <<eventVars, frameVars, inputVars>>

OutsideReturns ==
  /\ Alive /\ setter = Idle
  /\ OutsideUnlocks
  /\ UNCHANGED <<renderVars, eventVars, frameVars, inputVars>>

-------------------------------------------------------------------------------
(* The event pump, and the callbacks it calls *)

PumpJobBegins ==
  /\ Executing("pump")
  /\ PumpBegin
  /\ UNCHANGED <<writeVars, renderVars, frameVars, inputVars>>

PumpJobReturns ==
  /\ PumpEnd
  /\ Executing("pump") /\ Returned("pump")
  /\ UNCHANGED <<writeVars, renderVars, inputVars>>

\* show queues a function that sets the text of the label.
PumpJobShows ==
  /\ Executing("pump")
  /\ PumpCallsOrdinary(show)
  /\ Enqueue(Head(requests).context) /\ UNCHANGED holder
  /\ calls' = Append(calls, Head(requests).context)
  /\ UNCHANGED <<renderVars, frameVars, pressed, sdl, age>>

\* An exception ends the execution of the job, and the worker goes on.
PumpJobFulfils ==
  /\ Executing("pump")
  /\ \E y \in Yielders : PumpCallsYield(y) \/ PumpCallsGone(y)
  /\ IF ppc' = "out" THEN Returned("pump") ELSE UNCHANGED frameVars
  /\ UNCHANGED <<writeVars, renderVars, inputVars>>

PumpJobPops ==
  /\ Executing("pump")
  /\ PumpPop
  /\ UNCHANGED <<writeVars, renderVars, frameVars, inputVars>>

-------------------------------------------------------------------------------
(* The render job *)

RenderJobInitFails ==
  /\ Executing("render")
  /\ InitFails
  /\ Returned("render")
  /\ UNCHANGED <<writeVars, eventVars, inputVars>>

RenderJobBegins ==
  /\ Executing("render")
  /\ ExecuteBegin
  /\ UNCHANGED <<writeVars, eventVars, frameVars, inputVars>>

\* poll_events: a key is fired at once, closing the window stops the scheduler.
RenderJobPollsKey ==
  /\ Executing("render") /\ rpc = "poll"
  /\ sdl # <<>> /\ Head(sdl) # Quit
  /\ sdl' = Tail(sdl)
  /\ Fire(Head(sdl))
  /\ age' = IF Connected(show) THEN [age EXCEPT ![Head(sdl)] = 1] ELSE age
  /\ UNCHANGED <<writeVars, renderVars, frameVars, pressed, calls>>

RenderJobPollsQuit ==
  /\ Executing("render") /\ rpc = "poll"
  /\ sdl # <<>> /\ Head(sdl) = Quit
  /\ sdl' = Tail(sdl)
  /\ active' = FALSE
  /\ UNCHANGED <<writeVars, renderVars, eventVars, subcycle, done, pressed, calls, age>>

RenderJobPolled ==
  /\ Executing("render") /\ sdl = <<>>
  /\ PollEnd
  /\ UNCHANGED <<writeVars, eventVars, frameVars, inputVars>>

RenderJobPresents ==
  /\ Executing("render")
  /\ Present
  /\ IF rpc' = "out" THEN Returned("render") ELSE UNCHANGED frameVars
  /\ UNCHANGED <<writeVars, eventVars, inputVars>>

-------------------------------------------------------------------------------
(* The game's own jobs, threads outside of the scheduler, and the user *)

\* A connection is made while the render job does not fire: by a root job, or
\* by a thread outside that has a way to know.
YielderBegins(y) ==
  /\ Alive /\ subcycle = "roots" /\ y \notin done
  /\ YieldBegin(y)
  /\ UNCHANGED <<writeVars, renderVars, frameVars, inputVars>>

YielderReturns(y) ==
  /\ Alive
  /\ YieldReturn(y)
  /\ UNCHANGED <<writeVars, renderVars, frameVars, inputVars>>

\* A job that has not yielded, or whose yield() has returned.
JobReturns(y) ==
  /\ Executing(y)
  /\ ypc[y] # "waiting"
  /\ Returned(y)
  /\ UNCHANGED <<writeVars, renderVars, eventVars, inputVars>>

Disconnects ==
  /\ Alive /\ subcycle = "roots"
  /\ DisconnectAll
  /\ UNCHANGED <<writeVars, renderVars, frameVars, inputVars>>

Press ==
  /\ Alive /\ pressed < Keys
  /\ pressed' = pressed + 1
  /\ sdl' = Append(sdl, pressed')
  /\ UNCHANGED <<writeVars, renderVars, eventVars, frameVars, calls, age>>

Close ==
  /\ Alive /\ active
  /\ Quit \notin {sdl[i] : i \in DOMAIN sdl}
  /\ sdl' = Append(sdl, Quit)
  /\ UNCHANGED <<writeVars, renderVars, eventVars, frameVars, pressed, calls, age>>

-------------------------------------------------------------------------------
WriteJob == WriteJobBegins \/ WriteJobSets \/ WriteJobReturns

Pump ==
  \/ PumpJobBegins \/ PumpJobShows \/ PumpJobFulfils \/ PumpJobPops
  \/ PumpJobReturns

Render ==
  \/ RenderJobInitFails \/ RenderJobBegins
  \/ RenderJobPollsKey \/ RenderJobPollsQuit \/ RenderJobPolled
  \/ RenderJobPresents

Frame == Children \/ FrameEnd

Next ==
  \/ Frame \/ WriteJob \/ Pump \/ Render
  \/ Setter \/ OutsideSets \/ OutsideReturns
  \/ \E y \in Yielders : YielderBegins(y) \/ YielderReturns(y)
  \/ \E y \in JobsThatYield : JobReturns(y)
  \/ Disconnects \/ Press \/ Close

Spec == Init /\ [][Next]_vars

\* The threads that execute jobs keep going, and one that waits for the write
\* job's mutex gets it in the end.  Nobody has to set, connect or press.
FairSpec ==
  /\ Spec
  /\ WF_vars(Frame) /\ WF_vars(Pump) /\ WF_vars(Render)
  /\ SF_vars(WriteJobBegins) /\ WF_vars(WriteJobSets) /\ WF_vars(WriteJobReturns)
  /\ WF_vars(Setter) /\ WF_vars(OutsideReturns)
  /\ \A y \in Yielders : WF_vars(YielderReturns(y))
  /\ \A y \in JobsThatYield : WF_vars(JobReturns(y))

-------------------------------------------------------------------------------
(* Properties *)

\* The callback is called with the keys in the order in which they were pressed,
\* none twice and none left out, whatever other callbacks throw (event.cpp:
\* 19-24, event_pump.hpp:20-30).
KeysInOrder ==
  \A i \in DOMAIN calls : calls[i] = i

\* When a frame begins, every key that was polled three frames ago is shown,
\* unless a text box could not be built; and the pump leaves a request to a
\* later frame only behind one of yield() (write_job.cpp:5-18, event_pump.hpp:
\* 20-26, render_job.cpp:52-98).
ShownInTime ==
  \A k \in Contexts :
    /\ subcycle = "roots" /\ age[k] = 4 =>
         \/ texture[Label] # Unset /\ texture[Label] >= k
         \/ \E b \in Boxes : failed[b]
    /\ subcycle = "children" /\ age[k] >= 2 /\ Waiting(k) =>
         Head(requests).callback \in Yielders

\* A job waits in yield(): its sub-cycle does not end, the render job that polls the
\* keys and the pump that calls the callback are not executed any more.
FrameBlocked == \E y \in JobsThatYield : ypc[y] = "waiting"

\* While the program runs, frames are presented again and again: a text box
\* that cannot be built keeps the frame from being presented once for every
\* time it is set, not for ever; only a job that yields does (render_job.cpp:
\* 72-98, renderable.hpp:21-26, event.cpp:38).
FramesPresented ==
  \/ []<>(rpc = "present")
  \/ <>[](~Alive \/ ~initialized \/ FrameBlocked)
  \/ []<>(setter # Idle)

\* The first request of the pump is for a yield() that has returned: calling it may
\* throw, and then it is still the first in the next frame.
StaleInFront ==
  /\ requests # <<>>
  /\ Head(requests).callback \in Yielders
  /\ ypc[Head(requests).callback] = "returned"

\* A thread that waits in yield() returns once a key is pressed, as long as it
\* stays connected and no job of the game waits as well; unless the pump never gets
\* past the request of an earlier yield(), whose promise is gone (event.cpp:26-40,
\* event_pump.hpp:20-26).
KeyEndsYield ==
  \A y \in Yielders :
    \/ (ypc[y] = "waiting" /\ \E i \in DOMAIN sdl : sdl[i] # Quit) ~>
         \/ ypc[y] = "returned"
         \/ ~Alive \/ ~initialized \/ ~Connected(y) \/ FrameBlocked
    \/ <>[]StaleInFront

===============================================================================
