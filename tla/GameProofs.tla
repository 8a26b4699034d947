------------------------------- MODULE GameProofs -------------------------------
(***************************************************************************)
(* For any number of text boxes and values, no change of a box is          *)
(* overlooked by the render job, and this holds in the frames of the       *)
(* scheduler; with what the game promises of its events and keys, for any  *)
(* number of keys, boxes and yielding threads.                             *)
(***************************************************************************)
EXTENDS Game, Integers, TLAPS

(* The text boxes and the render job, in Rendering *)

\* The render job visits or builds one box at a time, and the setter holds the
\* only box that changes (render_job.cpp:72-89, text_box.hpp:41-53).
THEOREM RenderTyping == RenderSpec => []RenderTypeOK
<1>1. RenderInit => RenderTypeOK
  BY DEF RenderInit, RenderTypeOK, RenderPoints, Idle
<1>2. RenderTypeOK /\ [RenderNext]_renderVars => RenderTypeOK'
  <2> SUFFICES ASSUME RenderTypeOK, [RenderNext]_renderVars
               PROVE  RenderTypeOK'
    OBVIOUS
  <2> USE RenderingAssumption DEF RenderTypeOK, RenderPoints
  <2>1. ASSUME NEW b \in Boxes, NEW v \in Texts, SetBegin(b, v)
        PROVE  RenderTypeOK'
    BY <2>1 DEF SetBegin, Setting, Idle
  <2>2. CASE SetStore
    BY <2>2 DEF SetStore, Setting, Idle
  <2>3. CASE SetMark
    BY <2>3 DEF SetMark, Setting, Idle
  <2>4. CASE ExecuteBegin
    BY <2>4 DEF ExecuteBegin
  <2>5. CASE PollEnd
    BY <2>5 DEF PollEnd
  <2>6. ASSUME NEW b \in Boxes, TestMark(b)
        PROVE  RenderTypeOK'
    BY <2>6 DEF TestMark
  <2>7. CASE ClearMark
    BY <2>7 DEF ClearMark
  <2>8. CASE BuildSurface
    <3>1. Seen(box) \subseteq Texts \cup {Unset}
      BY <2>8 DEF BuildSurface, Seen
    <3> QED
      BY <2>8, <3>1 DEF BuildSurface
  <2>9. CASE BuildTexture
    BY <2>9 DEF BuildTexture
  <2>10. CASE BuildFails
    BY <2>10 DEF BuildFails
  <2>11. CASE Draw
    BY <2>11 DEF Draw
  <2>12. CASE ExecuteEnd
    BY <2>12 DEF ExecuteEnd
  <2>13. CASE UNCHANGED renderVars
    BY <2>13 DEF renderVars
  <2> QED
    BY <2>1, <2>2, <2>3, <2>4, <2>5, <2>6, <2>7, <2>8, <2>9, <2>10, <2>11,
       <2>12, <2>13 DEF RenderNext, Set, Present
<1> QED
  BY <1>1, <1>2, PTL DEF RenderSpec

\* A surface that was built from properties that have changed since, or while
\* they changed, belongs to a box that is or will be marked again.
StaleSurfaceMarked ==
  rpc = "upload" =>
    \/ surface = text[box]
    \/ marked[box]
    \/ setter.step # "none" /\ setter.box = box

FreshInv == FreshOrMarked /\ StaleSurfaceMarked

\* A box that is not marked, not about to be marked and not being built shows
\* what its setter stored last, or its last build failed (renderable.hpp:21-31,
\* text_box.hpp:41-53).  The order of the stores on either side makes it true:
\* the setter marks after it stored, the render job reads after it cleared.
THEOREM ChangesNotOverlooked == RenderSpec => []FreshOrMarked
<1> USE DEF RenderTypeOK, Setting, Idle
<1>1. RenderInit => FreshInv
  BY DEF RenderInit, FreshInv, FreshOrMarked, StaleSurfaceMarked
<1>2. RenderTypeOK /\ FreshInv /\ [RenderNext]_renderVars => FreshInv'
  <2> SUFFICES ASSUME RenderTypeOK, FreshOrMarked, StaleSurfaceMarked,
                      [RenderNext]_renderVars
               PROVE  FreshOrMarked' /\ StaleSurfaceMarked'
    BY DEF FreshInv
  <2> USE DEF FreshOrMarked, StaleSurfaceMarked
  <2>1. ASSUME NEW b \in Boxes, NEW v \in Texts, SetBegin(b, v)
        PROVE  FreshOrMarked' /\ StaleSurfaceMarked'
    BY <2>1 DEF SetBegin
  <2>2. CASE SetStore
    BY <2>2 DEF SetStore
  <2>3. CASE SetMark
    BY <2>3 DEF SetMark
  <2>4. CASE ExecuteBegin
    BY <2>4 DEF ExecuteBegin
  <2>5. CASE PollEnd
    BY <2>5 DEF PollEnd
  <2>6. ASSUME NEW b \in Boxes, TestMark(b)
        PROVE  FreshOrMarked' /\ StaleSurfaceMarked'
    BY <2>6 DEF TestMark
  <2>7. CASE ClearMark
    BY <2>7 DEF ClearMark
  <2>8. CASE BuildSurface
    BY <2>8 DEF BuildSurface, Seen
  <2>9. CASE BuildTexture
    BY <2>9 DEF BuildTexture
  <2>10. CASE BuildFails
    BY <2>10 DEF BuildFails
  <2>11. CASE Draw
    BY <2>11 DEF Draw
  <2>12. CASE ExecuteEnd
    BY <2>12 DEF ExecuteEnd
  <2>13. CASE UNCHANGED renderVars
    BY <2>13 DEF renderVars
  <2> QED
    BY <2>1, <2>2, <2>3, <2>4, <2>5, <2>6, <2>7, <2>8, <2>9, <2>10, <2>11,
       <2>12, <2>13 DEF RenderNext, Set, Present
<1>3. FreshInv => FreshOrMarked
  BY DEF FreshInv
<1> QED
  BY <1>1, <1>2, <1>3, RenderTyping, PTL DEF RenderSpec

-------------------------------------------------------------------------------
(* The text boxes in the frames of the scheduler *)

LEMMA TextsAreContexts == Texts = Contexts
  BY GameAssumption DEF GameAssumption

\* Every step of the game is one of the rendering or leaves it alone: the write
\* job, the threads outside and the render job use the boxes as Rendering
\* allows, at most one setter at a time (write_job.cpp:5-18, object.hpp:37-51,
\* render_job.cpp:72-98).
THEOREM GameRenders == Spec => RenderSpec
<1>1. Init => RenderInit
  BY DEF Init
<1>2. [Next]_vars => [RenderNext]_renderVars
  <2> SUFFICES ASSUME [Next]_vars PROVE [RenderNext]_renderVars
    OBVIOUS
  <2>1. CASE Frame
    BY <2>1 DEF Frame, Children, FrameEnd
  <2>2. CASE WriteJob
    <3>1. CASE WriteJobBegins
      BY <3>1 DEF WriteJobBegins
    <3>2. CASE WriteJobSets
      BY <3>2, TextsAreContexts, GameAssumption
      DEF WriteJobSets, RenderNext, GameAssumption
    <3>3. CASE WriteJobReturns
      BY <3>3 DEF WriteJobReturns
    <3> QED
      BY <2>2, <3>1, <3>2, <3>3 DEF WriteJob
  <2>3. CASE Pump
    BY <2>3 DEF Pump, PumpJobBegins, PumpJobShows, PumpJobFulfils, PumpJobPops,
                PumpJobReturns
  <2>4. CASE Render
    BY <2>4 DEF Render, RenderJobInitFails, InitFails, RenderJobBegins,
                RenderJobPollsKey, RenderJobPollsQuit, RenderJobPolled,
                RenderJobPresents, RenderNext
  <2>5. CASE Setter
    BY <2>5 DEF Setter, RenderNext
  <2>6. CASE OutsideSets
    BY <2>6 DEF OutsideSets, RenderNext
  <2>7. CASE OutsideReturns
    BY <2>7 DEF OutsideReturns
  <2>8. ASSUME NEW y \in Yielders, YielderBegins(y) \/ YielderReturns(y)
        PROVE  UNCHANGED renderVars
    BY <2>8 DEF YielderBegins, YielderReturns
  <2>9. ASSUME NEW y \in JobsThatYield, JobReturns(y)
        PROVE  UNCHANGED renderVars
    BY <2>9 DEF JobReturns
  <2>10. CASE Disconnects \/ Press \/ Close
    BY <2>10 DEF Disconnects, Press, Close
  <2>11. CASE UNCHANGED vars
    BY <2>11 DEF vars
  <2> QED
    BY <2>1, <2>2, <2>3, <2>4, <2>5, <2>6, <2>7, <2>8, <2>9, <2>10, <2>11
    DEF Next
<1> QED
  BY <1>1, <1>2, PTL DEF Spec, RenderSpec

\* In the running game no change of a text box is overlooked (renderable.hpp:
\* 21-31, text_box.hpp:41-53).
THEOREM GameShowsChanges == Spec => []FreshOrMarked
  BY GameRenders, ChangesNotOverlooked, PTL

-------------------------------------------------------------------------------
(* Type correctness *)

\* What TypeOK says of the frames, of the events and of the keys.  The pump pops
\* a request that is there.
PlainTypeOK ==
  /\ EventsTypeOK
  /\ writes \in Seq(Contexts) /\ holder \in Holders
  /\ subcycle \in {"roots", "children", "over"}
  /\ done \subseteq Roots \cup {"render"}
  /\ active \in BOOLEAN
  /\ pressed \in 0 .. Keys
  /\ sdl \in Seq(Contexts \cup {Quit})
  /\ calls \in Seq(Contexts)
  /\ age \in [Contexts -> 0 .. 4]
  /\ ppc = "pop" => requests # <<>>

LEMMA FireType ==
  ASSUME EventsTypeOK, ppc = "pop" => requests # <<>>, NEW k \in Contexts, Fire(k)
  PROVE  EventsTypeOK' /\ (ppc' = "pop" => requests' # <<>>)
<1> DEFINE block == [i \in DOMAIN cns |-> [callback |-> cns[i], context |-> k]]
<1>1. block \in Seq(Request)
  <2>1. DOMAIN cns = 1 .. Len(cns) /\ Len(cns) \in Nat
    BY DEF EventsTypeOK
  <2>2. \A i \in 1 .. Len(cns) : [callback |-> cns[i], context |-> k] \in Request
    BY DEF EventsTypeOK, Request
  <2> QED BY <2>1, <2>2
<1>2. requests' = requests \o block
  BY DEF Fire
<1> HIDE DEF block
<1>3. requests' \in Seq(Request) /\ (requests # <<>> => requests' # <<>>)
  BY <1>1, <1>2 DEF EventsTypeOK
<1>4. first' \in [Yielders -> Contexts \cup {None}]
  BY DEF Fire, EventsTypeOK
<1> QED BY <1>3, <1>4 DEF Fire, EventsTypeOK

LEMMA PlainTypeStep ==
  ASSUME PlainTypeOK, [Next]_vars
  PROVE  PlainTypeOK'
<1> USE GameAssumption
    DEF GameAssumption, PlainTypeOK, Executing, Returned, Roots, writeVars, renderVars,
        eventVars, frameVars, inputVars
<1>0. PlainTypeOK
  OBVIOUS
<1>1. CASE Frame
  <2>1. CASE Children
    BY <2>1 DEF Children, EventsTypeOK
  <2>2. CASE FrameEnd
    <3>1. age' = [k \in Contexts |-> IF age[k] \in {0, 4} THEN age[k]
                               ELSE IF Waiting(k) THEN 2 ELSE age[k] + 1]
      BY <2>2 DEF FrameEnd
    <3>2. age' \in [Contexts -> 0 .. 4]
      BY <3>1
    <3> QED BY <2>2, <3>2 DEF FrameEnd, EventsTypeOK
  <2> QED BY <1>1, <2>1, <2>2 DEF Frame
<1>2. CASE WriteJob
  <2>1. \A s \in Seq(Contexts) : s # <<>> => Tail(s) \in Seq(Contexts)
    OBVIOUS
  <2> QED BY <1>2, <2>1
      DEF WriteJob, WriteJobBegins, WriteJobSets, WriteJobReturns, WriteBegin,
          WritePop, WriteEnd, Holders, EventsTypeOK
<1>3. CASE PumpJobBegins \/ PumpJobReturns
  BY <1>3 DEF PumpJobBegins, PumpJobReturns, PumpBegin, PumpEnd, EventsTypeOK
<1>4. CASE PumpJobShows
  <2>1. requests # <<>> /\ Head(requests) \in Request
    BY <1>4 DEF PumpJobShows, PumpCallsOrdinary, Calling, EventsTypeOK
  <2>2. /\ writes' = Append(writes, Head(requests).context)
        /\ calls' = Append(calls, Head(requests).context)
        /\ Head(requests).context \in Contexts
    BY <1>4, <2>1 DEF PumpJobShows, Enqueue, Request
  <2>3. writes' \in Seq(Contexts) /\ calls' \in Seq(Contexts)
    BY <2>2
  <2> QED BY <1>4, <2>1, <2>3
      DEF PumpJobShows, PumpCallsOrdinary, Returns, EventsTypeOK
<1>5. CASE PumpJobFulfils
  <2>1. PICK y \in Yielders : PumpCallsYield(y) \/ PumpCallsGone(y)
    BY <1>5 DEF PumpJobFulfils
  <2>2. requests # <<>> /\ Head(requests) \in Request
    BY <2>1 DEF PumpCallsYield, PumpCallsGone, Calling, EventsTypeOK
  <2>3. EventsTypeOK' /\ requests' = requests
    BY <2>1, <2>2
    DEF PumpCallsYield, PumpCallsGone, Returns, Throws, EventsTypeOK, Request
  <2>4. done' \subseteq Roots \cup {"render"} /\ subcycle' = subcycle /\ active' = active
    BY <1>5 DEF PumpJobFulfils
  <2> QED BY <1>5, <2>2, <2>3, <2>4 DEF PumpJobFulfils
<1>6. CASE PumpJobPops
  <2>1. Tail(requests) \in Seq(Request)
    BY <1>6 DEF PumpJobPops, PumpPop, EventsTypeOK
  <2> QED BY <1>6, <2>1 DEF PumpJobPops, PumpPop, EventsTypeOK
<1>7. CASE RenderJobPollsKey
  <2>1. sdl # <<>> /\ Head(sdl) \in Contexts /\ Tail(sdl) \in Seq(Contexts \cup {Quit})
    BY <1>7 DEF RenderJobPollsKey
  <2>2. EventsTypeOK' /\ (ppc' = "pop" => requests' # <<>>)
    BY <1>0, <1>7, <2>1, FireType DEF RenderJobPollsKey
  <2> QED BY <1>7, <2>1, <2>2 DEF RenderJobPollsKey
<1>8. CASE RenderJobPollsQuit
  <2>1. sdl # <<>> /\ Tail(sdl) \in Seq(Contexts \cup {Quit})
    BY <1>8 DEF RenderJobPollsQuit
  <2> QED BY <1>8, <2>1 DEF RenderJobPollsQuit, EventsTypeOK
<1>9. CASE RenderJobInitFails \/ RenderJobBegins \/ RenderJobPolled \/ RenderJobPresents
  BY <1>9 DEF RenderJobInitFails, RenderJobBegins, RenderJobPolled, RenderJobPresents,
              EventsTypeOK
<1>10. CASE Setter \/ OutsideSets \/ OutsideReturns
  BY <1>10 DEF Setter, OutsideSets, OutsideReturns, OutsideLocks, OutsideUnlocks,
               Holders, EventsTypeOK
<1>11. ASSUME NEW y \in Yielders, YielderBegins(y)
       PROVE  PlainTypeOK'
  <2>1. Append(cns, y) \in Seq(Connectable)
    BY DEF EventsTypeOK, Connectable
  <2> QED BY <1>11, <2>1 DEF YielderBegins, YieldBegin, EventsTypeOK
<1>12. ASSUME NEW y \in Yielders, YielderReturns(y)
       PROVE  PlainTypeOK'
  BY <1>12 DEF YielderReturns, YieldReturn, EventsTypeOK
<1>13. ASSUME NEW y \in JobsThatYield, JobReturns(y)
       PROVE  PlainTypeOK'
  BY <1>13 DEF JobReturns, EventsTypeOK
<1>14. CASE Disconnects
  <2>1. crashed' \in BOOLEAN /\ cns' \in Seq(Connectable)
    BY <1>14 DEF Disconnects, DisconnectAll, EventsTypeOK
  <2> QED BY <1>14, <2>1 DEF Disconnects, DisconnectAll, EventsTypeOK
<1>15. CASE Press
  <2>1. pressed' \in Contexts /\ pressed' \in 0 .. Keys
    BY <1>15 DEF Press
  <2>2. Append(sdl, pressed') \in Seq(Contexts \cup {Quit})
    BY <2>1
  <2> QED BY <1>15, <2>1, <2>2 DEF Press, EventsTypeOK
<1>16. CASE Close
  <2>1. Append(sdl, Quit) \in Seq(Contexts \cup {Quit})
    OBVIOUS
  <2> QED BY <1>16, <2>1 DEF Close, EventsTypeOK
<1>17. CASE UNCHANGED vars
  BY <1>17 DEF vars, EventsTypeOK
<1> QED
  BY <1>1, <1>2, <1>3, <1>4, <1>5, <1>6, <1>7, <1>8, <1>9, <1>10, <1>11, <1>12,
     <1>13, <1>14, <1>15, <1>16, <1>17
  DEF Next, Pump, Render

LEMMA PlainTyping == Spec => []PlainTypeOK
<1>1. Init => PlainTypeOK
  <2> SUFFICES ASSUME Init PROVE PlainTypeOK
    OBVIOUS
  <2>1. <<show>> \in Seq(Connectable)
    BY GameAssumption DEF GameAssumption, Connectable
  <2>2. EventsTypeOK
    <3>1. cns = <<show>> /\ requests = <<>> /\ ppc = "out" /\ crashed = FALSE
      BY DEF Init, EventsInit
    <3>2. /\ ypc \in [Yielders -> {"out", "waiting", "returned"}]
          /\ promise \in [Yielders -> Contexts \cup {None}]
          /\ result \in [Yielders -> Contexts \cup {None}]
          /\ first \in [Yielders -> Contexts \cup {None}]
      BY DEF Init, EventsInit
    <3>3. requests \in Seq(Request)
      BY <3>1
    <3> QED BY <2>1, <3>1, <3>2, <3>3 DEF EventsTypeOK
  <2>3. age \in [Contexts -> 0 .. 4] /\ pressed \in 0 .. Keys
    BY GameAssumption DEF Init, GameAssumption
  <2> QED BY <2>2, <2>3
      DEF Init, EventsInit, WriteInit, PlainTypeOK, Holders
<1> QED BY <1>1, PlainTypeStep, PTL DEF Spec

\* Every variable of the game keeps its type; the pump pops only a request that
\* is there, although an exception may leave one in front (event_pump.hpp:20-26).
THEOREM GameTyping == Spec => []TypeOK
<1>1. RenderTypeOK /\ PlainTypeOK => TypeOK
  BY DEF PlainTypeOK, TypeOK
<1> QED BY <1>1, GameRenders, RenderTyping, PlainTyping, PTL

-------------------------------------------------------------------------------
(* What yield() returns *)

\* The first request that an event queued for a yielder has the context the event
\* was fired with first; it stays in the queue until its call has set the promise.
Promised(y) ==
  /\ promise[y] # None => promise[y] = first[y]
  /\ result[y] # None => result[y] = first[y]
  /\ ypc[y] = "returned" => promise[y] # None
  /\ ppc = "pop" /\ Head(requests).callback = y => promise[y] # None
  /\ first[y] # None /\ promise[y] = None =>
       \E i \in DOMAIN requests : requests[i].callback = y
  /\ \A i \in DOMAIN requests :
       requests[i].callback = y =>
         /\ first[y] # None
         /\ promise[y] # None \/ requests[i].context = first[y]
            \/ \E k \in 1 .. i - 1 : requests[k].callback = y

LEMMA ConcatPlaces ==
  ASSUME NEW A, NEW s \in Seq(A), NEW t \in Seq(A)
  PROVE  /\ DOMAIN s = 1 .. Len(s) /\ Len(s) \in Nat
         /\ DOMAIN t = 1 .. Len(t) /\ Len(t) \in Nat
         /\ DOMAIN (s \o t) = 1 .. Len(s) + Len(t)
         /\ \A i \in 1 .. Len(s) : (s \o t)[i] = s[i]
         /\ \A i \in 1 .. Len(t) : (s \o t)[Len(s) + i] = t[i]
         /\ \A i \in Len(s) + 1 .. Len(s) + Len(t) : (s \o t)[i] = t[i - Len(s)]
OBVIOUS

LEMMA PromisedFire ==
  ASSUME PlainTypeOK, NEW y \in Yielders, Promised(y), NEW k \in Contexts, Fire(k)
  PROVE  Promised(y)'
<1> DEFINE n == Len(requests)
           block == [i \in DOMAIN cns |-> [callback |-> cns[i], context |-> k]]
<1>1. /\ requests \in Seq(Request) /\ cns \in Seq(Connectable)
      /\ requests' = requests \o block
      /\ UNCHANGED <<ppc, ypc, promise, result>>
      /\ first'[y] = IF Connected(y) /\ first[y] = None THEN k ELSE first[y]
      /\ ppc = "pop" => requests # <<>>
  BY DEF Fire, PlainTypeOK, EventsTypeOK
<1>2. block \in Seq([callback : Connectable, context : Contexts]) /\ Len(block) = Len(cns)
  <2>1. DOMAIN cns = 1 .. Len(cns) /\ Len(cns) \in Nat
    BY <1>1
  <2>2. \A i \in 1 .. Len(cns) :
          [callback |-> cns[i], context |-> k] \in [callback : Connectable, context : Contexts]
    BY <1>1
  <2> QED BY <2>1, <2>2
<1>3. \A i \in 1 .. Len(cns) : block[i].callback = cns[i] /\ block[i].context = k
  BY <1>1
<1> HIDE DEF block
<1>4. /\ n \in Nat /\ DOMAIN requests = 1 .. n
      /\ DOMAIN cns = 1 .. Len(cns) /\ Len(cns) \in Nat
      /\ DOMAIN requests' = 1 .. n + Len(cns)
      /\ \A i \in 1 .. n : requests'[i] = requests[i]
      /\ \A i \in 1 .. Len(cns) : requests'[n + i] = block[i]
      /\ \A i \in n + 1 .. n + Len(cns) : requests'[i] = block[i - n]
  <2>1. block \in Seq(Request) /\ Len(cns) \in Nat /\ DOMAIN cns = 1 .. Len(cns)
    BY <1>1, <1>2 DEF Request
  <2> DEFINE all == requests \o block
  <2>2. /\ DOMAIN requests = 1 .. n /\ n \in Nat
        /\ DOMAIN block = 1 .. Len(block)
        /\ DOMAIN all = 1 .. n + Len(block)
        /\ \A i \in 1 .. n : all[i] = requests[i]
        /\ \A i \in 1 .. Len(block) : all[n + i] = block[i]
        /\ \A i \in n + 1 .. n + Len(block) : all[i] = block[i - n]
    BY <1>1, <2>1, ConcatPlaces
  <2> HIDE DEF n, all
  <2>3. requests' = all
    BY <1>1 DEF all
  <2> QED BY <1>2, <2>1, <2>2, <2>3
<1> HIDE DEF n
<1>5. \A i \in n + 1 .. n + Len(cns) :
        /\ requests'[i].context = k
        /\ requests'[i].callback = y => Connected(y)
  <2> SUFFICES ASSUME NEW i \in n + 1 .. n + Len(cns)
               PROVE  /\ requests'[i].context = k
                      /\ requests'[i].callback = y => Connected(y)
    OBVIOUS
  <2>1. i - n \in 1 .. Len(cns)
    BY <1>4
  <2> QED BY <1>4, <1>3, <2>1 DEF Connected
<1>6. k # None
  BY EventsAssumption DEF EventsAssumption
<1>7. requests # <<>> => Head(requests') = Head(requests)
  BY <1>1, <1>4
<1>8. CASE Connected(y) /\ first[y] = None
  <2>1. first'[y] = k /\ promise[y] = None /\ result[y] = None
    BY <1>1, <1>8 DEF Promised
  <2>2. \A i \in 1 .. n : requests[i].callback # y
    BY <1>4, <1>8 DEF Promised
  <2>3. PICK i \in DOMAIN cns : cns[i] = y
    BY <1>8 DEF Connected
  <2>4. n + i \in DOMAIN requests' /\ requests'[n + i].callback = y
    BY <1>4, <1>3, <2>3
  <2>5. \A j \in DOMAIN requests' : requests'[j].callback = y => requests'[j].context = k
    BY <1>4, <1>5, <2>2
  <2> QED BY <1>1, <1>6, <1>7, <2>1, <2>4, <2>5 DEF Promised
<1>9. CASE ~(Connected(y) /\ first[y] = None)
  <2>1. first'[y] = first[y]
    BY <1>1, <1>9
  <2>2. first[y] # None /\ promise[y] = None
          => \E i \in DOMAIN requests' : requests'[i].callback = y
    BY <1>4 DEF Promised
  <2>3. ASSUME NEW i \in DOMAIN requests', requests'[i].callback = y
        PROVE  /\ first[y] # None
               /\ promise[y] # None \/ requests'[i].context = first[y]
                  \/ \E j \in 1 .. i - 1 : requests'[j].callback = y
    <3>1. CASE i \in 1 .. n
      <4>1. i \in DOMAIN requests /\ requests'[i] = requests[i] /\ requests[i].callback = y
        BY <1>4, <2>3, <3>1
      <4>2. /\ first[y] # None
            /\ promise[y] # None \/ requests[i].context = first[y]
               \/ \E j \in 1 .. i - 1 : requests[j].callback = y
        BY <4>1 DEF Promised
      <4>3. \A j \in 1 .. i - 1 : requests'[j] = requests[j]
        BY <1>4, <3>1
      <4> QED BY <4>1, <4>2, <4>3
    <3>2. CASE i \in n + 1 .. n + Len(cns)
      <4>1. first[y] # None
        BY <1>5, <1>9, <2>3, <3>2
      <4>2. promise[y] = None => \E j \in 1 .. n : requests[j].callback = y
        BY <1>4, <4>1 DEF Promised
      <4>3. 1 .. n \subseteq 1 .. i - 1
        BY <1>4, <3>2
      <4> QED BY <1>4, <4>1, <4>2, <4>3
    <3> QED BY <1>4, <2>3, <3>1, <3>2
  <2> QED BY <1>1, <1>7, <2>1, <2>2, <2>3 DEF Promised
<1> QED BY <1>8, <1>9

LEMMA PromisedPop ==
  ASSUME PlainTypeOK, NEW y \in Yielders, Promised(y), PumpPop
  PROVE  Promised(y)'
<1> DEFINE n == Len(requests)
<1>1. /\ requests \in Seq(Request) /\ requests # <<>>
      /\ requests' = Tail(requests) /\ ppc = "pop" /\ ppc' = "loop"
      /\ UNCHANGED <<ypc, promise, result, first>>
  BY DEF PumpPop, PlainTypeOK, EventsTypeOK
<1>2. /\ n \in Nat \ {0} /\ DOMAIN requests = 1 .. n
      /\ DOMAIN requests' = 1 .. n - 1
      /\ \A i \in 1 .. n - 1 : requests'[i] = requests[i + 1]
      /\ Head(requests) = requests[1]
  BY <1>1
<1> HIDE DEF n
<1>3. \A i \in 2 .. n : i - 1 \in 1 .. n - 1 /\ requests'[i - 1] = requests[i]
  <2> SUFFICES ASSUME NEW i \in 2 .. n
               PROVE  i - 1 \in 1 .. n - 1 /\ requests'[i - 1] = requests[i]
    OBVIOUS
  <2>1. i - 1 \in 1 .. n - 1 /\ (i - 1) + 1 = i
    BY <1>2
  <2> QED BY <1>2, <2>1
<1>4. promise[y] = None => requests[1].callback # y
  BY <1>1, <1>2 DEF Promised
<1>5. first[y] # None /\ promise[y] = None
        => \E i \in DOMAIN requests' : requests'[i].callback = y
  <2> SUFFICES ASSUME first[y] # None, promise[y] = None
               PROVE  \E i \in DOMAIN requests' : requests'[i].callback = y
    OBVIOUS
  <2>1. PICK i \in 1 .. n : requests[i].callback = y
    BY <1>2 DEF Promised
  <2>2. i \in 2 .. n
    BY <1>2, <1>4, <2>1
  <2> QED BY <1>2, <1>3, <2>1, <2>2
<1>6. ASSUME NEW i \in DOMAIN requests', requests'[i].callback = y
      PROVE  /\ first[y] # None
             /\ promise[y] # None \/ requests'[i].context = first[y]
                \/ \E j \in 1 .. i - 1 : requests'[j].callback = y
  <2>1. i + 1 \in DOMAIN requests /\ requests'[i] = requests[i + 1] /\ i \in 1 .. n - 1
    BY <1>2
  <2>2. /\ first[y] # None
        /\ promise[y] # None \/ requests'[i].context = first[y]
           \/ \E j \in 1 .. i : requests[j].callback = y
    BY <1>2, <1>6, <2>1 DEF Promised
  <2>3. ASSUME NEW j \in 1 .. i, requests[j].callback = y, promise[y] = None
        PROVE  \E l \in 1 .. i - 1 : requests'[l].callback = y
    <3>1. j \in 2 .. n /\ j - 1 \in 1 .. i - 1
      BY <1>2, <1>4, <2>1, <2>3
    <3> QED BY <1>3, <2>3, <3>1
  <2> QED BY <2>2, <2>3
<1> QED BY <1>1, <1>5, <1>6 DEF Promised

LEMMA PromisedStep ==
  ASSUME PlainTypeOK, NEW y \in Yielders, Promised(y), [Next]_vars
  PROVE  Promised(y)'
<1> USE DEF vars, writeVars, renderVars, eventVars, frameVars, inputVars
<1>0. show \notin Yielders
  BY GameAssumption, EventsAssumption DEF GameAssumption, EventsAssumption
<1>1. CASE RenderJobPollsKey
  <2>1. Head(sdl) \in Contexts /\ Fire(Head(sdl))
    BY <1>1 DEF RenderJobPollsKey, PlainTypeOK
  <2> QED BY <2>1, PromisedFire
<1>2. CASE PumpJobPops
  BY <1>2, PromisedPop DEF PumpJobPops
<1>3. CASE PumpJobBegins \/ PumpJobReturns
  BY <1>3 DEF PumpJobBegins, PumpJobReturns, PumpBegin, PumpEnd, Promised
<1>4. CASE PumpJobShows
  BY <1>0, <1>4 DEF PumpJobShows, PumpCallsOrdinary, Calling, Returns, Promised
<1>5. CASE PumpJobFulfils
  <2>1. PICK z \in Yielders : PumpCallsYield(z) \/ PumpCallsGone(z)
    BY <1>5 DEF PumpJobFulfils
  <2>2. /\ requests # <<>> /\ requests \in Seq(Request) /\ Head(requests).callback = z
        /\ Head(requests).context # None
    <3>1. requests # <<>> /\ requests \in Seq(Request) /\ Head(requests).callback = z
      BY <2>1 DEF PumpCallsYield, PumpCallsGone, Calling, PlainTypeOK, EventsTypeOK
    <3>2. Head(requests) \in Request
      BY <3>1
    <3>3. Head(requests).context \in Contexts
      BY <3>2 DEF Request
    <3> QED BY <3>1, <3>3, EventsAssumption DEF EventsAssumption
  <2>3. /\ 1 \in DOMAIN requests /\ requests[1] = Head(requests) /\ 1 .. 1 - 1 = {}
    BY <2>2
  <2>4. CASE PumpCallsYield(z) /\ promise[z] = None /\ z = y
    <3>1. /\ promise'[y] = Head(requests).context
          /\ UNCHANGED <<requests, ypc, result, first>> /\ ppc' = "pop"
      BY <2>4 DEF PumpCallsYield, Returns, Throws, PlainTypeOK, EventsTypeOK
    <3>2. Head(requests).context = first[y]
      BY <2>2, <2>3, <2>4 DEF Promised
    <3> QED BY <2>2, <3>1, <3>2 DEF Promised
  <2>5. CASE PumpCallsYield(z) /\ promise[z] = None /\ z # y
    BY <2>2, <2>5 DEF PumpCallsYield, Returns, Throws, PlainTypeOK, EventsTypeOK, Promised
  <2>6. CASE PumpCallsYield(z) /\ promise[z] # None
    BY <2>6 DEF PumpCallsYield, Throws, Promised
  <2>7. CASE PumpCallsGone(z)
    BY <2>2, <2>7 DEF PumpCallsGone, Returns, Throws, Promised
  <2> QED BY <2>1, <2>4, <2>5, <2>6, <2>7
<1>6. ASSUME NEW z \in Yielders, YielderBegins(z)
      PROVE  Promised(y)'
  BY <1>6 DEF YielderBegins, YieldBegin, PlainTypeOK, EventsTypeOK, Promised
<1>7. ASSUME NEW z \in Yielders, YielderReturns(z)
      PROVE  Promised(y)'
  BY <1>7 DEF YielderReturns, YieldReturn, PlainTypeOK, EventsTypeOK, Promised
<1>8. CASE UNCHANGED <<requests, ppc, ypc, promise, result, first>>
  BY <1>8 DEF Promised
<1>9. ASSUME NEW z \in JobsThatYield, JobReturns(z)
      PROVE  Promised(y)'
  BY <1>8, <1>9 DEF JobReturns
<1>10. CASE \/ Frame \/ WriteJob \/ RenderJobInitFails \/ RenderJobBegins
            \/ RenderJobPollsQuit \/ RenderJobPolled \/ RenderJobPresents
            \/ Setter \/ OutsideSets \/ OutsideReturns
            \/ Disconnects \/ Press \/ Close
  BY <1>8, <1>10
  DEF Frame, Children, FrameEnd, WriteJob, WriteJobBegins, WriteJobSets, WriteJobReturns,
      RenderJobInitFails, RenderJobBegins, RenderJobPollsQuit, RenderJobPolled,
      RenderJobPresents, Setter, OutsideSets, OutsideReturns, Disconnects,
      DisconnectAll, Press, Close
<1>11. CASE UNCHANGED vars
  BY <1>8, <1>11
<1> QED BY <1>1, <1>2, <1>3, <1>4, <1>5, <1>6, <1>7, <1>9, <1>10, <1>11
        DEF Next, Pump, Render

\* yield returns what the event was fired with first after it connected, however
\* often it is fired before the waiting thread gets to run (event.cpp:26-40).
THEOREM YieldReturnsFirst == Spec => []YieldGetsFirst
<1> DEFINE All == \A y \in Yielders : Promised(y)
<1>1. Init => All
  <2> SUFFICES ASSUME Init, NEW y \in Yielders PROVE Promised(y)
    OBVIOUS
  <2>1. DOMAIN requests = {} /\ ppc = "out"
    BY DEF Init, EventsInit
  <2>2. promise[y] = None /\ result[y] = None /\ first[y] = None /\ ypc[y] = "out"
    BY DEF Init, EventsInit
  <2> QED BY <2>1, <2>2 DEF Promised
<1>2. All /\ PlainTypeOK /\ [Next]_vars => All'
  BY PromisedStep
<1>3. All => YieldGetsFirst
  BY DEF Promised, YieldGetsFirst
<1> QED BY <1>1, <1>2, <1>3, PlainTyping, PTL DEF Spec

-------------------------------------------------------------------------------
(* The order of the keys *)

\* The numbers of a sequence are low .. high, each once and in this order, with
\* zeros between them.
Counts(seq, low, high) ==
  /\ \A i, k \in DOMAIN seq : i < k /\ seq[i] # 0 /\ seq[k] # 0 => seq[i] < seq[k]
  /\ \A i \in DOMAIN seq : seq[i] \in {0} \cup low .. high
  /\ \A x \in low .. high : x # 0 /\ \E i \in DOMAIN seq : seq[i] = x

LEMMA CountsTail ==
  ASSUME NEW seq \in Seq(Nat), seq # <<>>, NEW low \in Nat, NEW high \in Nat,
         Counts(seq, low, high)
  PROVE  /\ Head(seq) = 0 => Counts(Tail(seq), low, high)
         /\ Head(seq) # 0 => Head(seq) = low /\ low <= high /\ Counts(Tail(seq), low + 1, high)
<1> DEFINE n == Len(seq)
           rest == Tail(seq)
<1>1. /\ n \in Nat \ {0} /\ DOMAIN seq = 1 .. n /\ Head(seq) = seq[1]
      /\ DOMAIN rest = 1 .. n - 1
      /\ \A i \in 1 .. n - 1 : rest[i] = seq[i + 1]
      /\ \A i \in 1 .. n : seq[i] \in Nat
  OBVIOUS
<1> HIDE DEF n, rest
<1>2. \A i \in 2 .. n : i - 1 \in 1 .. n - 1 /\ rest[i - 1] = seq[i]
  <2> SUFFICES ASSUME NEW i \in 2 .. n PROVE i - 1 \in 1 .. n - 1 /\ rest[i - 1] = seq[i]
    OBVIOUS
  <2>1. i - 1 \in 1 .. n - 1 /\ (i - 1) + 1 = i
    BY <1>1
  <2> QED BY <1>1, <2>1
<1>3. \A i \in 1 .. n - 1 : i + 1 \in 1 .. n /\ i + 1 > 1
  BY <1>1
<1>4. \A i, k \in DOMAIN rest : i < k /\ rest[i] # 0 /\ rest[k] # 0 => rest[i] < rest[k]
  <2> SUFFICES ASSUME NEW i \in 1 .. n - 1, NEW k \in 1 .. n - 1,
                      i < k, rest[i] # 0, rest[k] # 0
               PROVE  rest[i] < rest[k]
    BY <1>1
  <2>1. i + 1 \in 1 .. n /\ k + 1 \in 1 .. n /\ i + 1 < k + 1
    BY <1>1
  <2> QED BY <1>1, <2>1 DEF Counts
<1>5. /\ \A i, k \in 1 .. n : i < k /\ seq[i] # 0 /\ seq[k] # 0 => seq[i] < seq[k]
      /\ \A i \in 1 .. n : seq[i] \in {0} \cup low .. high
      /\ \A x \in low .. high : x # 0 /\ \E i \in 1 .. n : seq[i] = x
  BY <1>1 DEF Counts
<1>6. ASSUME seq[1] = 0
      PROVE  Counts(rest, low, high)
  <2>1. \A i \in DOMAIN rest : rest[i] \in {0} \cup low .. high
    BY <1>1, <1>3, <1>5
  <2>2. ASSUME NEW x \in low .. high
        PROVE  x # 0 /\ \E i \in DOMAIN rest : rest[i] = x
    <3>1. PICK i \in 1 .. n : seq[i] = x /\ x # 0
      BY <1>5
    <3>2. i \in 2 .. n
      BY <1>1, <1>6, <3>1
    <3> QED BY <1>1, <1>2, <3>1, <3>2
  <2> QED BY <1>4, <2>1, <2>2 DEF Counts
<1>7. ASSUME seq[1] # 0
      PROVE  seq[1] = low /\ low <= high /\ Counts(rest, low + 1, high)
  <2>1. seq[1] \in low .. high
    BY <1>1, <1>5, <1>7
  <2>2. PICK k \in 1 .. n : seq[k] = low /\ low # 0
    BY <1>5, <2>1
  <2>3. seq[1] = low
    <3>1. k = 1 \/ 1 < k
      BY <1>1
    <3>2. 1 < k => seq[1] < seq[k]
      BY <1>1, <1>5, <1>7, <2>2
    <3> QED BY <2>1, <2>2, <3>1, <3>2
  <2>4. \A i \in DOMAIN rest : rest[i] \in {0} \cup low + 1 .. high
    <3> SUFFICES ASSUME NEW i \in 1 .. n - 1, rest[i] # 0
                 PROVE  rest[i] \in low + 1 .. high
      BY <1>1
    <3>1. i + 1 \in 1 .. n /\ 1 \in 1 .. n /\ 1 < i + 1 /\ rest[i] = seq[i + 1]
      BY <1>1, <1>3
    <3>2. seq[1] < seq[i + 1]
      BY <1>5, <1>7, <3>1
    <3>3. seq[i + 1] \in low .. high
      BY <1>5, <3>1
    <3> QED BY <2>3, <3>1, <3>2, <3>3
  <2>5. ASSUME NEW x \in low + 1 .. high
        PROVE  x # 0 /\ \E i \in DOMAIN rest : rest[i] = x
    <3>1. x \in low .. high /\ x # low
      OBVIOUS
    <3>2. PICK i \in 1 .. n : seq[i] = x /\ x # 0
      BY <1>5, <3>1
    <3>3. i \in 2 .. n
      BY <1>1, <2>3, <3>1, <3>2
    <3> QED BY <1>1, <1>2, <3>2, <3>3
  <2> QED BY <1>4, <2>1, <2>3, <2>4, <2>5 DEF Counts
<1> QED BY <1>1, <1>6, <1>7 DEF rest

LEMMA CountsConcat ==
  ASSUME NEW seq \in Seq(Nat), NEW more \in Seq(Nat), NEW low \in Nat, NEW high \in Nat,
         low <= high + 1, Counts(seq, low, high),
         \A i \in DOMAIN more : more[i] \in {0, high + 1},
         \A i, k \in DOMAIN more : more[i] # 0 /\ more[k] # 0 => i = k
  PROVE  Counts(seq \o more, low,
                IF \E i \in DOMAIN more : more[i] # 0 THEN high + 1 ELSE high)
<1> DEFINE n == Len(seq)
           m == Len(more)
           all == seq \o more
<1>1. /\ n \in Nat /\ m \in Nat /\ DOMAIN seq = 1 .. n /\ DOMAIN more = 1 .. m
      /\ DOMAIN all = 1 .. n + m
      /\ \A i \in 1 .. n : all[i] = seq[i]
      /\ \A i \in 1 .. m : all[n + i] = more[i]
      /\ \A i \in n + 1 .. n + m : all[i] = more[i - n]
      /\ \A i \in 1 .. n : seq[i] \in Nat
      /\ \A i \in 1 .. m : more[i] \in Nat
  BY ConcatPlaces
<1> HIDE DEF n, m, all
<1>2. \A i \in 1 .. n + m : i \in 1 .. n \/ i \in n + 1 .. n + m
  BY <1>1
<1>3. \A i \in n + 1 .. n + m : i - n \in 1 .. m
  BY <1>1
<1>4. \A i \in 1 .. m : n + i \in 1 .. n + m
  BY <1>1
<1>5. /\ \A i, k \in 1 .. n : i < k /\ seq[i] # 0 /\ seq[k] # 0 => seq[i] < seq[k]
      /\ \A i \in 1 .. n : i \in 1 .. n + m /\ seq[i] \in {0} \cup low .. high
      /\ \A x \in low .. high : x # 0 /\ \E i \in 1 .. n : seq[i] = x
  <2>1. \A i \in 1 .. n : i \in 1 .. n + m
    BY <1>1
  <2>2. DOMAIN seq = 1 .. n
    BY <1>1
  <2> QED BY <2>1, <2>2 DEF Counts
<1>6. ASSUME NEW i \in DOMAIN all, NEW k \in DOMAIN all, i < k, all[i] # 0, all[k] # 0
      PROVE  all[i] < all[k]
  <2>1. CASE i \in 1 .. n /\ k \in 1 .. n
    BY <1>1, <1>5, <1>6, <2>1
  <2>2. CASE i \in 1 .. n /\ k \in n + 1 .. n + m
    <3>1. all[k] = high + 1
      BY <1>1, <1>3, <1>6, <2>2
    <3>2. all[i] \in low .. high
      BY <1>1, <1>5, <1>6, <2>2
    <3> QED BY <3>1, <3>2
  <2>3. CASE i \in n + 1 .. n + m /\ k \in n + 1 .. n + m
    <3>1. /\ i - n \in 1 .. m /\ k - n \in 1 .. m
          /\ more[i - n] # 0 /\ more[k - n] # 0
      BY <1>1, <1>3, <1>6, <2>3
    <3>2. i - n = k - n
      BY <1>1, <3>1
    <3> QED BY <1>1, <1>6, <2>3, <3>2
  <2>4. CASE i \in n + 1 .. n + m /\ k \in 1 .. n
    BY <1>1, <1>6, <2>4
  <2> QED BY <1>1, <1>2, <2>1, <2>2, <2>3, <2>4
<1>7. \A i \in DOMAIN all : \/ i \in 1 .. n /\ all[i] = seq[i]
                            \/ i - n \in 1 .. m /\ all[i] = more[i - n]
  BY <1>1, <1>2, <1>3
<1>8. \A x \in low .. high : x # 0 /\ \E i \in DOMAIN all : all[i] = x
  BY <1>1, <1>5
<1>9. CASE \E i \in DOMAIN more : more[i] # 0
  <2>1. \A i \in DOMAIN all : all[i] \in {0} \cup low .. high + 1
    BY <1>1, <1>5, <1>7
  <2>2. \E i \in DOMAIN all : all[i] = high + 1
    BY <1>1, <1>4, <1>9
  <2>3. \A x \in low .. high + 1 : x \in low .. high \/ x = high + 1
    OBVIOUS
  <2>4. \A x \in low .. high + 1 : x # 0 /\ \E i \in DOMAIN all : all[i] = x
    <3>1. high + 1 # 0
      OBVIOUS
    <3> QED BY <1>8, <2>2, <2>3, <3>1
  <2>5. Counts(all, low, high + 1)
    BY <1>6, <2>1, <2>4 DEF Counts
  <2> QED BY <1>9, <2>5 DEF all
<1>10. CASE ~\E i \in DOMAIN more : more[i] # 0
  <2>1. \A i \in DOMAIN all : all[i] \in {0} \cup low .. high
    BY <1>1, <1>5, <1>7, <1>10
  <2>2. Counts(all, low, high)
    BY <1>6, <1>8, <2>1 DEF Counts
  <2> QED BY <1>10, <2>2 DEF all
<1> QED BY <1>9, <1>10

\* The requests to show a key, by the key.
ShowContexts ==
  [i \in DOMAIN requests |->
     IF requests[i].callback = show THEN requests[i].context ELSE 0]

\* The pump has called show and not yet popped the request.
Shown == ppc = "pop" /\ Head(requests).callback = show

\* Up to which key show has been called, and the requests for which keys follow.
Lowest == IF Shown THEN Len(calls) ELSE Len(calls) + 1

\* Every key up to the last that was polled was shown or is requested, and the
\* others are still in SDL's queue.  A key that comes when show is not connected
\* any more is lost, and so are all that follow.
KeysAccounted(last) ==
  /\ Lowest <= last + 1 /\ last <= pressed
  /\ Counts(ShowContexts, Lowest, last)
  /\ Connected(show) => Counts(sdl, last + 1, pressed)
  /\ \A i \in DOMAIN calls : calls[i] = i
  /\ \A i, k \in DOMAIN cns : cns[i] = show /\ cns[k] = show => i = k

LEMMA ShowContextsType ==
  ASSUME PlainTypeOK
  PROVE  /\ ShowContexts \in Seq(Nat) /\ Len(ShowContexts) = Len(requests)
         /\ requests \in Seq(Request) /\ sdl \in Seq(Nat)
         /\ \A i \in DOMAIN requests : requests[i].context \in Contexts
         /\ Contexts \subseteq Nat \ {0} /\ calls \in Seq(Nat) /\ pressed \in Nat
<1>0. requests \in Seq(Request) /\ Contexts \subseteq Nat \ {0}
  BY GameAssumption DEF PlainTypeOK, EventsTypeOK, GameAssumption
<1>1. /\ DOMAIN requests = 1 .. Len(requests) /\ Len(requests) \in Nat
      /\ \A i \in DOMAIN requests : requests[i] \in Request
  BY <1>0
<1>2. \A i \in DOMAIN requests : requests[i].context \in Contexts
  BY <1>1 DEF Request
<1>3. \A i \in 1 .. Len(requests) :
        (IF requests[i].callback = show THEN requests[i].context ELSE 0) \in Nat
  BY <1>0, <1>1, <1>2
<1>4. ShowContexts \in Seq(Nat) /\ Len(ShowContexts) = Len(requests)
  BY <1>1, <1>3 DEF ShowContexts
<1>5. sdl \in Seq(Nat) /\ calls \in Seq(Nat) /\ pressed \in Nat
  <2>1. ASSUME NEW A \in SUBSET Nat, NEW s \in Seq(A)
        PROVE  s \in Seq(Nat)
    <3>1. /\ Len(s) \in Nat /\ s = [i \in 1 .. Len(s) |-> s[i]]
          /\ \A i \in 1 .. Len(s) : s[i] \in Nat
      OBVIOUS
    <3>2. [i \in 1 .. Len(s) |-> s[i]] \in Seq(Nat)
      BY <3>1
    <3> QED BY <3>1, <3>2
  <2>2. Contexts \cup {Quit} \in SUBSET Nat /\ Contexts \in SUBSET Nat
    BY <1>0 DEF Quit
  <2>3. sdl \in Seq(Contexts \cup {Quit}) /\ calls \in Seq(Contexts)
    BY DEF PlainTypeOK
  <2>4. pressed \in Nat
    BY GameAssumption DEF PlainTypeOK, GameAssumption
  <2> QED BY <2>1, <2>2, <2>3, <2>4
<1> QED BY <1>0, <1>2, <1>4, <1>5

LEMMA AppendConcat ==
  ASSUME NEW seq \in Seq(Nat), NEW x \in Nat
  PROVE  /\ Append(seq, x) = seq \o <<x>> /\ <<x>> \in Seq(Nat)
         /\ DOMAIN <<x>> = {1} /\ <<x>>[1] = x
OBVIOUS

\* A key that is polled is the one after the last.
LEMMA AccountedPoll ==
  ASSUME PlainTypeOK, NEW last \in Nat, KeysAccounted(last), RenderJobPollsKey
  PROVE  \E l \in Nat : KeysAccounted(l)'
<1> DEFINE k == Head(sdl)
           n == Len(requests)
           block == [i \in DOMAIN cns |-> [callback |-> cns[i], context |-> k]]
           more  == [i \in DOMAIN cns |-> IF cns[i] = show THEN k ELSE 0]
<1>1. /\ sdl # <<>> /\ k # 0 /\ sdl' = Tail(sdl) /\ pressed' = pressed /\ calls' = calls
      /\ cns' = cns /\ ppc' = ppc /\ requests' = requests \o block
      /\ ppc = "pop" => requests # <<>>
  BY DEF RenderJobPollsKey, Fire, Quit, PlainTypeOK
<1>2. k \in Contexts /\ k \in Nat
  BY <1>1, ShowContextsType DEF PlainTypeOK, Quit
<1>3. /\ cns \in Seq(Connectable) /\ DOMAIN cns = 1 .. Len(cns) /\ Len(cns) \in Nat
  BY DEF PlainTypeOK, EventsTypeOK
<1>4. block \in Seq(Request) /\ Len(block) = Len(cns)
  <2>1. \A i \in 1 .. Len(cns) : [callback |-> cns[i], context |-> k] \in Request
    BY <1>2, <1>3 DEF Request
  <2> QED BY <1>3, <2>1
<1>5. more \in Seq(Nat) /\ Len(more) = Len(cns)
  <2>1. \A i \in 1 .. Len(cns) : (IF cns[i] = show THEN k ELSE 0) \in Nat
    BY <1>2
  <2> QED BY <1>3, <2>1
<1>6. /\ requests \in Seq(Request) /\ ShowContexts \in Seq(Nat) /\ Len(ShowContexts) = n
  BY ShowContextsType
<1>7. ShowContexts' = ShowContexts \o more
  <2> DEFINE all == requests \o block
             sum == ShowContexts \o more
  <2>0. /\ DOMAIN requests = 1 .. n /\ n \in Nat /\ DOMAIN all = 1 .. n + Len(block)
        /\ \A i \in 1 .. n : all[i] = requests[i]
        /\ \A i \in n + 1 .. n + Len(block) : all[i] = block[i - n]
    BY <1>4, <1>6, ConcatPlaces
  <2>1. /\ DOMAIN requests = 1 .. n /\ n \in Nat /\ DOMAIN all = 1 .. n + Len(cns)
        /\ \A i \in 1 .. n : all[i] = requests[i]
        /\ \A i \in n + 1 .. n + Len(cns) : all[i] = block[i - n]
    <3> HIDE DEF n, all, block
    <3> QED BY <1>4, <2>0
  <2>9. /\ DOMAIN sum = 1 .. Len(ShowContexts) + Len(more)
        /\ \A i \in 1 .. Len(ShowContexts) : sum[i] = ShowContexts[i]
        /\ \A i \in Len(ShowContexts) + 1 .. Len(ShowContexts) + Len(more) :
             sum[i] = more[i - Len(ShowContexts)]
    <3>1. ShowContexts \in Seq(Nat) /\ more \in Seq(Nat)
      BY <1>5, <1>6
    <3> HIDE DEF more
    <3> QED BY <3>1, ConcatPlaces
  <2>2. /\ DOMAIN sum = 1 .. n + Len(cns)
        /\ \A i \in 1 .. n : sum[i] = ShowContexts[i]
        /\ \A i \in n + 1 .. n + Len(cns) : sum[i] = more[i - n]
    <3> HIDE DEF n, sum, more
    <3> QED BY <1>5, <1>6, <2>9
  <2>3. /\ \A i \in 1 .. Len(cns) : block[i].callback = cns[i] /\ block[i].context = k
        /\ \A i \in 1 .. Len(cns) : more[i] = IF cns[i] = show THEN k ELSE 0
    BY <1>3
  <2>4. ShowContexts' =
          [i \in DOMAIN all |-> IF all[i].callback = show THEN all[i].context ELSE 0]
    BY <1>1 DEF ShowContexts
  <2>5. \A i \in 1 .. n :
          ShowContexts[i] = IF requests[i].callback = show THEN requests[i].context ELSE 0
    BY <2>1 DEF ShowContexts
  <2>6. sum = [i \in 1 .. n + Len(cns) |-> sum[i]]
    <3>1. sum \in Seq(Nat)
      BY <1>5, <1>6
    <3> HIDE DEF sum
    <3> QED BY <2>2, <3>1
  <2> HIDE DEF n, all, sum, block, more
  <2>7. \A i \in 1 .. n + Len(cns) :
          sum[i] = IF all[i].callback = show THEN all[i].context ELSE 0
    <3> SUFFICES ASSUME NEW i \in 1 .. n + Len(cns)
                 PROVE  sum[i] = IF all[i].callback = show THEN all[i].context ELSE 0
      OBVIOUS
    <3>1. CASE i \in 1 .. n
      BY <2>1, <2>2, <2>5, <3>1
    <3>2. CASE i \in n + 1 .. n + Len(cns)
      <4>1. i - n \in 1 .. Len(cns)
        BY <1>3, <2>1, <3>2
      <4> QED BY <2>1, <2>2, <2>3, <3>2, <4>1
    <3> QED BY <2>1, <3>1, <3>2
  <2> QED BY <2>1, <2>4, <2>6, <2>7 DEF sum
<1>8. Lowest' = Lowest /\ Lowest \in Nat
  <2>1. requests # <<>> => Head(requests') = Head(requests)
    BY <1>1, <1>4, <1>6
  <2>2. Len(calls) \in Nat
    BY ShowContextsType
  <2> QED BY <1>1, <2>1, <2>2 DEF Lowest, Shown
<1>9. /\ \A i \in DOMAIN more : more[i] = IF cns[i] = show THEN k ELSE 0
      /\ DOMAIN more = DOMAIN cns
  OBVIOUS
<1> HIDE DEF block, more, n
<1>10. CASE Connected(show)
  <2>1. /\ k = last + 1 /\ last + 1 <= pressed /\ Counts(sdl', last + 2, pressed)
    <3>1. Counts(sdl, last + 1, pressed) /\ sdl \in Seq(Nat) /\ pressed \in Nat
      BY <1>10, ShowContextsType DEF KeysAccounted
    <3> QED BY <1>1, <3>1, CountsTail
  <2>2. \E i \in DOMAIN more : more[i] # 0
    BY <1>1, <1>9, <1>10 DEF Connected
  <2>3. /\ \A i \in DOMAIN more : more[i] \in {0, last + 1}
        /\ \A i, j \in DOMAIN more : more[i] # 0 /\ more[j] # 0 => i = j
    BY <1>9, <2>1 DEF KeysAccounted
  <2>4. Counts(ShowContexts \o more, Lowest, last + 1)
    BY <1>5, <1>6, <1>8, <2>2, <2>3, CountsConcat DEF KeysAccounted
  <2>5. Lowest <= (last + 1) + 1 /\ last + 1 <= pressed
    BY <1>8, <2>1, ShowContextsType DEF KeysAccounted
  <2>6. (last + 1) + 1 = last + 2
    OBVIOUS
  <2>7. KeysAccounted(last + 1)'
    BY <1>1, <1>7, <1>8, <2>1, <2>4, <2>5, <2>6 DEF KeysAccounted, Connected
  <2> QED BY <2>7
<1>11. CASE ~Connected(show)
  <2>1. \A i \in DOMAIN more : more[i] = 0
    BY <1>9, <1>11 DEF Connected
  <2>2. Counts(ShowContexts \o more, Lowest, last)
    BY <1>5, <1>6, <1>8, <2>1, CountsConcat DEF KeysAccounted
  <2>3. KeysAccounted(last)'
    BY <1>1, <1>7, <1>8, <1>11, <2>2 DEF KeysAccounted, Connected
  <2> QED BY <2>3
<1> QED BY <1>10, <1>11

\* The first request to show a key is for the one after the last shown.
LEMMA AccountedShow ==
  ASSUME PlainTypeOK, NEW last \in Nat, KeysAccounted(last), PumpJobShows
  PROVE  KeysAccounted(last)'
<1>1. /\ ppc = "loop" /\ ppc' = "pop" /\ requests # <<>> /\ Head(requests).callback = show
      /\ calls' = Append(calls, Head(requests).context)
      /\ requests' = requests /\ sdl' = sdl /\ pressed' = pressed /\ cns' = cns
  BY DEF PumpJobShows, PumpCallsOrdinary, Calling, Returns
<1>2. /\ requests \in Seq(Request) /\ calls \in Seq(Nat) /\ Len(calls) \in Nat
      /\ 1 \in DOMAIN requests /\ requests[1] = Head(requests)
      /\ ShowContexts \in Seq(Nat) /\ Len(ShowContexts) = Len(requests)
      /\ Head(requests).context \in Nat \ {0}
  <2>1. 1 \in DOMAIN requests /\ requests[1] = Head(requests)
    BY <1>1, ShowContextsType
  <2>2. requests[1].context \in Nat \ {0}
    BY <2>1, ShowContextsType
  <2> QED BY <2>1, <2>2, ShowContextsType
<1>3. Lowest = Len(calls) + 1 /\ Lowest \in Nat
  BY <1>1, <1>2 DEF Lowest, Shown
<1>4. ShowContexts # <<>> /\ Head(ShowContexts) = Head(requests).context
  BY <1>1, <1>2 DEF ShowContexts
<1>5. Head(requests).context = Len(calls) + 1
  BY <1>2, <1>3, <1>4, CountsTail DEF KeysAccounted
<1>6. /\ calls' = Append(calls, Len(calls) + 1) /\ Len(calls') = Len(calls) + 1
      /\ \A i \in DOMAIN calls' : calls'[i] = i
  BY <1>1, <1>2, <1>5 DEF KeysAccounted
<1>7. Lowest' = Lowest /\ ShowContexts' = ShowContexts
  BY <1>1, <1>3, <1>6 DEF Lowest, Shown, ShowContexts
<1> QED BY <1>1, <1>6, <1>7 DEF KeysAccounted, Connected

LEMMA AccountedPop ==
  ASSUME PlainTypeOK, NEW last \in Nat, KeysAccounted(last), PumpJobPops
  PROVE  KeysAccounted(last)'
<1>1. /\ ppc = "pop" /\ ppc' = "loop" /\ requests # <<>> /\ requests' = Tail(requests)
      /\ calls' = calls /\ sdl' = sdl /\ pressed' = pressed /\ cns' = cns
  BY DEF PumpJobPops, PumpPop, PlainTypeOK, inputVars
<1>2. /\ requests \in Seq(Request) /\ calls \in Seq(Nat) /\ Len(calls) \in Nat
      /\ 1 \in DOMAIN requests /\ requests[1] = Head(requests)
      /\ ShowContexts \in Seq(Nat) /\ Len(ShowContexts) = Len(requests)
      /\ Head(requests).context # 0
  <2>1. 1 \in DOMAIN requests /\ requests[1] = Head(requests)
    BY <1>1, ShowContextsType
  <2>2. requests[1].context \in Nat \ {0}
    BY <2>1, ShowContextsType
  <2> QED BY <2>1, <2>2, ShowContextsType
<1>3. Lowest \in Nat /\ Lowest' = Len(calls) + 1
  BY <1>1, <1>2 DEF Lowest, Shown
<1>4. /\ ShowContexts # <<>>
      /\ Head(ShowContexts) = IF Shown THEN Head(requests).context ELSE 0
  BY <1>1, <1>2 DEF ShowContexts, Shown
<1>5. ShowContexts' = Tail(ShowContexts)
  <2> DEFINE n == Len(requests)
             rest == Tail(requests)
             tail == Tail(ShowContexts)
  <2>1. /\ n \in Nat \ {0} /\ DOMAIN requests = 1 .. n /\ DOMAIN rest = 1 .. n - 1
        /\ \A i \in 1 .. n - 1 : rest[i] = requests[i + 1] /\ i + 1 \in 1 .. n
    BY <1>1, <1>2
  <2>2. /\ DOMAIN tail = 1 .. n - 1
        /\ \A i \in 1 .. n - 1 : tail[i] = ShowContexts[i + 1]
        /\ tail = [i \in 1 .. n - 1 |-> tail[i]]
    <3>1. Len(ShowContexts) = n /\ ShowContexts \in Seq(Nat) /\ ShowContexts # <<>>
      BY <1>2, <1>4
    <3> HIDE DEF n
    <3>2. /\ tail \in Seq(Nat) /\ DOMAIN tail = 1 .. n - 1
          /\ \A i \in 1 .. n - 1 : tail[i] = ShowContexts[i + 1]
      BY <2>1, <3>1
    <3> HIDE DEF tail
    <3> QED BY <3>2
  <2> HIDE DEF n, rest, tail
  <2>3. \A i \in 1 .. n - 1 :
          tail[i] = IF rest[i].callback = show THEN rest[i].context ELSE 0
    BY <2>1, <2>2 DEF ShowContexts
  <2>4. ShowContexts' =
          [i \in DOMAIN rest |-> IF rest[i].callback = show THEN rest[i].context ELSE 0]
    BY <1>1 DEF ShowContexts, rest
  <2> QED BY <2>1, <2>2, <2>3, <2>4 DEF tail
<1>6. CASE Shown
  <2>1. Lowest = Len(calls) /\ Lowest <= last /\ Counts(ShowContexts', Lowest + 1, last)
    BY <1>2, <1>3, <1>4, <1>5, <1>6, CountsTail DEF KeysAccounted, Lowest
  <2> QED BY <1>1, <1>3, <2>1 DEF KeysAccounted, Connected
<1>7. CASE ~Shown
  <2>1. Lowest = Len(calls) + 1 /\ Counts(ShowContexts', Lowest, last)
    BY <1>2, <1>3, <1>4, <1>5, <1>7, CountsTail DEF KeysAccounted, Lowest
  <2> QED BY <1>1, <1>3, <2>1 DEF KeysAccounted, Connected
<1> QED BY <1>6, <1>7

\* A step that leaves the keys and the requests alone and connects nothing at show.
LEMMA AccountedStays ==
  ASSUME NEW last \in Nat, KeysAccounted(last),
         UNCHANGED <<requests, sdl, pressed, calls>>, Shown' = Shown,
         Connected(show)' => Connected(show),
         (\A i, k \in DOMAIN cns : cns[i] = show /\ cns[k] = show => i = k)'
  PROVE  KeysAccounted(last)'
<1>1. ShowContexts' = ShowContexts /\ Lowest' = Lowest
  BY DEF ShowContexts, Lowest
<1> QED BY <1>1 DEF KeysAccounted

LEMMA AccountedStep ==
  ASSUME PlainTypeOK, NEW last \in Nat, KeysAccounted(last), [Next]_vars
  PROVE  \E l \in Nat : KeysAccounted(l)'
<1> USE DEF vars, writeVars, renderVars, eventVars, frameVars, inputVars
<1>0. show \notin Yielders
  BY GameAssumption, EventsAssumption DEF GameAssumption, EventsAssumption
<1>1. CASE RenderJobPollsKey
  BY <1>1, AccountedPoll
<1>2. CASE PumpJobShows
  BY <1>2, AccountedShow
<1>3. CASE PumpJobPops
  BY <1>3, AccountedPop
<1>4. ASSUME UNCHANGED <<requests, cns>>, UNCHANGED calls, Shown' = Shown, NEW x \in {0, pressed + 1},
             sdl' = Append(sdl, x), pressed' = IF x = 0 THEN pressed ELSE x
      PROVE  KeysAccounted(last)'
  <2>1. /\ sdl \in Seq(Nat) /\ pressed \in Nat /\ x \in Nat
        /\ last + 1 <= pressed + 1 /\ pressed <= pressed'
    BY <1>4, ShowContextsType DEF KeysAccounted
  <2>2. ShowContexts' = ShowContexts /\ Lowest' = Lowest /\ last <= pressed'
        /\ Connected(show)' = Connected(show)
    BY <1>4, <2>1 DEF ShowContexts, Lowest, KeysAccounted, Connected
  <2>3. Connected(show) => Counts(sdl', last + 1, pressed')
    <3> SUFFICES ASSUME Counts(sdl, last + 1, pressed)
                 PROVE  Counts(sdl', last + 1, pressed')
      BY DEF KeysAccounted
    <3>1. /\ sdl' = sdl \o <<x>> /\ <<x>> \in Seq(Nat)
          /\ DOMAIN <<x>> = {1} /\ <<x>>[1] = x
      BY <1>4, <2>1, AppendConcat
    <3> DEFINE one == <<x>>
    <3> HIDE DEF one
    <3>2. /\ sdl' = sdl \o one /\ one \in Seq(Nat) /\ DOMAIN one = {1} /\ one[1] = x
      BY <3>1 DEF one
    <3>3. \A i \in DOMAIN one : one[i] \in {0, pressed + 1}
      BY <1>4, <3>2
    <3>4. \A i, k \in DOMAIN one : one[i] # 0 /\ one[k] # 0 => i = k
      BY <3>2
    <3>5. Counts(sdl \o one, last + 1,
                 IF \E i \in DOMAIN one : one[i] # 0 THEN pressed + 1 ELSE pressed)
      <4>1. last + 1 \in Nat /\ sdl \in Seq(Nat) /\ pressed \in Nat
        BY <2>1
      <4> QED BY <2>1, <3>2, <3>3, <3>4, <4>1, CountsConcat
    <3> QED BY <1>4, <2>1, <3>2, <3>5
  <2> QED BY <1>4, <2>2, <2>3 DEF KeysAccounted
<1>5. CASE Press
  <2>1. PICK x \in {0, pressed + 1} : x = pressed + 1
    OBVIOUS
  <2>2. /\ UNCHANGED <<requests, cns, calls, ppc>> /\ sdl' = Append(sdl, x)
        /\ pressed' = x /\ x # 0
    BY <1>5, <2>1, ShowContextsType DEF Press
  <2>3. UNCHANGED <<requests, cns>> /\ UNCHANGED calls /\ Shown' = Shown
    BY <2>2 DEF Shown
  <2>4. KeysAccounted(last)'
    BY <1>4, <2>1, <2>2, <2>3
  <2> QED BY <2>4
<1>6. CASE Close
  <2>1. PICK x \in {0, pressed + 1} : x = 0
    OBVIOUS
  <2>2. /\ UNCHANGED <<requests, cns, calls, ppc>> /\ pressed' = pressed
        /\ sdl' = Append(sdl, x)
    BY <1>6, <2>1 DEF Close, Quit
  <2>3. UNCHANGED <<requests, cns>> /\ UNCHANGED calls /\ Shown' = Shown
    BY <2>2 DEF Shown
  <2>4. KeysAccounted(last)'
    BY <1>4, <2>1, <2>2, <2>3
  <2> QED BY <2>4
<1>7. CASE RenderJobPollsQuit
  <2>1. /\ sdl # <<>> /\ Head(sdl) = 0 /\ sdl' = Tail(sdl)
        /\ UNCHANGED <<requests, cns, ppc, calls, pressed>>
    BY <1>7 DEF RenderJobPollsQuit, Quit
  <2>2. Connected(show) => Counts(sdl', last + 1, pressed)
    BY <2>1, ShowContextsType, CountsTail DEF KeysAccounted
  <2>3. ShowContexts' = ShowContexts /\ Lowest' = Lowest
    BY <2>1 DEF ShowContexts, Lowest, Shown
  <2> QED BY <2>1, <2>2, <2>3 DEF KeysAccounted, Connected
<1>8. ASSUME UNCHANGED <<requests, sdl, pressed, calls, cns>>, Shown' = Shown
      PROVE  KeysAccounted(last)'
  BY <1>8, AccountedStays DEF KeysAccounted, Connected
<1>9. CASE PumpJobFulfils
  <2>1. PICK z \in Yielders : PumpCallsYield(z) \/ PumpCallsGone(z)
    BY <1>9 DEF PumpJobFulfils
  <2>2. /\ ppc = "loop" /\ Head(requests).callback = z
        /\ UNCHANGED <<requests, sdl, pressed, calls, cns>>
    BY <1>9, <2>1
    DEF PumpJobFulfils, PumpCallsYield, PumpCallsGone, Calling, Returns, Throws
  <2>3. Shown' = Shown
    <3>1. z # show /\ ppc # "pop" /\ Head(requests').callback = z
      BY <1>0, <2>1, <2>2
    <3> QED BY <3>1 DEF Shown
  <2> QED BY <1>8, <2>2, <2>3
<1>10. CASE PumpJobBegins \/ PumpJobReturns
  BY <1>8, <1>10 DEF PumpJobBegins, PumpJobReturns, PumpBegin, PumpEnd, Shown
<1>11. ASSUME NEW z \in Yielders, YielderBegins(z)
       PROVE  KeysAccounted(last)'
  <2>1. /\ cns' = Append(cns, z) /\ cns \in Seq(Connectable)
        /\ UNCHANGED <<requests, sdl, pressed, calls, ppc>>
    BY <1>11 DEF YielderBegins, YieldBegin, PlainTypeOK, EventsTypeOK
  <2>2. \A i \in DOMAIN cns' : cns'[i] = show => i \in DOMAIN cns /\ cns[i] = show
    BY <1>0, <2>1
  <2> QED BY <2>1, <2>2, AccountedStays DEF Shown, Connected, KeysAccounted
<1>12. CASE Disconnects
  <2>1. /\ cns' = cns \/ cns' = <<>>
        /\ UNCHANGED <<requests, sdl, pressed, calls, ppc>>
    BY <1>12 DEF Disconnects, DisconnectAll
  <2>2. DOMAIN <<>> = {}
    OBVIOUS
  <2> QED BY <2>1, <2>2, AccountedStays DEF Shown, Connected, KeysAccounted
<1>13. ASSUME NEW z \in Yielders, YielderReturns(z)
       PROVE  KeysAccounted(last)'
  BY <1>8, <1>13 DEF YielderReturns, YieldReturn, Shown
<1>14. ASSUME NEW z \in JobsThatYield, JobReturns(z)
       PROVE  KeysAccounted(last)'
  BY <1>8, <1>14 DEF JobReturns, Shown
<1>15. CASE \/ Frame \/ WriteJob \/ RenderJobInitFails \/ RenderJobBegins
            \/ RenderJobPolled \/ RenderJobPresents
            \/ Setter \/ OutsideSets \/ OutsideReturns \/ UNCHANGED vars
  BY <1>8, <1>15
  DEF Frame, Children, FrameEnd, WriteJob, WriteJobBegins, WriteJobSets, WriteJobReturns,
      RenderJobInitFails, RenderJobBegins, RenderJobPolled, RenderJobPresents, Setter,
      OutsideSets, OutsideReturns, Shown
<1> QED BY <1>1, <1>2, <1>3, <1>5, <1>6, <1>7, <1>9, <1>10, <1>11, <1>12, <1>13,
           <1>14, <1>15
        DEF Next, Pump, Render

LEMMA AccountedHolds == Spec => [](PlainTypeOK /\ \E last \in Nat : KeysAccounted(last))
<1> DEFINE All == \E last \in Nat : KeysAccounted(last)
<1>1. Init => All
  <2> SUFFICES ASSUME Init PROVE KeysAccounted(0)
    OBVIOUS
  <2>1. /\ requests = <<>> /\ sdl = <<>> /\ calls = <<>> /\ cns = <<show>> /\ ppc = "out"
        /\ pressed = 0
    BY DEF Init, EventsInit
  <2>2. DOMAIN requests = {} /\ DOMAIN sdl = {} /\ DOMAIN calls = {} /\ DOMAIN cns = {1}
        /\ Len(calls) = 0
    BY <2>1
  <2>3. Lowest = 1 /\ DOMAIN ShowContexts = {}
    BY <2>1, <2>2 DEF Lowest, Shown, ShowContexts
  <2>4. 1 .. 0 = {} /\ 0 + 1 = 1
    OBVIOUS
  <2> QED BY <2>1, <2>2, <2>3, <2>4 DEF KeysAccounted, Counts
<1>2. All /\ PlainTypeOK /\ [Next]_vars => All'
  BY AccountedStep
<1> QED BY <1>1, <1>2, PlainTyping, PTL DEF Spec

\* The callback is called with the keys in the order in which they were pressed,
\* none twice and none left out, whatever other callbacks throw (event.cpp:
\* 19-24, event_pump.hpp:20-30).
THEOREM KeysShownInOrder == Spec => []KeysInOrder
<1>1. (\E last \in Nat : KeysAccounted(last)) => KeysInOrder
  BY DEF KeysAccounted, KeysInOrder
<1> QED BY <1>1, AccountedHolds, PTL

-------------------------------------------------------------------------------
(* How soon a key is shown *)

\* How many keys the write job has taken from its queue.
Written == Len(calls) - Len(writes)

\* The text of the label is being set.
Labelling == setter.step # "none" /\ setter.box = Label

\* The label is set by the write job alone, so that no set is under way when the render
\* job executes, and the render job only executes in its sub-cycle.
InItsSubcycle ==
  /\ Labelling => subcycle = "roots" /\ "write" \notin done
  /\ rpc # "out" => subcycle = "children" /\ "render" \notin done /\ initialized

\* The label that the render job has visited is not marked again in this sub-cycle.
LabelVisited ==
  /\ rpc # "out" /\ rpc # "poll" /\ Label \notin todo /\ ~(rpc = "clear" /\ box = Label) =>
       ~marked[Label]
  /\ rpc = "present" => todo = {}
  /\ subcycle = "children" /\ "render" \in done /\ initialized =>
       ~marked[Label] \/ \E b \in Boxes : failed[b]

\* What the write job has still to execute are the keys shown last, in their order, and
\* the text of the label is the key before them.
LabelWritten ==
  /\ Len(writes) <= Len(calls)
  /\ \A i \in DOMAIN writes : writes[i] = Written + i
  /\ Labelling => setter.value = Written
  /\ ~(Labelling /\ setter.step = "storing") /\ Written > 0 => text[Label] = Written

\* The pump leaves only requests behind one of yield() ...
PumpLeaves ==
  /\ subcycle = "roots" /\ "pump" \in done =>
       requests = <<>> \/ Head(requests).callback \in Yielders
  /\ subcycle = "children" =>
       \A k \in Contexts : age[k] >= 2 /\ Waiting(k) => Head(requests).callback \in Yielders

\* ... so that a key that was fired is shown, written and drawn in the frames that follow.
Aging ==
  \A k \in Contexts :
    /\ age[k] >= 1 => initialized /\ (k <= Len(calls) \/ Waiting(k))
    /\ age[k] >= 3 => k <= Len(calls)
    /\ age[k] = 3 /\ ("write" \in done \/ subcycle = "children") => k <= Written
    /\ age[k] = 4 => k <= Written

Drawn ==
  subcycle = "roots" =>
    \A k \in Contexts : age[k] = 4 =>
      \/ texture[Label] # Unset /\ texture[Label] >= k
      \/ \E b \in Boxes : failed[b]

Timely ==
  InItsSubcycle /\ LabelVisited /\ LabelWritten /\ PumpLeaves /\ Aging /\ Drawn

\* The names of the game are distinct, and its jobs are none of the three of the world.
LEMMA GameNames ==
  /\ Keys \in Nat /\ Contexts = 1 .. Keys /\ Texts = Contexts /\ Label \in Boxes
  /\ Unset \notin Contexts /\ Unset \notin Boxes /\ show \notin Yielders
  /\ "write" \notin JobsThatYield /\ "pump" \notin JobsThatYield
  /\ "render" \notin JobsThatYield /\ JobsThatYield \subseteq Yielders
BY GameAssumption, RenderingAssumption, EventsAssumption
   DEF GameAssumption, RenderingAssumption, EventsAssumption

\* What the proofs use of the types.
LEMMA GameTypes ==
  ASSUME TypeOK
  PROVE  /\ Len(calls) \in Nat /\ Len(writes) \in Nat /\ Written \in Int
         /\ writes \in Seq(Contexts) /\ calls \in Seq(Contexts)
         /\ requests \in Seq(Request) /\ age \in [Contexts -> 0 .. 4]
         /\ text \in [Boxes -> Contexts \cup {Unset}] /\ marked \in [Boxes -> BOOLEAN]
         /\ texture \in [Boxes -> Contexts \cup {Unset}] /\ failed \in [Boxes -> BOOLEAN]
         /\ setter.step # "none" => setter \in Setting
         /\ rpc \in RenderPoints /\ box \in Boxes \cup {Unset}
         /\ \A k \in Contexts : k \in Nat /\ age[k] \in 0 .. 4
<1>1. /\ writes \in Seq(Contexts) /\ calls \in Seq(Contexts) /\ requests \in Seq(Request)
      /\ age \in [Contexts -> 0 .. 4]
  BY DEF TypeOK, EventsTypeOK
<1>2. Len(calls) \in Nat /\ Len(writes) \in Nat
  BY <1>1
<1>3. /\ text \in [Boxes -> Contexts \cup {Unset}] /\ marked \in [Boxes -> BOOLEAN]
      /\ texture \in [Boxes -> Contexts \cup {Unset}] /\ failed \in [Boxes -> BOOLEAN]
      /\ setter.step # "none" => setter \in Setting
      /\ rpc \in RenderPoints /\ box \in Boxes \cup {Unset}
  BY GameNames DEF TypeOK, RenderTypeOK, Idle
<1>4. \A k \in Contexts : k \in Nat /\ age[k] \in 0 .. 4
  BY <1>1, GameNames
<1> QED BY <1>1, <1>2, <1>3, <1>4 DEF Written

\* The jobs of the sub-cycle, and what was shown and asked for, stay as they are.
LEMMA WaitingStays ==
  ASSUME UNCHANGED requests
  PROVE  \A k \in Contexts : Waiting(k)' <=> Waiting(k)
BY DEF Waiting

\* The sub-cycle of the render job begins when the write job and the pump have returned.
LEMMA TimelyChildren ==
  ASSUME Timely, TypeOK, Children
  PROVE  Timely'
<1>1. /\ subcycle = "roots" /\ subcycle' = "children" /\ done' = {}
      /\ "write" \in done /\ "pump" \in done
      /\ UNCHANGED <<writes, text, marked, texture, failed, setter, rpc, box, todo,
                     initialized, requests, calls, age>>
  BY DEF Children, Roots, writeVars, renderVars, eventVars, inputVars
<1>2. InItsSubcycle'
  BY <1>1 DEF Timely, InItsSubcycle, Labelling
<1>3. LabelVisited' /\ Drawn'
  BY <1>1 DEF Timely, InItsSubcycle, LabelVisited, Drawn
<1>4. LabelWritten'
  BY <1>1 DEF Timely, LabelWritten, Written, Labelling
<1>5. PumpLeaves'
  <2>1. requests = <<>> => \A k \in Contexts : ~Waiting(k)
    BY DEF Waiting
  <2> QED BY <1>1, <2>1, WaitingStays DEF Timely, PumpLeaves
<1>6. Aging'
  BY <1>1, WaitingStays DEF Timely, Aging, Written
<1> QED BY <1>2, <1>3, <1>4, <1>5, <1>6 DEF Timely

\* The frame ends: what was fired is older, and what was written is drawn.
LEMMA TimelyFrameEnd ==
  ASSUME Timely, TypeOK, FreshOrMarked, KeysInOrder, FrameEnd
  PROVE  Timely'
<1>1. /\ subcycle = "children" /\ subcycle' \in {"roots", "over"} /\ done = {"render"}
      /\ done' = {}
      /\ UNCHANGED <<writes, text, marked, texture, failed, setter, rpc, box, todo,
                     initialized, requests, calls>>
  BY DEF FrameEnd, writeVars, renderVars, eventVars, inputVars
<1>2. /\ \A k \in Contexts :
           age'[k] = IF age[k] \in {0, 4} THEN age[k] ELSE IF Waiting(k) THEN 2 ELSE age[k] + 1
  BY DEF FrameEnd
<1>3. ~Labelling /\ rpc = "out"
  BY <1>1 DEF Timely, InItsSubcycle
<1>4. InItsSubcycle' /\ LabelVisited'
  BY <1>1, <1>3 DEF InItsSubcycle, LabelVisited, Labelling
<1>5. LabelWritten'
  BY <1>1 DEF Timely, LabelWritten, Written, Labelling
<1>6. PumpLeaves'
  BY <1>1 DEF PumpLeaves
<1>7. ASSUME NEW k \in Contexts
      PROVE  /\ age'[k] >= 1 => age[k] >= 1
             /\ age'[k] = 3 => age[k] = 2 /\ ~Waiting(k)
             /\ age'[k] = 4 => age[k] \in {3, 4}
             /\ age'[k] \in 0 .. 4
  BY <1>2, GameTypes
<1>8. Aging'
  <2> SUFFICES ASSUME NEW k \in Contexts
               PROVE  /\ age'[k] >= 1 => initialized /\ (k <= Len(calls) \/ Waiting(k))
                      /\ age'[k] >= 3 => k <= Len(calls)
                      /\ age'[k] = 4 => k <= Written
    BY <1>1, WaitingStays DEF Aging, Written
  <2>1. /\ age[k] >= 1 => initialized /\ (k <= Len(calls) \/ Waiting(k))
        /\ age[k] >= 3 => k <= Len(calls)
        /\ age[k] \in {3, 4} => k <= Written
    BY <1>1 DEF Timely, Aging
  <2>2. age[k] = 2 => age[k] >= 1
    OBVIOUS
  <2>3. age[k] \in {3, 4} => age[k] >= 3
    OBVIOUS
  <2>4. age'[k] >= 3 => age'[k] \in {3, 4}
    BY <1>7
  <2> QED BY <1>7, <2>1, <2>2, <2>3, <2>4
<1>9. Drawn'
  <2> SUFFICES ASSUME NEW k \in Contexts, age'[k] = 4, ~\E b \in Boxes : failed[b]
               PROVE  texture[Label] # Unset /\ texture[Label] >= k
    BY <1>1 DEF Drawn
  <2>1. k <= Written /\ initialized
    BY <1>1, <1>7, <1>8, GameTypes DEF Aging, Written
  <2>2. text[Label] = Written /\ Written > 0
    <3>1. Written > 0
      BY <2>1, GameTypes, GameNames
    <3> QED BY <1>3, <3>1 DEF Timely, LabelWritten
  <2>3. ~marked[Label]
    BY <1>1, <2>1 DEF Timely, LabelVisited
  <2>4. texture[Label] = text[Label]
    BY <1>3, <2>3, GameNames DEF FreshOrMarked, Labelling
  <2>5. text[Label] \in Contexts
    <3>1. Written \in 1 .. Len(calls) /\ Len(calls) \in Nat
      BY <2>2, GameTypes DEF Written
    <3>2. calls[Len(calls)] = Len(calls) /\ calls[Len(calls)] \in Contexts
      BY <3>1, GameTypes DEF KeysInOrder
    <3> QED BY <2>2, <3>1, <3>2, GameNames
  <2> QED BY <2>1, <2>2, <2>4, <2>5, GameNames, GameTypes
<1> QED BY <1>4, <1>5, <1>6, <1>8, <1>9 DEF Timely

\* The write job takes the next key from its queue, and sets the label to it.
LEMMA TimelyWriteJobSets ==
  ASSUME Timely, TypeOK, WriteJobSets
  PROVE  Timely'
<1>1. /\ subcycle = "roots" /\ "write" \notin done /\ setter = Idle /\ writes # <<>>
      /\ writes' = Tail(writes)
      /\ setter' = [step |-> "storing", box |-> Label, value |-> Head(writes)]
      /\ UNCHANGED <<text, marked, texture, failed, rpc, box, todo, initialized, requests,
                     calls, age, subcycle, done>>
  BY DEF WriteJobSets, Executing, WritePop, SetBegin, eventVars, frameVars, inputVars
<1>2. /\ Len(writes) \in Nat \ {0} /\ Len(writes') = Len(writes) - 1
      /\ Head(writes) = writes[1]
      /\ \A i \in DOMAIN writes' : i \in Nat /\ i + 1 \in DOMAIN writes /\ writes'[i] = writes[i + 1]
      /\ 1 \in DOMAIN writes
  BY <1>1, GameTypes
<1>3. ~Labelling /\ Labelling' /\ setter'.step = "storing"
  BY <1>1 DEF Labelling, Idle
<1>4. InItsSubcycle' /\ LabelVisited' /\ Drawn'
  BY <1>1 DEF Timely, InItsSubcycle, LabelVisited, Drawn, Labelling
<1>5. Written' = Written + 1 /\ Written \in Nat
  BY <1>1, <1>2, GameTypes DEF Timely, LabelWritten, Written
<1>6. LabelWritten'
  <2>1. Len(writes') <= Len(calls')
    BY <1>1, <1>2, GameTypes DEF Timely, LabelWritten
  <2>2. Head(writes) = Written + 1
    BY <1>2 DEF Timely, LabelWritten
  <2>3. \A i \in DOMAIN writes' : writes'[i] = Written' + i
    <3> SUFFICES ASSUME NEW i \in DOMAIN writes'
                 PROVE  writes'[i] = Written' + i
      OBVIOUS
    <3>1. writes'[i] = Written + (i + 1) /\ i \in Nat
      BY <1>2 DEF Timely, LabelWritten
    <3> QED BY <1>5, <3>1
  <2>4. setter'.value = Written'
    BY <1>1, <1>5, <2>2
  <2> QED BY <1>3, <2>1, <2>3, <2>4 DEF LabelWritten
<1>7. PumpLeaves'
  BY <1>1, WaitingStays DEF Timely, PumpLeaves
<1>8. Aging'
  <2> SUFFICES ASSUME NEW k \in Contexts
               PROVE  /\ age[k] >= 1 => initialized /\ (k <= Len(calls) \/ Waiting(k))
                      /\ age[k] >= 3 => k <= Len(calls)
                      /\ age[k] = 4 => k <= Written + 1
    BY <1>1, <1>5, WaitingStays DEF Aging
  <2>1. k <= Written => k <= Written + 1
    BY <1>5, GameTypes
  <2> QED BY <2>1 DEF Timely, Aging
<1> QED BY <1>4, <1>6, <1>7, <1>8 DEF Timely

\* It returns when it has written all that was shown until then.
LEMMA TimelyWriteJobReturns ==
  ASSUME Timely, TypeOK, WriteJobReturns
  PROVE  Timely'
<1>1. /\ subcycle = "roots" /\ setter = Idle /\ writes = <<>> /\ done' = done \cup {"write"}
      /\ UNCHANGED <<text, marked, texture, failed, setter, rpc, box, todo, initialized,
                     writes, requests, calls, age, subcycle>>
  BY DEF WriteJobReturns, Executing, WriteEnd, Returned, renderVars, eventVars, inputVars
<1>2. ~Labelling
  BY <1>1 DEF Labelling, Idle
<1>3. InItsSubcycle' /\ LabelVisited' /\ Drawn' /\ LabelWritten'
  BY <1>1, <1>2
     DEF Timely, InItsSubcycle, LabelVisited, Drawn, LabelWritten, Written, Labelling
<1>4. PumpLeaves'
  BY <1>1 DEF Timely, PumpLeaves
<1>5. Written = Len(calls)
  BY <1>1, GameTypes DEF Written
<1>6. \A k \in Contexts : age[k] = 3 => age[k] >= 3
  OBVIOUS
<1>7. Aging'
  BY <1>1, <1>5, <1>6, WaitingStays DEF Timely, Aging, Written
<1> QED BY <1>3, <1>4, <1>7 DEF Timely

\* A setter goes on.
LEMMA TimelySetter ==
  ASSUME Timely, TypeOK, Setter
  PROVE  Timely'
<1>1. /\ setter \in Setting
      /\ UNCHANGED <<texture, failed, rpc, box, todo, initialized, writes, requests, calls,
                     age, subcycle, done>>
      /\ \/ /\ setter.step = "storing" /\ setter' = [setter EXCEPT !.step = "stored"]
            /\ text' = [text EXCEPT ![setter.box] = setter.value] /\ UNCHANGED marked
         \/ /\ setter.step = "stored" /\ setter' = Idle
            /\ marked' = [marked EXCEPT ![setter.box] = TRUE] /\ UNCHANGED text
  BY GameTypes DEF Setter, Set, SetStore, SetMark, writeVars, eventVars, frameVars, inputVars
<1>2. Labelling' => Labelling /\ setter'.value = setter.value
  BY <1>1 DEF Labelling, Setting, Idle
<1>3. InItsSubcycle' /\ Drawn'
  BY <1>1, <1>2 DEF Timely, InItsSubcycle, Drawn
<1>4. LabelVisited'
  <2>1. CASE Labelling
    BY <1>1, <2>1 DEF Timely, InItsSubcycle, LabelVisited
  <2>2. CASE ~Labelling
    <3>1. marked'[Label] = marked[Label]
      BY <1>1, <2>2, GameNames, GameTypes DEF Labelling, Setting
    <3> QED BY <1>1, <3>1 DEF Timely, LabelVisited
  <2> QED BY <2>1, <2>2
<1>5. LabelWritten'
  <2>1. Written' = Written
    BY <1>1 DEF Written
  <2>2. CASE Labelling
    <3>1. setter.value = Written /\ setter.box = Label /\ setter.step # "none"
      BY <2>2 DEF Timely, LabelWritten, Labelling
    <3>2. CASE setter.step = "storing"
      <4>1. setter'.step = "stored" /\ text'[Label] = Written
        BY <1>1, <3>1, <3>2, GameNames, GameTypes DEF Setting
      <4> QED BY <1>1, <1>2, <2>1, <3>1, <4>1 DEF Timely, LabelWritten
    <3>3. CASE setter.step # "storing"
      <4>1. text' = text /\ ~Labelling'
        BY <1>1, <3>3 DEF Labelling, Idle
      <4> QED BY <1>1, <2>1, <3>3, <4>1 DEF Timely, LabelWritten
    <3> QED BY <3>2, <3>3
  <2>3. CASE ~Labelling
    <3>1. text'[Label] = text[Label] /\ ~Labelling'
      BY <1>1, <1>2, <2>3, GameNames, GameTypes DEF Labelling, Setting
    <3> QED BY <1>1, <2>1, <2>3, <3>1 DEF Timely, LabelWritten
  <2> QED BY <2>2, <2>3
<1>6. PumpLeaves' /\ Aging'
  BY <1>1, WaitingStays DEF Timely, PumpLeaves, Aging, Written
<1> QED BY <1>3, <1>4, <1>5, <1>6 DEF Timely

\* A thread outside sets another box.
LEMMA TimelyOutsideSets ==
  ASSUME Timely, OutsideSets
  PROVE  Timely'
<1>1. /\ setter = Idle
      /\ \E b \in Boxes \ {Label}, v \in Texts :
           setter' = [step |-> "storing", box |-> b, value |-> v]
      /\ UNCHANGED <<text, marked, texture, failed, rpc, box, todo, initialized, writes,
                     requests, calls, age, subcycle, done>>
  BY DEF OutsideSets, OutsideLocks, SetBegin, eventVars, frameVars, inputVars
<1>2. ~Labelling /\ ~Labelling'
  BY <1>1 DEF Labelling, Idle
<1>3. InItsSubcycle' /\ LabelVisited' /\ Drawn'
  BY <1>1, <1>2 DEF Timely, InItsSubcycle, LabelVisited, Drawn
<1>4. LabelWritten'
  BY <1>1, <1>2 DEF Timely, LabelWritten, Written
<1>5. PumpLeaves' /\ Aging'
  BY <1>1, WaitingStays DEF Timely, PumpLeaves, Aging, Written
<1> QED BY <1>3, <1>4, <1>5 DEF Timely

\* The pump calls show for the first request: the key is queued to be written.
LEMMA TimelyPumpShows ==
  ASSUME Timely, TypeOK, KeysInOrder', PumpJobShows
  PROVE  Timely'
<1>1. /\ subcycle = "roots" /\ requests # <<>> /\ "pump" \notin done
      /\ writes' = Append(writes, Head(requests).context)
      /\ calls' = Append(calls, Head(requests).context)
      /\ UNCHANGED <<text, marked, texture, failed, setter, rpc, box, todo, initialized,
                     requests, age, subcycle, done>>
  BY DEF PumpJobShows, Executing, PumpCallsOrdinary, Calling, Returns, Enqueue, renderVars,
         frameVars
<1> DEFINE k == Head(requests).context
<1>2. /\ Len(calls) \in Nat /\ Len(writes) \in Nat /\ Written \in Int
      /\ Len(calls') = Len(calls) + 1 /\ Len(writes') = Len(writes) + 1
      /\ calls'[Len(calls) + 1] = k /\ Len(calls) + 1 \in DOMAIN calls'
      /\ writes'[Len(writes) + 1] = k
      /\ \A i \in DOMAIN writes' : i \in DOMAIN writes \/ i = Len(writes) + 1
      /\ \A i \in DOMAIN writes : writes'[i] = writes[i]
  <2>1. requests \in Seq(Request) /\ requests # <<>>
    BY <1>1, GameTypes
  <2>2. Head(requests) \in Request
    BY <2>1
  <2>3. k \in Contexts
    BY <2>2 DEF Request
  <2> HIDE DEF k
  <2> QED BY <1>1, <2>3, GameTypes DEF k
<1> HIDE DEF k
<1>3. k = Len(calls) + 1
  BY <1>2 DEF KeysInOrder
<1>4. Written' = Written
  BY <1>2 DEF Written
<1>5. LabelWritten'
  <2>1. Len(writes') <= Len(calls')
    BY <1>2 DEF Timely, LabelWritten
  <2>2. writes'[Len(writes) + 1] = Written + (Len(writes) + 1)
    BY <1>2, <1>3 DEF Written
  <2>3. \A i \in DOMAIN writes' : writes'[i] = Written' + i
    BY <1>2, <1>4, <2>2 DEF Timely, LabelWritten
  <2> QED BY <1>1, <1>4, <2>1, <2>3 DEF Timely, LabelWritten, Labelling
<1>6. InItsSubcycle' /\ LabelVisited' /\ Drawn'
  BY <1>1 DEF Timely, InItsSubcycle, LabelVisited, Drawn, Labelling
<1>7. PumpLeaves'
  BY <1>1 DEF PumpLeaves
<1>8. \A j \in Contexts : j <= Len(calls) => j <= Len(calls')
  BY <1>2, GameTypes
<1>9. Aging'
  BY <1>1, <1>4, <1>8, WaitingStays DEF Timely, Aging
<1> QED BY <1>5, <1>6, <1>7, <1>9 DEF Timely

\* It takes a request from the queue that has been called.
LEMMA TimelyPumpPops ==
  ASSUME Timely, TypeOK, Shown => Head(requests).context = Len(calls),
         requests # <<>>, PumpJobPops
  PROVE  Timely'
<1>1. /\ subcycle = "roots" /\ "pump" \notin done /\ ppc = "pop"
      /\ requests' = Tail(requests)
      /\ UNCHANGED <<text, marked, texture, failed, setter, rpc, box, todo, initialized,
                     writes, calls, age, subcycle, done>>
  BY DEF PumpJobPops, Executing, PumpPop, writeVars, renderVars, frameVars, inputVars
<1>2. InItsSubcycle' /\ LabelVisited' /\ Drawn' /\ PumpLeaves'
  BY <1>1 DEF Timely, InItsSubcycle, LabelVisited, Drawn, PumpLeaves, Labelling
<1>3. LabelWritten' /\ Written' = Written
  BY <1>1 DEF Timely, LabelWritten, Written, Labelling
<1>4. /\ requests[1] = Head(requests) /\ Len(requests) \in Nat
      /\ \A i \in DOMAIN requests : i = 1 \/ (i - 1 \in DOMAIN requests' /\ requests'[i - 1] = requests[i])
  BY <1>1, GameTypes
<1>5. ASSUME NEW k \in Contexts, Waiting(k)
      PROVE  k <= Len(calls) \/ Waiting(k)'
  <2>1. PICK i \in DOMAIN requests : requests[i].callback = show /\ requests[i].context = k
    BY <1>5 DEF Waiting
  <2>2. CASE i = 1
    <3>1. k = Len(calls)
      BY <1>1, <1>4, <2>1, <2>2 DEF Shown
    <3> QED BY <3>1, GameTypes
  <2>3. CASE i # 1
    BY <1>4, <2>1, <2>3 DEF Waiting
  <2> QED BY <2>2, <2>3
<1>6. Aging'
  BY <1>1, <1>3, <1>5 DEF Timely, Aging
<1> QED BY <1>2, <1>3, <1>6 DEF Timely

\* It returns, or is left by an exception.
LEMMA TimelyPumpReturns ==
  ASSUME Timely, PumpJobReturns \/ PumpJobFulfils
  PROVE  Timely'
<1>1. /\ subcycle = "roots"
      /\ \/ done' = done
         \/ /\ done' = done \cup {"pump"}
            /\ requests = <<>> \/ Head(requests).callback \in Yielders
      /\ UNCHANGED <<text, marked, texture, failed, setter, rpc, box, todo, initialized,
                     writes, requests, calls, age, subcycle>>
  <2>1. CASE PumpJobReturns
    BY <2>1 DEF PumpJobReturns, PumpEnd, Executing, Returned, writeVars, renderVars,
                inputVars
  <2>2. CASE PumpJobFulfils
    <3>1. PICK y \in Yielders : PumpCallsYield(y) \/ PumpCallsGone(y)
      BY <2>2 DEF PumpJobFulfils
    <3>2. Head(requests).callback = y /\ requests' = requests
      BY <3>1 DEF PumpCallsYield, PumpCallsGone, Calling, Returns, Throws
    <3> QED BY <2>2, <3>1, <3>2
            DEF PumpJobFulfils, Executing, Returned, writeVars, renderVars, frameVars,
                inputVars
  <2> QED BY <2>1, <2>2
<1>2. InItsSubcycle' /\ LabelVisited' /\ Drawn'
  BY <1>1 DEF Timely, InItsSubcycle, LabelVisited, Drawn, Labelling
<1>3. LabelWritten' /\ PumpLeaves'
  BY <1>1 DEF Timely, LabelWritten, Written, Labelling, PumpLeaves
<1>4. Aging'
  BY <1>1, WaitingStays DEF Timely, Aging, Written
<1> QED BY <1>2, <1>3, <1>4 DEF Timely

\* The render job begins, polls the last of the events, or finds no window.
LEMMA TimelyRenderBegins ==
  ASSUME Timely, RenderJobInitFails \/ RenderJobBegins \/ RenderJobPolled
  PROVE  Timely'
<1>1. /\ subcycle = "children"
      /\ UNCHANGED <<text, marked, texture, failed, setter, box, writes, requests, calls,
                     age, subcycle>>
      /\ \/ /\ rpc = "out" /\ ~initialized /\ done' = done \cup {"render"}
            /\ UNCHANGED <<rpc, todo, initialized>>
         \/ /\ "render" \notin done /\ done' = done /\ initialized' = TRUE
            /\ rpc' = "poll" /\ todo' = todo
         \/ /\ "render" \notin done /\ done' = done /\ initialized' = initialized
            /\ rpc = "poll" /\ rpc' = "test" /\ todo' = Boxes
  BY DEF RenderJobInitFails, InitFails, RenderJobBegins, ExecuteBegin, RenderJobPolled,
         PollEnd, Executing, Returned, writeVars, renderVars, eventVars, frameVars, inputVars
<1>2. ~Labelling
  BY <1>1 DEF Timely, InItsSubcycle
<1>3. InItsSubcycle' /\ LabelVisited' /\ Drawn'
  BY <1>1, <1>2, GameNames DEF Timely, InItsSubcycle, LabelVisited, Drawn, Labelling
<1>4. LabelWritten' /\ PumpLeaves'
  BY <1>1, WaitingStays DEF Timely, LabelWritten, Written, Labelling, PumpLeaves
<1>5. Aging'
  BY <1>1, WaitingStays DEF Timely, Aging, Written
<1> QED BY <1>3, <1>4, <1>5 DEF Timely

\* A key is polled: what waited is still in front.
LEMMA TimelyRenderPolls ==
  ASSUME Timely, TypeOK, RenderJobPollsKey
  PROVE  Timely'
<1>2. PICK k \in Contexts : k = Head(sdl)
  BY DEF RenderJobPollsKey, TypeOK
<1> DEFINE block == [i \in DOMAIN cns |-> [callback |-> cns[i], context |-> k]]
<1>1. /\ subcycle = "children" /\ rpc = "poll" /\ requests' = requests \o block
      /\ age' = IF Connected(show) THEN [age EXCEPT ![k] = 1] ELSE age
      /\ UNCHANGED <<text, marked, texture, failed, setter, rpc, box, todo, initialized,
                     writes, calls, subcycle, done>>
  BY <1>2 DEF RenderJobPollsKey, Executing, Fire, writeVars, renderVars, frameVars
<1>3. /\ requests \in Seq(Request) /\ DOMAIN cns = 1 .. Len(cns) /\ Len(cns) \in Nat
      /\ block \in Seq(Request) /\ Len(block) = Len(cns)
      /\ \A i \in DOMAIN cns : block[i].callback = cns[i] /\ block[i].context = k
  <2>1. cns \in Seq(Connectable)
    BY DEF TypeOK, EventsTypeOK
  <2>2. \A i \in DOMAIN cns : [callback |-> cns[i], context |-> k] \in Request
    BY <1>2, <2>1 DEF Request
  <2>3. DOMAIN cns = 1 .. Len(cns) /\ Len(cns) \in Nat
    BY <2>1
  <2>4. block \in Seq(Request) /\ Len(block) = Len(cns)
    BY <2>2, <2>3
  <2>5. \A i \in DOMAIN cns : block[i].callback = cns[i] /\ block[i].context = k
    OBVIOUS
  <2>6. requests \in Seq(Request)
    BY GameTypes
  <2> HIDE DEF block
  <2> QED BY <2>3, <2>4, <2>5, <2>6
<1> DEFINE all == requests \o block
           n == Len(requests)
<1>4. /\ DOMAIN requests = 1 .. n /\ n \in Nat /\ DOMAIN all = 1 .. n + Len(cns)
      /\ \A i \in 1 .. n : all[i] = requests[i]
      /\ \A i \in n + 1 .. n + Len(cns) : all[i] = block[i - n]
  <2>0. /\ DOMAIN requests = 1 .. n /\ n \in Nat /\ DOMAIN all = 1 .. n + Len(block)
        /\ \A i \in 1 .. n : all[i] = requests[i]
        /\ \A i \in n + 1 .. n + Len(block) : all[i] = block[i - n]
    BY <1>3, ConcatPlaces
  <2> HIDE DEF n, all, block
  <2> QED BY <1>3, <2>0
<1>5. requests # <<>> => Head(requests') = Head(requests)
  BY <1>1, <1>3
<1> HIDE DEF block, all, n
<1>6. requests' = all
  BY <1>1 DEF all
<1>7. ASSUME NEW j \in Contexts
      PROVE  /\ Waiting(j) => Waiting(j)'
             /\ Waiting(j)' => Waiting(j) \/ (j = k /\ Connected(show))
             /\ Connected(show) => Waiting(k)'
  <2>1. Waiting(j) => Waiting(j)'
    <3>1. \A i \in 1 .. n : i \in 1 .. n + Len(cns)
      BY <1>3, <1>4
    <3> QED BY <1>4, <1>6, <3>1 DEF Waiting
  <2>2. ASSUME Waiting(j)', ~Waiting(j)
        PROVE  j = k /\ Connected(show)
    <3>1. PICK i \in 1 .. n + Len(cns) : all[i].callback = show /\ all[i].context = j
      BY <1>4, <1>6, <2>2 DEF Waiting
    <3>2. i \notin 1 .. n
      BY <1>4, <2>2, <3>1 DEF Waiting
    <3>3. i \in n + 1 .. n + Len(cns) /\ i - n \in DOMAIN cns
      BY <1>3, <1>4, <3>1, <3>2
    <3> QED BY <1>3, <1>4, <3>1, <3>3 DEF Connected
  <2>3. ASSUME Connected(show)
        PROVE  Waiting(k)'
    <3>1. PICK i \in DOMAIN cns : cns[i] = show
      BY <2>3 DEF Connected
    <3>2. /\ n + i \in n + 1 .. n + Len(cns) /\ (n + i) - n = i
          /\ n + i \in 1 .. n + Len(cns)
      BY <1>3, <1>4, <3>1
    <3>3. all[n + i] = block[i]
      BY <1>4, <3>2
    <3>4. all[n + i].callback = show /\ all[n + i].context = k
      BY <1>3, <3>1, <3>3
    <3>5. n + i \in DOMAIN requests'
      BY <1>4, <1>6, <3>2
    <3> QED BY <1>6, <3>4, <3>5 DEF Waiting
  <2> QED BY <2>1, <2>2, <2>3
<1>8. InItsSubcycle' /\ LabelVisited' /\ Drawn' /\ LabelWritten'
  BY <1>1 DEF Timely, InItsSubcycle, LabelVisited, Drawn, LabelWritten, Written, Labelling
<1>9. \A j \in Contexts : age'[j] = IF Connected(show) /\ j = k THEN 1 ELSE age[j]
  BY <1>1, <1>2, GameTypes
<1>10. PumpLeaves'
  <2> SUFFICES ASSUME NEW j \in Contexts, age'[j] >= 2, Waiting(j)'
               PROVE  Head(requests').callback \in Yielders
    BY <1>1 DEF PumpLeaves
  <2>1. age'[j] = age[j] /\ Waiting(j)
    BY <1>7, <1>9
  <2>2. Head(requests).callback \in Yielders /\ requests # <<>>
    BY <1>1, <2>1 DEF Timely, PumpLeaves, Waiting
  <2> QED BY <1>5, <2>2
<1>11. initialized
  BY <1>1 DEF Timely, InItsSubcycle
<1>12. Aging'
  <2>1. Written' = Written /\ Len(calls') = Len(calls)
    BY <1>1 DEF Written
  <2> SUFFICES ASSUME NEW j \in Contexts
               PROVE  /\ age'[j] >= 1 => initialized /\ (j <= Len(calls) \/ Waiting(j)')
                      /\ age'[j] >= 3 => j <= Len(calls)
                      /\ age'[j] = 3 /\ ("write" \in done \/ subcycle = "children") =>
                           j <= Written
                      /\ age'[j] = 4 => j <= Written
    BY <1>1, <2>1 DEF Aging
  <2>2. CASE Connected(show) /\ j = k
    <3>1. age'[j] = 1
      BY <1>9, <2>2
    <3>2. Waiting(j)'
      BY <1>7, <2>2
    <3> QED BY <1>11, <3>1, <3>2
  <2>3. CASE ~(Connected(show) /\ j = k)
    BY <1>7, <1>9, <2>3 DEF Timely, Aging
  <2> QED BY <2>2, <2>3
<1> QED BY <1>8, <1>10, <1>12 DEF Timely

\* The render job visits the boxes: the label that it finds marked it builds, or a build
\* fails.
LEMMA TimelyPresents ==
  ASSUME Timely, TypeOK, RenderJobPresents
  PROVE  Timely'
<1>1. /\ subcycle = "children" /\ "render" \notin done /\ Present
      /\ done' = IF rpc' = "out" THEN done \cup {"render"} ELSE done
      /\ UNCHANGED <<writes, requests, calls, age, subcycle>>
  BY DEF RenderJobPresents, Executing, Returned, writeVars, eventVars, frameVars, inputVars
<1>2. /\ UNCHANGED <<text, setter, initialized>> /\ rpc # "out" /\ rpc # "poll"
      /\ rpc' # "poll" /\ ~Labelling
  BY <1>1 DEF Present, TestMark, ClearMark, BuildSurface, BuildTexture, BuildFails, Draw,
              ExecuteEnd, Timely, InItsSubcycle
<1>3. InItsSubcycle' /\ Drawn'
  BY <1>1, <1>2 DEF Timely, InItsSubcycle, Drawn, Labelling
<1>4. LabelVisited'
  <2>1. ASSUME NEW b \in Boxes, TestMark(b)
        PROVE  LabelVisited'
    BY <1>1, <2>1 DEF Timely, LabelVisited, TestMark
  <2>2. CASE ClearMark
    <3>1. /\ rpc = "clear" /\ rpc' = "build" /\ marked' = [marked EXCEPT ![box] = FALSE]
          /\ UNCHANGED <<box, todo>>
      BY <2>2 DEF ClearMark
    <3>2. box = Label => ~marked'[Label]
      BY <3>1, GameNames, GameTypes
    <3>3. box # Label => marked'[Label] = marked[Label]
      BY <3>1, GameNames, GameTypes
    <3> QED BY <1>1, <3>1, <3>2, <3>3 DEF Timely, LabelVisited
  <2>3. CASE BuildSurface \/ BuildTexture
    BY <1>1, <2>3 DEF Timely, LabelVisited, BuildSurface, BuildTexture
  <2>4. CASE BuildFails
    <3>1. rpc' = "out" /\ \E b \in Boxes : failed'[b]
      <4>1. box \in Boxes
        BY <2>4 DEF BuildFails, TypeOK, RenderTypeOK
      <4> QED BY <2>4, <4>1, GameTypes DEF BuildFails
    <3> QED BY <3>1 DEF LabelVisited
  <2>5. CASE Draw \/ ExecuteEnd
    BY <1>1, <1>2, <2>5 DEF Timely, LabelVisited, Draw, ExecuteEnd
  <2> QED BY <1>1, <2>1, <2>2, <2>3, <2>4, <2>5 DEF Present
<1>5. LabelWritten' /\ PumpLeaves'
  BY <1>1, <1>2, WaitingStays DEF Timely, LabelWritten, Written, Labelling, PumpLeaves
<1>6. Aging'
  BY <1>1, <1>2, WaitingStays DEF Timely, Aging, Written
<1> QED BY <1>3, <1>4, <1>5, <1>6 DEF Timely

\* The other steps change nothing of this; a job of the game may return.
LEMMA TimelyElse ==
  ASSUME Timely,
         UNCHANGED <<renderVars, writes, requests, calls, age, subcycle>>,
         \A r \in {"write", "pump", "render"} : r \in done' <=> r \in done
  PROVE  Timely'
<1>1. InItsSubcycle' /\ LabelVisited' /\ Drawn'
  BY DEF Timely, InItsSubcycle, LabelVisited, Drawn, Labelling, renderVars
<1>2. LabelWritten' /\ PumpLeaves'
  BY WaitingStays DEF Timely, LabelWritten, Written, Labelling, PumpLeaves, renderVars
<1>3. Aging'
  BY WaitingStays DEF Timely, Aging, Written, renderVars
<1> QED BY <1>1, <1>2, <1>3 DEF Timely

\* The pump has called show with the last key of those it called.
LEMMA LastIsShown ==
  PlainTypeOK /\ (\E last \in Nat : KeysAccounted(last))
    => (Shown => Head(requests).context = Len(calls)) /\ KeysInOrder
<1> SUFFICES ASSUME PlainTypeOK, NEW last \in Nat, KeysAccounted(last), Shown
             PROVE  Head(requests).context = Len(calls)
  BY DEF KeysAccounted, KeysInOrder
<1>1. /\ requests # <<>> /\ requests \in Seq(Request) /\ Len(calls) \in Nat
      /\ 1 \in DOMAIN requests /\ requests[1] = Head(requests)
      /\ ShowContexts \in Seq(Nat) /\ Len(ShowContexts) = Len(requests)
  <2>1. requests # <<>>
    BY DEF PlainTypeOK, Shown
  <2> QED BY <2>1, ShowContextsType
<1>2. Head(requests).context # 0
  BY <1>1, ShowContextsType
<1>3. ShowContexts # <<>> /\ Head(ShowContexts) = Head(requests).context
  BY <1>1 DEF ShowContexts, Shown
<1>4. Lowest = Len(calls)
  BY DEF Lowest
<1> QED BY <1>1, <1>2, <1>3, <1>4, CountsTail DEF KeysAccounted

LEMMA TimelyStep ==
  ASSUME Timely, TypeOK, FreshOrMarked, KeysInOrder, KeysInOrder',
         Shown => Head(requests).context = Len(calls),
         ppc = "pop" => requests # <<>>, [Next]_vars
  PROVE  Timely'
<1>1. CASE Frame
  BY <1>1, TimelyChildren, TimelyFrameEnd DEF Frame
<1>2. CASE WriteJobSets \/ WriteJobReturns
  BY <1>2, TimelyWriteJobSets, TimelyWriteJobReturns
<1>3. CASE Setter \/ OutsideSets
  BY <1>3, TimelySetter, TimelyOutsideSets
<1>4. CASE PumpJobShows \/ PumpJobReturns \/ PumpJobFulfils
  BY <1>4, TimelyPumpShows, TimelyPumpReturns
<1>5. CASE PumpJobPops
  BY <1>5, TimelyPumpPops DEF PumpJobPops, PumpPop
<1>6. CASE RenderJobInitFails \/ RenderJobBegins \/ RenderJobPolled
  BY <1>6, TimelyRenderBegins
<1>7. CASE RenderJobPollsKey \/ RenderJobPresents
  BY <1>7, TimelyRenderPolls, TimelyPresents
<1>8. CASE \/ WriteJobBegins \/ PumpJobBegins \/ RenderJobPollsQuit \/ OutsideReturns
           \/ (\E y \in Yielders : YielderBegins(y) \/ YielderReturns(y))
           \/ Disconnects \/ Press \/ Close \/ UNCHANGED vars
  BY <1>8, TimelyElse
     DEF WriteJobBegins, WriteBegin, PumpJobBegins, PumpBegin, RenderJobPollsQuit,
         OutsideReturns, OutsideUnlocks, YielderBegins, YieldBegin, YielderReturns,
         YieldReturn, Disconnects, DisconnectAll, Press, Close, vars, writeVars, renderVars,
         eventVars, frameVars, inputVars
<1>9. ASSUME NEW y \in JobsThatYield, JobReturns(y)
      PROVE  Timely'
  BY <1>9, TimelyElse, GameNames
     DEF JobReturns, Returned, writeVars, eventVars, inputVars
<1> QED BY <1>1, <1>2, <1>3, <1>4, <1>5, <1>6, <1>7, <1>8, <1>9
        DEF Next, WriteJob, Pump, Render

\* A key that is polled while show is connected is drawn three frames later, however the
\* threads of the frames interleave, unless a text box could not be built or a request of
\* yield() is in front of its own: the pump calls show in the next frame, the write job
\* sets the label at the latest in the one after it, and the render job of the same frame
\* finds the label marked (write_job.cpp:5-18, event_pump.hpp:20-26, render_job.cpp:52-98).
THEOREM KeysShownInTime == Spec => []ShownInTime
<1>1. Init => Timely
  <2> SUFFICES ASSUME Init
               PROVE  Timely
    OBVIOUS
  <2>1. /\ setter = Idle /\ rpc = "out" /\ writes = <<>> /\ calls = <<>>
        /\ subcycle = "roots" /\ done = {} /\ \A k \in Contexts : age[k] = 0
    BY DEF Init, WriteInit, RenderInit, EventsInit
  <2>2. Len(calls) = 0 /\ Len(writes) = 0 /\ DOMAIN writes = {} /\ 0 - 0 = 0 /\ ~Labelling
    BY <2>1 DEF Labelling, Idle
  <2> QED BY <2>1, <2>2
          DEF Timely, InItsSubcycle, LabelVisited, LabelWritten, Written, PumpLeaves, Aging,
              Drawn
<1>2. Timely => ShownInTime
  BY DEF Timely, Drawn, PumpLeaves, ShownInTime
<1>3. PlainTypeOK => (ppc = "pop" => requests # <<>>)
  BY DEF PlainTypeOK
<1> QED BY <1>1, <1>2, <1>3, TimelyStep, LastIsShown, AccountedHolds, GameTyping,
           GameShowsChanges, PTL DEF Spec

===============================================================================
