-------------------------------- MODULE Events --------------------------------
(***************************************************************************)
(* One game::event with its connections, and the game::event_pump that     *)
(* calls them (src/src/game/event.hpp, event.cpp, event_pump.hpp).         *)
(* Firing an event queues one request per connection; the pump, a root job *)
(* of the scheduler, calls the callbacks of the queued requests.           *)
(*                                                                         *)
(* A callback is either an ordinary one or the one that yield() connects,  *)
(* which sets the promise on the stack of the thread that yields.  What    *)
(* the ordinary ones do belongs to the module that uses the event.         *)
(***************************************************************************)
EXTENDS Naturals, Sequences

CONSTANTS
  Yielders,   \* the threads that call yield(), once each and each on its own stack
  Callbacks,  \* the ordinary callbacks
  Contexts,   \* what an event is fired with
  None        \* no connection, no context

ASSUME EventsAssumption ==
  /\ Yielders \cap Callbacks = {}
  /\ None \notin Yielders \cup Callbacks \cup Contexts

VARIABLES
  cns,       \* event_base::_cn_vector, the callback of each connection
  requests,  \* event_pump::requests
  ppc,       \* position of the pump in execute()
  ypc,       \* position of each yielder
  promise,   \* the promise of each yielder
  result,    \* what yield() returned
  first,     \* history: the first context fired after yield() connected
  crashed    \* the process ended by an access to an object that is not there

eventVars == <<cns, requests, ppc, ypc, promise, result, first, crashed>>

Connectable == Yielders \cup Callbacks

Request == [callback : Connectable, context : Contexts]

EventsTypeOK ==
  /\ cns \in Seq(Connectable)
  /\ requests \in Seq(Request)
  /\ ppc \in {"out", "loop", "pop"}
  /\ ypc \in [Yielders -> {"out", "waiting", "returned"}]
  /\ promise \in [Yielders -> Contexts \cup {None}]
  /\ result \in [Yielders -> Contexts \cup {None}]
  /\ first \in [Yielders -> Contexts \cup {None}]
  /\ crashed \in BOOLEAN

\* The program starts with connected callbacks.
EventsInit(connected) ==
  /\ cns = connected /\ requests = <<>> /\ ppc = "out"
  /\ ypc     = [y \in Yielders |-> "out"]
  /\ promise = [y \in Yielders |-> None]
  /\ result  = [y \in Yielders |-> None]
  /\ first   = [y \in Yielders |-> None]
  /\ crashed = FALSE

Connected(c) == \E i \in DOMAIN cns : cns[i] = c

-------------------------------------------------------------------------------
(* event_base *)

\* Mutant: the last connection is passed over.
FireButLast(k) ==
  /\ requests' =
       requests \o [i \in 1 .. Len(cns) - 1 |-> [callback |-> cns[i], context |-> k]]
  /\ first' = [y \in Yielders |->
                 IF Connected(y) /\ first[y] = None THEN k ELSE first[y]]
  /\ UNCHANGED <<cns, ppc, ypc, promise, result, crashed>>

\* fire: a request for every connection, in their order.
Fire(k) ==
  /\ requests' =
       requests \o [i \in DOMAIN cns |-> [callback |-> cns[i], context |-> k]]
  /\ first' = [y \in Yielders |->
                 IF Connected(y) /\ first[y] = None THEN k ELSE first[y]]
  /\ UNCHANGED <<cns, ppc, ypc, promise, result, crashed>>

\* detach moves every connection behind the first one equal to c one place to
\* the front and leaves the vector as long as it was: a place that was moved
\* from is null.
Removed(seq, c) ==
  LET at == {i \in DOMAIN seq : seq[i] = c}
  IN  IF at = {} THEN seq
      ELSE LET f == CHOOSE i \in at : \A j \in at : i <= j
           IN  [i \in DOMAIN seq |->
                  IF i < f \/ f = Len(seq) THEN seq[i]
                  ELSE IF i < Len(seq) THEN seq[i + 1] ELSE None]

\* The loop of disconnect_all over the vector that detach changes: what the
\* vector is after i turns.
DetachedAfter(n) ==
  LET v[i \in 0 .. n] ==
        IF i = 0 THEN cns
        ELSE IF v[i - 1][i] = None THEN v[i - 1] ELSE Removed(v[i - 1], v[i - 1][i])
  IN  v

\* Mutant: the vector is not cleared.
DisconnectAllKeeps ==
  LET v == DetachedAfter(Len(cns))
  IN  /\ crashed' = FALSE
      /\ cns' = v[Len(cns)]
      /\ UNCHANGED <<requests, ppc, ypc, promise, result, first>>

\* disconnect_all: the loop calls detach on a null connection as soon as it
\* meets one.
DisconnectAll ==
  LET v == DetachedAfter(Len(cns))
  IN  /\ crashed' = \E i \in DOMAIN cns : v[i - 1][i] = None
      /\ cns' = IF crashed' THEN cns ELSE <<>>
      /\ UNCHANGED <<requests, ppc, ypc, promise, result, first>>

\* yield connects its callback and waits ...
YieldBegin(y) ==
  /\ ypc[y] = "out"
  /\ ypc' = [ypc EXCEPT ![y] = "waiting"]
  /\ cns' = Append(cns, y)
  /\ UNCHANGED <<requests, ppc, promise, result, first, crashed>>

\* ... until the promise is set.  The connection stays.
YieldReturn(y) ==
  /\ ypc[y] = "waiting" /\ promise[y] # None
  /\ ypc' = [ypc EXCEPT ![y] = "returned"]
  /\ result' = [result EXCEPT ![y] = promise[y]]
  /\ UNCHANGED <<cns, requests, ppc, promise, first, crashed>>

-------------------------------------------------------------------------------
(* event_pump::execute *)

PumpBegin ==
  /\ ppc = "out"
  /\ ppc' = "loop"
  /\ UNCHANGED <<cns, requests, ypc, promise, result, first, crashed>>

PumpEnd ==
  /\ ppc = "loop" /\ requests = <<>>
  /\ ppc' = "out"
  /\ UNCHANGED <<cns, requests, ypc, promise, result, first, crashed>>

\* The callback of the first request is called ...
Calling(c) == ppc = "loop" /\ requests # <<>> /\ Head(requests).callback = c

Returns ==
  /\ ppc' = "pop"
  /\ UNCHANGED <<cns, requests, ypc, result, first>>

\* ... and when it throws, execute() is left with the request still in front.
Throws ==
  /\ ppc' = "out"
  /\ UNCHANGED <<cns, requests, ypc, promise, result, first, crashed>>

PumpCallsOrdinary(c) ==
  /\ Calling(c)
  /\ Returns
  /\ UNCHANGED <<promise, crashed>>

\* Mutant: a second call replaces the value.
PumpCallsYieldAgain(y) ==
  /\ Calling(y) /\ ypc[y] = "waiting"
  /\ promise' = [promise EXCEPT ![y] = Head(requests).context]
  /\ Returns
  /\ UNCHANGED crashed

\* The first call sets the promise, a second one throws.
PumpCallsYield(y) ==
  /\ Calling(y) /\ ypc[y] = "waiting"
  /\ \/ /\ promise[y] = None
        /\ promise' = [promise EXCEPT ![y] = Head(requests).context]
        /\ Returns
        /\ UNCHANGED crashed
     \/ promise[y] # None /\ Throws

\* Once yield() has returned the promise is gone: the call writes to what is
\* there now, or throws, or ends the process.
PumpCallsGone(y) ==
  /\ Calling(y) /\ ypc[y] = "returned"
  /\ \/ Returns /\ UNCHANGED <<promise, crashed>>
     \/ Throws
     \/ Returns /\ crashed' = TRUE /\ UNCHANGED promise

\* Mutant: the queue is emptied from the wrong end.
PumpPopLast ==
  /\ ppc = "pop"
  /\ requests' = SubSeq(requests, 1, Len(requests) - 1)
  /\ ppc' = "loop"
  /\ UNCHANGED <<cns, ypc, promise, result, first, crashed>>

\* ... and the request is taken from the queue.
PumpPop ==
  /\ ppc = "pop"
  /\ requests' = Tail(requests)
  /\ ppc' = "loop"
  /\ UNCHANGED <<cns, ypc, promise, result, first, crashed>>

-------------------------------------------------------------------------------
(* Properties *)

\* yield returns what the event was fired with first after it connected, however
\* often it is fired before the waiting thread gets to run (event.cpp:26-40).
YieldGetsFirst ==
  \A y \in Yielders : result[y] # None => result[y] = first[y]

===============================================================================
