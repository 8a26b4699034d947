----------------------------- MODULE ProgramProofs -----------------------------
(***************************************************************************)
(* For any number of signals: each handler that executes is on the stack   *)
(* of a thread, and the log is destroyed after the scheduler has come to   *)
(* rest.                                                                   *)
(***************************************************************************)
EXTENDS Program, SequenceTheorems, TLAPS

USE DEF flags, tables

\* A handler is on the stacks at most once.
HandlersOnce ==
  \A t, u \in Threads : \A i \in 1 .. Len(stack[t]), j \in 1 .. Len(stack[u]) :
    stack[t][i] = stack[u][j] => t = u /\ i = j

\* The handlers on the stacks are those that are somewhere.
HandlersOnStacks ==
  \A s \in Signals : pos[s] # "none" <=> \E t \in Threads : s \in ToSet(stack[t])

\* The types without that.
Types ==
  /\ proc \in {"runs", "exited", "killed", "aborted", "crashed"}
  /\ pos \in [Contexts -> Points]
  /\ stack \in [Threads -> Seq(Signals)]
  /\ holder \in Contexts \cup {None}
  /\ callbacks \in [Signals -> {"absent", "empty", "full"}]
  /\ installed \subseteq Signals /\ statics \subseteq Statics
  /\ active \in BOOLEAN /\ live \in BOOLEAN /\ awake \in BOOLEAN
  /\ arrived \in 0 .. MaxSignals

StackInv == Types /\ HandlersOnce /\ HandlersOnStacks

\* A step that leaves the stacks alone and that neither begins nor ends a handler.
HandlersStay ==
  stack' = stack /\ \A s \in Signals : pos'[s] = "none" <=> pos[s] = "none"

\* Who executes is at the top of its thread.
LEMMA ThreadExecutes ==
  ASSUME Types, NEW t \in Threads, Executes(t)
  PROVE  stack[t] = <<>>
<1>1. PICK u \in Threads : t = IF stack[u] = <<>> THEN u ELSE Last(stack[u])
  BY DEF Executes
<1>2. stack[u] # <<>> => Last(stack[u]) \in Signals
  BY DEF Types, Last
<1> QED
  BY <1>1, <1>2, ProgramAssumption

LEMMA HandlerExecutes ==
  ASSUME Types, NEW s \in Signals, Executes(s)
  PROVE  \E t \in Threads : stack[t] # <<>> /\ s = Last(stack[t])
<1>1. PICK t \in Threads : s = IF stack[t] = <<>> THEN t ELSE Last(stack[t])
  BY DEF Executes
<1> QED
  BY <1>1, ProgramAssumption

LEMMA StackKept ==
  ASSUME StackInv, HandlersStay
  PROVE  HandlersOnce' /\ HandlersOnStacks'
BY DEF StackInv, HandlersStay, HandlersOnce, HandlersOnStacks

LEMMA FrontTyped ==
  ASSUME NEW q \in Seq(Signals), NEW s, s \in ToSet(q)
  PROVE  /\ Front(q) \in Seq(Signals) /\ Len(Front(q)) = Len(q) - 1
         /\ \A i \in 1 .. Len(q) - 1 : Front(q)[i] = q[i]
<1>1. Len(q) \in Nat /\ Len(q) > 0 /\ \A i \in 1 .. Len(q) - 1 : q[i] \in Signals
  BY DEF ToSet
<1> DEFINE n == Len(q) - 1
<1>2. n \in Int /\ 1 \in Int /\ \A i \in 1 .. n : q[i] \in Signals
  BY <1>1
<1>3. /\ SubSeq(q, 1, n) \in Seq(Signals)
      /\ Len(SubSeq(q, 1, n)) = IF 1 <= n THEN n - 1 + 1 ELSE 0
      /\ \A i \in 1 .. n - 1 + 1 : SubSeq(q, 1, n)[i] = q[1 + i - 1]
  <2> HIDE DEF n
  <2> QED
    BY ONLY <1>2, SubSeqProperties
<1>4. Len(Front(q)) = Len(q) - 1
  <2>1. Front(q) = SubSeq(q, 1, n) /\ n \in Nat
    BY <1>1 DEF Front
  <2> SUFFICES Len(SubSeq(q, 1, n)) = n
    BY <2>1
  <2> HIDE DEF n
  <2> QED
    BY <1>3, <2>1
<1>5. ASSUME NEW i \in 1 .. Len(q) - 1 PROVE Front(q)[i] = q[i]
  <2>1. i \in 1 .. n - 1 + 1 /\ 1 + i - 1 = i
    BY <1>1
  <2> QED
    BY <1>3, <2>1 DEF Front
<1> QED
  BY <1>3, <1>4, <1>5 DEF Front

LEMMA ThreadsExist == main \in Threads
BY DEF Threads

LEMMA AfterLogging == \A p \in Logging : After[p] \in Points /\ After[p] # "none"
BY DEF After, Logging, Points, Filter

--------------------------------------------------------------------------------

LEMMA Names ==
  /\ {"none", "init", "keepINT", "installINT", "keepTERM", "growTERM", "installTERM", "fps",
      "start", "detach", "launch", "spawn", "join", "quit", "unwind",
      "frames", "assign", "barrier", "raise", "await",
      "born", "job", "leave", "parting", "ended", "enter", "stop", "return"} \subseteq Points
  /\ {"warn", "farewell", "note", "fatal", "reason", "box", "report", "dump"} \subseteq Points
  /\ Threads \cup Signals \subseteq Contexts
  /\ {main, arbiter, worker} \subseteq Contexts /\ {SIGINT, SIGTERM} \subseteq Contexts
BY DEF Points, Logging, After, Filter, Contexts, Threads, Signals

LEMMA Moves ==
  ASSUME Types, NEW c \in Contexts, NEW p, NEW q \in Points, Goes(c, p, q)
  PROVE  pos' \in [Contexts -> Points]
BY DEF Types, Goes

LEMMA MainTyped ==
  ASSUME Types, Main
  PROVE  Types'
<1> USE Names
<1>0. main \in Contexts /\ {"logger", "callbacks"} = Statics
  BY DEF Statics
<1>1. CASE LogInit
  BY <1>0, <1>1, Moves DEF LogInit, Types
<1>2. CASE KeepInt
  BY <1>0, <1>2, Moves DEF KeepInt, Types
<1>3. CASE InstallInt
  BY <1>0, <1>3, Moves DEF InstallInt, Types, Signals
<1>4. CASE KeepTerm
  BY <1>0, <1>4, Moves DEF KeepTerm, Types
<1>5. CASE GrowTerm
  BY <1>0, <1>5, Moves DEF GrowTerm, Types
<1>6. CASE InstallTerm
  BY <1>0, <1>6, Moves DEF InstallTerm, Types, Signals
<1>7. CASE SetFps
  BY <1>0, <1>7, Moves DEF SetFps, Types
<1>8. CASE Launch \/ Start
  BY <1>0, <1>8 DEF Launch, Start, Types
<1>12. CASE Detach \/ Activate
  BY <1>0, <1>12, Moves DEF Detach, Activate, Types
<1>13. CASE StartFails
  BY <1>0, <1>13, Moves DEF StartFails, Types
<1>9. CASE Joined
  BY <1>0, <1>9, Moves DEF Joined, Types
<1>10. CASE Quit
  BY <1>0, <1>10, Moves DEF Quit, Types
<1>11. CASE Unwind
  BY <1>0, <1>11 DEF Unwind, Types
<1> QED
  BY <1>1, <1>2, <1>3, <1>4, <1>5, <1>6, <1>7, <1>8, <1>9, <1>10, <1>11, <1>12, <1>13
     DEF Main

LEMMA WorkerTyped ==
  ASSUME Types, WorkerThread \/ JobCloses \/ JobFails
  PROVE  Types'
<1> USE Names
<1>1. CASE Hurries
  <2>1. CASE live
    BY <1>1, <2>1, Moves DEF Hurries, Types
  <2>2. CASE ~live
    BY <1>1, <2>2, Moves DEF Hurries, Types
  <2> QED
    BY <2>1, <2>2
<1>2. CASE Waits
  BY <1>2, Moves DEF Waits, Types
<1>3. CASE Rises
  <2>1. CASE live
    BY <1>3, <2>1, Moves DEF Rises, Types
  <2>2. CASE ~live
    BY <1>3, <2>2, Moves DEF Rises, Types
  <2> QED
    BY <2>1, <2>2
<1>4. CASE JobReturns
  BY <1>4, Moves DEF JobReturns, Types
<1>5. CASE JobCloses
  BY <1>5 DEF JobCloses, Types
<1>6. CASE JobFails
  BY <1>6, Moves DEF JobFails, Types
<1>7. CASE Leaves
  BY <1>7, Moves DEF Leaves, Types
<1>8. CASE Parts
  BY <1>8, Moves DEF Parts, Types
<1> QED
  BY <1>1, <1>2, <1>3, <1>4, <1>5, <1>6, <1>7, <1>8 DEF WorkerThread

LEMMA ArbiterTyped ==
  ASSUME Types, Arbiter \/ Wakes
  PROVE  Types'
<1> USE Names
<1>1. CASE FrameBegins
  BY <1>1, Moves DEF FrameBegins, Types
<1>2. CASE Wakes
  BY <1>2, Moves DEF Wakes, Types
<1>3. CASE FrameWaits
  BY <1>3, Moves DEF FrameWaits, Types
<1>4. CASE FrameEnds
  BY <1>4, Moves DEF FrameEnds, Types
<1>5. CASE Stops
  BY <1>5, Moves DEF Stops, Types
<1>6. CASE Raises
  BY <1>6, Moves DEF Raises, Types
<1>7. CASE Reaps
  BY <1>7, Moves DEF Reaps, Types
<1> QED
  BY <1>1, <1>2, <1>3, <1>4, <1>5, <1>6, <1>7 DEF Arbiter

LEMMA SignalsTyped ==
  ASSUME Types, NEW s \in Signals, NEW t \in Threads, Arrives(s, t) \/ Handler(s)
  PROVE  Types'
<1> USE Names, ProgramAssumption
<1>1. CASE Arrives(s, t)
  <2>1. pos' \in [Contexts -> Points]
    BY <1>1 DEF Arrives, Types
  <2>2. Append(stack[t], s) \in Seq(Signals)
    BY DEF Types
  <2>3. stack' \in [Threads -> Seq(Signals)]
    BY <1>1, <2>2 DEF Arrives, Types
  <2>4. arrived' \in 0 .. MaxSignals
    BY <1>1 DEF Arrives, Types
  <2> QED
    BY <1>1, <2>1, <2>3, <2>4 DEF Arrives, Types
<1>2. CASE Dispatches(s)
  BY <1>2 DEF Dispatches, Types
<1>3. CASE WorkerCatches(s)
  <2>1. <<>> \in Seq(Signals) /\ stack' = [stack EXCEPT ![worker] = <<>>]
    BY <1>3 DEF WorkerCatches
  <2>3. stack' \in [Threads -> Seq(Signals)]
    BY <2>1 DEF Types
  <2>2. pos' \in [Contexts -> Points]
    <3>1. PICK p \in {"job", "leave"} : pos' = [pos EXCEPT ![s] = "none", ![worker] = p]
      BY <1>3 DEF WorkerCatches
    <3> QED
      BY <3>1 DEF Types
  <2> QED
    BY <1>3, <2>3, <2>2 DEF WorkerCatches, Types
<1>4. CASE HandlerStops(s)
  BY <1>4, Moves DEF HandlerStops, Types
<1>5. CASE HandlerReturns(s)
  <2>1. ASSUME NEW u \in Threads, s \in ToSet(stack[u]) PROVE Front(stack[u]) \in Seq(Signals)
    BY <2>1, FrontTyped DEF Types
  <2>2. stack' \in [Threads -> Seq(Signals)]
    BY <1>5, <2>1 DEF HandlerReturns, Types
  <2> QED
    BY <1>5, <2>2, Moves DEF HandlerReturns, Types
<1> QED
  BY <1>1, <1>2, <1>3, <1>4, <1>5 DEF Handler

LEMMA ContextTyped ==
  ASSUME Types, NEW c \in Contexts, Context(c)
  PROVE  Types'
<1> USE Names
<1>1. CASE LogLocks(c)
  BY <1>1 DEF LogLocks, Types
<1>2. CASE LogWrites(c)
  <2>0. pos[c] \in Logging
    BY <1>2 DEF LogWrites
  <2>1. After[pos[c]] \in Points
    BY <2>0, AfterLogging
  <2>2. pos' \in [Contexts -> Points]
    BY <1>2, <2>1, Moves DEF LogWrites
  <2> QED
    BY <1>2, <2>2 DEF LogWrites, Types
<1>3. CASE BoxAnswered(c)
  BY <1>3, Moves DEF BoxAnswered, Types
<1>4. CASE Dumps(c)
  BY <1>4 DEF Dumps, Types
<1> QED
  BY <1>1, <1>2, <1>3, <1>4 DEF Context

LEMMA TypesInductive ==
  ASSUME Types, [Next]_vars
  PROVE  Types'
<1>1. CASE UNCHANGED vars
  BY <1>1 DEF vars, Types
<1> QED
  BY <1>1, MainTyped, WorkerTyped, ArbiterTyped, SignalsTyped, ContextTyped, ThreadsExist DEF Next

--------------------------------------------------------------------------------

\* A step of a context that does not end a handler.
LEMMA MovesStay ==
  ASSUME Types, NEW c \in Contexts, NEW p, NEW q, Goes(c, p, q), UNCHANGED stack,
         c \in Signals => p # "none" /\ q # "none"
  PROVE  HandlersStay
BY Names DEF Types, Goes, HandlersStay

LEMMA MainStays ==
  ASSUME Types, Main
  PROVE  HandlersStay
<1> USE Names, ProgramAssumption
<1>0. main \in Contexts /\ main \notin Signals /\ arbiter \notin Signals /\ worker \notin Signals
  BY DEF Threads
<1>1. CASE LogInit
  BY <1>0, <1>1, MovesStay DEF LogInit
<1>2. CASE KeepInt
  BY <1>0, <1>2, MovesStay DEF KeepInt
<1>3. CASE InstallInt
  BY <1>0, <1>3, MovesStay DEF InstallInt
<1>4. CASE KeepTerm
  BY <1>0, <1>4, MovesStay DEF KeepTerm
<1>5. CASE GrowTerm
  BY <1>0, <1>5, MovesStay DEF GrowTerm
<1>6. CASE InstallTerm
  BY <1>0, <1>6, MovesStay DEF InstallTerm
<1>7. CASE SetFps
  BY <1>0, <1>7, MovesStay DEF SetFps
<1>8. CASE Launch \/ Start
  BY <1>0, <1>8 DEF Launch, Start, Types, HandlersStay
<1>12. CASE Detach \/ Activate
  BY <1>0, <1>12, MovesStay DEF Detach, Activate
<1>13. CASE StartFails
  BY <1>0, <1>13, MovesStay DEF StartFails
<1>9. CASE Joined
  BY <1>0, <1>9, MovesStay DEF Joined
<1>10. CASE Quit
  BY <1>0, <1>10, MovesStay DEF Quit
<1>11. CASE Unwind
  BY <1>0, <1>11 DEF Unwind, HandlersStay
<1> QED
  BY <1>1, <1>2, <1>3, <1>4, <1>5, <1>6, <1>7, <1>8, <1>9, <1>10, <1>11, <1>12, <1>13
     DEF Main

LEMMA WorkerStays ==
  ASSUME Types, WorkerThread \/ JobCloses \/ JobFails
  PROVE  HandlersStay
<1> USE Names, ProgramAssumption
<1>0. arbiter \notin Signals /\ worker \notin Signals
  BY DEF Threads
<1>1. CASE Hurries
  <2>1. CASE live
    BY <1>0, <1>1, <2>1, MovesStay DEF Hurries
  <2>2. CASE ~live
    BY <1>0, <1>1, <2>2, MovesStay DEF Hurries
  <2> QED
    BY <2>1, <2>2
<1>2. CASE Waits
  BY <1>0, <1>2, MovesStay DEF Waits
<1>3. CASE Rises
  <2>1. CASE live
    BY <1>0, <1>3, <2>1, MovesStay DEF Rises
  <2>2. CASE ~live
    BY <1>0, <1>3, <2>2, MovesStay DEF Rises
  <2> QED
    BY <2>1, <2>2
<1>4. CASE JobReturns
  BY <1>0, <1>4, MovesStay DEF JobReturns
<1>5. CASE JobCloses
  BY <1>5 DEF JobCloses, HandlersStay
<1>6. CASE JobFails
  BY <1>0, <1>6, MovesStay DEF JobFails
<1>7. CASE Leaves
  BY <1>0, <1>7, MovesStay DEF Leaves
<1>8. CASE Parts
  BY <1>0, <1>8, MovesStay DEF Parts, HandlersStay
<1> QED
  BY <1>1, <1>2, <1>3, <1>4, <1>5, <1>6, <1>7, <1>8 DEF WorkerThread

LEMMA ArbiterStays ==
  ASSUME Types, Arbiter \/ Wakes
  PROVE  HandlersStay
<1> USE Names, ProgramAssumption
<1>0. arbiter \notin Signals /\ worker \notin Signals
  BY DEF Threads
<1>1. CASE FrameBegins
  BY <1>0, <1>1, MovesStay DEF FrameBegins
<1>2. CASE Wakes
  BY <1>0, <1>2, MovesStay DEF Wakes
<1>3. CASE FrameWaits
  BY <1>0, <1>3, MovesStay DEF FrameWaits
<1>4. CASE FrameEnds
  BY <1>0, <1>4, MovesStay DEF FrameEnds
<1>5. CASE Stops
  BY <1>0, <1>5, MovesStay DEF Stops
<1>6. CASE Raises
  BY <1>0, <1>6, MovesStay DEF Raises
<1>7. CASE Reaps
  BY <1>0, <1>7, MovesStay DEF Reaps, HandlersStay
<1> QED
  BY <1>1, <1>2, <1>3, <1>4, <1>5, <1>6, <1>7 DEF Arbiter

LEMMA ContextStays ==
  ASSUME Types, NEW c \in Contexts, Context(c)
  PROVE  HandlersStay
<1>1. CASE LogLocks(c)
  BY <1>1 DEF LogLocks, HandlersStay
<1>2. CASE LogWrites(c)
  <2>1. pos[c] # "none" /\ After[pos[c]] # "none"
    BY <1>2, AfterLogging DEF LogWrites, Logging, After
  <2> QED
    BY <1>2, <2>1, MovesStay DEF LogWrites
<1>3. CASE BoxAnswered(c)
  BY <1>3, MovesStay DEF BoxAnswered
<1>4. CASE Dumps(c)
  BY <1>4 DEF Dumps, HandlersStay
<1> QED
  BY <1>1, <1>2, <1>3, <1>4 DEF Context

LEMMA ArrivesKeeps ==
  ASSUME StackInv, NEW s \in Signals, NEW t \in Threads, Arrives(s, t)
  PROVE  HandlersOnce' /\ HandlersOnStacks'
<1> USE Names, ProgramAssumption
<1>1. CASE s \notin installed
  BY <1>1, StackKept DEF Arrives, HandlersStay
<1>2. CASE s \in installed
  <2>1. /\ stack' = [stack EXCEPT ![t] = Append(stack[t], s)]
        /\ pos' = [pos EXCEPT ![s] = "enter"] /\ pos[s] = "none"
    BY <1>2 DEF Arrives
  <2>2. \A u \in Threads : stack[u] \in Seq(Signals) /\ s \notin ToSet(stack[u])
    BY <2>1 DEF StackInv, Types, HandlersOnStacks
  <2>3. \A u \in Threads : \A i \in 1 .. Len(stack[u]) : stack[u][i] # s
    BY <2>2 DEF ToSet
  <2>4. /\ stack'[t] = Append(stack[t], s)
        /\ Len(stack'[t]) = Len(stack[t]) + 1 /\ stack'[t][Len(stack[t]) + 1] = s
        /\ \A i \in 1 .. Len(stack[t]) : stack'[t][i] = stack[t][i]
        /\ \A u \in Threads \ {t} : stack'[u] = stack[u]
    BY <2>1, <2>2 DEF StackInv, Types
  <2>5. HandlersOnce'
    <3> SUFFICES ASSUME NEW u \in Threads, NEW v \in Threads,
                        NEW i \in 1 .. Len(stack'[u]), NEW j \in 1 .. Len(stack'[v]),
                        stack'[u][i] = stack'[v][j]
                 PROVE  u = v /\ i = j
      BY DEF HandlersOnce
    <3>0. Len(stack[t]) \in Nat /\ \A k \in 1 .. Len(stack[t]) + 1 :
            k = Len(stack[t]) + 1 \/ k \in 1 .. Len(stack[t])
      <4>1. Len(stack[t]) \in Nat
        BY <2>2
      <4>2. \A n \in Nat : \A k \in 1 .. n + 1 : k = n + 1 \/ k \in 1 .. n
        OBVIOUS
      <4> QED
        BY <4>1, <4>2
    <3>1. ASSUME NEW w \in Threads, NEW k \in 1 .. Len(stack'[w])
          PROVE  \/ w = t /\ k = Len(stack[t]) + 1 /\ stack'[w][k] = s
                 \/ /\ k \in 1 .. Len(stack[w]) /\ stack'[w][k] = stack[w][k]
                    /\ stack'[w][k] # s
      <4>1. CASE w = t
        BY <2>3, <2>4, <3>0, <4>1
      <4>2. CASE w # t
        BY <2>3, <2>4, <4>2
      <4> QED
        BY <4>1, <4>2
    <3> QED
      BY <3>1 DEF StackInv, HandlersOnce
  <2>6. ToSet(stack'[t]) = ToSet(stack[t]) \cup {s}
    BY <2>2, <2>4 DEF ToSet
  <2>7. HandlersOnStacks'
    BY <2>1, <2>4, <2>6 DEF StackInv, Types, HandlersOnStacks
  <2> QED
    BY <2>5, <2>7
<1> QED
  BY <1>1, <1>2

\* The stack of one thread loses its last handler, which is nowhere afterwards.
LEMMA PopKeeps ==
  ASSUME StackInv, NEW s \in Signals, NEW t \in Threads,
         s \in ToSet(stack[t]), s = Last(stack[t]),
         stack' = [stack EXCEPT ![t] = Front(stack[t])],
         pos'[s] = "none", \A u \in Signals \ {s} : pos'[u] = "none" <=> pos[u] = "none"
  PROVE  HandlersOnce' /\ HandlersOnStacks'
<1> DEFINE n == Len(stack[t]) - 1
<1>1. stack[t] \in Seq(Signals) /\ n \in Nat
  BY DEF StackInv, Types, ToSet
<1>2. /\ stack'[t] = Front(stack[t]) /\ Front(stack[t]) \in Seq(Signals)
      /\ Len(stack'[t]) = n /\ \A i \in 1 .. n : stack'[t][i] = stack[t][i]
      /\ \A u \in Threads \ {t} : stack'[u] = stack[u]
  BY <1>1, FrontTyped DEF StackInv, Types
<1>3. stack[t][n + 1] = s
  BY <1>1 DEF Last
<1>4. \A u \in Threads : stack[u] \in Seq(Signals)
  BY DEF StackInv, Types
<1> HIDE DEF n
<1>5. Len(stack[t]) = n + 1
  BY <1>1 DEF n
<1>6. HandlersOnce'
  BY <1>1, <1>2, <1>4, <1>5 DEF StackInv, HandlersOnce
<1>7. ToSet(stack'[t]) = ToSet(stack[t]) \ {s}
  BY <1>1, <1>2, <1>3, <1>5 DEF StackInv, HandlersOnce, ToSet
<1>8. \A u \in Threads \ {t} : s \notin ToSet(stack[u])
  BY <1>1, <1>3, <1>4, <1>5 DEF StackInv, HandlersOnce, ToSet
<1>9. HandlersOnStacks'
  BY <1>2, <1>7, <1>8 DEF StackInv, HandlersOnStacks
<1> QED
  BY <1>6, <1>9

LEMMA HandlerKeeps ==
  ASSUME StackInv, NEW s \in Signals, Handler(s)
  PROVE  HandlersOnce' /\ HandlersOnStacks'
<1> USE Names, ProgramAssumption
<1>0. Types /\ s \in Contexts
  BY DEF StackInv
<1>1. CASE Dispatches(s)
  <2>1. HandlersStay
    BY <1>0, <1>1 DEF Dispatches, Types, HandlersStay
  <2> QED
    BY <2>1, StackKept
<1>2. CASE WorkerCatches(s)
  <2>1. /\ worker \in Threads /\ worker \notin Signals /\ stack[worker] = <<s>>
        /\ stack' = [stack EXCEPT ![worker] = <<>>]
    BY <1>2 DEF WorkerCatches, Threads
  <2>2. s \in ToSet(stack[worker]) /\ s = Last(stack[worker]) /\ Front(stack[worker]) = <<>>
    BY <2>1 DEF ToSet, Last, Front
  <2>3. PICK p \in {"job", "leave"} : pos' = [pos EXCEPT ![s] = "none", ![worker] = p]
    BY <1>2 DEF WorkerCatches
  <2>4. pos'[s] = "none" /\ \A u \in Signals \ {s} : pos'[u] = "none" <=> pos[u] = "none"
    BY <1>0, <2>1, <2>3 DEF Types
  <2> QED
    BY <2>1, <2>2, <2>4, PopKeeps
<1>3. CASE HandlerStops(s)
  <2>1. HandlersStay
    BY <1>0, <1>3, MovesStay DEF HandlerStops
  <2> QED
    BY <2>1, StackKept
<1>4. CASE HandlerReturns(s)
  <2>1. PICK t \in Threads : stack[t] # <<>> /\ s = Last(stack[t])
    BY <1>0, <1>4, HandlerExecutes DEF HandlerReturns, Goes
  <2>2. stack[t] \in Seq(Signals) /\ Len(stack[t]) \in 1 .. Len(stack[t])
    BY <1>0, <2>1 DEF Types
  <2>3. s \in ToSet(stack[t])
    BY <2>1, <2>2 DEF Last, ToSet
  <2>4. ASSUME NEW u \in Threads, s \in ToSet(stack[u]) PROVE u = t
    <3>1. PICK i \in 1 .. Len(stack[u]) : stack[u][i] = s
      BY <1>0, <2>4 DEF Types, ToSet
    <3> QED
      BY <2>1, <2>2, <3>1 DEF Last, StackInv, HandlersOnce
  <2>5. stack' = [stack EXCEPT ![t] = Front(stack[t])]
    BY <1>0, <1>4, <2>3, <2>4 DEF HandlerReturns, Types
  <2>6. pos'[s] = "none" /\ \A u \in Signals \ {s} : pos'[u] = "none" <=> pos[u] = "none"
    BY <1>0, <1>4 DEF HandlerReturns, Goes, Types
  <2> QED
    BY <2>1, <2>3, <2>5, <2>6, PopKeeps
<1> QED
  BY <1>1, <1>2, <1>3, <1>4 DEF Handler

LEMMA StackInvInit == Init => StackInv
<1> SUFFICES ASSUME Init PROVE StackInv
  OBVIOUS
<1> USE Names, ProgramAssumption
<1>1. Types
  <2>1. stack \in [Threads -> Seq(Signals)]
    BY DEF Init
  <2>2. pos \in [Contexts -> Points]
    BY DEF Init
  <2>3. arrived \in 0 .. MaxSignals /\ holder \in Contexts \cup {None}
    BY DEF Init
  <2>4. installed \subseteq Signals /\ statics \subseteq Statics
    BY DEF Init, Statics
  <2> QED
    BY <2>1, <2>2, <2>3, <2>4 DEF Init, Types
<1>2. HandlersOnce
  BY DEF Init, HandlersOnce
<1>3. HandlersOnStacks
  <2>1. \A s \in Signals : s # main
    BY DEF Threads
  <2> QED
    BY <2>1 DEF Init, HandlersOnStacks, ToSet
<1> QED
  BY <1>1, <1>2, <1>3 DEF StackInv

LEMMA StackInvStep == StackInv /\ [Next]_vars => StackInv'
<1> SUFFICES ASSUME StackInv, [Next]_vars PROVE StackInv'
  OBVIOUS
<1>0. Types
  BY DEF StackInv
<1>1. HandlersOnce' /\ HandlersOnStacks'
  <2>1. CASE Main
    BY <1>0, <2>1, MainStays, StackKept
  <2>2. CASE WorkerThread \/ JobCloses \/ JobFails
    BY <1>0, <2>2, WorkerStays, StackKept
  <2>7. CASE Arbiter \/ Wakes
    BY <1>0, <2>7, ArbiterStays, StackKept
  <2>3. ASSUME NEW s \in Signals, NEW t \in Threads, Arrives(s, t)
        PROVE  HandlersOnce' /\ HandlersOnStacks'
    BY <2>3, ArrivesKeeps
  <2>4. ASSUME NEW s \in Signals, Handler(s)
        PROVE  HandlersOnce' /\ HandlersOnStacks'
    BY <2>4, HandlerKeeps
  <2>5. ASSUME NEW c \in Contexts, Context(c)
        PROVE  HandlersOnce' /\ HandlersOnStacks'
    BY <1>0, <2>5, ContextStays, StackKept
  <2>6. CASE UNCHANGED vars
    BY <2>6, StackKept DEF vars, HandlersStay
  <2> QED
    BY <2>1, <2>2, <2>3, <2>4, <2>5, <2>6, <2>7 DEF Next
<1> QED
  BY <1>0, <1>1, TypesInductive DEF StackInv

LEMMA StackInvHolds == Spec => []StackInv
BY StackInvInit, StackInvStep, PTL DEF Spec

\* Every variable keeps its type, and the handlers that execute are those on the
\* stacks of the threads they interrupt (linux.cpp:56-58, main.cpp:103-109).
THEOREM ProgramTyping == Spec => []TypeOK
<1>1. StackInv => TypeOK
  BY DEF StackInv, Types, HandlersOnStacks, TypeOK
<1> QED
  BY <1>1, StackInvHolds, PTL

--------------------------------------------------------------------------------

\* Where main is before there is an arbiter.
Beginning ==
  {"init", "keepINT", "installINT", "keepTERM", "growTERM", "installTERM", "fps", "warn",
   "start", "detach", "launch", "spawn"}

\* The log goes only at the very end, main goes on only when the arbiter has ended,
\* which ends after it has stopped the worker; a worker that it no longer waits for is
\* past its last job.  Nothing interrupts a thread that has ended.
EndInv ==
  /\ "logger" \in statics \/ pos[main] \in {"init", "unwind"}
  /\ pos[main] \in Beginning => pos[arbiter] = "none"
  /\ pos[main] \in {"farewell", "quit", "unwind"} => pos[arbiter] = "ended"
  /\ pos[arbiter] \in {"raise", "await", "ended"} => ~live
  /\ pos[arbiter] = "ended" \/ (pos[arbiter] = "await" /\ ~awake) =>
       pos[worker] \in {"frames", "leave", "parting", "ended"}
  /\ \A t \in {arbiter, worker} : pos[t] = "ended" => stack[t] = <<>>

LEMMA EndInvInit == Init => EndInv
BY ProgramAssumption, Names DEF Init, EndInv, Threads, Beginning

LEMMA EndInvStep == StackInv /\ EndInv /\ [Next]_vars => EndInv'
<1> SUFFICES ASSUME StackInv, EndInv, [Next]_vars PROVE EndInv'
  OBVIOUS
<1> USE Names, ProgramAssumption
<1>0. /\ Types /\ pos \in [Contexts -> Points] /\ stack \in [Threads -> Seq(Signals)]
      /\ main \in Threads /\ arbiter \in Threads /\ worker \in Threads
      /\ main \notin Signals /\ arbiter \notin Signals /\ worker \notin Signals
  BY DEF StackInv, Types, Threads
<1>1. CASE Main
  <2>1. CASE LogInit
    BY <1>0, <2>1 DEF LogInit, EndInv, Goes, Beginning
  <2>2. CASE KeepInt \/ InstallInt \/ KeepTerm \/ GrowTerm \/ InstallTerm \/ SetFps
    BY <1>0, <2>2 DEF KeepInt, InstallInt, KeepTerm, GrowTerm, InstallTerm, SetFps, EndInv, Goes,
       Beginning
  <2>3. CASE Launch \/ Start
    BY <1>0, <2>3 DEF Launch, Start, EndInv, Beginning
  <2>6. CASE Detach \/ Activate
    BY <1>0, <2>6 DEF Detach, Activate, EndInv, Goes, Beginning
  <2>7. CASE StartFails
    BY <1>0, <2>7 DEF StartFails, EndInv, Goes, Beginning
  <2>4. CASE Joined \/ Quit
    BY <1>0, <2>4 DEF Joined, Quit, EndInv, Goes, Beginning
  <2>5. CASE Unwind
    BY <1>0, <2>5 DEF Unwind, EndInv
  <2> QED
    BY <1>1, <2>1, <2>2, <2>3, <2>4, <2>5, <2>6, <2>7 DEF Main
<1>2. CASE WorkerThread \/ JobCloses \/ JobFails
  <2>1. CASE Hurries
    BY <1>0, <2>1 DEF Hurries, EndInv, Goes
  <2>2. CASE Waits
    BY <1>0, <2>2 DEF Waits, EndInv, Goes
  <2>3. CASE Rises
    BY <1>0, <2>3 DEF Rises, EndInv, Goes
  <2>4. CASE JobReturns
    BY <1>0, <2>4 DEF JobReturns, EndInv, Goes
  <2>5. CASE JobCloses
    BY <1>0, <2>5 DEF JobCloses, EndInv, Goes
  <2>6. CASE JobFails
    BY <1>0, <2>6 DEF JobFails, EndInv, Goes
  <2>7. CASE Leaves
    BY <1>0, <2>7 DEF Leaves, EndInv, Goes
  <2>8. CASE Parts
    <3>1. CASE UNCHANGED pos
      BY <2>8, <3>1 DEF Parts, EndInv
    <3>2. CASE Goes(worker, "parting", "ended")
      <4>1. stack[worker] = <<>>
        BY <1>0, <3>2, ThreadExecutes DEF Goes
      <4> QED
        BY <1>0, <2>8, <3>2, <4>1 DEF Parts, EndInv, Goes
    <3> QED
      BY <2>8, <3>1, <3>2 DEF Parts
  <2> QED
    BY <1>2, <2>1, <2>2, <2>3, <2>4, <2>5, <2>6, <2>7, <2>8 DEF WorkerThread
<1>3. CASE Arbiter \/ Wakes
  <2>1. CASE FrameBegins \/ FrameWaits \/ FrameEnds
    BY <1>0, <2>1 DEF FrameBegins, FrameWaits, FrameEnds, EndInv, Goes
  <2>2. CASE Wakes
    BY <1>0, <2>2 DEF Wakes, EndInv, Goes
  <2>3. CASE Stops
    BY <1>0, <2>3 DEF Stops, EndInv, Goes
  <2>4. CASE Raises
    BY <1>0, <2>4 DEF Raises, EndInv, Goes
  <2>5. CASE Reaps
    <3>1. CASE UNCHANGED pos
      BY <2>5, <3>1 DEF Reaps, EndInv
    <3>2. CASE Goes(arbiter, "await", "ended")
      <4>1. stack[arbiter] = <<>>
        BY <1>0, <3>2, ThreadExecutes DEF Goes
      <4> QED
        BY <1>0, <2>5, <3>2, <4>1 DEF Reaps, EndInv, Goes
    <3> QED
      BY <2>5, <3>1, <3>2 DEF Reaps
  <2> QED
    BY <1>3, <2>1, <2>2, <2>3, <2>4, <2>5 DEF Arbiter
<1>4. ASSUME NEW s \in Signals, NEW t \in Threads, Arrives(s, t)
      PROVE  EndInv'
  BY <1>0, <1>4 DEF Arrives, EndInv
<1>5. ASSUME NEW s \in Signals, Handler(s)
      PROVE  EndInv'
  <2>1. CASE Dispatches(s)
    BY <1>0, <2>1 DEF Dispatches, EndInv
  <2>2. CASE WorkerCatches(s)
    BY <1>0, <2>2 DEF WorkerCatches, EndInv
  <2>3. CASE HandlerStops(s)
    BY <1>0, <2>3 DEF HandlerStops, EndInv, Goes
  <2>4. CASE HandlerReturns(s)
    <3>1. \A t \in {arbiter, worker} : stack[t] = <<>> => stack'[t] = <<>>
      BY <1>0, <2>4 DEF HandlerReturns, ToSet
    <3> QED
      BY <1>0, <2>4, <3>1 DEF HandlerReturns, EndInv, Goes
  <2> QED
    BY <1>5, <2>1, <2>2, <2>3, <2>4 DEF Handler
<1>6. ASSUME NEW c \in Contexts, Context(c)
      PROVE  EndInv'
  <2>1. CASE LogLocks(c) \/ Dumps(c)
    BY <2>1 DEF LogLocks, Dumps, EndInv
  <2>2. CASE LogWrites(c)
    <3>1. \/ pos[c] = "warn" /\ After[pos[c]] = "start"
          \/ pos[c] = "farewell" /\ After[pos[c]] = "quit"
          \/ pos[c] \in {"note", "fatal", "reason", "report"}
             /\ After[pos[c]] \in {"stop", "reason", "box", "dump"}
      BY <2>2 DEF LogWrites, Logging, After
    <3>2. PICK q : q = After[pos[c]]
      OBVIOUS
    <3>3. pos' = [pos EXCEPT ![c] = q] /\ UNCHANGED <<stack, statics, live, awake>>
      BY <2>2, <3>2 DEF LogWrites, Goes
    <3> QED
      BY <1>0, <3>1, <3>2, <3>3 DEF EndInv, Beginning
  <2>3. CASE BoxAnswered(c)
    <3>1. PICK q \in {"report", "dump"} : pos' = [pos EXCEPT ![c] = q]
      BY <2>3 DEF BoxAnswered, Goes
    <3>2. pos[c] = "box" /\ UNCHANGED <<stack, statics, live, awake>>
      BY <2>3 DEF BoxAnswered, Goes
    <3> QED
      BY <1>0, <3>1, <3>2 DEF EndInv, Beginning
  <2> QED
    BY <1>6, <2>1, <2>2, <2>3 DEF Context
<1>7. CASE UNCHANGED vars
  BY <1>7 DEF vars, EndInv
<1> QED
  BY <1>1, <1>2, <1>3, <1>4, <1>5, <1>6, <1>7 DEF Next

\* The log outlives the arbiter and the last job, however many signals interrupt whom;
\* only a handler on main's own stack, or on that of a worker's thread that outlives
\* stop(), can still find it gone (main.cpp:111-135, worker.cpp:63-68, 121,
\* logger.cpp:12-16).
THEOREM LogIsDestroyedLast == Spec => []LogOutlivesUsers
<1>1. StackInv /\ EndInv => LogOutlivesUsers
  <2> SUFFICES ASSUME StackInv, EndInv, "logger" \notin statics, pos[main] # "init"
               PROVE  /\ pos[arbiter] = "ended"
                      /\ pos[worker] \in {"frames", "leave", "parting", "ended"} /\ ~live
                      /\ \A s \in Signals : pos[s] # "none" =>
                           \/ s \in ToSet(stack[main])
                           \/ pos[worker] # "ended" /\ s \in ToSet(stack[worker])
    BY DEF LogOutlivesUsers
  <2>1. /\ pos[arbiter] = "ended" /\ ~live
        /\ pos[worker] \in {"frames", "leave", "parting", "ended"}
    BY DEF EndInv
  <2>2. ASSUME NEW s \in Signals, pos[s] # "none"
        PROVE  \/ s \in ToSet(stack[main])
               \/ pos[worker] # "ended" /\ s \in ToSet(stack[worker])
    <3>1. PICK t \in Threads : s \in ToSet(stack[t])
      BY <2>2 DEF StackInv, HandlersOnStacks
    <3>2. stack[t] # <<>>
      BY <3>1 DEF ToSet
    <3> QED
      BY <2>1, <3>1, <3>2 DEF EndInv, Threads
  <2> QED
    BY <2>1, <2>2
<1> QED
  BY <1>1, EndInvInit, EndInvStep, StackInvHolds, PTL DEF Spec

================================================================================
