---------------------------- MODULE LifecycleProofs ----------------------------
(***************************************************************************)
(* Theorems about the life of a sched::runner, for any number of cores, of *)
(* workers, of ids and of jobs in a frame, any arguments of start(), any   *)
(* number of calls of the two threads outside and of arbiters.             *)
(***************************************************************************)
EXTENDS Lifecycle, FiniteSetTheorems, TLAPS

(* The helpers *)

\* Every nonempty set of natural numbers has a least element: of the sets of
\* smaller elements of a finite part of it, one is minimal.
LEMMA HasLeast ==
  ASSUME NEW S \in SUBSET Nat, S # {}
  PROVE  \E x \in S : \A y \in S : x <= y
<1>0. \A y \in S : y \in Nat
  OBVIOUS
<1>1. PICK s \in S : s \in Nat
  BY <1>0
<1> DEFINE T        == {y \in S : y <= s}
           Below(x) == {y \in T : y < x}
           Belows   == {Below(x) : x \in T}
<1>2. IsFiniteSet(T) /\ s \in T /\ T \subseteq S
  <2>1. IsFiniteSet(0 .. s)
    <3>1. 0 \in Int /\ s \in Int
      BY <1>1
    <3> QED BY <3>1, FS_Interval
  <2>2. T \subseteq 0 .. s
    <3>1. \A y \in T : y \in Nat /\ y <= s
      BY <1>0
    <3>2. \A y \in Nat : y <= s => y \in 0 .. s
      BY <1>1
    <3> HIDE DEF T
    <3> QED BY <3>1, <3>2
  <2>3. IsFiniteSet(T)
    <3> HIDE DEF T
    <3> QED BY <2>1, <2>2, FS_Subset
  <2> QED BY <1>1, <2>3
<1> HIDE DEF T
<1>3. /\ IsWellFoundedOn(StrictSubsetOrdering(T), SUBSET T)
      /\ Belows \subseteq SUBSET T /\ Belows # {}
  <2>1. IsWellFoundedOn(StrictSubsetOrdering(T), SUBSET T)
    <3>1. FiniteSubsetsOf(T) = SUBSET T
      BY <1>2, FS_FiniteSubsetsOfFinite
    <3>2. IsWellFoundedOn(StrictSubsetOrdering(T), FiniteSubsetsOf(T))
      BY FS_StrictSubsetOrderingWellFounded
    <3> QED BY <3>1, <3>2
  <2>2. Belows \subseteq SUBSET T /\ Belows # {}
    BY <1>2
  <2> QED BY <2>1, <2>2
<1>4. \E b \in Belows : \A c \in Belows : <<c, b>> \notin StrictSubsetOrdering(T)
  <2> HIDE DEF Belows
  <2> QED BY <1>3, WFMin
<1>5. PICK x \in T : \A y \in T : <<Below(y), Below(x)>> \notin StrictSubsetOrdering(T)
  BY <1>4
<1>6. ASSUME NEW y \in T, y < x
      PROVE  FALSE
  <2>1. Below(y) \subseteq Below(x) /\ y \in Below(x) /\ y \notin Below(y)
    <3>1. x \in Nat /\ y \in Nat /\ \A z \in T : z \in Nat
      BY <1>0, <1>2
    <3>2. \A z \in T : z < y => z < x
      BY <1>6, <3>1
    <3>3. ~(y < y)
      BY <3>1
    <3> QED BY <1>6, <3>2, <3>3
  <2> QED BY <1>5, <2>1 DEF StrictSubsetOrdering
<1>7. x \in S /\ x <= s /\ \A y \in S : x <= y
  BY <1>0, <1>1, <1>2, <1>6 DEF T
<1> QED BY <1>7

LEMMA MinIsIn ==
  ASSUME NEW S \in SUBSET Nat, S # {}
  PROVE  Min(S) \in S
BY HasLeast DEF Min

LEMMA UpDownType ==
  ASSUME NEW n \in Ids
  PROVE  Up(n) \in Ids /\ Down(n) \in Ids
BY PoolAssumption DEF PoolAssumption, Ids, Up, Down

LEMMA UpIsNext ==
  ASSUME NEW n \in Ids, n + 1 < IdSpace
  PROVE  Up(n) = n + 1
BY PoolAssumption DEF PoolAssumption, Ids, Up

LEMMA DownIsPrevious ==
  ASSUME NEW n \in Ids, n # 0
  PROVE  Down(n) = n - 1
BY PoolAssumption DEF PoolAssumption, Ids, Down

\* The callers are the two threads outside and the arbiters, all different.
LEMMA CallersKnown ==
  /\ Owner \in Clients /\ Other \in Clients /\ Owner # Other
  /\ Clients \cap Arbiters = {} /\ Callers = Clients \cup Arbiters
  /\ None \notin Objects /\ None \notin Callers
  /\ Objects \subseteq Nat /\ Cores \subseteq Nat
BY LifecycleAssumption, PoolAssumption DEF LifecycleAssumption, PoolAssumption, Clients

-------------------------------------------------------------------------------
(* Types *)

Points == ClientPoints \cup ArbiterPoints \cup Pushing \cup Popping

\* The values of the pool's variables, and of the others.
PoolTyped ==
  /\ counter \in Ids
  /\ DOMAIN pool \subseteq Ids /\ \A i \in DOMAIN pool : pool[i] \in Objects
  /\ holder \in Callers \cup {None}
  /\ unused \in SUBSET Cores
  /\ thread \in [Objects -> Stages \cup {"unborn", "freed"}]
  /\ live \in [Objects -> BOOLEAN] /\ awake \in [Objects -> BOOLEAN]
  /\ id \in [Callers -> Ids]
  /\ core \in [Callers -> Cores \cup {None}]
  /\ obj \in [Callers -> Objects \cup {None}]
  /\ crashed \in {"no", "terminated", "dangling", "orphaned"}
  /\ thrown \in BOOLEAN /\ overtaken \in BOOLEAN /\ emptied \in BOOLEAN

RunnerTyped ==
  /\ active \in BOOLEAN /\ floating \in BOOLEAN
  /\ left \in Ids /\ launched \in Arbiters \cup {None}
  /\ nextId \in [Arbiters -> Ids] /\ waitId \in [Arbiters -> Ids]
  /\ todo \in [Arbiters -> 0 .. Batch]
  /\ calls \in 0 .. MaxCalls /\ dying \in BOOLEAN
  /\ meddled \in BOOLEAN /\ skipped \in BOOLEAN /\ twice \in BOOLEAN
  /\ unwaited \in BOOLEAN

\* Where each thread can be.
PlacesTyped ==
  /\ at \in [Callers -> Points]
  /\ \A t \in Clients  : at[t] \in ClientPoints \cup Pushing \cup Popping
  /\ \A a \in Arbiters : at[a] \in ArbiterPoints \cup Popping
  /\ at[Owner] \notin Popping /\ at[Other] # "pushing"

\* Who is about to insert an object has made one, and an arbiter looks for a
\* worker only when a job is left.
Prepared ==
  /\ \A t \in Callers : at[t] = "insert" => obj[t] \in Objects
  /\ \A a \in Arbiters : at[a] = "find" => todo[a] > 0

Typed == PoolTyped /\ RunnerTyped /\ PlacesTyped /\ Prepared

LEMMA TypedIsTypeOK == Typed => TypeOK
<1> SUFFICES ASSUME Typed PROVE TypeOK
  OBVIOUS
<1>1. Range(pool) \subseteq Objects
  BY DEF Typed, PoolTyped, Range
<1>2. PoolTypeOK
  <2>1. <<thrown, overtaken, emptied>> \in BOOLEAN \X BOOLEAN \X BOOLEAN
    BY DEF Typed, PoolTyped
  <2> QED BY <1>1, <2>1 DEF Typed, PoolTyped, PoolTypeOK
<1>3. lifeHistory \in BOOLEAN \X BOOLEAN \X BOOLEAN \X BOOLEAN
  BY DEF Typed, RunnerTyped, lifeHistory
<1> QED BY <1>2, <1>3 DEF Typed, RunnerTyped, PlacesTyped, TypeOK

LEMMA TypedStart == Init => Typed
<1> SUFFICES ASSUME Init PROVE Typed
  OBVIOUS
<1>1. PoolTyped
  <2>1. 0 \in Ids
    BY PoolAssumption DEF PoolAssumption, Ids
  <2>2. /\ counter \in Ids /\ DOMAIN pool \subseteq Ids
        /\ \A i \in DOMAIN pool : pool[i] \in Objects
        /\ holder \in Callers \cup {None} /\ unused \in SUBSET Cores
    BY <2>1 DEF Init, PoolInit
  <2>3. /\ thread \in [Objects -> Stages \cup {"unborn", "freed"}]
        /\ id \in [Callers -> Ids] /\ crashed \in {"no", "terminated", "dangling", "orphaned"}
        /\ core \in [Callers -> Cores \cup {None}] /\ obj \in [Callers -> Objects \cup {None}]
    BY <2>1 DEF Init, PoolInit
  <2>4. /\ live \in [Objects -> BOOLEAN] /\ awake \in [Objects -> BOOLEAN]
    BY DEF Init, PoolInit
  <2>5. thrown \in BOOLEAN /\ overtaken \in BOOLEAN /\ emptied \in BOOLEAN
    BY DEF Init, PoolInit
  <2> QED BY <2>2, <2>3, <2>4, <2>5 DEF PoolTyped
<1>2. RunnerTyped
  <2>1. 0 \in Ids /\ 0 \in 0 .. Batch /\ 0 \in 0 .. MaxCalls
    BY PoolAssumption, LifecycleAssumption DEF PoolAssumption, LifecycleAssumption, Ids
  <2>2. /\ left \in Ids /\ launched \in Arbiters \cup {None}
        /\ nextId \in [Arbiters -> Ids] /\ waitId \in [Arbiters -> Ids]
        /\ todo \in [Arbiters -> 0 .. Batch] /\ calls \in 0 .. MaxCalls
    BY <2>1 DEF Init
  <2>3. active \in BOOLEAN /\ floating \in BOOLEAN /\ dying \in BOOLEAN
    BY DEF Init
  <2>4. /\ meddled \in BOOLEAN /\ skipped \in BOOLEAN /\ twice \in BOOLEAN
        /\ unwaited \in BOOLEAN
    BY DEF Init
  <2> QED BY <2>2, <2>3, <2>4 DEF RunnerTyped
<1>3. PlacesTyped /\ Prepared
  BY CallersKnown
  DEF Init, PlacesTyped, Prepared, Points, ClientPoints, ArbiterPoints, Popping
<1> QED BY <1>1, <1>2, <1>3 DEF Typed

\* What a step from one point to another does.
LEMMA Moves ==
  ASSUME PlacesTyped, NEW t \in Callers, NEW from, NEW to, Goes(t, from, to)
  PROVE  /\ at[t] = from /\ at'[t] = to /\ DOMAIN at' = Callers
         /\ \A u \in Callers \ {t} : at'[u] = at[u]
         /\ to \in Points => at' \in [Callers -> Points]
BY DEF PlacesTyped, Goes

\* Every step, flat.
LEMMA EveryStep ==
  ASSUME Next
  PROVE  \/ StartBegin \/ StartLaunches \/ StartPins \/ StartJoins \/ Destroys
         \/ StartPushes \/ Pushes \/ Pops
         \/ \E t \in Clients : \/ StopBegins(t) \/ StopWaits(t) \/ StopWakesSpuriously(t)
                               \/ Signals(t)
         \/ \E t \in Callers : Continues(t)
         \/ \E a \in Arbiters :
              \/ FrameBegins(a) \/ TakesTurn(a) \/ Assigns(a) \/ Drops(a) \/ Retries(a)
              \/ BarrierBegins(a) \/ BarrierFinds(a) \/ BarrierPasses(a) \/ FrameEnds(a)
              \/ FramesStop(a) \/ PopsNext(a) \/ Reports(a)
         \/ \E o \in Objects : Works(o)
BY DEF Next, Arbiter, ClientContinues, ClientBegins

\* A step of push_worker or pop_worker, wherever it goes on.
PoolStep(t) ==
  \E to \in Points :
    \/ t \in Clients /\ PushThrows(t, to)
    \/ t \in Clients /\ PushChoose(t)
    \/ t \in Clients /\ PushConstruct(t)
    \/ t \in Clients /\ PushInsert(t, to)
    \/ t \in Clients /\ PushClashes(t)
    \/ PopNone(t, to) \/ PopNull(t, to) \/ PopTake(t) \/ PopRaise(t) \/ PopDestroy(t, to)

poolState == <<poolVars, workerVars, callVars, poolHistory>>

LEMMA PoolStepTyped ==
  ASSUME PoolTyped, Prepared, NEW t \in Callers, PoolStep(t)
  PROVE  PoolTyped'
<1>0. PICK to \in Points :
        \/ t \in Clients /\ PushThrows(t, to)
        \/ t \in Clients /\ PushChoose(t)
        \/ t \in Clients /\ PushConstruct(t)
        \/ t \in Clients /\ PushInsert(t, to)
        \/ t \in Clients /\ PushClashes(t)
        \/ PopNone(t, to) \/ PopNull(t, to) \/ PopTake(t) \/ PopRaise(t) \/ PopDestroy(t, to)
  BY DEF PoolStep
<1>1. CASE PushThrows(t, to)
  BY <1>1 DEF PushThrows, PoolTyped, poolVars, workerVars, callVars
<1>2. CASE PushChoose(t)
  <2>1. Min(unused) \in Cores
    BY <1>2, MinIsIn, CallersKnown DEF PushChoose, PoolTyped
  <2> QED BY <1>2, <2>1 DEF PushChoose, PoolTyped, poolVars, workerVars, poolHistory
<1>3. CASE PushConstruct(t)
  <2>1. Min({o \in Objects : thread[o] = "unborn"}) \in Objects
    BY <1>3, MinIsIn, CallersKnown DEF PushConstruct
  <2>2. /\ thread' \in [Objects -> Stages \cup {"unborn", "freed"}]
        /\ obj' \in [Callers -> Objects \cup {None}]
    BY <1>3, <2>1 DEF PushConstruct, PoolTyped, Stages
  <2> QED BY <1>3, <2>1, <2>2 DEF PushConstruct, PoolTyped, poolHistory
<1>4. CASE PushInsert(t, to)
  <2>1. /\ obj[t] \in Objects /\ id[t] \in Ids
        /\ pool' = [i \in DOMAIN pool \cup {id[t]} |-> IF i = id[t] THEN obj[t] ELSE pool[i]]
    BY <1>4 DEF PushInsert, Prepared, PoolTyped, Goes
  <2>2. DOMAIN pool' \subseteq Ids /\ \A i \in DOMAIN pool' : pool'[i] \in Objects
    BY <2>1 DEF PoolTyped
  <2>3. live' \in [Objects -> BOOLEAN]
    BY <1>4 DEF PushInsert, PoolTyped
  <2> QED BY <1>4, <2>2, <2>3 DEF PushInsert, PoolTyped, callVars, poolHistory
<1>5. CASE PushClashes(t)
  BY <1>5 DEF PushClashes, PoolTyped, poolVars, workerVars, callVars
<1>6. CASE PopNone(t, to)
  BY <1>6 DEF PopNone, PoolTyped, poolVars, workerVars, callVars
<1>7. CASE PopNull(t, to)
  <2>1. overtaken' \in BOOLEAN
    BY <1>7 DEF PopNull
  <2> QED BY <1>7, <2>1 DEF PopNull, PoolTyped, poolVars, workerVars, callVars
<1>8. CASE PopTake(t)
  <2>1. live' \in [Objects -> BOOLEAN]
    BY <1>8 DEF PopTake, PoolTyped
  <2>2. DOMAIN pool' \subseteq Ids /\ \A i \in DOMAIN pool' : pool'[i] \in Objects
    BY <1>8 DEF PopTake, PoolTyped, Restrict
  <2>3. obj' \in [Callers -> Objects \cup {None}]
    BY <1>8 DEF PopTake, PoolTyped
  <2> QED BY <1>8, <2>1, <2>2, <2>3 DEF PopTake, PoolTyped, poolHistory
<1>9. CASE PopRaise(t)
  <2>1. awake' \in [Objects -> BOOLEAN]
    BY <1>9 DEF PopRaise, PoolTyped
  <2> QED BY <1>9, <2>1 DEF PopRaise, PoolTyped, poolVars, callVars, poolHistory
<1>10. CASE PopDestroy(t, to)
  <2>1. thread' \in [Objects -> Stages \cup {"unborn", "freed"}]
    BY <1>10 DEF PopDestroy, PoolTyped
  <2>2. crashed' \in {"no", "terminated", "dangling", "orphaned"}
    BY <1>10 DEF PopDestroy, PoolTyped
  <2> QED BY <1>10, <2>1, <2>2 DEF PopDestroy, PoolTyped, callVars
<1> QED BY <1>0, <1>1, <1>2, <1>3, <1>4, <1>5, <1>6, <1>7, <1>8, <1>9, <1>10

\* Where a step of push_worker or pop_worker starts and ends.
LEMMA ContinuesIsPoolStep ==
  ASSUME NEW t \in Callers, Continues(t)
  PROVE  PoolStep(t) /\ UNCHANGED <<startVars, arbiterVars, calls, dying, lifeHistory>>
BY DEF Continues, PoolStep, Pushed, Popped, Points, ClientPoints, ArbiterPoints

\* What push_worker and pop_worker do first.
LEMMA CountTyped ==
  ASSUME PoolTyped, NEW t \in Callers, NEW from, PushCount(t, from) \/ PopCount(t, from)
  PROVE  PoolTyped'
<1>1. counter' \in Ids /\ id' \in [Callers -> Ids]
  BY UpDownType DEF PushCount, PopCount, PoolTyped
<1> QED BY <1>1 DEF PushCount, PopCount, PoolTyped, workerVars, poolHistory

LEMMA WorkerTyped ==
  ASSUME PoolTyped, NEW o \in Objects, WorkerThread(o)
  PROVE  PoolTyped' /\ UNCHANGED <<at, live, poolVars, callVars, poolHistory>>
<1>1. live[o] \in BOOLEAN
  BY DEF PoolTyped
<1>2. thread' \in [Objects -> Stages \cup {"unborn", "freed"}]
  BY DEF WorkerThread, Hurries, Waits, Rises, Clears, Parts, Steps, PoolTyped, Stages
<1>4. UNCHANGED <<at, live, poolVars, callVars, poolHistory>>
  BY DEF WorkerThread, Hurries, Waits, Rises, Clears, Parts
<1>3. awake' \in [Objects -> BOOLEAN]
  BY <1>1 DEF WorkerThread, Hurries, Waits, Rises, Clears, Parts, Steps, PoolTyped
<1> QED BY <1>2, <1>3, <1>4 DEF PoolTyped, poolVars, callVars, poolHistory

LEMMA PoolTypedStep ==
  ASSUME Typed, Next
  PROVE  PoolTyped'
<1>1. ASSUME UNCHANGED poolState
      PROVE  PoolTyped'
  BY <1>1 DEF Typed, PoolTyped, poolState, poolVars, workerVars, callVars, poolHistory
<1>2. CASE \/ StartBegin \/ StartLaunches \/ StartJoins \/ Destroys
  BY <1>1, <1>2 DEF StartBegin, StartLaunches, StartJoins, Destroys, poolState
<1>3. CASE \E t \in Clients : \/ StopBegins(t) \/ StopWaits(t) \/ StopWakesSpuriously(t)
                              \/ Signals(t)
  BY <1>1, <1>3 DEF StopBegins, StopWaits, StopWakesSpuriously, Signals, poolState
<1>4. CASE StartPins
  BY <1>4 DEF StartPins, Typed, PoolTyped, workerVars, callVars
<1>5. CASE StartPushes \/ Pushes \/ Pops \/ \E a \in Arbiters : PopsNext(a)
  BY <1>5, CountTyped, CallersKnown DEF StartPushes, Pushes, Pops, PopsNext, Typed
<1>6. CASE \E t \in Callers : Continues(t)
  BY <1>6, ContinuesIsPoolStep, PoolStepTyped DEF Typed
<1>7. CASE \E o \in Objects : Works(o)
  BY <1>7, WorkerTyped DEF Works, Typed
<1>8. ASSUME NEW a \in Arbiters,
             \/ FrameBegins(a) \/ TakesTurn(a) \/ Drops(a) \/ BarrierBegins(a)
             \/ FrameEnds(a) \/ FramesStop(a) \/ Reports(a)
      PROVE  PoolTyped'
  BY <1>1, <1>8 DEF FrameBegins, TakesTurn, Drops, BarrierBegins, FrameEnds, FramesStop,
                    Reports, poolState
<1>9. ASSUME NEW a \in Arbiters, Assigns(a)
      PROVE  PoolTyped'
  <2>1. awake' \in [Objects -> BOOLEAN]
    BY <1>9 DEF Assigns, Typed, PoolTyped
  <2> QED BY <1>9, <2>1 DEF Assigns, Typed, PoolTyped, poolVars, callVars, poolHistory
<1>10. ASSUME NEW a \in Arbiters, Retries(a)
       PROVE  PoolTyped'
  BY <1>10, CallersKnown
  DEF Retries, Typed, PoolTyped, workerVars, callVars, poolHistory
<1>11. ASSUME NEW a \in Arbiters, BarrierFinds(a)
       PROVE  PoolTyped'
  BY <1>11, CallersKnown
  DEF BarrierFinds, Typed, PoolTyped, workerVars, poolVars, poolHistory
<1>12. ASSUME NEW a \in Arbiters, BarrierPasses(a)
       PROVE  PoolTyped'
  BY <1>12 DEF BarrierPasses, Typed, PoolTyped, workerVars, callVars, poolVars
<1> QED BY <1>2, <1>3, <1>4, <1>5, <1>6, <1>7, <1>8, <1>9, <1>10, <1>11, <1>12, EveryStep

LEMMA RunnerTypedStep ==
  ASSUME Typed, Next
  PROVE  RunnerTyped'
<1>1. ASSUME UNCHANGED <<startVars, arbiterVars, calls, dying, lifeHistory>>
      PROVE  RunnerTyped'
  BY <1>1 DEF Typed, RunnerTyped, startVars, arbiterVars, lifeHistory
<1>2. CASE StartBegin
  <2>1. calls' \in 0 .. MaxCalls
    BY <1>2, LifecycleAssumption
    DEF StartBegin, Call, Typed, RunnerTyped, LifecycleAssumption
  <2>2. PICK s \in Starts : /\ floating' = s.floating
                            /\ left' = IF s.floating THEN Down(s.count) ELSE s.count
    BY <1>2 DEF StartBegin
  <2>3. s.floating \in BOOLEAN /\ s.count \in Ids
    BY LifecycleAssumption DEF LifecycleAssumption
  <2>4. floating' \in BOOLEAN /\ left' \in Ids
    BY <2>2, <2>3, UpDownType
  <2>5. meddled' \in BOOLEAN
    BY <1>2 DEF StartBegin
  <2> QED BY <1>2, <2>1, <2>4, <2>5 DEF StartBegin, arbiterVars, Typed, RunnerTyped
<1>3. CASE StartPushes
  <2>1. left' \in Ids
    BY <1>3, PoolAssumption DEF StartPushes, Typed, RunnerTyped, Ids, PoolAssumption
  <2> QED BY <1>3, <2>1 DEF StartPushes, Typed, RunnerTyped, arbiterVars, lifeHistory
<1>4. CASE StartLaunches
  <2>1. launched' \in Arbiters /\ nextId' \in [Arbiters -> Ids]
    BY <1>4, PoolAssumption DEF StartLaunches, Typed, RunnerTyped, Ids, PoolAssumption
  <2>2. twice' \in BOOLEAN /\ active' \in BOOLEAN /\ unwaited' \in BOOLEAN
    BY <1>4 DEF StartLaunches
  <2> QED BY <1>4, <2>1, <2>2 DEF StartLaunches, Typed, RunnerTyped
<1>5. CASE StartPins \/ StartJoins
  BY <1>1, <1>5 DEF StartPins, StartJoins
<1>6. CASE Destroys \/ \E t \in Clients : StopBegins(t) \/ Signals(t)
  <2>1. calls' \in 0 .. MaxCalls
    BY <1>6, LifecycleAssumption
    DEF Destroys, StopBegins, Signals, Call, Typed, RunnerTyped, LifecycleAssumption
  <2>2. active' \in BOOLEAN /\ dying' \in BOOLEAN /\ unwaited' \in BOOLEAN
    BY <1>6 DEF Destroys, StopBegins, Signals, Typed, RunnerTyped, lifeHistory
  <2> QED BY <1>6, <2>1, <2>2
          DEF Destroys, StopBegins, Signals, Typed, RunnerTyped, arbiterVars, lifeHistory
<1>7. CASE Pushes \/ Pops
  <2>1. calls' \in 0 .. MaxCalls
    BY <1>7, LifecycleAssumption
    DEF Pushes, Pops, Meddles, Typed, RunnerTyped, LifecycleAssumption
  <2>2. meddled' \in BOOLEAN
    BY <1>7 DEF Pushes, Pops, Meddles
  <2> QED BY <1>7, <2>1, <2>2
          DEF Pushes, Pops, Meddles, Typed, RunnerTyped, arbiterVars, startVars
<1>8. CASE \E t \in Clients : StopWaits(t) \/ StopWakesSpuriously(t)
  <2>1. unwaited' \in BOOLEAN
    BY <1>8 DEF StopWaits, StopWakesSpuriously, Typed, RunnerTyped, lifeHistory
  <2> QED BY <1>8, <2>1 DEF StopWaits, StopWakesSpuriously, Typed, RunnerTyped,
                            arbiterVars, startVars, lifeHistory
<1>9. CASE (\E t \in Callers : Continues(t)) \/ \E o \in Objects : Works(o)
  BY <1>1, <1>9 DEF Continues, Works
<1>10. ASSUME NEW a \in Arbiters
       PROVE  /\ Batch \in 0 .. Batch /\ 0 \in Ids
              /\ nextId[a] \in Ids /\ waitId[a] \in Ids /\ todo[a] \in 0 .. Batch
              /\ Up(nextId[a]) \in Ids /\ Up(waitId[a]) \in Ids
  <2>1. nextId[a] \in Ids /\ waitId[a] \in Ids /\ todo[a] \in 0 .. Batch
    BY DEF Typed, RunnerTyped
  <2> QED BY <2>1, UpDownType, LifecycleAssumption, PoolAssumption
          DEF LifecycleAssumption, PoolAssumption, Ids
<1>11. ASSUME NEW a \in Arbiters,
              \/ Retries(a) \/ BarrierFinds(a) \/ FrameEnds(a) \/ FramesStop(a)
              \/ PopsNext(a) \/ Reports(a)
       PROVE  RunnerTyped'
  BY <1>1, <1>11 DEF Retries, BarrierFinds, FrameEnds, FramesStop, PopsNext, Reports
<1>12. ASSUME NEW a \in Arbiters,
              FrameBegins(a) \/ TakesTurn(a) \/ BarrierBegins(a) \/ BarrierPasses(a)
       PROVE  RunnerTyped'
  <2>1. /\ todo' \in [Arbiters -> 0 .. Batch]
        /\ nextId' \in [Arbiters -> Ids] /\ waitId' \in [Arbiters -> Ids]
        /\ UNCHANGED <<startVars, calls, dying, lifeHistory>>
    BY <1>10, <1>12 DEF FrameBegins, TakesTurn, BarrierBegins, BarrierPasses, Typed, RunnerTyped
  <2> QED BY <2>1 DEF Typed, RunnerTyped, startVars, lifeHistory
<1>13. ASSUME NEW a \in Arbiters, Assigns(a) \/ Drops(a)
       PROVE  RunnerTyped'
  <2>1. todo[a] > 0
    BY <1>13, CallersKnown DEF Assigns, Drops, Goes, Typed, Prepared
  <2>2. todo[a] - 1 \in 0 .. Batch
    BY <1>10, <2>1
  <2>3. /\ todo' \in [Arbiters -> 0 .. Batch] /\ nextId' \in [Arbiters -> Ids]
        /\ UNCHANGED <<startVars, waitId, calls, dying, meddled, twice, unwaited>>
    BY <1>10, <1>13, <2>2 DEF Assigns, Drops, Typed, RunnerTyped, lifeHistory
  <2>4. skipped' \in BOOLEAN
    BY <1>13 DEF Assigns, Drops, Typed, RunnerTyped, lifeHistory
  <2> QED BY <2>3, <2>4 DEF Typed, RunnerTyped, startVars
<1> QED BY <1>2, <1>3, <1>4, <1>5, <1>6, <1>7, <1>8, <1>9, <1>11, <1>12, <1>13, EveryStep

\* Where a step takes its thread: client steps and arbiter steps.
LEMMA ClientPlaces ==
  ASSUME PlacesTyped, NEW t \in Clients, NEW from, Goes(t, from, at'[t]),
         at'[t] \in ClientPoints \cup Pushing \cup Popping,
         t = Owner => at'[t] \notin Popping, t = Other => at'[t] # "pushing"
  PROVE  PlacesTyped'
<1>1. /\ DOMAIN at' = Callers /\ \A u \in Callers \ {t} : at'[u] = at[u]
      /\ at' \in [Callers -> Points]
  <2>1. at'[t] \in Points
    BY DEF Points
  <2> QED BY <2>1, Moves, CallersKnown
<1> QED BY <1>1, CallersKnown DEF PlacesTyped

LEMMA ArbiterPlaces ==
  ASSUME PlacesTyped, NEW a \in Arbiters, NEW from, Goes(a, from, at'[a]),
         at'[a] \in ArbiterPoints \cup Popping
  PROVE  PlacesTyped'
<1>1. /\ DOMAIN at' = Callers /\ \A u \in Callers \ {a} : at'[u] = at[u]
      /\ at' \in [Callers -> Points]
  <2>1. at'[a] \in Points
    BY DEF Points
  <2> QED BY <2>1, Moves, CallersKnown
<1> QED BY <1>1, CallersKnown DEF PlacesTyped

LEMMA PlacesTypedStep ==
  ASSUME PlacesTyped, Next
  PROVE  PlacesTyped'
<1> USE CallersKnown DEF ClientPoints, ArbiterPoints, Pushing, Popping
<1>1. ASSUME UNCHANGED at
      PROVE  PlacesTyped'
  BY <1>1 DEF PlacesTyped
<1>2. ASSUME NEW t \in Clients, NEW from, NEW to, Goes(t, from, to),
             to \in ClientPoints \cup Pushing \cup Popping,
             t = Owner => to \notin Popping, t = Other => to # "pushing"
      PROVE  PlacesTyped'
  <2>1. at'[t] = to
    BY <1>2, Moves
  <2> QED BY <1>2, <2>1, ClientPlaces
<1>3. ASSUME NEW a \in Arbiters, NEW from, NEW to, Goes(a, from, to),
             to \in ArbiterPoints \cup Popping
      PROVE  PlacesTyped'
  <2>1. at'[a] = to
    BY <1>3, Moves
  <2> QED BY <1>3, <2>1, ArbiterPlaces
<1>4. CASE StartBegin \/ StartPins \/ StartJoins \/ Destroys \/ StartPushes
  <2>1. CASE StartBegin BY <1>2, <2>1 DEF StartBegin, Call
  <2>2. CASE StartPins BY <1>2, <2>2 DEF StartPins
  <2>3. CASE StartJoins BY <1>2, <2>3 DEF StartJoins
  <2>4. CASE Destroys BY <1>2, <2>4 DEF Destroys, Call
  <2>5. CASE StartPushes BY <1>2, <2>5 DEF StartPushes, PushCount
  <2> QED BY <1>4, <2>1, <2>2, <2>3, <2>4, <2>5
<1>5. CASE Pushes \/ Pops
  BY <1>2, <1>5 DEF Pushes, Pops, PushCount, PopCount
<1>6. CASE StartLaunches
  <2> DEFINE to == IF floating THEN "pin" ELSE "join"
  <2>1. PICK a \in Arbiters : at' = [at EXCEPT ![Owner] = to, ![a] = "top"]
    BY <1>6 DEF StartLaunches
  <2>2. to \in ClientPoints
    OBVIOUS
  <2> HIDE DEF to
  <2>3. at' \in [Callers -> Points]
    BY <2>1, <2>2 DEF PlacesTyped, Points
  <2>4. /\ at'[Owner] = to /\ at'[a] = "top"
        /\ \A t \in Callers \ {Owner, a} : at'[t] = at[t]
    BY <2>1 DEF PlacesTyped
  <2> QED BY <2>2, <2>3, <2>4 DEF PlacesTyped
<1>7. ASSUME NEW t \in Clients,
             StopBegins(t) \/ StopWaits(t) \/ StopWakesSpuriously(t) \/ Signals(t)
      PROVE  PlacesTyped'
  <2>1. CASE StopBegins(t) BY <1>2, <2>1 DEF StopBegins, Call
  <2>2. CASE StopWaits(t) BY <1>2, <2>2 DEF StopWaits
  <2>3. CASE StopWakesSpuriously(t) BY <1>2, <2>3 DEF StopWakesSpuriously, Stopped
  <2>4. CASE Signals(t) BY <1>2, <2>4 DEF Signals, Call
  <2> QED BY <1>7, <2>1, <2>2, <2>3, <2>4
<1>8. ASSUME NEW t \in Clients, Continues(t)
      PROVE  PlacesTyped'
  <2>1. CASE PushThrows(t, "idle") BY <1>2, <2>1 DEF PushThrows
  <2>2. CASE PushChoose(t) BY <1>2, <2>2 DEF PushChoose
  <2>3. CASE PushConstruct(t) BY <1>2, <2>3 DEF PushConstruct
  <2>4. CASE PushInsert(t, Pushed(t)) BY <1>2, <2>4 DEF PushInsert, Pushed
  <2>5. CASE PushClashes(t) BY <1>1, <2>5 DEF PushClashes
  <2>6. CASE PopNone(t, "idle") BY <1>2, <2>6 DEF PopNone
  <2>7. CASE PopNull(t, Popped(t)) BY <1>2, <2>7 DEF PopNull, Popped
  <2>8. CASE PopTake(t)
    <3>1. t # Owner
      BY <2>8 DEF PopTake, Goes, PlacesTyped
    <3> QED BY <1>2, <2>8, <3>1 DEF PopTake
  <2>9. CASE PopDestroy(t, Popped(t)) BY <1>2, <2>9 DEF PopDestroy, Popped
  <2>10. CASE PopRaise(t)
    <3>1. t # Owner
      BY <2>10 DEF PopRaise, Goes, PlacesTyped
    <3> QED BY <1>2, <2>10, <3>1 DEF PopRaise
  <2> QED BY <1>8, <2>1, <2>2, <2>3, <2>4, <2>5, <2>6, <2>7, <2>8, <2>9, <2>10 DEF Continues
<1>9. ASSUME NEW a \in Arbiters, Continues(a)
      PROVE  PlacesTyped'
  <2>1. CASE PopNone(a, "report") BY <1>3, <2>1 DEF PopNone
  <2>2. CASE PopNull(a, Popped(a)) BY <1>3, <2>2 DEF PopNull, Popped
  <2>3. CASE PopTake(a) BY <1>3, <2>3 DEF PopTake
  <2>4. CASE PopRaise(a) BY <1>3, <2>4 DEF PopRaise
  <2>5. CASE PopDestroy(a, Popped(a)) BY <1>3, <2>5 DEF PopDestroy, Popped
  <2> QED BY <1>9, <2>1, <2>2, <2>3, <2>4, <2>5 DEF Continues
<1>10. ASSUME NEW a \in Arbiters,
              \/ FrameBegins(a) \/ TakesTurn(a) \/ Assigns(a) \/ Drops(a) \/ Retries(a)
              \/ BarrierBegins(a) \/ BarrierFinds(a) \/ BarrierPasses(a) \/ FrameEnds(a)
              \/ FramesStop(a) \/ PopsNext(a)
       PROVE  PlacesTyped'
  <2>1. \E from, to : Goes(a, from, to) /\ to \in ArbiterPoints \cup Popping
    BY <1>10 DEF FrameBegins, TakesTurn, Assigns, Drops, Retries, BarrierBegins, BarrierFinds,
                 BarrierPasses, FrameEnds, FramesStop, PopsNext, PopCount
  <2> QED BY <1>3, <2>1
<1>11. ASSUME NEW a \in Arbiters, Reports(a)
       PROVE  PlacesTyped'
  <2>1. DOMAIN at' = Callers /\ at' = [t \in Callers |-> at'[t]]
    BY <1>11 DEF Reports
  <2>2. \A t \in Callers : at'[t] = IF t = a THEN "none"
                                    ELSE IF at[t] = "waiting" THEN Stopped(t) ELSE at[t]
    BY <1>11 DEF Reports
  <2>3. \A t \in Callers : Stopped(t) \in {"idle", "destroyed"}
    BY DEF Stopped
  <2>4. /\ \A t \in Clients : at'[t] \in ClientPoints \cup Pushing \cup Popping
        /\ \A b \in Arbiters : at'[b] \in ArbiterPoints \cup Popping
        /\ at'[Owner] \notin Popping /\ at'[Other] # "pushing"
    BY <2>2, <2>3 DEF PlacesTyped
  <2>5. at' \in [Callers -> Points]
    BY <2>1, <2>4 DEF Points
  <2> QED BY <2>4, <2>5 DEF PlacesTyped
<1>12. CASE \E o \in Objects : Works(o)
  BY <1>1, <1>12 DEF Works, WorkerThread, Hurries, Waits, Rises, Clears, Parts, Steps
<1> QED BY <1>4, <1>5, <1>6, <1>7, <1>8, <1>9, <1>10, <1>11, <1>12, EveryStep

\* The steps of one caller that move nobody else: all but the launch of an arbiter
\* and its report.
OwnerActs  == StartBegin \/ StartPins \/ StartJoins \/ Destroys \/ StartPushes
OtherActs  == Pushes \/ Pops
ClientActs(t) == StopBegins(t) \/ StopWaits(t) \/ StopWakesSpuriously(t) \/ Signals(t)
ArbiterActs(a) ==
  \/ FrameBegins(a) \/ TakesTurn(a) \/ Assigns(a) \/ Drops(a) \/ Retries(a)
  \/ BarrierBegins(a) \/ BarrierFinds(a) \/ BarrierPasses(a) \/ FrameEnds(a)
  \/ FramesStop(a) \/ PopsNext(a)

Acts(t) ==
  \/ t = Owner /\ OwnerActs
  \/ t = Other /\ OtherActs
  \/ t \in Clients /\ ClientActs(t)
  \/ t \in Arbiters /\ ArbiterActs(t)
  \/ Continues(t)

LEMMA StepActs ==
  ASSUME Next
  PROVE  \/ StartLaunches
         \/ \E a \in Arbiters : Reports(a)
         \/ \E o \in Objects : Works(o)
         \/ \E t \in Callers : Acts(t)
BY EveryStep, CallersKnown DEF Acts, OwnerActs, OtherActs, ClientActs, ArbiterActs

\* What belongs to the callers but t stays as it is.
Alone(t) ==
  /\ \A u \in Callers \ {t} :
       at'[u] = at[u] /\ obj'[u] = obj[u] /\ id'[u] = id[u] /\ core'[u] = core[u]
  /\ \A a \in Arbiters \ {t} :
       nextId'[a] = nextId[a] /\ waitId'[a] = waitId[a] /\ todo'[a] = todo[a]

LEMMA ActsAlone ==
  ASSUME Typed, NEW t \in Callers, Acts(t)
  PROVE  Alone(t)
<1> DEFINE Still == \A a \in Arbiters \ {t} :
             nextId'[a] = nextId[a] /\ waitId'[a] = waitId[a] /\ todo'[a] = todo[a]
           AtStill == \A u \in Callers \ {t} : at'[u] = at[u]
           CallStill == \A u \in Callers \ {t} :
             obj'[u] = obj[u] /\ id'[u] = id[u] /\ core'[u] = core[u]
<1>0. at \in [Callers -> Points] /\ Owner \in Callers /\ Other \in Callers
  BY CallersKnown DEF Typed, PlacesTyped
<1>1. ASSUME NEW from, NEW to, Goes(t, from, to)
      PROVE  AtStill
  BY <1>0, <1>1 DEF Goes
<1>2. CASE t = Owner /\ OwnerActs
  <2>1. AtStill
    BY <1>1, <1>2
    DEF OwnerActs, StartBegin, StartPins, StartJoins, Destroys, StartPushes, Call, PushCount
  <2>2. Still /\ CallStill
    BY <1>2 DEF OwnerActs, StartBegin, StartPins, StartJoins, Destroys, StartPushes, PushCount,
                arbiterVars, callVars, Typed, PoolTyped
  <2> QED BY <2>1, <2>2 DEF Alone
<1>3. CASE t = Other /\ OtherActs
  <2>1. AtStill
    BY <1>1, <1>3 DEF OtherActs, Pushes, Pops, PushCount, PopCount
  <2>2. Still /\ CallStill
    BY <1>3 DEF OtherActs, Pushes, Pops, PushCount, PopCount, Meddles, arbiterVars,
                Typed, PoolTyped
  <2> QED BY <2>1, <2>2 DEF Alone
<1>4. CASE t \in Clients /\ ClientActs(t)
  <2>1. AtStill
    BY <1>1, <1>4
    DEF ClientActs, StopBegins, StopWaits, StopWakesSpuriously, Signals, Call
  <2>2. Still /\ CallStill
    BY <1>4 DEF ClientActs, StopBegins, StopWaits, StopWakesSpuriously, Signals,
                arbiterVars, callVars
  <2> QED BY <2>1, <2>2 DEF Alone
<1>5. CASE t \in Arbiters /\ ArbiterActs(t)
  <2>1. AtStill
    BY <1>1, <1>5
    DEF ArbiterActs, FrameBegins, TakesTurn, Assigns, Drops, Retries, BarrierBegins,
        BarrierFinds, BarrierPasses, FrameEnds, FramesStop, PopsNext, PopCount
  <2>2. Still
    BY <1>5
    DEF ArbiterActs, FrameBegins, TakesTurn, Assigns, Drops, Retries, BarrierBegins,
        BarrierFinds, BarrierPasses, FrameEnds, FramesStop, PopsNext, arbiterVars,
        Typed, RunnerTyped
  <2>3. CallStill
    BY <1>5
    DEF ArbiterActs, FrameBegins, TakesTurn, Assigns, Drops, Retries, BarrierBegins,
        BarrierFinds, BarrierPasses, FrameEnds, FramesStop, PopsNext, PopCount, callVars,
        Typed, PoolTyped
  <2> QED BY <2>1, <2>2, <2>3 DEF Alone
<1>6. CASE Continues(t)
  <2>1. AtStill
    BY <1>1, <1>6
    DEF Continues, PushThrows, PushChoose, PushConstruct, PushInsert, PushClashes, PopNone,
        PopNull, PopTake, PopRaise, PopDestroy
  <2>2. Still
    BY <1>6 DEF Continues, arbiterVars
  <2>3. CallStill
    BY <1>6
    DEF Continues, PushThrows, PushChoose, PushConstruct, PushInsert, PushClashes, PopNone,
        PopNull, PopTake, PopRaise, PopDestroy, callVars, Typed, PoolTyped
  <2> QED BY <2>1, <2>2, <2>3 DEF Alone
<1> QED BY <1>2, <1>3, <1>4, <1>5, <1>6 DEF Acts

LEMMA PreparedStep ==
  ASSUME Typed, Next
  PROVE  Prepared'
<1>0. at \in [Callers -> Points] /\ obj \in [Callers -> Objects \cup {None}]
  BY DEF Typed, PlacesTyped, PoolTyped
<1>1. ASSUME NEW t \in Callers, Acts(t)
      PROVE  Prepared'
  <2>1. Alone(t)
    BY <1>1, ActsAlone
  <2>2. CASE t \in Arbiters /\ ArbiterActs(t)
    <3>1. at'[t] # "insert"
      BY <1>0, <2>2
      DEF ArbiterActs, FrameBegins, TakesTurn, Assigns, Drops, Retries, BarrierBegins,
          BarrierFinds, BarrierPasses, FrameEnds, FramesStop, PopsNext, PopCount, Goes
    <3>2. at'[t] = "find" => todo'[t] > 0
      BY <1>0, <2>2
      DEF ArbiterActs, FrameBegins, TakesTurn, Assigns, Drops, Retries, BarrierBegins,
          BarrierFinds, BarrierPasses, FrameEnds, FramesStop, PopsNext, PopCount, Goes
    <3> QED BY <2>1, <3>1, <3>2, CallersKnown DEF Alone, Typed, Prepared
  <2>3. CASE Continues(t)
    <3>1. CASE PushConstruct(t)
      <4>1. at'[t] = "insert" /\ obj'[t] \in Objects
        BY <1>0, <3>1, MinIsIn, CallersKnown DEF PushConstruct, Goes
      <4> QED BY <2>1, <4>1, CallersKnown DEF Alone, Typed, Prepared
    <3>2. CASE PushClashes(t)
      BY <2>3, <3>2 DEF PushClashes, callVars, Continues, arbiterVars, Typed, Prepared
    <3>3. CASE ~ PushConstruct(t) /\ ~ PushClashes(t)
      <4>1. at'[t] # "insert" /\ at'[t] # "find"
        BY <1>0, <2>3, <3>3
        DEF Continues, PushThrows, PushChoose, PushInsert, PopNone, PopNull, PopTake,
            PopRaise, PopDestroy, Goes, Pushed, Popped
      <4> QED BY <2>1, <4>1, CallersKnown DEF Alone, Typed, Prepared
    <3> QED BY <3>1, <3>2, <3>3
  <2>4. CASE ~ (t \in Arbiters /\ ArbiterActs(t)) /\ ~ Continues(t)
    <3>1. at'[t] # "insert" /\ at'[t] # "find"
      BY <1>0, <1>1, <2>4
      DEF Acts, OwnerActs, OtherActs, ClientActs, StartBegin, StartPins, StartJoins, Destroys,
          StartPushes, Pushes, Pops, PushCount, PopCount, StopBegins, StopWaits,
          StopWakesSpuriously, Signals, Stopped, Call, Goes
    <3> QED BY <2>1, <3>1, CallersKnown DEF Alone, Typed, Prepared
  <2> QED BY <2>2, <2>3, <2>4
<1>2. CASE StartLaunches
  BY <1>0, <1>2, CallersKnown DEF StartLaunches, callVars, Typed, Prepared
<1>3. CASE \E a \in Arbiters : Reports(a)
  <2>1. UNCHANGED <<obj, todo>> /\ \A t \in Callers : at'[t] \in {at[t], "none", "idle", "destroyed"}
    BY <1>3 DEF Reports, Stopped, callVars, arbiterVars
  <2> QED BY <2>1, CallersKnown DEF Typed, Prepared
<1>4. CASE \E o \in Objects : Works(o)
  BY <1>4 DEF Works, WorkerThread, Hurries, Waits, Rises, Clears, Parts, Steps, callVars, arbiterVars, Typed, Prepared
<1> QED BY <1>1, <1>2, <1>3, <1>4, StepActs

LEMMA TypedStep == Typed /\ [Next]_lifeVars => Typed'
<1>1. ASSUME Typed, Next
      PROVE  Typed'
  BY <1>1, PoolTypedStep, RunnerTypedStep, PlacesTypedStep, PreparedStep DEF Typed
<1>2. ASSUME Typed, UNCHANGED lifeVars
      PROVE  Typed'
  BY <1>2 DEF Typed, PoolTyped, RunnerTyped, PlacesTyped, Prepared, lifeVars, poolVars,
              workerVars, callVars, poolHistory, startVars, arbiterVars, lifeHistory
<1> QED BY <1>1, <1>2

LEMMA TypedHolds == Spec => []Typed
BY TypedStart, TypedStep, PTL DEF Spec

\* The variables keep their types and every thread stays at the points of its own
\* code; in particular an insertion has an object (runner.cpp:18-58, 190-272).
THEOREM LifecycleTyping == Spec => []TypeOK
BY TypedHolds, TypedIsTypeOK, PTL

-------------------------------------------------------------------------------
(* Who runs beside whom *)

Changing == Pushing \cup Popping

OneArbiter == \A a, b \in Arbiters : at[a] # "none" /\ at[b] # "none" => a = b

\* While nobody meddles there is one arbiter at most, the pool is not changed from
\* outside while it runs, and the two threads outside do not change it together.
Apart ==
  ~meddled =>
    /\ OneArbiter
    /\ Running => \A t \in Clients : at[t] \notin Changing \cup {"pushing"}
    /\ at[Owner] \in Pushing \cup {"pushing"} => at[Other] \notin Changing

\* A runner that was told to stop and still runs is waited for, unless the stop
\* was only signalled or two arbiters were launched.
Closing ==
  /\ ~twice => OneArbiter
  /\ ~twice /\ ~unwaited /\ Running /\ ~active =>
       \E t \in Clients : at[t] \in {"closing", "waiting"}
  /\ dying => /\ ~active
              /\ at[Other] \notin {"closing", "waiting"}
              /\ at[Owner] \in {"closing", "waiting", "destroyed"}
  /\ at[Owner] = "destroyed" => dying

\* An arbiter's own steps neither launch nor end it, and touch nothing of this.
LEMMA ArbiterActsStay ==
  ASSUME Typed, NEW a \in Arbiters, Acts(a)
  PROVE  /\ at[a] # "none" /\ at'[a] # "none"
         /\ UNCHANGED <<active, dying, meddled, twice, unwaited>>
<1>0. at \in [Callers -> Points] /\ a \in Callers /\ a \notin Clients /\ a # Owner /\ a # Other
  BY CallersKnown DEF Typed, PlacesTyped
<1>1. CASE ArbiterActs(a)
  <2>1. at[a] # "none" /\ at'[a] # "none"
    BY <1>0, <1>1
    DEF ArbiterActs, FrameBegins, TakesTurn, Assigns, Drops, Retries, BarrierBegins,
        BarrierFinds, BarrierPasses, FrameEnds, FramesStop, PopsNext, PopCount, Goes
  <2>2. UNCHANGED <<active, dying, meddled, twice, unwaited>>
    BY <1>1
    DEF ArbiterActs, FrameBegins, TakesTurn, Assigns, Drops, Retries, BarrierBegins,
        BarrierFinds, BarrierPasses, FrameEnds, FramesStop, PopsNext, startVars, lifeHistory
  <2> QED BY <2>1, <2>2
<1>2. CASE Continues(a)
  <2>1. at[a] # "none" /\ at'[a] # "none"
    BY <1>0, <1>2 DEF Continues, PopNone, PopNull, PopTake, PopRaise, PopDestroy, Goes, Popped
  <2>2. UNCHANGED <<active, dying, meddled, twice, unwaited>>
    BY <1>2 DEF Continues, startVars, lifeHistory
  <2> QED BY <2>1, <2>2
<1> QED BY <1>0, <1>1, <1>2 DEF Acts

\* A client that is inside push_worker or pop_worker goes on there, or leaves.
LEMMA ClientGoesOn ==
  ASSUME Typed, NEW t \in Clients, Continues(t)
  PROVE  /\ at[t] \in Changing /\ at'[t] \in Changing \cup {"idle", Pushed(t)}
         /\ UNCHANGED <<active, dying, meddled, twice, unwaited>>
<1>0. at \in [Callers -> Points] /\ t \in Callers /\ t \notin Arbiters
  BY CallersKnown DEF Typed, PlacesTyped
<1>1. at[t] \in Changing /\ at'[t] \in Changing \cup {"idle", Pushed(t)}
  BY <1>0
  DEF Continues, PushThrows, PushChoose, PushConstruct, PushInsert, PushClashes, PopNone,
      PopNull, PopTake, PopRaise, PopDestroy, Goes, Popped, Changing, Pushing, Popping
<1> QED BY <1>1 DEF Continues, startVars, lifeHistory

\* What launches an arbiter, and what ends one.
LEMMA LaunchMoves ==
  ASSUME Typed, StartLaunches
  PROVE  /\ at[Owner] = "pushing" /\ at'[Owner] \in {"pin", "join"} /\ at'[Other] = at[Other]
         /\ \E a \in Arbiters : /\ at[a] = "none" /\ at'[a] = "top"
                                /\ \A b \in Arbiters \ {a} : at'[b] = at[b]
                                /\ nextId'[a] = 0
                                /\ \A b \in Arbiters \ {a} : nextId'[b] = nextId[b]
         /\ active' = TRUE /\ unwaited' = FALSE /\ twice' = (twice \/ Running)
         /\ UNCHANGED <<poolVars, workerVars, callVars, poolHistory, waitId, todo, dying,
                        meddled, skipped>>
<1>0. /\ at \in [Callers -> Points] /\ nextId \in [Arbiters -> Ids]
  BY DEF Typed, PlacesTyped, RunnerTyped
<1> DEFINE a == CHOOSE b \in Arbiters : at[b] = "none"
           to == IF floating THEN "pin" ELSE "join"
<1>1. a \in Arbiters /\ at[a] = "none" /\ to \in {"pin", "join"}
  BY DEF StartLaunches
<1>2. /\ at' = [at EXCEPT ![Owner] = to, ![a] = "top"]
      /\ nextId' = [nextId EXCEPT ![a] = 0]
  BY DEF StartLaunches
<1> HIDE DEF a, to
<1>3. /\ at'[Owner] = to /\ at'[a] = "top" /\ at'[Other] = at[Other]
      /\ \A b \in Arbiters \ {a} : at'[b] = at[b]
  BY <1>0, <1>1, <1>2, CallersKnown
<1>4. nextId'[a] = 0 /\ \A b \in Arbiters \ {a} : nextId'[b] = nextId[b]
  BY <1>0, <1>1, <1>2
<1> QED BY <1>1, <1>3, <1>4 DEF StartLaunches

LEMMA ReportMoves ==
  ASSUME Typed, NEW a \in Arbiters, Reports(a)
  PROVE  /\ at[a] = "report" /\ at'[a] = "none"
         /\ \A b \in Arbiters \ {a} : at'[b] = at[b]
         /\ \A t \in Clients : at'[t] = IF at[t] = "waiting" THEN Stopped(t) ELSE at[t]
         /\ \A t \in Clients : Stopped(t) \in {"idle", "destroyed"}
         /\ UNCHANGED <<poolState, startVars, arbiterVars, dying, lifeHistory>>
<1>1. /\ at[a] = "report"
      /\ \A t \in Callers : at'[t] = IF t = a THEN "none"
                                     ELSE IF at[t] = "waiting" THEN Stopped(t) ELSE at[t]
  BY DEF Reports
<1>2. \A b \in Arbiters : at[b] # "waiting"
  BY DEF Typed, PlacesTyped, ArbiterPoints, Popping
<1>3. \A t \in Clients : Stopped(t) \in {"idle", "destroyed"}
  BY DEF Stopped
<1> QED BY <1>1, <1>2, <1>3, CallersKnown DEF Reports, poolState

LEMMA ApartStep ==
  ASSUME Typed, Apart, Next
  PROVE  Apart'
<1> USE CallersKnown
<1>0. at \in [Callers -> Points] /\ at[Owner] \notin Popping
  BY DEF Typed, PlacesTyped
<1>1. ASSUME NEW t \in Arbiters, Acts(t)
      PROVE  Apart'
  <2>1. /\ at[t] # "none" /\ at'[t] # "none" /\ meddled' = meddled
        /\ \A u \in Callers \ {t} : at'[u] = at[u]
    BY <1>1, ArbiterActsStay, ActsAlone DEF Alone
  <2> QED BY <2>1 DEF Apart, OneArbiter, Running
<1>2. ASSUME NEW t \in Clients, Acts(t)
      PROVE  Apart'
  <2>1. \A u \in Callers \ {t} : at'[u] = at[u]
    BY <1>2, ActsAlone DEF Alone
  <2>2. OneArbiter' = OneArbiter /\ Running' = Running
    BY <2>1 DEF OneArbiter, Running
  <2>3. CASE Continues(t)
    <3>1. /\ at[t] \in Changing /\ at'[t] \in Changing \cup {"idle", Pushed(t)}
          /\ meddled' = meddled
      BY <2>3, ClientGoesOn
    <3>2. CASE t = Owner
      <4>1. at[Owner] \in Pushing
        BY <1>0, <3>1, <3>2 DEF Changing
      <4>2. at'[Other] = at[Other]
        BY <2>1, <3>2
      <4> QED BY <2>2, <3>1, <4>1, <4>2 DEF Apart
    <3>3. CASE t = Other
      <4>1. at'[Owner] = at[Owner] /\ Pushed(t) = "idle"
        BY <2>1, <3>3 DEF Pushed
      <4>2. "idle" \notin Changing \cup {"pushing"}
        BY DEF Changing, Pushing, Popping
      <4>3. at[Other] \in Changing /\ at'[Other] \in Changing \cup {"idle"}
        BY <3>1, <3>3, <4>1
      <4> QED BY <2>2, <3>1, <4>1, <4>2, <4>3 DEF Apart
    <3> QED BY <3>2, <3>3 DEF Clients
  <2>4. CASE t = Owner /\ StartBegin
    <3>1. /\ at'[Owner] = "pushing" /\ at'[Other] = at[Other]
          /\ meddled' = (meddled \/ Running \/ at[Other] \in Pushing \cup Popping)
      BY <1>0, <2>4 DEF StartBegin, Call, Goes
    <3>2. "pushing" \notin Changing
      BY DEF Changing, Pushing, Popping
    <3> QED BY <2>2, <3>1, <3>2 DEF Apart, Changing
  <2>5. CASE t = Owner /\ StartPushes
    <3>1. /\ at[Owner] = "pushing" /\ at'[Owner] = "choose" /\ at'[Other] = at[Other]
          /\ meddled' = meddled
      BY <1>0, <2>5 DEF StartPushes, PushCount, Goes, lifeHistory
    <3>2. "choose" \in Changing
      BY DEF Changing, Pushing
    <3> QED BY <2>2, <3>1, <3>2 DEF Apart
  <2>6. CASE t = Other /\ OtherActs
    <3>1. /\ at'[Owner] = at[Owner]
          /\ meddled' = (meddled \/ Running \/ at[Owner] \in Pushing \cup {"pushing"})
      BY <1>0, <2>6 DEF OtherActs, Pushes, Pops, Meddles, PushCount, PopCount, Goes
    <3> QED BY <2>2, <3>1 DEF Apart
  <2>7. CASE \/ t = Owner /\ (StartPins \/ StartJoins \/ Destroys)
             \/ ClientActs(t)
    <3>1. meddled' = meddled
      BY <2>7 DEF StartPins, StartJoins, Destroys, ClientActs, StopBegins, StopWaits,
                  StopWakesSpuriously, Signals, lifeHistory
    <3>2. at'[t] \notin Changing \cup {"pushing"}
      BY <1>0, <2>7
      DEF StartPins, StartJoins, Destroys, ClientActs, StopBegins, StopWaits,
          StopWakesSpuriously, Signals, Stopped, Call, Goes, Changing, Pushing, Popping
    <3>3. /\ ~meddled' /\ Running' => \A u \in Clients : at'[u] \notin Changing \cup {"pushing"}
          /\ ~meddled' /\ at'[Owner] \in Pushing \cup {"pushing"} => at'[Other] \notin Changing
      BY <2>1, <2>2, <3>1, <3>2 DEF Apart, Changing, Clients
    <3> QED BY <2>2, <3>1, <3>3 DEF Apart
  <2> QED BY <1>2, <2>3, <2>4, <2>5, <2>6, <2>7 DEF Acts, OwnerActs
<1>3. CASE StartLaunches
  <2>1. /\ at[Owner] = "pushing" /\ at'[Owner] \in {"pin", "join"} /\ at'[Other] = at[Other]
        /\ meddled' = meddled
    BY <1>3, LaunchMoves
  <2>2. PICK a \in Arbiters : /\ at[a] = "none" /\ at'[a] = "top"
                              /\ \A b \in Arbiters \ {a} : at'[b] = at[b]
    BY <1>3, LaunchMoves
  <2> SUFFICES ASSUME ~meddled
               PROVE  /\ OneArbiter'
                      /\ \A t \in Clients : at'[t] \notin Changing \cup {"pushing"}
    BY <2>1 DEF Apart, Clients, Changing
  <2>3. ~Running /\ at[Other] \notin Changing
    BY <2>1 DEF Apart
  <2>4. OneArbiter'
    BY <2>2, <2>3 DEF OneArbiter, Running
  <2>5. at[Other] # "pushing"
    BY DEF Typed, PlacesTyped
  <2> QED BY <2>1, <2>3, <2>4, <2>5 DEF Clients, Changing, Pushing, Popping
<1>4. ASSUME NEW a \in Arbiters, Reports(a)
      PROVE  Apart'
  <2>1. /\ \A b \in Arbiters : at'[b] # "none" => at'[b] = at[b] /\ at[b] # "none"
        /\ \A t \in Clients : at'[t] \in {at[t], "idle", "destroyed"}
        /\ meddled' = meddled
    BY <1>4, ReportMoves DEF lifeHistory
  <2>2. {"idle", "destroyed"} \cap (Changing \cup {"pushing"}) = {}
    BY DEF Changing, Pushing, Popping
  <2>3. Pushing \subseteq Changing
    BY DEF Changing
  <2> QED BY <2>1, <2>2, <2>3 DEF Apart, OneArbiter, Running
<1>5. CASE \E o \in Objects : Works(o)
  BY <1>5 DEF Works, WorkerThread, Hurries, Waits, Rises, Clears, Parts, Steps, lifeHistory, Apart, OneArbiter, Running
<1> QED BY <1>1, <1>2, <1>3, <1>4, <1>5, StepActs

LEMMA ClosingStep ==
  ASSUME Typed, Closing, Next
  PROVE  Closing'
<1> USE CallersKnown
<1>0. at \in [Callers -> Points]
  BY DEF Typed, PlacesTyped
<1>1. ASSUME NEW t \in Arbiters, Acts(t)
      PROVE  Closing'
  <2>1. /\ at[t] # "none" /\ at'[t] # "none" /\ UNCHANGED <<active, dying, twice, unwaited>>
        /\ \A u \in Callers \ {t} : at'[u] = at[u]
    BY <1>1, ArbiterActsStay, ActsAlone DEF Alone
  <2>2. OneArbiter' = OneArbiter /\ Running' = Running
    BY <2>1 DEF OneArbiter, Running
  <2>3. \A u \in Clients : at'[u] = at[u]
    BY <2>1
  <2> QED BY <2>1, <2>2, <2>3 DEF Closing
<1>2. ASSUME NEW t \in Clients, Acts(t)
      PROVE  Closing'
  <2>1. \A u \in Callers \ {t} : at'[u] = at[u]
    BY <1>2, ActsAlone DEF Alone
  <2>2. OneArbiter' = OneArbiter /\ Running' = Running
    BY <2>1 DEF OneArbiter, Running
  <2>3. CASE Continues(t)
    <3>1. /\ at[t] \in Changing /\ at'[t] \in Changing \cup {"idle", "pushing"}
          /\ UNCHANGED <<active, dying, twice, unwaited>>
      BY <2>3, ClientGoesOn DEF Pushed
    <3>2. ({"closing", "waiting", "destroyed"}) \cap (Changing \cup {"idle", "pushing"}) = {}
      BY DEF Changing, Pushing, Popping
    <3> QED BY <2>1, <2>2, <3>1, <3>2 DEF Closing, Clients
  <2>4. CASE t = Owner /\ (StartBegin \/ StartPushes \/ StartPins \/ StartJoins)
    <3>1. /\ at[Owner] \in {"idle", "pushing", "pin", "join"}
          /\ at'[Owner] \in {"idle", "pushing", "choose"}
          /\ UNCHANGED <<active, dying, twice, unwaited>>
      BY <1>0, <2>4 DEF StartBegin, StartPushes, StartPins, StartJoins, PushCount, Call, Goes,
                        lifeHistory, startVars
    <3> QED BY <2>1, <2>2, <2>4, <3>1 DEF Closing, Clients
  <2>5. CASE t = Other /\ OtherActs
    <3>1. /\ at[Other] = "idle" /\ at'[Other] \in {"choose", "take"}
          /\ UNCHANGED <<active, dying, twice, unwaited>>
      BY <1>0, <2>5
      DEF OtherActs, Pushes, Pops, Meddles, PushCount, PopCount, Goes, startVars
    <3> QED BY <2>1, <2>2, <2>5, <3>1 DEF Closing, Clients
  <2>6. CASE t = Owner /\ Destroys
    <3>1. /\ at[Other] = "idle" /\ at[Owner] = "idle"
          /\ at'[Owner] = (IF active THEN "closing" ELSE "destroyed")
          /\ active' = FALSE /\ dying' = TRUE /\ UNCHANGED <<twice, unwaited>>
      BY <1>0, <2>6 DEF Destroys, Call, Goes, lifeHistory
    <3>2. at'[Other] = "idle"
      BY <2>1, <2>6, <3>1
    <3>3. ~twice /\ ~unwaited /\ Running => active
      BY <3>1 DEF Closing, Clients
    <3> QED BY <2>2, <3>1, <3>2, <3>3 DEF Closing
  <2>7. CASE StopBegins(t)
    <3>1. /\ at[t] = "idle" /\ at'[t] = "closing" /\ active /\ active' = FALSE
          /\ UNCHANGED <<dying, twice, unwaited>>
      BY <1>0, <2>7 DEF StopBegins, Call, Goes, lifeHistory
    <3>2. ~dying
      BY <3>1 DEF Closing
    <3>3. at'[Owner] # "destroyed"
      BY <2>1, <3>1, <3>2 DEF Closing
    <3> QED BY <2>2, <3>1, <3>2, <3>3 DEF Closing
  <2>8. CASE Signals(t)
    <3>1. /\ at[t] = "idle" /\ at'[t] = "idle" /\ active /\ active' = FALSE /\ unwaited' = TRUE
          /\ UNCHANGED <<dying, twice>>
      BY <1>0, <2>8 DEF Signals, Call, Goes
    <3>2. ~dying
      BY <3>1 DEF Closing
    <3>3. at'[Owner] # "destroyed"
      BY <2>1, <3>1, <3>2 DEF Closing
    <3> QED BY <2>2, <3>1, <3>2, <3>3 DEF Closing
  <2>9. CASE StopWaits(t)
    <3>1. /\ at[t] = "closing" /\ at'[t] = "waiting"
          /\ UNCHANGED <<active, dying, twice, unwaited>>
      BY <1>0, <2>9 DEF StopWaits, Goes, lifeHistory, startVars
    <3> QED BY <2>1, <2>2, <3>1 DEF Closing, Clients
  <2>10. CASE StopWakesSpuriously(t)
    <3>1. /\ at[t] = "waiting" /\ at'[t] = Stopped(t) /\ unwaited' = TRUE
          /\ UNCHANGED <<active, dying, twice>>
      BY <1>0, <2>10 DEF StopWakesSpuriously, Goes, startVars
    <3> QED BY <2>1, <2>2, <3>1 DEF Closing, Clients, Stopped
  <2> QED BY <1>2, <2>3, <2>4, <2>5, <2>6, <2>7, <2>8, <2>9, <2>10
          DEF Acts, OwnerActs, ClientActs
<1>3. CASE StartLaunches
  <2>1. /\ at[Owner] = "pushing" /\ at'[Owner] \in {"pin", "join"} /\ at'[Other] = at[Other]
        /\ active' = TRUE /\ twice' = (twice \/ Running) /\ dying' = dying
    BY <1>3, LaunchMoves
  <2>2. PICK a \in Arbiters : /\ at[a] = "none" /\ at'[a] = "top"
                              /\ \A b \in Arbiters \ {a} : at'[b] = at[b]
    BY <1>3, LaunchMoves
  <2>3. ~twice' => OneArbiter'
    BY <2>1, <2>2 DEF OneArbiter, Running
  <2>4. ~dying
    BY <2>1 DEF Closing
  <2> QED BY <2>1, <2>3, <2>4 DEF Closing
<1>4. ASSUME NEW a \in Arbiters, Reports(a)
      PROVE  Closing'
  <2>1. /\ at[a] = "report" /\ at'[a] = "none"
        /\ \A b \in Arbiters \ {a} : at'[b] = at[b]
        /\ \A t \in Clients : at'[t] = IF at[t] = "waiting" THEN Stopped(t) ELSE at[t]
        /\ UNCHANGED <<active, dying, twice, unwaited>>
    BY <1>4, ReportMoves DEF startVars, lifeHistory
  <2>2. ~twice => OneArbiter' /\ ~Running'
    BY <2>1 DEF Closing, OneArbiter, Running
  <2> QED BY <2>1, <2>2 DEF Closing, Stopped
<1>5. CASE \E o \in Objects : Works(o)
  BY <1>5 DEF Works, WorkerThread, Hurries, Waits, Rises, Clears, Parts, Steps, lifeHistory, startVars, Closing, OneArbiter,
              Running
<1> QED BY <1>1, <1>2, <1>3, <1>4, <1>5, StepActs

\* The destructor finds the arbiter running only after a stop that did not wait, or
\* after two starts of a running runner (runner.cpp:198-201, 256-272).
THEOREM DestroyedAtItsRest == Spec => []DestroyedAtRest
<1>1. Init => Closing
  BY CallersKnown DEF Init, Closing, OneArbiter, Running
<1>2. Typed /\ Closing /\ [Next]_lifeVars => Closing'
  <2>1. ASSUME Closing, UNCHANGED lifeVars
        PROVE  Closing'
    BY <2>1 DEF lifeVars, startVars, lifeHistory, Closing, OneArbiter, Running
  <2> QED BY <2>1, ClosingStep
<1>3. Closing => DestroyedAtRest
  <2> SUFFICES ASSUME Closing, at[Owner] = "destroyed", Running, ~unwaited, ~twice
               PROVE  FALSE
    BY DEF DestroyedAtRest
  <2>1. dying /\ ~active /\ at[Other] \notin {"closing", "waiting"}
    BY DEF Closing
  <2>2. PICK t \in Clients : at[t] \in {"closing", "waiting"}
    BY <2>1 DEF Closing
  <2> QED BY <2>1, <2>2 DEF Clients
<1> QED BY <1>1, <1>2, <1>3, TypedHolds, PTL DEF Spec

-------------------------------------------------------------------------------
(* Where the workers are *)

\* A worker that has a thread is in the pool, or with the caller that is about to
\* insert it or that is stopping it.
Homed(o) ==
  \/ thread[o] \in {"unborn", "freed"}
  \/ o \in Range(pool)
  \/ \E t \in Callers : at[t] \in {"insert", "raise", "stop"} /\ obj[t] = o

\* The pool is locked by whoever stops a worker.  When an arbiter is about to
\* report, and nobody meddles, no thread is left.
Accounted ==
  /\ \A t \in Callers : at[t] \in {"raise", "stop"} => holder = t
  /\ \A o \in Objects : Homed(o)
  /\ ~meddled =>
       \A a \in Arbiters :
         at[a] = "report" => \A o \in Objects : thread[o] \in {"unborn", "freed"}

\* The steps beside push_worker and pop_worker.
LEMMA OuterActs ==
  ASSUME Typed, NEW t \in Callers, Acts(t), ~Continues(t)
  PROVE  /\ at[t] \notin {"insert", "raise", "stop"} /\ at'[t] \notin {"insert", "raise", "stop", "report"}
         /\ UNCHANGED <<thread, pool, live, overtaken, emptied>>
         /\ holder' = holder \/ (holder = None /\ holder' = t)
         /\ meddled => meddled'
<1>0. at \in [Callers -> Points] /\ Owner \in Callers /\ Other \in Callers
  BY CallersKnown DEF Typed, PlacesTyped
<1>1. CASE t = Owner /\ OwnerActs
  <2>1. at[t] \notin {"insert", "raise", "stop"} /\ at'[t] \notin {"insert", "raise", "stop", "report"}
    BY <1>0, <1>1
    DEF OwnerActs, StartBegin, StartPins, StartJoins, Destroys, StartPushes, Call, PushCount, Goes
  <2>2. UNCHANGED <<thread, pool, live, overtaken, emptied, holder>>
    BY <1>1 DEF OwnerActs, StartBegin, StartPins, StartJoins, Destroys, StartPushes, PushCount,
                poolVars, workerVars, poolHistory
  <2>3. meddled => meddled'
    BY <1>1 DEF OwnerActs, StartBegin, StartPins, StartJoins, Destroys, StartPushes, lifeHistory
  <2> QED BY <2>1, <2>2, <2>3
<1>2. CASE t = Other /\ OtherActs
  <2>1. at[t] \notin {"insert", "raise", "stop"} /\ at'[t] \notin {"insert", "raise", "stop", "report"}
    BY <1>0, <1>2 DEF OtherActs, Pushes, Pops, PushCount, PopCount, Goes
  <2>2. UNCHANGED <<thread, pool, live, overtaken, emptied, holder>> /\ (meddled => meddled')
    BY <1>2 DEF OtherActs, Pushes, Pops, PushCount, PopCount, Meddles, workerVars, poolHistory
  <2> QED BY <2>1, <2>2
<1>3. CASE t \in Clients /\ ClientActs(t)
  <2>1. at[t] \notin {"insert", "raise", "stop"} /\ at'[t] \notin {"insert", "raise", "stop", "report"}
    BY <1>0, <1>3
    DEF ClientActs, StopBegins, StopWaits, StopWakesSpuriously, Signals, Call, Goes, Stopped
  <2>2. UNCHANGED <<thread, pool, live, overtaken, emptied, holder>> /\ (meddled => meddled')
    BY <1>3 DEF ClientActs, StopBegins, StopWaits, StopWakesSpuriously, Signals,
                poolVars, workerVars, poolHistory, lifeHistory
  <2> QED BY <2>1, <2>2
<1>4. CASE t \in Arbiters /\ ArbiterActs(t)
  <2>1. at[t] \notin {"insert", "raise", "stop"} /\ at'[t] \notin {"insert", "raise", "stop", "report"}
    BY <1>0, <1>4
    DEF ArbiterActs, FrameBegins, TakesTurn, Assigns, Drops, Retries, BarrierBegins,
        BarrierFinds, BarrierPasses, FrameEnds, FramesStop, PopsNext, PopCount, Goes
  <2>2. UNCHANGED <<thread, pool, live, overtaken, emptied>> /\ (meddled => meddled')
    BY <1>4
    DEF ArbiterActs, FrameBegins, TakesTurn, Assigns, Drops, Retries, BarrierBegins,
        BarrierFinds, BarrierPasses, FrameEnds, FramesStop, PopsNext, PopCount,
        poolVars, workerVars, poolHistory, lifeHistory
  <2>3. holder' = holder \/ (holder = None /\ holder' = t)
    BY <1>4
    DEF ArbiterActs, FrameBegins, TakesTurn, Assigns, Drops, Retries, BarrierBegins,
        BarrierFinds, BarrierPasses, FrameEnds, FramesStop, PopsNext, PopCount, poolVars
  <2> QED BY <2>1, <2>2, <2>3
<1> QED BY <1>1, <1>2, <1>3, <1>4 DEF Acts

\* A worker stays homed when only t moves, if t does not let it go.
LEMMA HomedStays ==
  ASSUME NEW t \in Callers, Alone(t), NEW o \in Objects, Homed(o),
         \/ thread'[o] = "freed"
         \/ /\ thread[o] \notin {"unborn", "freed"} \/ thread'[o] = thread[o]
            /\ \A i \in DOMAIN pool :
                 \/ i \in DOMAIN pool' /\ pool'[i] = pool[i]
                 \/ at'[t] = "raise" /\ obj'[t] = pool[i]
            /\ at[t] \in {"insert", "raise", "stop"} /\ obj[t] = o => o \in Range(pool')
  PROVE  Homed(o)'
<1>1. CASE thread'[o] = "freed"
  BY <1>1 DEF Homed
<1>2. CASE thread'[o] # "freed"
  <2>1. CASE thread[o] \in {"unborn", "freed"}
    BY <1>2, <2>1 DEF Homed
  <2>2. CASE o \in Range(pool)
    <3>1. PICK i \in DOMAIN pool : pool[i] = o
      BY <2>2 DEF Range
    <3> QED BY <1>2, <3>1 DEF Homed, Range
  <2>3. CASE \E u \in Callers : at[u] \in {"insert", "raise", "stop"} /\ obj[u] = o
    <3>1. PICK u \in Callers : at[u] \in {"insert", "raise", "stop"} /\ obj[u] = o
      BY <2>3
    <3>2. CASE u = t
      BY <1>2, <3>1, <3>2 DEF Homed
    <3>3. CASE u # t
      BY <3>1, <3>3 DEF Alone, Homed
    <3> QED BY <3>2, <3>3
  <2> QED BY <2>1, <2>2, <2>3 DEF Homed
<1> QED BY <1>1, <1>2

LEMMA AccountedContinues ==
  ASSUME Typed, Apart, Accounted, NEW t \in Callers, Continues(t)
  PROVE  Accounted'
<1> USE CallersKnown
<1>0. /\ at \in [Callers -> Points] /\ obj \in [Callers -> Objects \cup {None}]
      /\ thread \in [Objects -> Stages \cup {"unborn", "freed"}]
  BY DEF Typed, PlacesTyped, PoolTyped
<1>1. /\ Alone(t) /\ meddled' = meddled /\ Acts(t)
  BY ActsAlone DEF Acts, Continues, lifeHistory
<1>2. t \in Clients /\ ~meddled => ~Running
  BY ClientGoesOn DEF Apart
<1>3. CASE \/ t \in Clients /\ PushThrows(t, "idle")
           \/ t \in Clients /\ PushChoose(t)
           \/ PopNull(t, Popped(t))
  <2>1. /\ at[t] \notin {"insert", "raise", "stop"} /\ at'[t] \notin {"insert", "raise", "stop", "report"}
        /\ UNCHANGED <<thread, pool, holder>>
    BY <1>0, <1>3 DEF PushThrows, PushChoose, PopNull, Popped, Goes, poolVars, workerVars
  <2>2. \A o \in Objects : Homed(o)'
    BY <1>1, <2>1, HomedStays DEF Accounted
  <2> QED BY <1>1, <2>1, <2>2 DEF Alone, Accounted
<1>4. CASE t \in Clients /\ PushClashes(t)
  BY <1>1, <1>4 DEF PushClashes, poolVars, workerVars, callVars, Accounted, Homed
<1>5. CASE t \in Clients /\ PushConstruct(t)
  <2> DEFINE new == Min({o \in Objects : thread[o] = "unborn"})
  <2>1. new \in Objects
    BY <1>5, MinIsIn DEF PushConstruct
  <2>2. /\ at[t] = "construct" /\ at'[t] = "insert" /\ obj'[t] = new
        /\ \A o \in Objects \ {new} : thread'[o] = thread[o]
        /\ UNCHANGED <<pool, holder>>
    BY <1>0, <1>5, <2>1 DEF PushConstruct, Goes
  <2> HIDE DEF new
  <2>3. \A o \in Objects : Homed(o)'
    BY <1>1, <2>1, <2>2 DEF Alone, Accounted, Homed
  <2>4. ~meddled' => \A a \in Arbiters : at'[a] # "report"
    BY <1>1, <1>2, <1>5 DEF Alone, Running
  <2> QED BY <1>1, <2>2, <2>3, <2>4 DEF Alone, Accounted
<1>6. CASE t \in Clients /\ PushInsert(t, Pushed(t))
  <2>1. /\ at[t] = "insert" /\ at'[t] \notin {"insert", "raise", "stop", "report"}
        /\ UNCHANGED <<thread, holder, obj>>
    BY <1>0, <1>6 DEF PushInsert, Pushed, Goes, callVars
  <2>2. Range(pool) \subseteq Range(pool') /\ obj[t] \in Range(pool')
    BY <1>6 DEF PushInsert, Range
  <2>3. \A o \in Objects : Homed(o)'
    BY <1>1, <2>1, <2>2 DEF Alone, Accounted, Homed
  <2> QED BY <1>1, <2>1, <2>3 DEF Alone, Accounted
<1>7. CASE PopNone(t, IF t \in Arbiters THEN "report" ELSE "idle")
  <2>1. /\ at[t] = "take" /\ at'[t] \notin {"insert", "raise", "stop"}
        /\ UNCHANGED <<thread, pool, holder, obj>> /\ holder = None /\ Range(pool) = {}
    BY <1>0, <1>7 DEF PopNone, Goes, poolVars, workerVars, callVars, Range
  <2>2. \A o \in Objects : Homed(o)'
    BY <1>1, <2>1 DEF Alone, Accounted, Homed
  <2>3. ASSUME ~meddled, t \in Arbiters, NEW o \in Objects
        PROVE  thread[o] \in {"unborn", "freed"}
    <3>1. \A u \in Callers : at[u] \notin {"raise", "stop"}
      BY <2>1 DEF Accounted
    <3>2. \A u \in Clients : at[u] # "insert"
      BY <2>1, <2>3 DEF Apart, Running, Changing, Pushing
    <3>3. \A a \in Arbiters : at[a] # "insert"
      BY DEF Typed, PlacesTyped, ArbiterPoints, Popping
    <3> QED BY <2>1, <3>1, <3>2, <3>3 DEF Accounted, Homed
  <2>4. ~meddled' => \A a \in Arbiters : at'[a] = "report" =>
                       \A o \in Objects : thread'[o] \in {"unborn", "freed"}
    BY <1>1, <2>1, <2>3 DEF Alone, Accounted
  <2> QED BY <1>1, <2>1, <2>2, <2>4 DEF Alone, Accounted
<1>8. CASE PopTake(t)
  <2>1. /\ at[t] = "take" /\ at'[t] = "raise" /\ holder = None /\ holder' = t
        /\ obj'[t] = pool[id[t]] /\ id[t] \in DOMAIN pool /\ UNCHANGED thread
        /\ pool' = [i \in DOMAIN pool \ {id[t]} |-> pool[i]]
    BY <1>0, <1>8 DEF PopTake, Goes, Restrict
  <2>2. \A i \in DOMAIN pool :
          \/ i \in DOMAIN pool' /\ pool'[i] = pool[i]
          \/ at'[t] = "raise" /\ obj'[t] = pool[i]
    BY <2>1
  <2>3. \A o \in Objects : Homed(o)'
    BY <1>1, <2>1, <2>2, HomedStays DEF Accounted
  <2>4. \A u \in Callers : at'[u] \in {"raise", "stop"} => u = t
    BY <1>1, <2>1 DEF Alone, Accounted
  <2> QED BY <1>1, <2>1, <2>3, <2>4 DEF Alone, Accounted
<1>10. CASE PopRaise(t)
  <2>1. /\ at[t] = "raise" /\ at'[t] = "stop" /\ UNCHANGED <<thread, pool, holder, obj>>
    BY <1>0, <1>10 DEF PopRaise, Goes, poolVars, callVars
  <2>2. \A o \in Objects : Homed(o)'
    BY <1>1, <2>1 DEF Alone, Accounted, Homed
  <2> QED BY <1>1, <2>1, <2>2 DEF Alone, Accounted
<1>9. CASE PopDestroy(t, Popped(t))
  <2>1. /\ at[t] = "stop" /\ at'[t] \notin {"insert", "raise", "stop", "report"} /\ holder' = None
        /\ UNCHANGED <<obj, pool>>
        /\ \A o \in Objects : thread'[o] = IF o = obj[t] THEN "freed" ELSE thread[o]
    BY <1>0, <1>9 DEF PopDestroy, Popped, Goes, callVars
  <2>2. \A o \in Objects : Homed(o)'
    BY <1>1, <2>1, HomedStays DEF Accounted
  <2>3. \A u \in Callers : at'[u] \notin {"raise", "stop"}
    BY <1>1, <2>1 DEF Alone, Accounted
  <2> QED BY <1>1, <2>1, <2>2, <2>3 DEF Alone, Accounted
<1> QED BY <1>3, <1>4, <1>5, <1>6, <1>7, <1>8, <1>9, <1>10 DEF Continues

LEMMA AccountedStep ==
  ASSUME Typed, Apart, Accounted, Next
  PROVE  Accounted'
<1> USE CallersKnown
<1>1. ASSUME NEW t \in Callers, Acts(t), ~Continues(t)
      PROVE  Accounted'
  <2>1. /\ at[t] \notin {"insert", "raise", "stop"} /\ at'[t] \notin {"insert", "raise", "stop", "report"}
        /\ UNCHANGED <<thread, pool>>
        /\ holder' = holder \/ (holder = None /\ holder' = t)
        /\ meddled => meddled'
    BY <1>1, OuterActs
  <2>2. Alone(t)
    BY <1>1, ActsAlone
  <2>3. \A o \in Objects : Homed(o)'
    BY <2>1, <2>2 DEF Alone, Accounted, Homed
  <2> QED BY <2>1, <2>2, <2>3 DEF Alone, Accounted
<1>2. CASE StartLaunches
  <2>1. /\ \A t \in Callers : /\ at'[t] \in {at[t], "pin", "join", "top"}
                              /\ at[t] \in {"insert", "raise", "stop"} => at'[t] = at[t]
        /\ UNCHANGED <<thread, pool, holder, obj, meddled>>
    BY <1>2, LaunchMoves DEF poolVars, workerVars, callVars, Clients
  <2>2. \A o \in Objects : Homed(o)'
    BY <2>1 DEF Accounted, Homed
  <2> QED BY <2>1, <2>2 DEF Accounted
<1>3. ASSUME NEW a \in Arbiters, Reports(a)
      PROVE  Accounted'
  <2>1. /\ \A t \in Callers : /\ at'[t] \in {at[t], "none", "idle", "destroyed"}
                              /\ at[t] \in {"insert", "raise", "stop"} => at'[t] = at[t]
        /\ UNCHANGED <<thread, pool, holder, obj, meddled>>
    BY <1>3, ReportMoves DEF poolState, poolVars, workerVars, callVars, lifeHistory
  <2>2. \A o \in Objects : Homed(o)'
    BY <2>1 DEF Accounted, Homed
  <2> QED BY <2>1, <2>2 DEF Accounted
<1>4. ASSUME NEW o \in Objects, Works(o)
      PROVE  Accounted'
  <2>1. /\ UNCHANGED <<at, pool, holder, obj, meddled>>
        /\ thread[o] \notin {"unborn", "freed"}
        /\ \A p \in Objects : thread'[p] = thread[p] \/ p = o
    BY <1>4 DEF Works, WorkerThread, Hurries, Waits, Rises, Clears, Parts, Steps, poolVars, callVars, lifeHistory, Typed, PoolTyped
  <2>2. \A p \in Objects : Homed(p)'
    BY <2>1 DEF Accounted, Homed
  <2> QED BY <2>1, <2>2 DEF Accounted
<1> QED BY <1>1, <1>2, <1>3, <1>4, AccountedContinues, StepActs

LEMMA StructureStart == Init => Typed /\ Apart /\ Accounted
<1> SUFFICES ASSUME Init PROVE Typed /\ Apart /\ Accounted
  OBVIOUS
<1> USE CallersKnown
<1>1. /\ \A a \in Arbiters : at[a] = "none"
      /\ at[Owner] = "idle" /\ at[Other] = "idle"
      /\ \A t \in Callers : at[t] \in {"none", "idle"}
      /\ \A o \in Objects : thread[o] = "unborn"
  BY DEF Init, PoolInit
<1>2. Apart
  BY <1>1 DEF Apart, OneArbiter, Running, Pushing
<1>3. Accounted
  BY <1>1 DEF Accounted, Homed
<1> QED BY <1>2, <1>3, TypedStart

Structure == Typed /\ Apart /\ Accounted

LEMMA StructureStep == Structure /\ [Next]_lifeVars => Structure'
<1>1. ASSUME Structure, Next
      PROVE  Structure'
  BY <1>1, TypedStep, ApartStep, AccountedStep DEF Structure
<1>2. ASSUME Structure, UNCHANGED lifeVars
      PROVE  Structure'
  <2>1. Typed'
    BY <1>2, TypedStep DEF Structure
  <2>2. UNCHANGED <<at, obj, thread, pool, holder, meddled>>
    BY <1>2 DEF lifeVars, poolVars, workerVars, callVars, lifeHistory
  <2> QED BY <1>2, <2>1, <2>2 DEF Structure, Apart, OneArbiter, Running, Accounted, Homed
<1> QED BY <1>1, <1>2

LEMMA StructureHolds == Spec => []Structure
<1>1. Init => Structure
  BY StructureStart DEF Structure
<1> QED BY <1>1, StructureStep, PTL DEF Spec

\* Whoever the report of an arbiter wakes finds no arbiter and every worker stopped and
\* destroyed, whatever stops and signals there were before, unless somebody meddled
\* with the pool (runner.cpp:190-195, 256-266; runner.hpp:101).
THEOREM StopLeavesNothing == Spec => StopFinishesJobs
<1> DEFINE Promise ==
      \A a \in Arbiters, t \in Clients :
        at[a] = "report" /\ at'[a] = "none" /\ at[t] = "waiting" =>
          \/ meddled
          \/ /\ ~Running'
             /\ \A o \in Objects : thread'[o] \in {"unborn", "freed"}
<1>1. ASSUME Structure, Next
      PROVE  Promise
  <2> SUFFICES ASSUME NEW a \in Arbiters, at[a] = "report", at'[a] = "none", ~meddled
               PROVE  /\ ~Running'
                      /\ \A o \in Objects : thread'[o] \in {"unborn", "freed"}
    OBVIOUS
  <2>1. \A t \in Callers : ~ Acts(t)
    <3> SUFFICES ASSUME NEW t \in Callers, Acts(t)
                 PROVE  FALSE
      OBVIOUS
    <3>1. CASE t = a
      BY <1>1, <3>1, ArbiterActsStay DEF Structure
    <3>2. CASE t # a
      BY <1>1, <3>2, ActsAlone, CallersKnown DEF Structure, Alone
    <3> QED BY <3>1, <3>2
  <2>2. ~ StartLaunches
    BY <1>1, LaunchMoves DEF Structure
  <2>3. \A o \in Objects : ~ Works(o)
    BY DEF Works, WorkerThread, Hurries, Waits, Rises, Clears, Parts, Steps
  <2>4. PICK b \in Arbiters : Reports(b)
    BY <1>1, <2>1, <2>2, <2>3, StepActs
  <2>5. /\ at[b] = "report" /\ at'[b] = "none" /\ thread' = thread
        /\ \A c \in Arbiters \ {b} : at'[c] = at[c]
    BY <1>1, <2>4, ReportMoves DEF Structure, poolState, workerVars
  <2>6. OneArbiter
    BY <1>1 DEF Structure, Apart
  <2>7. ~Running'
    BY <2>5, <2>6 DEF OneArbiter, Running
  <2> QED BY <1>1, <2>5, <2>7 DEF Structure, Accounted
<1>2. Structure /\ [Next]_lifeVars => [Promise]_lifeVars
  BY <1>1
<1> QED BY <1>2, StructureHolds, PTL DEF Spec, StopFinishesJobs

-------------------------------------------------------------------------------
(* A runner that nobody disturbs *)

Upto(n) == {i \in Ids : i < n}

Cd == Cardinality(unused)
C  == Cardinality(Cores)

\* At rest the ids of the pool are those below the counter.  Inside a push the
\* counter is one ahead, inside a pop it is one behind until the worker is taken.
\* Every push takes a core, which bounds the counter.
Numbered ==
  /\ PoolAtRest => DOMAIN pool = Upto(counter) /\ counter + Cd <= C
  /\ \A t \in Callers :
       /\ at[t] \in Pushing => counter = id[t] + 1 /\ DOMAIN pool = Upto(id[t])
       /\ at[t] \in {"choose", "construct"} => id[t] + Cd <= C
       /\ at[t] = "construct" => core[t] \in unused
       /\ at[t] = "insert" => counter + Cd <= C
       /\ at[t] = "take" => \/ DOMAIN pool = {}
                            \/ /\ id[t] = counter /\ DOMAIN pool = Upto(counter + 1)
                               /\ counter + 1 + Cd <= C
       /\ at[t] \in {"raise", "stop"} => DOMAIN pool = Upto(counter) /\ counter + Cd <= C

\* No worker is in the pool twice, or in the pool while it is made or stopped, and
\* nobody has woken one that is new.
Housed ==
  /\ \A i, j \in DOMAIN pool : pool[i] = pool[j] => i = j
  /\ \A i \in DOMAIN pool : thread[pool[i]] \notin {"unborn", "freed"}
  /\ \A t \in Callers :
       /\ at[t] \in {"insert", "raise", "stop"} =>
            /\ obj[t] \in Objects /\ \A i \in DOMAIN pool : pool[i] # obj[t]
            /\ thread[obj[t]] \notin {"unborn", "freed"}
       /\ at[t] = "insert" => ~awake[obj[t]]
  /\ \A o \in Objects : thread[o] = "unborn" => ~awake[o]

\* Between two frames no worker of the pool is awake; inside the barrier those that
\* the arbiter has waited for are not.
Between == \A a \in Arbiters : at[a] \in {"none", "top", "popping"} \cup Popping

Resting ==
  /\ Between => \A i \in DOMAIN pool : ~awake[pool[i]]
  /\ \A a \in Arbiters :
       /\ at[a] \in {"wait", "await"} =>
            \A i \in DOMAIN pool : i < waitId[a] => ~awake[pool[i]]
       /\ at[a] = "await" => waitId[a] \in DOMAIN pool /\ obj[a] = pool[waitId[a]]

\* The arbiter's turn is that of a worker in the pool, if there are any.
Turning ==
  DOMAIN pool # {} =>
    \A a \in Arbiters :
      /\ at[a] \in {"top", "turn", "wait", "await"} => nextId[a] <= counter
      /\ at[a] = "find" => nextId[a] < counter

\* Nothing has gone wrong, and no run has ended.
Calm ==
  /\ crashed \in {"no", "orphaned"} /\ ~skipped /\ ~SelfLocked
  /\ \A a \in Arbiters : at[a] # "report"
  /\ at[Owner] = "pin" => Running

Ordered == Numbered /\ Housed /\ Resting /\ Turning /\ Calm

Steady == ~Disturbed => Ordered

\* What is known while nobody disturbs: one caller changes the pool at a time.
Undisturbed == Structure /\ Ordered /\ ~Disturbed

LEMMA ChangesAlone ==
  ASSUME Undisturbed, NEW t \in Callers, at[t] \in Changing
  PROVE  /\ \A u \in Callers \ {t} : at[u] \notin Changing
         /\ t \in Clients => \A a \in Arbiters : at[a] = "none"
         /\ \A a \in Arbiters \ {t} : at[a] = "none"
<1>1. ~meddled /\ Typed /\ Apart
  BY DEF Undisturbed, Structure, Disturbed
<1>2. /\ OneArbiter
      /\ Running => \A u \in Clients : at[u] \notin Changing
      /\ at[Owner] \in Pushing => at[Other] \notin Changing
      /\ at[Owner] \notin Popping
  BY <1>1 DEF Apart, Typed, PlacesTyped
<1>3. "none" \notin Changing
  BY DEF Changing, Pushing, Popping
<1> QED BY <1>2, <1>3, CallersKnown DEF OneArbiter, Running, Changing, Clients

\* While an arbiter runs nobody else changes the pool, and there is no other one.
LEMMA RunsAlone ==
  ASSUME Undisturbed, NEW a \in Arbiters, at[a] # "none"
  PROVE  /\ \A u \in Callers \ {a} : at[u] \notin Changing
         /\ \A b \in Arbiters \ {a} : at[b] = "none"
<1>1. /\ OneArbiter
      /\ \A u \in Clients : at[u] \notin Changing
  BY DEF Undisturbed, Structure, Disturbed, Apart, Running
<1>2. "none" \notin Changing
  BY DEF Changing, Pushing, Popping
<1> QED BY <1>1, <1>2, CallersKnown DEF OneArbiter

LEMMA CoresCount ==
  ASSUME Typed
  PROVE  /\ Cd \in Nat /\ C \in Nat /\ 2 * C + 1 < IdSpace /\ C + 1 < IdSpace
         /\ IdSpace \in Nat
         /\ IsFiniteSet(unused) /\ counter \in Nat /\ counter < IdSpace
         /\ \A t \in Callers : id[t] \in Nat /\ id[t] < IdSpace
         /\ \A c \in unused : Cardinality(unused \ {c}) = Cd - 1
<1>1. /\ unused \in SUBSET Cores /\ IsFiniteSet(Cores) /\ 2 * C + 1 < IdSpace /\ IdSpace \in Nat
  BY PoolAssumption DEF PoolAssumption, Typed, PoolTyped, C
<1>2. IsFiniteSet(unused)
  BY <1>1, FS_Subset
<1>3. Cd \in Nat /\ C \in Nat /\ C + 1 < IdSpace
  <2>1. Cd \in Nat /\ C \in Nat
    BY <1>1, <1>2, FS_CardinalityType DEF Cd, C
  <2> QED BY <1>1, <2>1
<1>4. \A c \in unused : Cardinality(unused \ {c}) = Cd - 1
  BY <1>2, FS_RemoveElement DEF Cd
<1>5. /\ counter \in Nat /\ counter < IdSpace
      /\ \A t \in Callers : id[t] \in Nat /\ id[t] < IdSpace
  <2>1. counter \in Ids /\ id \in [Callers -> Ids]
    BY DEF Typed, PoolTyped
  <2> QED BY <1>1, <2>1 DEF Ids
<1> QED BY <1>1, <1>2, <1>3, <1>4, <1>5

LEMMA NumberedStays ==
  ASSUME Numbered, UNCHANGED <<counter, pool, unused, id, core>>,
         \A t \in Callers : at'[t] = at[t] \/ (at[t] \notin Changing /\ at'[t] \notin Changing)
  PROVE  Numbered'
<1>1. PoolAtRest' = PoolAtRest
  BY DEF PoolAtRest, Changing
<1>2. Cd' = Cd
  BY DEF Cd
<1>3. \A t \in Callers : at'[t] \in Changing => at'[t] = at[t]
  OBVIOUS
<1>4. Pushing \subseteq Changing /\ {"take", "raise", "stop"} \subseteq Changing
  BY DEF Changing, Popping
<1>5. {"choose", "construct", "insert"} \subseteq Changing
  BY DEF Changing, Pushing
<1> QED BY <1>1, <1>2, <1>3, <1>4, <1>5 DEF Numbered, Upto, C

LEMMA HousedStays ==
  ASSUME Housed, UNCHANGED <<pool, thread, awake, live>>,
         \A t \in Callers : at'[t] \in {"insert", "raise", "stop"} => at'[t] = at[t] /\ obj'[t] = obj[t]
  PROVE  Housed'
BY DEF Housed

LEMMA RestingStays ==
  ASSUME Resting, UNCHANGED <<pool, awake>>,
         \A a \in Arbiters : at'[a] = at[a] /\ obj'[a] = obj[a] /\ waitId'[a] = waitId[a]
  PROVE  Resting'
BY DEF Resting, Between

LEMMA TurningStays ==
  ASSUME Turning, UNCHANGED <<pool, counter>>,
         \A a \in Arbiters : at'[a] = at[a] /\ nextId'[a] = nextId[a]
  PROVE  Turning'
BY DEF Turning

LEMMA CalmStays ==
  ASSUME Calm, UNCHANGED <<crashed, skipped>>,
         \A a \in Arbiters : (at'[a] = "none" => at[a] = "none")
                             /\ at'[a] \notin {"report", "selflock"},
         at'[Owner] = "pin" => at[Owner] = "pin"
  PROVE  Calm'
BY DEF Calm, Running, SelfLocked

\* The history of what disturbs is not forgotten.
LEMMA DisturbedStays ==
  ASSUME Typed, Next
  PROVE  Disturbed => Disturbed'
<1>1. ASSUME NEW t \in Callers, Continues(t)
      PROVE  Disturbed => Disturbed'
  BY <1>1
  DEF Continues, PushThrows, PushChoose, PushConstruct, PushInsert, PushClashes, PopNone,
      PopNull, PopTake, PopRaise, PopDestroy, lifeHistory, poolHistory, Disturbed
<1>2. ASSUME NEW t \in Callers, Acts(t), ~ Continues(t)
      PROVE  Disturbed => Disturbed'
  <2>1. emptied' = emptied /\ (meddled => meddled')
    BY <1>2, OuterActs
  <2>2. thrown => thrown'
    BY <1>2
    DEF Acts, OwnerActs, OtherActs, ClientActs, ArbiterActs, StartBegin, StartPins, StartJoins,
        Destroys, StartPushes, Pushes, Pops, PushCount, PopCount, StopBegins, StopWaits,
        StopWakesSpuriously, Signals, FrameBegins, TakesTurn, Assigns, Drops, Retries,
        BarrierBegins, BarrierFinds, BarrierPasses, FrameEnds, FramesStop, PopsNext,
        poolHistory
  <2> QED BY <2>1, <2>2 DEF Disturbed
<1>3. CASE StartLaunches
  BY <1>3, LaunchMoves DEF poolHistory, Disturbed
<1>4. CASE \E a \in Arbiters : Reports(a)
  BY <1>4 DEF Reports, poolHistory, lifeHistory, Disturbed
<1>5. CASE \E o \in Objects : Works(o)
  BY <1>5 DEF Works, WorkerThread, Hurries, Waits, Rises, Clears, Parts, Steps, poolHistory, lifeHistory, Disturbed
<1> QED BY <1>1, <1>2, <1>3, <1>4, <1>5, StepActs

\* The calls that leave the pool alone.
LEMMA OrderedCalls ==
  ASSUME Undisturbed, NEW t \in Clients, Acts(t),
         (t = Owner /\ (StartBegin \/ StartJoins \/ Destroys)) \/ ClientActs(t)
  PROVE  Ordered'
<1> USE CallersKnown
<1>0. Typed /\ at \in [Callers -> Points]
  BY DEF Undisturbed, Structure, Typed, PlacesTyped
<1>1. Alone(t)
  BY <1>0, ActsAlone
<1>2. /\ at[t] \notin Changing /\ at'[t] \notin Changing \cup {"pin"}
      /\ UNCHANGED <<poolState, nextId, waitId, skipped>>
  BY <1>0
  DEF StartBegin, StartJoins, Destroys, ClientActs, StopBegins, StopWaits, StopWakesSpuriously,
      Signals, Stopped, Call, Goes, Changing, Pushing, Popping, poolState, arbiterVars,
      lifeHistory
<1>3. \A a \in Arbiters : at'[a] = at[a] /\ obj'[a] = obj[a]
  BY <1>1 DEF Alone
<1>4. \A u \in Callers : at'[u] = at[u] \/ (at[u] \notin Changing /\ at'[u] \notin Changing)
  BY <1>1, <1>2 DEF Alone
<1>5. {"insert", "raise", "stop"} \subseteq Changing
  BY DEF Changing, Pushing, Popping
<1>6. UNCHANGED <<counter, pool, unused, id, core, obj, thread, awake, live, crashed>>
  BY <1>2 DEF poolState, poolVars, workerVars, callVars, poolHistory
<1>7. Numbered' /\ Housed' /\ Resting' /\ Turning'
  BY <1>2, <1>3, <1>4, <1>5, <1>6, NumberedStays, HousedStays, RestingStays, TurningStays
  DEF Undisturbed, Ordered
<1>8. Calm'
  <2>1. at'[Owner] = "pin" => at[Owner] = "pin"
    BY <1>1, <1>2 DEF Alone
  <2>2. \A a \in Arbiters : /\ at'[a] = "none" => at[a] = "none"
                            /\ at'[a] \notin {"report", "selflock"}
    BY <1>3 DEF Undisturbed, Ordered, Calm, SelfLocked
  <2> QED BY <1>2, <1>6, <2>1, <2>2, CalmStays DEF Undisturbed, Ordered
<1> QED BY <1>7, <1>8 DEF Ordered

\* The arbiter is launched while all workers rest.
LEMMA OrderedLaunch ==
  ASSUME Undisturbed, StartLaunches
  PROVE  Ordered'
<1> USE CallersKnown
<1>0. Typed /\ at \in [Callers -> Points]
  BY DEF Undisturbed, Structure, Typed, PlacesTyped
<1>1. /\ at[Owner] = "pushing" /\ at'[Owner] \in {"pin", "join"} /\ at'[Other] = at[Other]
      /\ UNCHANGED <<poolVars, workerVars, callVars, poolHistory, waitId, skipped>>
  BY <1>0, LaunchMoves
<1>2. PICK a \in Arbiters : /\ at[a] = "none" /\ at'[a] = "top"
                            /\ \A b \in Arbiters \ {a} : at'[b] = at[b]
                            /\ nextId'[a] = 0
                            /\ \A b \in Arbiters \ {a} : nextId'[b] = nextId[b]
  BY <1>0, LaunchMoves
<1>3. UNCHANGED <<counter, pool, unused, id, core, obj, thread, awake, live, crashed>>
  BY <1>1 DEF poolVars, workerVars, callVars, poolHistory
<1>4. \A b \in Arbiters : at[b] = "none"
  BY <1>1 DEF Undisturbed, Structure, Disturbed, Apart, Running
<1>5. \A b \in Arbiters : at'[b] \in {"none", "top"}
  BY <1>2, <1>4
<1>6. Numbered'
  <2>1. {"pushing", "pin", "join", "none", "top"} \cap Changing = {}
    BY DEF Changing, Pushing, Popping
  <2>2. \A u \in Callers : at'[u] = at[u] \/ (at[u] \notin Changing /\ at'[u] \notin Changing)
    BY <1>1, <1>2, <2>1 DEF Clients
  <2> QED BY <1>3, <2>2, NumberedStays DEF Undisturbed, Ordered
<1>7. Housed'
  <2>1. \A u \in Callers : at'[u] \in {"insert", "raise", "stop"} => at'[u] = at[u]
    BY <1>1, <1>2 DEF Clients
  <2> QED BY <1>3, <2>1, HousedStays DEF Undisturbed, Ordered
<1>8. Resting'
  <2>1. Between
    BY <1>4 DEF Between
  <2>2. \A i \in DOMAIN pool : ~awake[pool[i]]
    BY <2>1 DEF Undisturbed, Ordered, Resting
  <2> QED BY <1>3, <1>5, <2>2 DEF Resting
<1>9. Turning'
  <2>1. counter >= 0
    BY <1>0, CoresCount
  <2> QED BY <1>2, <1>3, <1>4, <2>1 DEF Turning
<1>10. Calm'
  <2>1. ~SelfLocked' /\ Running' /\ \A b \in Arbiters : at'[b] # "report"
    BY <1>2, <1>5 DEF SelfLocked, Running
  <2> QED BY <1>1, <1>3, <2>1 DEF Undisturbed, Ordered, Calm
<1> QED BY <1>6, <1>7, <1>8, <1>9, <1>10 DEF Ordered

\* A floating arbiter runs when its core is chosen, and nobody pushes then.
LEMMA OrderedPins ==
  ASSUME Undisturbed, StartPins, Acts(Owner), ~Disturbed'
  PROVE  Ordered'
<1> USE CallersKnown
<1>0. /\ Typed /\ at \in [Callers -> Points]
  BY DEF Undisturbed, Structure, Typed, PlacesTyped
<1>1. Alone(Owner)
  BY <1>0, ActsAlone
<1>2. /\ at[Owner] = "pin" /\ at'[Owner] = "idle"
      /\ UNCHANGED <<counter, pool, thread, live, awake, id, core, obj, nextId, waitId, skipped>>
  BY <1>0 DEF StartPins, Goes, workerVars, callVars, arbiterVars, lifeHistory
<1>3. unused # {} /\ unused' = unused \ {Min(unused)} /\ crashed' = crashed
  BY DEF StartPins, Disturbed
<1>4. Cd' \in Nat /\ Cd' <= Cd
  <2>1. Min(unused) \in unused
    BY <1>0, <1>3, MinIsIn DEF Typed, PoolTyped
  <2>2. Cd' = Cd - 1 /\ IsFiniteSet(unused \ {Min(unused)})
    BY <1>0, <1>3, <2>1, CoresCount, FS_Subset DEF Cd
  <2>3. Cd' \in Nat
    BY <1>3, <2>2, FS_CardinalityType DEF Cd
  <2> QED BY <1>0, <2>2, <2>3, CoresCount
<1>5. \A t \in Clients : at[t] \notin Changing /\ at'[t] \notin Changing
  <2>1. \A t \in Clients : at[t] \notin Changing
    BY <1>2 DEF Undisturbed, Structure, Disturbed, Ordered, Calm, Apart
  <2>2. "idle" \notin Changing
    BY DEF Changing, Pushing, Popping
  <2> QED BY <1>1, <1>2, <2>1, <2>2 DEF Alone
<1>6. \A a \in Arbiters : at'[a] = at[a]
  BY <1>1 DEF Alone
<1>7. Numbered'
  <2>1. \A t \in Callers : at'[t] \in Changing =>
          at'[t] = at[t] /\ t \in Arbiters /\ at[t] \in Popping
    BY <1>0, <1>5, <1>6 DEF Typed, PlacesTyped, ArbiterPoints, Changing, Pushing
  <2>2. PoolAtRest' = PoolAtRest
    BY <1>5, <1>6 DEF PoolAtRest, Changing
  <2>3. C' = C /\ Cd \in Nat /\ C \in Nat /\ counter \in Nat
    BY <1>0, CoresCount DEF C
  <2>4. /\ counter + Cd <= C => counter + Cd' <= C'
        /\ counter + 1 + Cd <= C => counter + 1 + Cd' <= C'
    <3>1. \A k, m, n, c \in Nat : m <= n =>
            /\ k + n <= c => k + m <= c
            /\ k + 1 + n <= c => k + 1 + m <= c
      OBVIOUS
    <3>2. PICK c \in Nat : c = C /\ c = C'
      BY <2>3
    <3> QED BY <1>4, <2>3, <3>1, <3>2
  <2>5. \A t \in Callers : at'[t] \notin Pushing
    BY <2>1 DEF Changing, Pushing, Popping
  <2>6. \A t \in Callers : at'[t] \in Popping => at[t] = at'[t]
    BY <2>1 DEF Changing
  <2>7. PoolAtRest' => DOMAIN pool' = Upto(counter)' /\ counter' + Cd' <= C'
    BY <1>2, <2>2, <2>4 DEF Undisturbed, Ordered, Numbered, Upto
  <2>8. ASSUME NEW t \in Callers, at'[t] = "take"
        PROVE  \/ DOMAIN pool' = {}
               \/ /\ id'[t] = counter' /\ DOMAIN pool' = Upto(counter + 1)'
                  /\ counter' + 1 + Cd' <= C'
    BY <1>2, <2>4, <2>6, <2>8 DEF Undisturbed, Ordered, Numbered, Upto, Popping
  <2>9. ASSUME NEW t \in Callers, at'[t] \in {"raise", "stop"}
        PROVE  DOMAIN pool' = Upto(counter)' /\ counter' + Cd' <= C'
    BY <1>2, <2>4, <2>6, <2>9 DEF Undisturbed, Ordered, Numbered, Upto, Popping
  <2> QED BY <2>5, <2>7, <2>8, <2>9 DEF Numbered, Pushing
<1>8. Housed' /\ Resting' /\ Turning'
  <2>1. {"insert", "raise", "stop"} \subseteq Changing
    BY DEF Changing, Pushing, Popping
  <2> QED BY <1>2, <1>5, <1>6, <2>1, HousedStays, RestingStays, TurningStays
          DEF Undisturbed, Ordered
<1>9. Calm'
  BY <1>2, <1>3, <1>6, CalmStays DEF Undisturbed, Ordered, Calm, SelfLocked
<1> QED BY <1>7, <1>8, <1>9 DEF Ordered

\* Whoever begins to change the pool does so alone.
LEMMA BeginsAlone ==
  ASSUME Undisturbed, ~Disturbed', NEW t \in Callers,
         \/ t = Owner /\ StartPushes
         \/ t = Other /\ OtherActs
         \/ t \in Arbiters /\ PopsNext(t)
  PROVE  /\ PoolAtRest /\ Between
         /\ t \in Clients => \A a \in Arbiters : at[a] = "none"
         /\ t \in Arbiters => \A a \in Arbiters \ {t} : at[a] = "none"
         /\ at[t] \in {"pushing", "idle", "popping"}
         /\ \E from : PushCount(t, from) \/ PopCount(t, from)
         /\ UNCHANGED <<nextId, waitId, skipped>>
<1> USE CallersKnown
<1>0. /\ at \in [Callers -> Points] /\ at[Owner] \notin Popping
      /\ ~meddled /\ Apart /\ Typed
  BY DEF Undisturbed, Structure, Typed, PlacesTyped, Disturbed
<1>1. {"none", "pushing", "idle", "popping"} \cap Changing = {}
  BY DEF Changing, Pushing, Popping
<1>2. CASE t = Owner /\ StartPushes
  <2>1. at[Owner] = "pushing"
    BY <1>2 DEF StartPushes, PushCount, Goes
  <2>2. (\A a \in Arbiters : at[a] = "none") /\ at[Other] \notin Changing
    BY <1>0, <2>1 DEF Apart, Running
  <2>3. PoolAtRest /\ Between
    BY <1>1, <2>1, <2>2 DEF PoolAtRest, Between, Changing, Clients
  <2> QED BY <1>2, <2>1, <2>2, <2>3 DEF StartPushes, arbiterVars, lifeHistory
<1>3. CASE t = Other /\ OtherActs
  <2>1. at[Other] = "idle"
    BY <1>3 DEF OtherActs, Pushes, Pops, PushCount, PopCount, Goes
  <2>2. ~Running /\ at[Owner] \notin Pushing
    BY <1>3 DEF OtherActs, Pushes, Pops, Meddles, Disturbed
  <2>3. \A a \in Arbiters : at[a] = "none"
    BY <2>2 DEF Running
  <2>4. PoolAtRest /\ Between
    BY <1>0, <1>1, <2>1, <2>2, <2>3 DEF PoolAtRest, Between, Changing, Clients
  <2>5. UNCHANGED <<nextId, waitId, skipped>>
    BY <1>3 DEF OtherActs, Pushes, Pops, Meddles, arbiterVars
  <2>6. \E from : PushCount(t, from) \/ PopCount(t, from)
    BY <1>3 DEF OtherActs, Pushes, Pops
  <2> QED BY <1>3, <2>1, <2>3, <2>4, <2>5, <2>6
<1>4. CASE t \in Arbiters /\ PopsNext(t)
  <2>1. at[t] = "popping"
    BY <1>4 DEF PopsNext, PopCount, Goes
  <2>2. /\ \A u \in Callers \ {t} : at[u] \notin Changing
        /\ \A a \in Arbiters \ {t} : at[a] = "none"
    BY <1>4, <2>1, RunsAlone
  <2>3. PoolAtRest /\ Between
    BY <1>1, <2>1, <2>2 DEF PoolAtRest, Between, Changing
  <2> QED BY <1>4, <2>1, <2>2, <2>3 DEF PopsNext, arbiterVars, lifeHistory
<1> QED BY <1>2, <1>3, <1>4

LEMMA OrderedBegins ==
  ASSUME Undisturbed, ~Disturbed', NEW t \in Callers, Acts(t),
         \/ t = Owner /\ StartPushes
         \/ t = Other /\ OtherActs
         \/ t \in Arbiters /\ PopsNext(t)
  PROVE  Ordered'
<1> USE CallersKnown
<1>0. /\ Typed /\ at \in [Callers -> Points] /\ Alone(t) /\ id \in [Callers -> Ids]
      /\ counter \in Ids
  BY ActsAlone DEF Undisturbed, Structure, Typed, PlacesTyped, PoolTyped
<1>1. /\ PoolAtRest /\ Between
      /\ t \in Clients => \A a \in Arbiters : at[a] = "none"
      /\ t \in Arbiters => \A a \in Arbiters \ {t} : at[a] = "none"
      /\ at[t] \in {"pushing", "idle", "popping"}
      /\ UNCHANGED <<nextId, waitId, skipped>>
  BY BeginsAlone
<1>2. PICK from : PushCount(t, from) \/ PopCount(t, from)
  BY BeginsAlone
<1>3. /\ UNCHANGED <<pool, unused, thread, awake, live, core, obj, crashed>>
      /\ at'[t] = IF PushCount(t, from) THEN "choose" ELSE "take"
      /\ id'[t] = IF PushCount(t, from) THEN counter ELSE counter'
      /\ counter' = IF PushCount(t, from) THEN Up(counter) ELSE Down(counter)
  BY <1>0, <1>2 DEF PushCount, PopCount, Goes, workerVars, poolHistory
<1>4. \A u \in Callers \ {t} : at'[u] \notin Changing
  BY <1>0, <1>1 DEF PoolAtRest, Alone, Changing
<1>5. DOMAIN pool = Upto(counter) /\ counter + Cd <= C
  BY <1>1 DEF Undisturbed, Ordered, Numbered
<1>6. /\ counter + 1 < IdSpace /\ counter \in Nat /\ Cd \in Nat /\ C \in Nat
  BY <1>0, <1>5, CoresCount
<1>7. Cd' = Cd /\ C' = C
  BY <1>3 DEF Cd, C
<1>8. "choose" \in Changing /\ "take" \in Changing
  BY DEF Changing, Pushing, Popping
<1>9. Numbered'
  <2>1. ~PoolAtRest'
    BY <1>3, <1>8 DEF PoolAtRest, Changing
  <2>2. ASSUME NEW u \in Callers, at'[u] \in Changing
        PROVE  u = t /\ at'[t] \in {"choose", "take"}
    BY <1>3, <1>4, <2>2
  <2>3. CASE PushCount(t, from)
    <3>1. at'[t] = "choose" /\ id'[t] = counter /\ counter' = counter + 1
      BY <1>0, <1>3, <1>6, <2>3, UpIsNext
    <3>2. counter' = id'[t] + 1 /\ DOMAIN pool' = Upto(id[t])' /\ id'[t] + Cd' <= C'
      BY <1>3, <1>5, <1>7, <3>1 DEF Upto
    <3> QED BY <2>1, <2>2, <3>1, <3>2 DEF Numbered, Changing, Pushing, Popping
  <2>4. CASE ~PushCount(t, from)
    <3>1. at'[t] = "take" /\ id'[t] = counter' /\ counter' = Down(counter)
      BY <1>3, <2>4
    <3>2. CASE counter = 0
      <4>1. DOMAIN pool' = {}
        BY <1>3, <1>5, <3>2, PoolAssumption DEF Upto, Ids, PoolAssumption
      <4> QED BY <2>1, <2>2, <3>1, <4>1 DEF Numbered, Changing, Pushing, Popping
    <3>3. CASE counter # 0
      <4>1. counter' = counter - 1
        BY <1>0, <3>1, <3>3, DownIsPrevious
      <4>2. counter' + 1 = counter
        BY <1>6, <4>1
      <4>3. DOMAIN pool' = Upto(counter + 1)' /\ counter' + 1 + Cd' <= C'
        BY <1>3, <1>5, <1>7, <4>2 DEF Upto
      <4> QED BY <2>1, <2>2, <3>1, <4>3 DEF Numbered, Changing, Pushing, Popping
    <3> QED BY <3>2, <3>3
  <2> QED BY <2>3, <2>4
<1>10. Housed'
  <2>1. \A u \in Callers : at'[u] \notin {"insert", "raise", "stop"}
    BY <1>3, <1>4 DEF Changing, Pushing, Popping
  <2> QED BY <1>3, <2>1, HousedStays DEF Undisturbed, Ordered
<1>11. \A a \in Arbiters : at'[a] \in {"none", "take"} /\ (at'[a] = "none" => at[a] = "none")
  <2>1. t \in Arbiters => at'[t] = "take"
    BY <1>0 DEF PopsNext, PopCount, Goes
  <2> QED BY <1>0, <1>1, <2>1 DEF Alone
<1>12. Resting'
  <2>1. \A i \in DOMAIN pool : ~awake[pool[i]]
    BY <1>1 DEF Undisturbed, Ordered, Resting
  <2> QED BY <1>3, <1>11, <2>1 DEF Resting
<1>13. Turning'
  BY <1>11 DEF Turning
<1>14. Calm'
  <2>1. at'[Owner] = "pin" => at[Owner] = "pin"
    BY <1>0, <1>3 DEF Alone
  <2> QED BY <1>1, <1>3, <1>11, <2>1, CalmStays DEF Undisturbed, Ordered
<1> QED BY <1>9, <1>10, <1>12, <1>13, <1>14 DEF Ordered

\* A core for the worker ...
LEMMA OrderedChoose ==
  ASSUME Undisturbed, NEW t \in Clients, Continues(t), PushChoose(t)
  PROVE  Ordered'
<1> USE CallersKnown
<1>0. /\ Typed /\ at \in [Callers -> Points] /\ Alone(t) /\ core \in [Callers -> Cores \cup {None}]
  BY ActsAlone DEF Undisturbed, Structure, Typed, PlacesTyped, PoolTyped, Acts
<1>1. /\ at[t] = "choose" /\ at'[t] = "construct"
      /\ UNCHANGED <<counter, pool, unused, thread, awake, live, id, obj, crashed, nextId,
                     waitId, skipped>>
      /\ core'[t] = Min(unused) /\ unused # {}
  BY <1>0 DEF PushChoose, Continues, Goes, poolVars, workerVars, poolHistory, arbiterVars,
              lifeHistory
<1>2. core'[t] \in unused'
  BY <1>0, <1>1, MinIsIn DEF Typed, PoolTyped
<1>3. /\ \A u \in Callers \ {t} : at'[u] \notin Changing
      /\ \A a \in Arbiters : at'[a] = at[a] /\ obj'[a] = obj[a]
      /\ \A a \in Arbiters : at[a] = "none"
  <2>1. at[t] \in Changing
    BY <1>1 DEF Changing, Pushing
  <2> QED BY <1>0, <2>1, ChangesAlone DEF Alone
<1>4. Numbered'
  <2>1. ~PoolAtRest'
    BY <1>1 DEF PoolAtRest, Pushing
  <2>2. Cd' = Cd /\ C' = C
    BY <1>1 DEF Cd, C
  <2>3. counter = id[t] + 1 /\ DOMAIN pool = Upto(id[t]) /\ id[t] + Cd <= C
    BY <1>1 DEF Undisturbed, Ordered, Numbered, Pushing
  <2> QED BY <1>1, <1>2, <1>3, <2>1, <2>2, <2>3 DEF Numbered, Changing, Pushing, Popping, Upto
<1>5. Housed' /\ Resting' /\ Turning'
  <2>1. \A u \in Callers : at'[u] \notin {"insert", "raise", "stop"}
    BY <1>1, <1>3 DEF Changing, Pushing, Popping
  <2> QED BY <1>1, <1>3, <2>1, HousedStays, RestingStays, TurningStays DEF Undisturbed, Ordered
<1>6. Calm'
  <2>1. at'[Owner] = "pin" => at[Owner] = "pin"
    BY <1>0, <1>1 DEF Alone
  <2>2. \A a \in Arbiters : at'[a] = "none"
    BY <1>3
  <2> QED BY <1>1, <1>3, <2>1, <2>2, CalmStays DEF Undisturbed, Ordered
<1> QED BY <1>4, <1>5, <1>6 DEF Ordered

\* ... a new object and its thread, in no other place ...
LEMMA OrderedConstruct ==
  ASSUME Undisturbed, NEW t \in Clients, Continues(t), PushConstruct(t)
  PROVE  Ordered'
<1> USE CallersKnown
<1>0. /\ Typed /\ at \in [Callers -> Points] /\ Alone(t)
      /\ obj \in [Callers -> Objects \cup {None}]
      /\ thread \in [Objects -> Stages \cup {"unborn", "freed"}]
      /\ \A i \in DOMAIN pool : pool[i] \in Objects
  BY ActsAlone DEF Undisturbed, Structure, Typed, PlacesTyped, PoolTyped, Acts
<1> DEFINE new == Min({o \in Objects : thread[o] = "unborn"})
<1>1. new \in Objects /\ thread[new] = "unborn"
  BY MinIsIn DEF PushConstruct
<1>2. /\ at[t] = "construct" /\ at'[t] = "insert" /\ obj'[t] = new
      /\ unused' = unused \ {core[t]}
      /\ \A o \in Objects : thread'[o] = IF o = new THEN "born" ELSE thread[o]
      /\ UNCHANGED <<counter, pool, awake, live, id, core, crashed, nextId, waitId, skipped>>
  BY <1>0, <1>1 DEF PushConstruct, Continues, Goes, poolHistory, arbiterVars, lifeHistory
<1> HIDE DEF new
<1>3. /\ \A u \in Callers \ {t} : at'[u] \notin Changing
      /\ \A a \in Arbiters : at'[a] = at[a] /\ obj'[a] = obj[a]
      /\ \A a \in Arbiters : at[a] = "none"
  <2>1. at[t] \in Changing
    BY <1>2 DEF Changing, Pushing
  <2> QED BY <1>0, <2>1, ChangesAlone DEF Alone
<1>4. Numbered'
  <2>1. ~PoolAtRest'
    BY <1>2 DEF PoolAtRest, Pushing
  <2>2. /\ counter = id[t] + 1 /\ DOMAIN pool = Upto(id[t]) /\ id[t] + Cd <= C
        /\ core[t] \in unused
    BY <1>2 DEF Undisturbed, Ordered, Numbered, Pushing
  <2>3. Cd' = Cd - 1 /\ C' = C
    <3>1. Cardinality(unused \ {core[t]}) = Cd - 1
      BY <1>0, <2>2, CoresCount
    <3> QED BY <1>2, <3>1 DEF Cd, C
  <2>4. counter' + Cd' <= C'
    <3>1. \A k, n, c \in Nat : k + n <= c => k + 1 + (n - 1) <= c
      OBVIOUS
    <3> QED BY <1>0, <1>2, <2>2, <2>3, <3>1, CoresCount
  <2> QED BY <1>2, <1>3, <2>1, <2>2, <2>4 DEF Numbered, Changing, Pushing, Popping, Upto
<1>5. Housed'
  <2>1. /\ \A i \in DOMAIN pool : pool[i] # new
        /\ ~awake[new]
    BY <1>1 DEF Undisturbed, Ordered, Housed
  <2>2. \A u \in Callers \ {t} : at'[u] \notin {"insert", "raise", "stop"}
    BY <1>3 DEF Changing, Pushing, Popping
  <2>3. \A i \in DOMAIN pool' : thread'[pool'[i]] \notin {"unborn", "freed"}
    BY <1>0, <1>2, <2>1 DEF Undisturbed, Ordered, Housed
  <2>4. \A o \in Objects : thread'[o] = "unborn" => ~awake'[o]
    BY <1>2 DEF Undisturbed, Ordered, Housed
  <2>5. \A i, j \in DOMAIN pool' : pool'[i] = pool'[j] => i = j
    BY <1>2 DEF Undisturbed, Ordered, Housed
  <2>6. /\ obj'[t] \in Objects /\ \A i \in DOMAIN pool' : pool'[i] # obj'[t]
        /\ thread'[obj'[t]] = "born" /\ ~awake'[obj'[t]] /\ at'[t] = "insert"
    BY <1>1, <1>2, <2>1
  <2> QED BY <2>2, <2>3, <2>4, <2>5, <2>6 DEF Housed
<1>6. Resting' /\ Turning'
  BY <1>2, <1>3, RestingStays, TurningStays DEF Undisturbed, Ordered
<1>7. Calm'
  <2>1. at'[Owner] = "pin" => at[Owner] = "pin"
    BY <1>0, <1>2 DEF Alone
  <2>2. \A a \in Arbiters : at'[a] = "none"
    BY <1>3
  <2> QED BY <1>2, <1>3, <2>1, <2>2, CalmStays DEF Undisturbed, Ordered
<1> QED BY <1>4, <1>5, <1>6, <1>7 DEF Ordered

\* ... and its place in the pool, which is free.
LEMMA OrderedInsert ==
  ASSUME Undisturbed, NEW t \in Clients, Continues(t), PushInsert(t, Pushed(t))
  PROVE  Ordered'
<1> USE CallersKnown
<1>0. /\ Typed /\ at \in [Callers -> Points] /\ Alone(t) /\ counter \in Ids
      /\ id \in [Callers -> Ids]
  BY ActsAlone DEF Undisturbed, Structure, Typed, PlacesTyped, PoolTyped, Acts
<1>1. /\ at[t] = "insert" /\ at'[t] \in {"pushing", "idle"}
      /\ pool' = [i \in DOMAIN pool \cup {id[t]} |-> IF i = id[t] THEN obj[t] ELSE pool[i]]
      /\ UNCHANGED <<counter, unused, thread, awake, id, core, obj, crashed, nextId, waitId,
                     skipped>>
  BY <1>0 DEF PushInsert, Pushed, Continues, Goes, callVars, poolHistory, arbiterVars,
              lifeHistory
<1>2. /\ \A u \in Callers \ {t} : at'[u] \notin Changing
      /\ \A a \in Arbiters : at'[a] = "none" /\ at[a] = "none"
  <2>1. at[t] \in Changing
    BY <1>1 DEF Changing, Pushing
  <2> QED BY <1>0, <2>1, ChangesAlone DEF Alone
<1>3. /\ counter = id[t] + 1 /\ DOMAIN pool = Upto(id[t]) /\ counter + Cd <= C
  BY <1>1 DEF Undisturbed, Ordered, Numbered, Pushing
<1>4. /\ obj[t] \in Objects /\ \A i \in DOMAIN pool : pool[i] # obj[t]
      /\ thread[obj[t]] \notin {"unborn", "freed"} /\ ~awake[obj[t]]
  BY <1>1 DEF Undisturbed, Ordered, Housed
<1>5. \A u \in Callers : at'[u] \notin Changing
  BY <1>1, <1>2 DEF Changing, Pushing, Popping
<1>6. Numbered'
  <2>1. DOMAIN pool' = Upto(counter)'
    <3>1. counter \in Nat /\ id[t] \in Nat /\ id[t] \in Ids
      BY <1>0, CoresCount
    <3>2. DOMAIN pool' = Upto(id[t]) \cup {id[t]}
      BY <1>1, <1>3
    <3>3. \A i \in Ids : i < id[t] + 1 <=> i < id[t] \/ i = id[t]
      BY <3>1, PoolAssumption DEF Ids, PoolAssumption
    <3> QED BY <1>1, <1>3, <3>1, <3>2, <3>3 DEF Upto
  <2>2. counter' + Cd' <= C'
    BY <1>1, <1>3 DEF Cd, C
  <2>3. \A u \in Callers : at'[u] \notin Pushing \cup {"construct", "choose", "insert", "take", "raise", "stop"}
    BY <1>5 DEF Changing, Pushing, Popping
  <2> QED BY <2>1, <2>2, <2>3 DEF Numbered
<1>7. Housed'
  <2>1. \A u \in Callers : at'[u] \notin {"insert", "raise", "stop"}
    BY <1>5 DEF Changing, Pushing, Popping
  <2>2. \A i, j \in DOMAIN pool' : pool'[i] = pool'[j] => i = j
    BY <1>1, <1>4 DEF Undisturbed, Ordered, Housed
  <2>3. \A i \in DOMAIN pool' : thread'[pool'[i]] \notin {"unborn", "freed"}
    BY <1>1, <1>4 DEF Undisturbed, Ordered, Housed
  <2> QED BY <1>1, <2>1, <2>2, <2>3 DEF Undisturbed, Ordered, Housed
<1>8. Resting'
  <2>1. \A i \in DOMAIN pool : ~awake[pool[i]]
    BY <1>2 DEF Between, Undisturbed, Ordered, Resting
  <2>2. \A i \in DOMAIN pool' : ~awake'[pool'[i]]
    BY <1>1, <1>4, <2>1
  <2> QED BY <1>2, <2>2 DEF Resting
<1>9. Turning'
  BY <1>2 DEF Turning
<1>10. Calm'
  <2>1. at'[Owner] = "pin" => at[Owner] = "pin"
    BY <1>0, <1>1 DEF Alone
  <2> QED BY <1>1, <1>2, <2>1, CalmStays DEF Undisturbed, Ordered
<1> QED BY <1>6, <1>7, <1>8, <1>9, <1>10 DEF Ordered

\* A pop takes the worker with the highest id, which runs no job ...
LEMMA OrderedTake ==
  ASSUME Undisturbed, NEW t \in Callers, Continues(t), PopTake(t)
  PROVE  Ordered'
<1> USE CallersKnown
<1>0. /\ Typed /\ at \in [Callers -> Points] /\ Alone(t) /\ counter \in Ids
      /\ id \in [Callers -> Ids] /\ obj \in [Callers -> Objects \cup {None}]
      /\ live \in [Objects -> BOOLEAN] /\ awake \in [Objects -> BOOLEAN]
      /\ \A i \in DOMAIN pool : pool[i] \in Objects
  BY ActsAlone DEF Undisturbed, Structure, Typed, PlacesTyped, PoolTyped, Acts
<1> DEFINE o == pool[id[t]]
<1>1. id[t] \in DOMAIN pool /\ o \in Objects
  BY <1>0 DEF PopTake
<1>2. /\ at[t] = "take" /\ at'[t] = "raise" /\ obj'[t] = o
      /\ DOMAIN pool' = DOMAIN pool \ {id[t]} /\ \A i \in DOMAIN pool' : pool'[i] = pool[i]
      /\ UNCHANGED <<counter, unused, thread, awake, id, core, crashed, nextId, waitId, skipped>>
  <2>1. at[t] = "take" /\ at'[t] = "raise" /\ obj'[t] = o
    BY <1>0 DEF PopTake, Goes
  <2>2. DOMAIN pool' = DOMAIN pool \ {id[t]} /\ \A i \in DOMAIN pool' : pool'[i] = pool[i]
    BY DEF PopTake, Restrict
  <2> QED BY <2>1, <2>2 DEF PopTake, Continues, poolHistory, arbiterVars, lifeHistory
<1>4. /\ \A u \in Callers \ {t} : at'[u] \notin Changing
      /\ \A a \in Arbiters : at[a] = "none" \/ (a = t /\ at[a] = "take")
      /\ \A a \in Arbiters : at'[a] = "none" => at[a] = "none"
      /\ \A a \in Arbiters : at'[a] \in {"none", "raise"}
  <2>1. at[t] \in Changing
    BY <1>2 DEF Changing, Popping
  <2> QED BY <1>0, <1>2, <2>1, ChangesAlone DEF Alone
<1>5. /\ id[t] = counter /\ DOMAIN pool = Upto(counter + 1) /\ counter + 1 + Cd <= C
  BY <1>1, <1>2 DEF Undisturbed, Ordered, Numbered
<1>6. \A i \in DOMAIN pool : ~awake[pool[i]]
  <2>1. Between
    BY <1>4 DEF Between, Popping
  <2> QED BY <2>1 DEF Undisturbed, Ordered, Resting
<1>7. \A i \in DOMAIN pool' : pool'[i] \in Objects /\ pool'[i] # o /\ i \in DOMAIN pool
  BY <1>0, <1>1, <1>2 DEF Undisturbed, Ordered, Housed
<1>8. thread[o] \notin {"unborn", "freed"}
  BY <1>1 DEF Undisturbed, Ordered, Housed
<1> HIDE DEF o
<1>9. Numbered'
  <2>1. ~PoolAtRest'
    BY <1>2 DEF PoolAtRest, Popping
  <2>2. DOMAIN pool' = Upto(counter)'
    <3>1. counter \in Nat
      BY <1>0, CoresCount
    <3>2. \A i \in Ids : i < counter <=> i < counter + 1 /\ i # counter
      BY <3>1, PoolAssumption DEF Ids, PoolAssumption
    <3> QED BY <1>2, <1>5, <3>2 DEF Upto
  <2>3. counter' + Cd' <= C'
    <3>1. Cd' = Cd /\ C' = C /\ Cd \in Nat /\ C \in Nat /\ counter \in Nat /\ counter' = counter
      BY <1>0, <1>2, CoresCount DEF Cd, C
    <3>2. \A k, n, c \in Nat : k + 1 + n <= c => k + n <= c
      OBVIOUS
    <3> QED BY <1>5, <3>1, <3>2
  <2>4. \A u \in Callers : at'[u] \notin Pushing \cup {"choose", "construct", "insert", "take"}
    BY <1>2, <1>4 DEF Changing, Pushing, Popping
  <2> QED BY <2>1, <2>2, <2>3, <2>4 DEF Numbered
<1>10. Housed'
  <2>1. \A i, j \in DOMAIN pool' : pool'[i] = pool'[j] => i = j
    BY <1>2, <1>7 DEF Undisturbed, Ordered, Housed
  <2>2. \A i \in DOMAIN pool' : thread'[pool'[i]] \notin {"unborn", "freed"}
    BY <1>2, <1>7 DEF Undisturbed, Ordered, Housed
  <2>3. \A u \in Callers \ {t} : at'[u] \notin {"insert", "raise", "stop"}
    BY <1>4 DEF Changing, Pushing, Popping
  <2>4. /\ obj'[t] \in Objects /\ \A i \in DOMAIN pool' : pool'[i] # obj'[t]
        /\ thread'[obj'[t]] \notin {"unborn", "freed"} /\ at'[t] # "insert"
    BY <1>1, <1>2, <1>7, <1>8
  <2>5. \A p \in Objects : thread'[p] = "unborn" => ~awake'[p]
    BY <1>2 DEF Undisturbed, Ordered, Housed
  <2> QED BY <2>1, <2>2, <2>3, <2>4, <2>5 DEF Housed
<1>11. Resting'
  <2>1. \A i \in DOMAIN pool' : ~awake'[pool'[i]]
    BY <1>2, <1>6, <1>7
  <2> QED BY <1>4, <2>1 DEF Resting
<1>12. Turning'
  BY <1>4 DEF Turning
<1>13. Calm'
  <2>1. at'[Owner] = "pin" => at[Owner] = "pin"
    BY <1>0, <1>2 DEF Alone
  <2> QED BY <1>2, <1>4, <2>1, CalmStays DEF Undisturbed, Ordered
<1> QED BY <1>9, <1>10, <1>11, <1>12, <1>13 DEF Ordered

\* ... wakes it, which is no worker of the pool any more ...
LEMMA OrderedRaise ==
  ASSUME Undisturbed, NEW t \in Callers, Continues(t), PopRaise(t)
  PROVE  Ordered'
<1> USE CallersKnown
<1>0. /\ Typed /\ at \in [Callers -> Points] /\ Alone(t)
      /\ awake \in [Objects -> BOOLEAN]
      /\ \A i \in DOMAIN pool : pool[i] \in Objects
  BY ActsAlone DEF Undisturbed, Structure, Typed, PlacesTyped, PoolTyped, Acts
<1>1. /\ at[t] = "raise" /\ at'[t] = "stop"
      /\ UNCHANGED <<counter, pool, unused, thread, id, core, obj, crashed, nextId, waitId,
                     skipped>>
  BY <1>0 DEF PopRaise, Continues, Goes, poolVars, callVars, poolHistory, arbiterVars,
              lifeHistory
<1>2. /\ obj[t] \in Objects /\ \A i \in DOMAIN pool : pool[i] # obj[t]
      /\ thread[obj[t]] \notin {"unborn", "freed"}
      /\ DOMAIN pool = Upto(counter) /\ counter + Cd <= C
  BY <1>1 DEF Undisturbed, Ordered, Housed, Numbered
<1>3. \A p \in Objects : p # obj[t] => awake'[p] = awake[p]
  BY <1>0 DEF PopRaise
<1>4. /\ \A u \in Callers \ {t} : at'[u] \notin Changing
      /\ \A a \in Arbiters : at[a] = "none" \/ (a = t /\ at[a] = "raise")
      /\ \A a \in Arbiters : at'[a] = "none" => at[a] = "none"
      /\ \A a \in Arbiters : at'[a] \in {"none", "stop"}
  <2>1. at[t] \in Changing
    BY <1>1 DEF Changing, Popping
  <2> QED BY <1>0, <1>1, <2>1, ChangesAlone DEF Alone
<1>5. Numbered'
  <2>1. ~PoolAtRest'
    BY <1>1 DEF PoolAtRest, Popping
  <2>2. DOMAIN pool' = Upto(counter)' /\ counter' + Cd' <= C'
    BY <1>1, <1>2 DEF Upto, Cd, C
  <2>3. \A u \in Callers : at'[u] \notin Pushing \cup {"choose", "construct", "insert", "take"}
    BY <1>1, <1>4 DEF Changing, Pushing, Popping
  <2> QED BY <2>1, <2>2, <2>3 DEF Numbered
<1>6. Housed'
  <2>1. \A i, j \in DOMAIN pool' : pool'[i] = pool'[j] => i = j
    BY <1>1 DEF Undisturbed, Ordered, Housed
  <2>2. \A i \in DOMAIN pool' : thread'[pool'[i]] \notin {"unborn", "freed"}
    BY <1>1 DEF Undisturbed, Ordered, Housed
  <2>3. \A u \in Callers \ {t} : at'[u] \notin {"insert", "raise", "stop"}
    BY <1>4 DEF Changing, Pushing, Popping
  <2>4. \A p \in Objects : thread'[p] = "unborn" => ~awake'[p]
    BY <1>1, <1>2, <1>3 DEF Undisturbed, Ordered, Housed
  <2> QED BY <1>1, <1>2, <2>1, <2>2, <2>3, <2>4 DEF Housed
<1>7. Resting'
  <2>1. Between
    BY <1>4 DEF Between, Popping
  <2>2. \A i \in DOMAIN pool' : ~awake'[pool'[i]]
    BY <1>0, <1>1, <1>2, <1>3, <2>1 DEF Undisturbed, Ordered, Resting
  <2> QED BY <1>4, <2>2 DEF Resting
<1>8. Turning'
  BY <1>4 DEF Turning
<1>9. Calm'
  <2>1. at'[Owner] = "pin" => at[Owner] = "pin"
    BY <1>0, <1>1 DEF Alone
  <2> QED BY <1>1, <1>4, <2>1, CalmStays DEF Undisturbed, Ordered
<1> QED BY <1>5, <1>6, <1>7, <1>8, <1>9 DEF Ordered

\* ... and destroys it, when its thread is done with it or not.
LEMMA OrderedDestroy ==
  ASSUME Undisturbed, NEW t \in Callers, Continues(t), PopDestroy(t, Popped(t))
  PROVE  Ordered'
<1> USE CallersKnown
<1>0. /\ Typed /\ at \in [Callers -> Points] /\ Alone(t)
      /\ thread \in [Objects -> Stages \cup {"unborn", "freed"}]
      /\ \A i \in DOMAIN pool : pool[i] \in Objects
  BY ActsAlone DEF Undisturbed, Structure, Typed, PlacesTyped, PoolTyped, Acts
<1>1. /\ at[t] = "stop" /\ at'[t] = Popped(t) /\ ~awake[obj[t]]
      /\ crashed' \in {crashed, "orphaned"}
      /\ UNCHANGED <<counter, pool, unused, live, awake, id, core, obj, nextId, waitId, skipped>>
  BY <1>0 DEF PopDestroy, Continues, Goes, callVars, arbiterVars, lifeHistory
<1>2. /\ obj[t] \in Objects /\ \A i \in DOMAIN pool : pool[i] # obj[t]
      /\ DOMAIN pool = Upto(counter) /\ counter + Cd <= C
  BY <1>1 DEF Undisturbed, Ordered, Housed, Numbered
<1>4. \A o \in Objects : thread'[o] = IF o = obj[t] THEN "freed" ELSE thread[o]
  BY <1>0, <1>2 DEF PopDestroy
<1>5. /\ \A u \in Callers \ {t} : at'[u] \notin Changing
      /\ \A a \in Arbiters : at[a] = "none" \/ (a = t /\ at[a] = "stop")
  <2>1. at[t] \in Changing
    BY <1>1 DEF Changing, Popping
  <2> QED BY <1>0, <1>1, <2>1, ChangesAlone DEF Alone
<1>6. /\ \A a \in Arbiters : at'[a] \in {"none", "popping"}
      /\ \A a \in Arbiters : at'[a] = "none" => at[a] = "none"
      /\ \A u \in Callers : at'[u] \notin Changing
  BY <1>0, <1>1, <1>5 DEF Alone, Popped, Changing, Pushing, Popping
<1>7. Numbered'
  <2>1. \A u \in Callers : at'[u] \notin Pushing \cup {"construct", "choose", "insert", "take", "raise", "stop"}
    BY <1>6 DEF Changing, Pushing, Popping
  <2>2. DOMAIN pool' = Upto(counter)' /\ counter' + Cd' <= C'
    BY <1>1, <1>2 DEF Upto, Cd, C
  <2> QED BY <2>1, <2>2 DEF Numbered
<1>8. Housed'
  <2>1. \A u \in Callers : at'[u] \notin {"insert", "raise", "stop"}
    BY <1>6 DEF Changing, Pushing, Popping
  <2>2. \A i \in DOMAIN pool' : thread'[pool'[i]] \notin {"unborn", "freed"}
    BY <1>0, <1>1, <1>2, <1>4 DEF Undisturbed, Ordered, Housed
  <2>3. \A o \in Objects : thread'[o] = "unborn" => ~awake'[o]
    BY <1>1, <1>4 DEF Undisturbed, Ordered, Housed
  <2>4. \A i, j \in DOMAIN pool' : pool'[i] = pool'[j] => i = j
    BY <1>1 DEF Undisturbed, Ordered, Housed
  <2> QED BY <2>1, <2>2, <2>3, <2>4 DEF Housed
<1>9. Resting'
  <2>1. Between
    BY <1>5 DEF Between, Popping
  <2>2. \A i \in DOMAIN pool' : ~awake'[pool'[i]]
    BY <1>1, <2>1 DEF Undisturbed, Ordered, Resting
  <2> QED BY <1>6, <2>2 DEF Resting
<1>10. Turning'
  BY <1>6 DEF Turning
<1>11. Calm'
  <2>1. at'[Owner] = "pin" => at[Owner] = "pin"
    BY <1>0, <1>1 DEF Alone, Popped
  <2>2. at[Owner] = "pin" => Running
    BY DEF Undisturbed, Ordered, Calm
  <2>3. Running => Running'
    BY <1>6 DEF Running
  <2>4. /\ crashed' \in {"no", "orphaned"} /\ ~skipped'
        /\ \A a \in Arbiters : at'[a] \notin {"report", "selflock"}
    BY <1>1, <1>6 DEF Undisturbed, Ordered, Calm
  <2> QED BY <2>1, <2>2, <2>3, <2>4 DEF Calm, SelfLocked
<1> QED BY <1>7, <1>8, <1>9, <1>10, <1>11 DEF Ordered

\* A push that throws and a pop of an empty pool disturb; the others find the ids
\* as they should be.
LEMMA OrderedContinues ==
  ASSUME Undisturbed, ~Disturbed', NEW t \in Callers, Continues(t)
  PROVE  Ordered'
<1>1. ~(PushThrows(t, "idle") \/ PopNone(t, IF t \in Arbiters THEN "report" ELSE "idle"))
  BY DEF PushThrows, PopNone, Disturbed
<1>2. ~PushClashes(t)
  <2> SUFFICES ASSUME PushClashes(t) PROVE FALSE
    OBVIOUS
  <2>1. at[t] = "insert" /\ id[t] \in DOMAIN pool
    BY DEF PushClashes
  <2>2. DOMAIN pool = Upto(id[t])
    BY <2>1 DEF Undisturbed, Ordered, Numbered, Pushing
  <2>3. id[t] \in Nat
    BY CoresCount DEF Undisturbed, Structure
  <2> QED BY <2>1, <2>2, <2>3 DEF Upto
<1>3. ~PopNull(t, Popped(t))
  <2> SUFFICES ASSUME PopNull(t, Popped(t)) PROVE FALSE
    OBVIOUS
  <2>1. at[t] = "take" /\ DOMAIN pool # {} /\ id[t] \notin DOMAIN pool
    BY DEF PopNull, Goes
  <2>2. id[t] = counter /\ DOMAIN pool = Upto(counter + 1)
    BY <2>1 DEF Undisturbed, Ordered, Numbered
  <2>3. counter \in Nat /\ counter \in Ids
    BY CoresCount DEF Undisturbed, Structure, Typed, PoolTyped
  <2> QED BY <2>1, <2>2, <2>3 DEF Upto
<1>4. \/ t \in Clients /\ PushChoose(t)
      \/ t \in Clients /\ PushConstruct(t)
      \/ t \in Clients /\ PushInsert(t, Pushed(t))
      \/ PopTake(t) \/ PopRaise(t)
      \/ PopDestroy(t, Popped(t))
  BY <1>1, <1>2, <1>3 DEF Continues
<1> QED BY <1>4, OrderedChoose, OrderedConstruct, OrderedInsert, OrderedTake,
       OrderedRaise, OrderedDestroy

\* What an arbiter does inside a frame: the pool is at rest, and nobody else runs.
LEMMA InsideFrame ==
  ASSUME Undisturbed, NEW a \in Arbiters, ArbiterActs(a), ~PopsNext(a)
  PROVE  /\ Typed /\ at \in [Callers -> Points] /\ a \in Callers
         /\ \A b \in Arbiters \ {a} : at[b] = "none" /\ at'[b] = "none"
         /\ at'[Owner] = at[Owner] /\ at'[a] \notin {"none", "report"}
         /\ \A u \in Callers : at'[u] \notin {"insert", "raise", "stop"}
         /\ UNCHANGED <<counter, pool, thread, live>>
         /\ DOMAIN pool = Upto(counter) /\ counter \in Nat /\ counter < IdSpace
         /\ \A i \in Ids : i \in Nat
         /\ nextId \in [Arbiters -> Ids] /\ waitId \in [Arbiters -> Ids]
         /\ Numbered'
<1> USE CallersKnown
<1>0. /\ Typed /\ at \in [Callers -> Points] /\ Acts(a) /\ a \in Callers
      /\ nextId \in [Arbiters -> Ids] /\ waitId \in [Arbiters -> Ids]
  BY DEF Undisturbed, Structure, Typed, PlacesTyped, RunnerTyped, Acts
<1>1. Alone(a)
  BY <1>0, ActsAlone
<1>2. /\ at[a] \in {"top", "turn", "find", "wait", "await"}
      /\ at'[a] \in {"top", "turn", "find", "selflock", "wait", "await", "popping"}
  BY <1>0
  DEF ArbiterActs, FrameBegins, TakesTurn, Assigns, Drops, Retries, BarrierBegins,
      BarrierFinds, BarrierPasses, FrameEnds, FramesStop, Goes
<1>3. UNCHANGED <<counter, pool, unused, id, core, thread, live>>
  BY DEF ArbiterActs, FrameBegins, TakesTurn, Assigns, Drops, Retries, BarrierBegins,
         BarrierFinds, BarrierPasses, FrameEnds, FramesStop, poolVars, workerVars, callVars
<1>4. /\ \A u \in Callers \ {a} : at[u] \notin Changing
      /\ \A b \in Arbiters \ {a} : at[b] = "none"
  BY <1>2, RunsAlone
<1>5. {"top", "turn", "find", "selflock", "wait", "await", "popping"} \cap Changing = {}
  BY DEF Changing, Pushing, Popping
<1>6. /\ \A u \in Callers : at[u] \notin Changing
      /\ \A u \in Callers : at'[u] \notin Changing
  BY <1>1, <1>2, <1>4, <1>5 DEF Alone
<1>7. DOMAIN pool = Upto(counter)
  BY <1>6 DEF PoolAtRest, Changing, Undisturbed, Ordered, Numbered
<1>8. Numbered'
  BY <1>3, <1>6, NumberedStays DEF Undisturbed, Ordered
<1>9. \A u \in Callers : at'[u] \notin {"insert", "raise", "stop"}
  BY <1>6 DEF Changing, Pushing, Popping
<1>10. \A i \in Ids : i \in Nat
  BY DEF Ids
<1> QED BY <1>0, <1>1, <1>2, <1>3, <1>4, <1>7, <1>8, <1>9, <1>10, CoresCount DEF Alone

\* The steps of a frame before its barrier.
LEMMA OrderedTurn ==
  ASSUME Undisturbed, NEW a \in Arbiters, FrameBegins(a) \/ TakesTurn(a)
  PROVE  Ordered'
<1>0. ArbiterActs(a) /\ ~PopsNext(a)
  BY DEF ArbiterActs, FrameBegins, TakesTurn, PopsNext, PopCount, Goes
<1>1. /\ Typed /\ at \in [Callers -> Points] /\ a \in Callers
      /\ \A b \in Arbiters \ {a} : at[b] = "none" /\ at'[b] = "none"
      /\ at'[Owner] = at[Owner] /\ at'[a] \notin {"none", "report"}
      /\ \A u \in Callers : at'[u] \notin {"insert", "raise", "stop"}
      /\ DOMAIN pool = Upto(counter) /\ counter \in Nat
      /\ \A i \in Ids : i \in Nat
      /\ nextId \in [Arbiters -> Ids]
      /\ Numbered'
  BY <1>0, InsideFrame
<1>2. UNCHANGED <<counter, pool, thread, live, awake, crashed, skipped>>
  BY DEF FrameBegins, TakesTurn, poolVars, workerVars, poolHistory, lifeHistory
<1>3. at[a] \in {"top", "turn"} /\ at'[a] \in {"turn", "find"}
  BY <1>1 DEF FrameBegins, TakesTurn, Goes
<1>4. Housed'
  BY <1>1, <1>2, HousedStays DEF Undisturbed, Ordered
<1>5. Resting'
  <2>1. ~Between'
    BY <1>3 DEF Between, Popping
  <2> QED BY <1>1, <1>3, <2>1 DEF Resting
<1>6. Turning'
  <2> SUFFICES ASSUME DOMAIN pool # {}
               PROVE  /\ at'[a] = "turn" => nextId'[a] <= counter
                      /\ at'[a] = "find" => nextId'[a] < counter
    BY <1>1, <1>2, <1>3 DEF Turning
  <2>1. nextId[a] <= counter /\ nextId[a] \in Nat
    BY <1>1, <1>3 DEF Undisturbed, Ordered, Turning
  <2>2. counter > 0
    <3>1. PICK i \in Ids : i < counter
      BY <1>1 DEF Upto
    <3> QED BY <1>1, <3>1
  <2>3. CASE FrameBegins(a)
    BY <1>1, <2>1, <2>3 DEF FrameBegins, Goes
  <2>4. CASE TakesTurn(a)
    <3>1. nextId'[a] = IF nextId[a] = counter THEN 0 ELSE nextId[a]
      BY <1>1, <2>4 DEF TakesTurn
    <3>2. nextId'[a] < counter
      BY <1>1, <2>1, <2>2, <3>1
    <3>3. at'[a] = "find"
      BY <1>1, <2>4 DEF TakesTurn, Goes
    <3> QED BY <3>2, <3>3
  <2> QED BY <2>3, <2>4
<1>7. Calm'
  BY <1>1, <1>2, <1>3, CalmStays DEF Undisturbed, Ordered
<1> QED BY <1>1, <1>4, <1>5, <1>6, <1>7 DEF Ordered

\* The search for a worker succeeds if there are any, so it does not start again.
LEMMA OrderedFinds ==
  ASSUME Undisturbed, NEW a \in Arbiters, Assigns(a) \/ Drops(a) \/ Retries(a)
  PROVE  Ordered'
<1>0. ArbiterActs(a) /\ ~PopsNext(a)
  BY DEF ArbiterActs, Assigns, Drops, Retries, PopsNext, PopCount, Goes
<1>1. /\ Typed /\ at \in [Callers -> Points] /\ a \in Callers
      /\ \A b \in Arbiters \ {a} : at[b] = "none" /\ at'[b] = "none"
      /\ at'[Owner] = at[Owner] /\ at'[a] \notin {"none", "report"}
      /\ \A u \in Callers : at'[u] \notin {"insert", "raise", "stop"}
      /\ UNCHANGED <<counter, pool, thread, live>>
      /\ DOMAIN pool = Upto(counter) /\ counter \in Nat /\ counter < IdSpace
      /\ \A i \in Ids : i \in Nat
      /\ nextId \in [Arbiters -> Ids]
      /\ Numbered'
  BY <1>0, InsideFrame
<1>2. at[a] = "find"
  BY DEF Assigns, Drops, Retries, Goes
<1>3. DOMAIN pool # {} => nextId[a] < counter /\ Found(a)
  BY <1>1, <1>2 DEF Undisturbed, Ordered, Turning, Found, Upto
<1>4. /\ ~Retries(a) /\ (Drops(a) => DOMAIN pool = {}) /\ (Assigns(a) => DOMAIN pool # {})
  BY <1>3 DEF Retries, Drops, Assigns, Found
<1>5. /\ at'[a] = "turn" /\ crashed' = crashed /\ skipped' = skipped
      /\ nextId'[a] = Up(nextId[a])
  <2>1. CASE Assigns(a)
    BY <1>1, <2>1 DEF Assigns, Goes, poolHistory, lifeHistory
  <2>2. CASE Drops(a)
    <3>1. at'[a] = "turn" /\ crashed' = crashed /\ nextId'[a] = Up(nextId[a])
      BY <1>1, <2>2 DEF Drops, Goes, poolHistory
    <3>2. skipped' = skipped
      BY <1>1, <1>4, <2>2 DEF Drops, Typed, RunnerTyped
    <3> QED BY <3>1, <3>2
  <2> QED BY <1>4, <2>1, <2>2
<1>6. Housed'
  <2>1. CASE Assigns(a)
    <3>1. /\ pool[nextId[a]] \in Objects /\ awake \in [Objects -> BOOLEAN]
          /\ thread[pool[nextId[a]]] \notin {"unborn", "freed"}
      BY <1>3, <1>4, <2>1 DEF Found, Typed, PoolTyped, Undisturbed, Structure, Ordered, Housed
    <3>2. \A o \in Objects : awake'[o] = IF o = pool[nextId[a]] THEN TRUE ELSE awake[o]
      BY <2>1, <3>1 DEF Assigns
    <3>3. \A o \in Objects : thread'[o] = "unborn" => ~awake'[o]
      BY <1>1, <3>1, <3>2 DEF Undisturbed, Ordered, Housed
    <3>4. /\ \A i, j \in DOMAIN pool' : pool'[i] = pool'[j] => i = j
          /\ \A i \in DOMAIN pool' : thread'[pool'[i]] \notin {"unborn", "freed"}
      BY <1>1 DEF Undisturbed, Ordered, Housed
    <3> QED BY <1>1, <3>3, <3>4 DEF Housed
  <2>2. CASE Drops(a)
    BY <1>1, <2>2, HousedStays DEF Drops, workerVars, Undisturbed, Ordered
  <2> QED BY <1>4, <2>1, <2>2
<1>7. Resting'
  <2>1. ~Between'
    BY <1>5 DEF Between, Popping
  <2> QED BY <1>1, <1>5, <2>1 DEF Resting
<1>8. Turning'
  <2> SUFFICES ASSUME DOMAIN pool # {}
               PROVE  nextId'[a] <= counter
    BY <1>1, <1>5 DEF Turning
  <2>1. nextId[a] < counter /\ nextId[a] \in Ids /\ nextId[a] \in Nat
    BY <1>1, <1>3
  <2>2. nextId[a] + 1 < IdSpace
    BY <1>1, <2>1, CoresCount
  <2>3. nextId'[a] = nextId[a] + 1
    BY <1>5, <2>1, <2>2, UpIsNext
  <2> QED BY <1>1, <2>1, <2>3
<1>9. Calm'
  BY <1>1, <1>5, CalmStays DEF Undisturbed, Ordered
<1> QED BY <1>1, <1>6, <1>7, <1>8, <1>9 DEF Ordered

\* The barrier waits for each worker of the pool in turn, and for no other.
LEMMA OrderedBarrier ==
  ASSUME Undisturbed, NEW a \in Arbiters,
         BarrierBegins(a) \/ BarrierFinds(a) \/ BarrierPasses(a) \/ FrameEnds(a) \/ FramesStop(a)
  PROVE  Ordered'
<1> USE CallersKnown
<1>0. ArbiterActs(a) /\ ~PopsNext(a)
  BY DEF ArbiterActs, BarrierBegins, BarrierFinds, BarrierPasses, FrameEnds, FramesStop,
         PopsNext, PopCount, Goes
<1>1. /\ Typed /\ at \in [Callers -> Points] /\ a \in Callers
      /\ \A b \in Arbiters \ {a} : at[b] = "none" /\ at'[b] = "none"
      /\ at'[Owner] = at[Owner] /\ at'[a] \notin {"none", "report"}
      /\ \A u \in Callers : at'[u] \notin {"insert", "raise", "stop"}
      /\ DOMAIN pool = Upto(counter) /\ counter \in Nat /\ counter < IdSpace
      /\ \A i \in Ids : i \in Nat
      /\ nextId \in [Arbiters -> Ids] /\ waitId \in [Arbiters -> Ids]
      /\ Numbered'
  BY <1>0, InsideFrame
<1>2. UNCHANGED <<counter, pool, thread, live, awake, nextId, skipped>>
  BY DEF BarrierBegins, BarrierFinds, BarrierPasses, FrameEnds, FramesStop, poolVars,
         workerVars, arbiterVars, lifeHistory
<1>3. /\ at[a] \in {"turn", "wait", "await", "top"} /\ at'[a] \in {"top", "wait", "await", "popping"}
      /\ at'[a] = "top" => at[a] = "wait"
  BY <1>1 DEF BarrierBegins, BarrierFinds, BarrierPasses, FrameEnds, FramesStop, Goes
<1>4. BarrierPasses(a) =>
        /\ thread[obj[a]] # "freed" /\ crashed' = crashed /\ ~awake[pool[waitId[a]]]
        /\ waitId[a] \in DOMAIN pool /\ waitId'[a] = Up(waitId[a])
  <2> SUFFICES ASSUME BarrierPasses(a)
               PROVE  /\ thread[obj[a]] # "freed" /\ crashed' = crashed
                      /\ ~awake[pool[waitId[a]]]
                      /\ waitId[a] \in DOMAIN pool /\ waitId'[a] = Up(waitId[a])
    OBVIOUS
  <2>1. at[a] = "await"
    BY DEF BarrierPasses, Goes
  <2>2. waitId[a] \in DOMAIN pool /\ obj[a] = pool[waitId[a]]
    BY <2>1 DEF Undisturbed, Ordered, Resting
  <2>3. thread[obj[a]] # "freed"
    BY <2>2 DEF Undisturbed, Ordered, Housed
  <2> QED BY <1>1, <2>2, <2>3 DEF BarrierPasses
<1>5. crashed' = crashed
  BY <1>4 DEF BarrierBegins, BarrierFinds, FrameEnds, FramesStop, poolHistory
<1>6. Housed'
  BY <1>1, <1>2, HousedStays DEF Undisturbed, Ordered
<1>7. Turning'
  BY <1>1, <1>2, <1>3 DEF Undisturbed, Ordered, Turning
<1>8. Calm'
  <2>1. at'[a] # "selflock"
    BY <1>3
  <2> QED BY <1>1, <1>2, <1>5, <2>1, CalmStays DEF Undisturbed, Ordered
<1>9. Resting'
  <2>1. CASE BarrierBegins(a)
    <3>1. at'[a] = "wait" /\ waitId'[a] = 0
      BY <1>1, <2>1 DEF BarrierBegins, Goes
    <3>2. ~Between'
      BY <3>1 DEF Between, Popping
    <3>3. \A i \in DOMAIN pool : ~(i < 0)
      BY <1>1 DEF Upto
    <3> QED BY <1>1, <1>2, <3>1, <3>2, <3>3 DEF Resting
  <2>2. CASE BarrierFinds(a)
    <3>1. /\ at[a] = "wait" /\ at'[a] = "await" /\ waitId' = waitId
          /\ waitId[a] \in DOMAIN pool /\ obj'[a] = pool[waitId[a]]
      BY <1>1, <2>2 DEF BarrierFinds, Goes, arbiterVars, Typed, PoolTyped
    <3>2. ~Between'
      BY <3>1 DEF Between, Popping
    <3>3. \A i \in DOMAIN pool : i < waitId[a] => ~awake[pool[i]]
      BY <3>1 DEF Undisturbed, Ordered, Resting
    <3> QED BY <1>1, <1>2, <3>1, <3>2, <3>3 DEF Resting
  <2>3. CASE BarrierPasses(a)
    <3>1. at[a] = "await" /\ at'[a] = "wait"
      BY <1>1, <2>3 DEF BarrierPasses, Goes
    <3>2. ~Between'
      BY <3>1 DEF Between, Popping
    <3>3. /\ waitId[a] \in Ids /\ waitId[a] \in Nat /\ waitId[a] < counter
      BY <1>1, <1>4, <2>3 DEF Upto
    <3>4. waitId'[a] = waitId[a] + 1
      <4>1. waitId[a] + 1 < IdSpace
        BY <1>1, <3>3, CoresCount
      <4> QED BY <1>4, <2>3, <3>3, <4>1, UpIsNext
    <3>5. \A i \in DOMAIN pool : i < waitId[a] => ~awake[pool[i]]
      BY <3>1 DEF Undisturbed, Ordered, Resting
    <3>6. \A i \in DOMAIN pool : i < waitId[a] + 1 => i < waitId[a] \/ i = waitId[a]
      BY <1>1, <3>3 DEF Upto
    <3>7. \A i \in DOMAIN pool' : i < waitId'[a] => ~awake'[pool'[i]]
      BY <1>2, <1>4, <2>3, <3>4, <3>5, <3>6
    <3> QED BY <1>1, <3>1, <3>2, <3>7 DEF Resting
  <2>4. CASE FrameEnds(a)
    <3>1. /\ at[a] = "wait" /\ at'[a] = "top"
          /\ waitId[a] >= counter \/ waitId[a] \notin DOMAIN pool
      BY <1>1, <2>4 DEF FrameEnds, Goes
    <3>2. \A i \in DOMAIN pool : i < waitId[a]
      BY <1>1, <3>1 DEF Upto
    <3>3. \A i \in DOMAIN pool : ~awake[pool[i]]
      BY <3>1, <3>2 DEF Undisturbed, Ordered, Resting
    <3> QED BY <1>1, <1>2, <3>1, <3>3 DEF Resting
  <2>5. CASE FramesStop(a)
    <3>1. at[a] = "top" /\ at'[a] = "popping"
      BY <1>1, <2>5 DEF FramesStop, Goes
    <3>2. Between
      BY <1>1, <3>1 DEF Between
    <3>3. \A i \in DOMAIN pool : ~awake[pool[i]]
      BY <3>2 DEF Undisturbed, Ordered, Resting
    <3> QED BY <1>1, <1>2, <3>1, <3>3 DEF Resting
  <2> QED BY <2>1, <2>2, <2>3, <2>4, <2>5
<1> QED BY <1>1, <1>6, <1>7, <1>8, <1>9 DEF Ordered

\* A worker's thread clears its own flag and raises none.
LEMMA OrderedWorks ==
  ASSUME Undisturbed, NEW o \in Objects, Works(o)
  PROVE  Ordered'
<1> USE CallersKnown
<1>0. /\ Typed /\ \A i \in DOMAIN pool : pool[i] \in Objects
      /\ live \in [Objects -> BOOLEAN] /\ awake \in [Objects -> BOOLEAN]
      /\ thread \in [Objects -> Stages \cup {"unborn", "freed"}]
  BY DEF Undisturbed, Structure, Typed, PoolTyped
<1>1. UNCHANGED <<at, live, counter, pool, unused, id, core, obj, nextId, waitId, crashed,
                  skipped>>
  BY <1>0, WorkerTyped
  DEF Works, Typed, poolVars, callVars, poolHistory, arbiterVars, lifeHistory
<1>2. \A p \in Objects \ {o} : awake'[p] = awake[p] /\ thread'[p] = thread[p]
  BY <1>0 DEF Works, WorkerThread, Hurries, Waits, Rises, Clears, Parts, Steps
<1>3. /\ thread[o] \notin {"unborn", "freed"} /\ thread'[o] \notin {"unborn", "freed"}
      /\ awake'[o] => awake[o]
  <2>1. CASE Clears(o)
    BY <1>0, <2>1 DEF Clears, Steps
  <2>2. CASE Hurries(o) \/ Waits(o) \/ Rises(o) \/ Parts(o)
    BY <1>0, <2>2 DEF Hurries, Waits, Rises, Parts, Steps
  <2> QED BY <2>1, <2>2 DEF Works, WorkerThread
<1>4. \A p \in Objects : awake'[p] => awake[p]
  BY <1>2, <1>3
<1>5. Numbered'
  BY <1>1, NumberedStays DEF Undisturbed, Ordered
<1>6. Housed'
  <2>1. \A i, j \in DOMAIN pool' : pool'[i] = pool'[j] => i = j
    BY <1>1 DEF Undisturbed, Ordered, Housed
  <2>2. \A i \in DOMAIN pool' : thread'[pool'[i]] \notin {"unborn", "freed"}
    BY <1>0, <1>1, <1>2, <1>3 DEF Undisturbed, Ordered, Housed
  <2>3. \A p \in Objects : thread'[p] = "unborn" => ~awake'[p]
    BY <1>2, <1>3 DEF Undisturbed, Ordered, Housed
  <2>4. ASSUME NEW t \in Callers, at'[t] \in {"insert", "raise", "stop"}
        PROVE  /\ obj'[t] \in Objects /\ \A i \in DOMAIN pool' : pool'[i] # obj'[t]
               /\ thread'[obj'[t]] \notin {"unborn", "freed"}
               /\ at'[t] = "insert" => ~awake'[obj'[t]]
    <3>1. /\ obj[t] \in Objects /\ \A i \in DOMAIN pool : pool[i] # obj[t]
          /\ thread[obj[t]] \notin {"unborn", "freed"}
          /\ at[t] = "insert" => ~awake[obj[t]]
      BY <1>1, <2>4 DEF Undisturbed, Ordered, Housed
    <3> QED BY <1>1, <1>2, <1>3, <1>4, <3>1
  <2> QED BY <2>1, <2>2, <2>3, <2>4 DEF Housed
<1>7. Resting'
  BY <1>0, <1>1, <1>4 DEF Undisturbed, Ordered, Resting, Between
<1>8. Turning' /\ Calm'
  BY <1>1, TurningStays DEF Undisturbed, Ordered, Calm, Running, SelfLocked
<1> QED BY <1>5, <1>6, <1>7, <1>8 DEF Ordered

LEMMA OrderedStart == Init => Ordered
<1> SUFFICES ASSUME Init PROVE Ordered
  OBVIOUS
<1> USE CallersKnown
<1>1. /\ \A a \in Arbiters : at[a] = "none"
      /\ at[Owner] = "idle"
      /\ \A t \in Callers : at[t] \in {"none", "idle"}
      /\ \A o \in Objects : thread[o] = "unborn" /\ ~awake[o]
      /\ counter = 0 /\ DOMAIN pool = {} /\ unused = Cores /\ crashed = "no" /\ ~skipped
  BY DEF Init, PoolInit
<1>2. Numbered
  <2>1. Upto(0) = {}
    BY PoolAssumption DEF Upto, Ids, PoolAssumption
  <2>2. 0 + C <= C
    BY TypedStart, CoresCount
  <2> QED BY <1>1, <2>1, <2>2 DEF Numbered, Pushing, Cd, C
<1>3. Housed /\ Resting /\ Turning /\ Calm
  BY <1>1 DEF Housed, Resting, Turning, Calm, SelfLocked
<1> QED BY <1>2, <1>3 DEF Ordered

LEMMA SteadyStep == Structure /\ Steady /\ [Next]_lifeVars => Steady'
<1>1. ASSUME Structure, Steady, Next, ~Disturbed'
      PROVE  Ordered'
  <2>0. ~Disturbed /\ Undisturbed
    BY <1>1, DisturbedStays DEF Structure, Steady, Undisturbed
  <2>1. CASE StartLaunches
    BY <2>0, <2>1, OrderedLaunch
  <2>2. CASE \E a \in Arbiters : Reports(a)
    BY <2>0, <2>2 DEF Reports, Undisturbed, Ordered, Calm
  <2>3. CASE \E o \in Objects : Works(o)
    BY <2>0, <2>3, OrderedWorks
  <2>4. ASSUME NEW t \in Callers, Acts(t)
        PROVE  Ordered'
    <3>1. CASE t = Owner /\ OwnerActs
      <4>1. CASE StartBegin \/ StartJoins \/ Destroys
        BY <2>0, <2>4, <3>1, <4>1, OrderedCalls, CallersKnown
      <4>2. CASE StartPins
        BY <1>1, <2>0, <2>4, <3>1, <4>2, OrderedPins
      <4>3. CASE StartPushes
        BY <1>1, <2>0, <2>4, <3>1, <4>3, OrderedBegins
      <4> QED BY <3>1, <4>1, <4>2, <4>3 DEF OwnerActs
    <3>2. CASE t = Other /\ OtherActs
      BY <1>1, <2>0, <2>4, <3>2, OrderedBegins
    <3>3. CASE t \in Clients /\ ClientActs(t)
      BY <2>0, <2>4, <3>3, OrderedCalls
    <3>4. CASE t \in Arbiters /\ ArbiterActs(t)
      <4>1. CASE PopsNext(t)
        BY <1>1, <2>0, <2>4, <3>4, <4>1, OrderedBegins
      <4>2. CASE ~PopsNext(t)
        BY <2>0, <3>4, <4>2, OrderedTurn, OrderedFinds, OrderedBarrier DEF ArbiterActs
      <4> QED BY <4>1, <4>2
    <3>5. CASE Continues(t)
      BY <1>1, <2>0, <3>5, OrderedContinues
    <3> QED BY <2>4, <3>1, <3>2, <3>3, <3>4, <3>5 DEF Acts
  <2> QED BY <1>1, <2>1, <2>2, <2>3, <2>4, StepActs
<1>2. ASSUME Structure, Steady, UNCHANGED lifeVars
      PROVE  Steady'
  BY <1>2
  DEF lifeVars, poolVars, workerVars, callVars, poolHistory, arbiterVars, lifeHistory, Steady,
      Disturbed, Ordered, Numbered, Housed, Resting, Between, Turning, Calm, Running,
      SelfLocked, PoolAtRest, Upto, Cd, C
<1> QED BY <1>1, <1>2 DEF Steady

\* While nobody changes the pool beside start() or frames, no push fails and no pool
\* is popped empty, no arbiter uses a worker that is gone, locks the pool mutex
\* twice or drops a job while there are workers (runner.cpp:60-119).  What the pool
\* cannot prevent is not in it: a worker is freed when its _awake is clear, and its
\* own thread may have to use it after that (worker.cpp:50-66, 121).
THEOREM SteadyPoolHolds == Spec => []SteadyPool
<1>1. Init => Steady
  BY OrderedStart DEF Steady
<1>2. Steady => SteadyPool
  BY DEF Steady, Ordered, Calm, SteadyPool
<1> QED BY <1>1, <1>2, SteadyStep, StructureHolds, PTL DEF Spec

-------------------------------------------------------------------------------
(* The ids of the pool *)

\* For each id: is there a worker, how many pushes are about to insert one, and how
\* many pops are about to take one.
Pushers(i) == {t \in Callers : at[t] \in Pushing /\ id[t] = i}
Takers(i)  == {t \in Callers : at[t] = "take" /\ id[t] = i}
Housing(i) == IF i \in DOMAIN pool THEN 1 ELSE 0
Sum(i)     == Housing(i) + Cardinality(Pushers(i)) - Cardinality(Takers(i))

\* When all of them are done there will be one more worker with an id below the
\* counter than with any other; the counter may have wrapped.
Below(i) == IF i < counter THEN 1 ELSE 0
Balanced == \E q \in Int : \A i \in Ids : Sum(i) = q + Below(i)

\* Each core is taken by two calls at most, the two that chose it at a time.
Claims(t) == IF at[t] = "insert" \/ (at[t] = "construct" /\ core[t] \notin unused)
             THEN 1 ELSE 0
Roomy == Cardinality(DOMAIN pool) + Claims(Owner) + Claims(Other) + 2 * Cd <= 2 * C

LEMMA CountsOne ==
  ASSUME NEW S, IsFiniteSet(S), NEW t
  PROVE  /\ Cardinality(S) \in Nat
         /\ t \notin S => Cardinality(S \cup {t}) = Cardinality(S) + 1
         /\ t \in S => Cardinality(S \ {t}) = Cardinality(S) - 1
BY FS_CardinalityType, FS_AddElement, FS_RemoveElement

LEMMA SumTyped ==
  ASSUME NEW i
  PROVE  /\ IsFiniteSet(Pushers(i)) /\ IsFiniteSet(Takers(i))
         /\ Cardinality(Pushers(i)) \in Nat /\ Cardinality(Takers(i)) \in Nat
         /\ Housing(i) \in {0, 1} /\ Sum(i) \in Int
<1>1. IsFiniteSet(Callers) /\ Pushers(i) \subseteq Callers /\ Takers(i) \subseteq Callers
  BY PoolAssumption DEF PoolAssumption, Pushers, Takers
<1>2. IsFiniteSet(Pushers(i)) /\ IsFiniteSet(Takers(i))
  BY <1>1, FS_Subset
<1>3. Cardinality(Pushers(i)) \in Nat /\ Cardinality(Takers(i)) \in Nat
  BY <1>2, FS_CardinalityType
<1>4. Housing(i) \in {0, 1}
  BY DEF Housing
<1> HIDE DEF Housing
<1> QED BY <1>2, <1>3, <1>4 DEF Sum

\* A step that begins or ends no push and takes no worker changes no sum.
LEMMA SumStays ==
  ASSUME Balanced, UNCHANGED <<counter, pool>>,
         \A u \in Callers : /\ (at'[u] \in Pushing) = (at[u] \in Pushing)
                            /\ (at'[u] = "take") = (at[u] = "take")
                            /\ id'[u] = id[u]
  PROVE  Balanced'
<1>1. \A i \in Ids : Pushers(i)' = Pushers(i) /\ Takers(i)' = Takers(i)
  BY DEF Pushers, Takers
<1>2. \A i \in Ids : Sum(i)' = Sum(i) /\ Below(i)' = Below(i)
  BY <1>1 DEF Sum, Housing, Below
<1>3. PICK q \in Int : \A i \in Ids : Sum(i) = q + Below(i)
  BY DEF Balanced
<1>4. \A i \in Ids : Sum(i)' = q + Below(i)'
  BY <1>2, <1>3
<1> QED BY <1>4 DEF Balanced

\* push_worker and pop_worker move the counter past the id they take, and pop_worker
\* back to it.
LEMMA BalanceBegins ==
  ASSUME Typed, Balanced, NEW t \in Callers, Alone(t), at[t] \notin Changing, pool' = pool,
         \/ at'[t] = "choose" /\ id'[t] = counter /\ counter' = Up(counter)
         \/ at'[t] = "take" /\ id'[t] = counter' /\ counter' = Down(counter)
  PROVE  Balanced'
<1>0. /\ counter \in Ids /\ Ids \subseteq Nat /\ IdSpace \in Nat /\ IdSpace > 0
      /\ Ids = 0 .. IdSpace - 1
  BY PoolAssumption DEF PoolAssumption, Typed, PoolTyped, Ids
<1>1. PICK q \in Int : \A i \in Ids : Sum(i) = q + Below(i)
  BY DEF Balanced
<1>2. \A i : t \notin Pushers(i) /\ t \notin Takers(i)
  BY DEF Pushers, Takers, Changing, Popping
<1>3. \A u \in Callers \ {t} : at'[u] = at[u] /\ id'[u] = id[u]
  BY DEF Alone
<1>4. \A i \in Ids : Housing(i)' = Housing(i)
  BY DEF Housing
<1>5. CASE at'[t] = "choose" /\ id'[t] = counter /\ counter' = Up(counter)
  <2>1. \A i \in Ids : /\ Takers(i)' = Takers(i)
                       /\ Pushers(i)' = IF i = counter THEN Pushers(i) \cup {t} ELSE Pushers(i)
    BY <1>2, <1>3, <1>5 DEF Pushers, Takers, Changing, Pushing, Popping
  <2>2. \A i \in Ids : Sum(i)' = IF i = counter THEN Sum(i) + 1 ELSE Sum(i)
    <3> SUFFICES ASSUME NEW i \in Ids
                 PROVE  Sum(i)' = IF i = counter THEN Sum(i) + 1 ELSE Sum(i)
      OBVIOUS
    <3>1. /\ Cardinality(Pushers(i)) \in Nat /\ Cardinality(Takers(i)) \in Nat
          /\ Housing(i) \in {0, 1} /\ IsFiniteSet(Pushers(i))
      BY SumTyped
    <3>2. Cardinality(Pushers(i) \cup {t}) = Cardinality(Pushers(i)) + 1
      BY <1>2, <3>1, CountsOne
    <3>3. Sum(i)' = Housing(i) + Cardinality(Pushers(i)') - Cardinality(Takers(i))
      BY <1>4, <2>1 DEF Sum
    <3>4. Sum(i) = Housing(i) + Cardinality(Pushers(i)) - Cardinality(Takers(i))
      BY DEF Sum
    <3>5. Cardinality(Pushers(i)') = Cardinality(Pushers(i)) + IF i = counter THEN 1 ELSE 0
      <4>1. CASE i = counter
        BY <2>1, <3>2, <4>1
      <4>2. CASE i # counter
        BY <2>1, <3>1, <4>2
      <4> QED BY <4>1, <4>2
    <3> HIDE DEF Housing, Pushers, Takers, Sum
    <3> QED BY <3>1, <3>3, <3>4, <3>5
  <2>3. CASE counter + 1 < IdSpace
    <3>1. counter' = counter + 1
      BY <1>0, <1>5, <2>3, UpIsNext
    <3>2. \A i \in Ids : Below(i)' = IF i = counter THEN Below(i) + 1 ELSE Below(i)
      BY <1>0, <3>1 DEF Below
    <3>3. \A i \in Ids : Below(i) \in Int
      BY DEF Below
    <3>4. \A i \in Ids : Sum(i)' = q + Below(i)'
      BY <1>1, <2>2, <3>2, <3>3
    <3> QED BY <3>4 DEF Balanced
  <2>4. CASE ~(counter + 1 < IdSpace)
    <3>1. counter = IdSpace - 1 /\ counter' = 0
      BY <1>0, <1>5, <2>4 DEF Up
    <3>2. \A i \in Ids : Below(i)' = 0 /\ Below(i) = IF i = counter THEN 0 ELSE 1
      BY <1>0, <3>1 DEF Below
    <3>3. \A i \in Ids : Sum(i)' = (q + 1) + Below(i)'
      BY <1>1, <2>2, <3>2
    <3> QED BY <3>3 DEF Balanced
  <2> QED BY <2>3, <2>4
<1>6. CASE at'[t] = "take" /\ id'[t] = counter' /\ counter' = Down(counter)
  <2>0. counter' \in Ids
    BY <1>0, <1>6, UpDownType
  <2>1. \A i \in Ids : /\ Pushers(i)' = Pushers(i)
                       /\ Takers(i)' = IF i = counter' THEN Takers(i) \cup {t} ELSE Takers(i)
    BY <1>2, <1>3, <1>6 DEF Pushers, Takers, Changing, Pushing, Popping
  <2>2. \A i \in Ids : Sum(i)' = IF i = counter' THEN Sum(i) - 1 ELSE Sum(i)
    <3> SUFFICES ASSUME NEW i \in Ids
                 PROVE  Sum(i)' = IF i = counter' THEN Sum(i) - 1 ELSE Sum(i)
      OBVIOUS
    <3>1. /\ Cardinality(Pushers(i)) \in Nat /\ Cardinality(Takers(i)) \in Nat
          /\ Housing(i) \in {0, 1} /\ IsFiniteSet(Takers(i))
      BY SumTyped
    <3>2. Cardinality(Takers(i) \cup {t}) = Cardinality(Takers(i)) + 1
      BY <1>2, <3>1, CountsOne
    <3>3. Sum(i)' = Housing(i) + Cardinality(Pushers(i)) - Cardinality(Takers(i)')
      BY <1>4, <2>1 DEF Sum
    <3>4. Sum(i) = Housing(i) + Cardinality(Pushers(i)) - Cardinality(Takers(i))
      BY DEF Sum
    <3>5. Cardinality(Takers(i)') = Cardinality(Takers(i)) + IF i = counter' THEN 1 ELSE 0
      <4>1. CASE i = counter'
        BY <2>1, <3>2, <4>1
      <4>2. CASE i # counter'
        BY <2>1, <3>1, <4>2
      <4> QED BY <4>1, <4>2
    <3> HIDE DEF Housing, Pushers, Takers, Sum
    <3> QED BY <3>1, <3>3, <3>4, <3>5
  <2>3. CASE counter # 0
    <3>1. counter' = counter - 1
      BY <1>0, <1>6, <2>3, DownIsPrevious
    <3>2. \A i \in Ids : Below(i)' = IF i = counter' THEN Below(i) - 1 ELSE Below(i)
      BY <1>0, <2>3, <3>1 DEF Below
    <3>3. \A i \in Ids : Below(i) \in Int
      BY DEF Below
    <3>4. \A i \in Ids : Sum(i)' = q + Below(i)'
      BY <1>1, <2>2, <3>2, <3>3
    <3> QED BY <3>4 DEF Balanced
  <2>4. CASE counter = 0
    <3>1. counter' = IdSpace - 1
      BY <1>0, <1>6, <2>4 DEF Down
    <3>2. \A i \in Ids : Below(i) = 0 /\ Below(i)' = IF i = counter' THEN 0 ELSE 1
      BY <1>0, <2>4, <3>1 DEF Below
    <3>3. \A i \in Ids : Sum(i)' = (q - 1) + Below(i)'
      BY <1>1, <2>2, <3>2
    <3> QED BY <3>3 DEF Balanced
  <2> QED BY <2>3, <2>4
<1> QED BY <1>5, <1>6

\* A push that puts its worker into the pool, and a pop that takes one out.
LEMMA BalanceEnds ==
  ASSUME Typed, Balanced, NEW t \in Callers, Alone(t), counter' = counter, id' = id,
         \/ /\ at[t] = "insert" /\ at'[t] \notin Changing
            /\ id[t] \notin DOMAIN pool /\ DOMAIN pool' = DOMAIN pool \cup {id[t]}
         \/ /\ at[t] = "take" /\ at'[t] = "raise"
            /\ id[t] \in DOMAIN pool /\ DOMAIN pool' = DOMAIN pool \ {id[t]}
  PROVE  Balanced'
<1>1. PICK q \in Int : \A i \in Ids : Sum(i) = q + Below(i)
  BY DEF Balanced
<1>2. \A u \in Callers \ {t} : at'[u] = at[u]
  BY DEF Alone
<1>3. \A i \in Ids : Sum(i)' = Sum(i)
  <2> SUFFICES ASSUME NEW i \in Ids
               PROVE  Sum(i)' = Sum(i)
    OBVIOUS
  <2>0. /\ Cardinality(Pushers(i)) \in Nat /\ Cardinality(Takers(i)) \in Nat
        /\ IsFiniteSet(Pushers(i)) /\ IsFiniteSet(Takers(i))
    BY SumTyped
  <2>1. CASE /\ at[t] = "insert" /\ at'[t] \notin Changing
             /\ id[t] \notin DOMAIN pool /\ DOMAIN pool' = DOMAIN pool \cup {id[t]}
    <3>1. Takers(i)' = Takers(i)
      BY <1>2, <2>1 DEF Takers, Changing, Popping
    <3>2. CASE i # id[t]
      <4>1. Pushers(i)' = Pushers(i) /\ Housing(i)' = Housing(i)
        BY <1>2, <2>1, <3>2 DEF Pushers, Housing
      <4> QED BY <3>1, <4>1 DEF Sum
    <3>3. CASE i = id[t]
      <4>1. t \in Pushers(i) /\ Pushers(i)' = Pushers(i) \ {t}
        BY <1>2, <2>1, <3>3 DEF Pushers, Changing, Pushing
      <4>2. Housing(i)' = 1 /\ Housing(i) = 0
        BY <2>1, <3>3 DEF Housing
      <4>3. Cardinality(Pushers(i) \ {t}) = Cardinality(Pushers(i)) - 1
        BY <2>0, <4>1, CountsOne
      <4>4. /\ Sum(i) = 0 + Cardinality(Pushers(i)) - Cardinality(Takers(i))
            /\ Sum(i)' = 1 + Cardinality(Pushers(i) \ {t}) - Cardinality(Takers(i))
        BY <3>1, <4>1, <4>2 DEF Sum
      <4> QED BY <2>0, <4>3, <4>4
    <3> QED BY <3>2, <3>3
  <2>2. CASE /\ at[t] = "take" /\ at'[t] = "raise"
             /\ id[t] \in DOMAIN pool /\ DOMAIN pool' = DOMAIN pool \ {id[t]}
    <3>1. Pushers(i)' = Pushers(i)
      BY <1>2, <2>2 DEF Pushers, Pushing
    <3>2. CASE i # id[t]
      <4>1. Takers(i)' = Takers(i) /\ Housing(i)' = Housing(i)
        BY <1>2, <2>2, <3>2 DEF Takers, Housing
      <4> QED BY <3>1, <4>1 DEF Sum
    <3>3. CASE i = id[t]
      <4>1. t \in Takers(i) /\ Takers(i)' = Takers(i) \ {t}
        BY <1>2, <2>2, <3>3 DEF Takers
      <4>2. Housing(i)' = 0 /\ Housing(i) = 1
        BY <2>2, <3>3 DEF Housing
      <4>3. Cardinality(Takers(i) \ {t}) = Cardinality(Takers(i)) - 1
        BY <2>0, <4>1, CountsOne
      <4>4. /\ Sum(i) = 1 + Cardinality(Pushers(i)) - Cardinality(Takers(i))
            /\ Sum(i)' = 0 + Cardinality(Pushers(i)) - Cardinality(Takers(i) \ {t})
        BY <3>1, <4>1, <4>2 DEF Sum
      <4> QED BY <2>0, <4>3, <4>4
    <3> QED BY <3>2, <3>3
  <2> QED BY <2>1, <2>2
<1>4. \A i \in Ids : Below(i)' = Below(i)
  BY DEF Below
<1>5. \A i \in Ids : Sum(i)' = q + Below(i)'
  BY <1>1, <1>3, <1>4
<1> QED BY <1>5 DEF Balanced

\* A pop that finds workers but not its own is not the only call in the pool.
LEMMA NullIsOvertaken ==
  ASSUME Typed, Balanced, NEW t \in Callers, at[t] = "take",
         DOMAIN pool # {}, id[t] \notin DOMAIN pool
  PROVE  \E u \in Callers \ {t} : at[u] \in Changing
<1> SUFFICES ASSUME \A u \in Callers \ {t} : at[u] \notin Changing
             PROVE  FALSE
  OBVIOUS
<1>0. /\ counter \in Ids /\ id[t] \in Ids /\ Ids = 0 .. IdSpace - 1 /\ IdSpace \in Nat
      /\ IdSpace > 1 /\ Ids \subseteq Nat /\ DOMAIN pool \subseteq Ids
  BY CoresCount DEF Typed, PoolTyped, Ids
<1>1. PICK q \in Int : \A i \in Ids : Sum(i) = q + Below(i)
  BY DEF Balanced
<1>2. \A i \in Ids : Pushers(i) = {} /\ Takers(i) = IF i = id[t] THEN {t} ELSE {}
  BY DEF Pushers, Takers, Changing, Pushing, Popping
<1>3. Cardinality({}) = 0 /\ Cardinality({t}) = 1
  BY FS_EmptySet, FS_Singleton
<1>4. Sum(id[t]) = -1
  <2>1. Housing(id[t]) = 0
    BY DEF Housing
  <2>2. Pushers(id[t]) = {} /\ Takers(id[t]) = {t}
    BY <1>0, <1>2
  <2> QED BY <1>3, <2>1, <2>2 DEF Sum
<1>5. \A i \in Ids : i # id[t] => Sum(i) = Housing(i)
  <2>1. \A i \in Ids : Housing(i) \in {0, 1}
    BY DEF Housing
  <2> HIDE DEF Housing
  <2> QED BY <1>2, <1>3, <2>1 DEF Sum
<1>6. PICK j \in DOMAIN pool : TRUE
  OBVIOUS
<1>7. j \in Ids /\ j # id[t] /\ Sum(j) = 1
  BY <1>0, <1>5, <1>6 DEF Housing
<1>8. Below(j) \in {0, 1} /\ Below(id[t]) \in {0, 1}
  BY DEF Below
<1>9. 1 = q + Below(j) /\ -1 = q + Below(id[t])
  BY <1>0, <1>1, <1>4, <1>7
<1> QED BY <1>8, <1>9

\* No push has failed and no pop has missed its worker.
Untroubled == ~thrown /\ ~overtaken /\ ~emptied

LEMMA BalanceStep ==
  ASSUME Typed, Untroubled => Balanced, Next, Untroubled'
  PROVE  Balanced'
<1> USE CallersKnown
<1>0. at \in [Callers -> Points] /\ id \in [Callers -> Ids]
  BY DEF Typed, PlacesTyped, PoolTyped
<1>1. ASSUME NEW t \in Callers, Continues(t)
      PROVE  Balanced'
  <2>0. Alone(t) /\ Untroubled
    <3>1. Acts(t)
      BY <1>1 DEF Acts
    <3>2. (thrown => thrown') /\ (emptied => emptied')
      BY <1>1
      DEF Continues, PushThrows, PushChoose, PushConstruct, PushInsert, PushClashes, PopNone,
          PopNull, PopTake, PopRaise, PopDestroy, poolHistory
    <3>3. overtaken => overtaken'
      BY <1>1
      DEF Continues, PushThrows, PushChoose, PushConstruct, PushInsert, PushClashes, PopNone,
          PopNull, PopTake, PopRaise, PopDestroy, poolHistory
    <3> QED BY <3>1, <3>2, <3>3, ActsAlone DEF Untroubled
  <2>1. ~PushThrows(t, "idle") /\ ~PopNone(t, IF t \in Arbiters THEN "report" ELSE "idle")
    BY DEF Untroubled, PushThrows, PopNone
  <2>2. CASE PushChoose(t) \/ PushConstruct(t) \/ PushClashes(t)
             \/ PopRaise(t) \/ PopDestroy(t, Popped(t))
    <3>1. UNCHANGED <<counter, pool, id>>
      BY <2>2
      DEF PushChoose, PushConstruct, PushClashes, PopRaise, PopDestroy, poolVars, callVars
    <3>2. (at'[t] \in Pushing) = (at[t] \in Pushing) /\ (at'[t] = "take") = (at[t] = "take")
      BY <1>0, <2>2
      DEF PushChoose, PushConstruct, PushClashes, PopRaise, PopDestroy, Goes, Pushing, Popped
    <3> QED BY <2>0, <3>1, <3>2, SumStays DEF Alone
  <2>3. CASE t \in Clients /\ PushInsert(t, Pushed(t))
    <3>1. /\ at[t] = "insert" /\ at'[t] = Pushed(t) /\ counter' = counter /\ id' = id
          /\ id[t] \notin DOMAIN pool /\ DOMAIN pool' = DOMAIN pool \cup {id[t]}
      BY <1>0, <2>3 DEF PushInsert, Goes, callVars
    <3>2. Pushed(t) \notin Changing
      BY DEF Pushed, Changing, Pushing, Popping
    <3> QED BY <2>0, <3>1, <3>2, BalanceEnds
  <2>4. CASE PopTake(t)
    <3>1. /\ at[t] = "take" /\ at'[t] = "raise" /\ counter' = counter /\ id' = id
          /\ id[t] \in DOMAIN pool /\ DOMAIN pool' = DOMAIN pool \ {id[t]}
      BY <1>0, <2>4 DEF PopTake, Goes, Restrict
    <3> QED BY <2>0, <3>1, BalanceEnds
  <2>5. CASE PopNull(t, Popped(t))
    <3>1. \E u \in Callers \ {t} : at[u] \in Changing
      BY <2>0, <2>5, NullIsOvertaken DEF PopNull, Goes
    <3> QED BY <2>5, <3>1 DEF PopNull, Changing, Untroubled
  <2> QED BY <1>1, <2>1, <2>2, <2>3, <2>4, <2>5 DEF Continues
<1>2. ASSUME NEW t \in Callers, Acts(t), ~Continues(t)
      PROVE  Balanced'
  <2>0. Alone(t) /\ Untroubled
    <3>1. /\ UNCHANGED <<overtaken, emptied>>
      BY <1>2, OuterActs
    <3>2. thrown => thrown'
      BY <1>2
      DEF Acts, OwnerActs, OtherActs, ClientActs, ArbiterActs, StartBegin, StartPins,
          StartJoins, Destroys, StartPushes, Pushes, Pops, PushCount, PopCount, StopBegins,
          StopWaits, StopWakesSpuriously, Signals, FrameBegins, TakesTurn, Assigns, Drops,
          Retries, BarrierBegins, BarrierFinds, BarrierPasses, FrameEnds, FramesStop,
          PopsNext, poolHistory
    <3> QED BY <1>2, <3>1, <3>2, ActsAlone DEF Untroubled
  <2>1. ASSUME NEW from \in {"pushing", "idle", "popping"},
               PushCount(t, from) \/ PopCount(t, from)
        PROVE  Balanced'
    <3>1. at[t] \notin Changing /\ pool' = pool
      BY <2>1 DEF PushCount, PopCount, Goes, Changing, Pushing, Popping
    <3>2. \/ at'[t] = "choose" /\ id'[t] = counter /\ counter' = Up(counter)
          \/ at'[t] = "take" /\ id'[t] = counter' /\ counter' = Down(counter)
      BY <1>0, <2>1 DEF PushCount, PopCount, Goes
    <3> QED BY <2>0, <3>1, <3>2, BalanceBegins
  <2>2. ASSUME UNCHANGED <<counter, pool, id>>,
               at[t] \notin Changing, at'[t] \notin Changing
        PROVE  Balanced'
    <3>1. (at'[t] \in Pushing) = (at[t] \in Pushing) /\ (at'[t] = "take") = (at[t] = "take")
      BY <2>2 DEF Changing, Popping
    <3> QED BY <2>0, <2>2, <3>1, SumStays DEF Alone
  <2>3. CASE t = Owner /\ OwnerActs
    <3>1. CASE StartPushes
      BY <2>1, <2>3, <3>1 DEF StartPushes
    <3>2. CASE StartBegin \/ StartPins \/ StartJoins \/ Destroys
      <4>1. UNCHANGED <<counter, pool, id>>
        BY <3>2 DEF StartBegin, StartPins, StartJoins, Destroys, poolVars, callVars
      <4>2. at[t] \notin Changing /\ at'[t] \notin Changing
        BY <1>0, <2>3, <3>2
        DEF StartBegin, StartPins, StartJoins, Destroys, Call, Goes, Changing, Pushing, Popping
      <4> QED BY <2>2, <4>1, <4>2
    <3> QED BY <2>3, <3>1, <3>2 DEF OwnerActs
  <2>4. CASE t = Other /\ OtherActs
    BY <2>1, <2>4 DEF OtherActs, Pushes, Pops
  <2>5. CASE t \in Clients /\ ClientActs(t)
    <3>1. UNCHANGED <<counter, pool, id>>
      BY <2>5 DEF ClientActs, StopBegins, StopWaits, StopWakesSpuriously, Signals, poolVars,
                  callVars
    <3>2. at[t] \notin Changing /\ at'[t] \notin Changing
      BY <1>0, <2>5
      DEF ClientActs, StopBegins, StopWaits, StopWakesSpuriously, Signals, Stopped, Call, Goes,
          Changing, Pushing, Popping
    <3> QED BY <2>2, <3>1, <3>2
  <2>6. CASE t \in Arbiters /\ ArbiterActs(t)
    <3>1. CASE PopsNext(t)
      BY <2>1, <3>1 DEF PopsNext
    <3>2. CASE ~PopsNext(t)
      <4>1. UNCHANGED <<counter, pool, id>>
        BY <2>6, <3>2
        DEF ArbiterActs, FrameBegins, TakesTurn, Assigns, Drops, Retries, BarrierBegins,
            BarrierFinds, BarrierPasses, FrameEnds, FramesStop, poolVars, callVars
      <4>2. at[t] \notin Changing /\ at'[t] \notin Changing
        BY <1>0, <2>6, <3>2
        DEF ArbiterActs, FrameBegins, TakesTurn, Assigns, Drops, Retries, BarrierBegins,
            BarrierFinds, BarrierPasses, FrameEnds, FramesStop, Goes, Changing, Pushing,
            Popping
      <4> QED BY <2>2, <4>1, <4>2
    <3> QED BY <3>1, <3>2
  <2> QED BY <1>2, <2>3, <2>4, <2>5, <2>6 DEF Acts
<1>3. ASSUME \A u \in Callers : at'[u] = at[u] \/ (at[u] \notin Changing /\ at'[u] \notin Changing),
             UNCHANGED <<poolVars, callVars, thrown, overtaken, emptied>>
      PROVE  Balanced'
  <2>1. Untroubled /\ UNCHANGED <<counter, pool, id>>
    BY <1>3 DEF Untroubled, poolVars, callVars
  <2>2. \A u \in Callers : /\ (at'[u] \in Pushing) = (at[u] \in Pushing)
                           /\ (at'[u] = "take") = (at[u] = "take")
    BY <1>3 DEF Changing, Popping
  <2> QED BY <2>1, <2>2, SumStays
<1>4. CASE StartLaunches
  <2>1. {"pushing", "pin", "join", "none", "top"} \cap Changing = {}
    BY DEF Changing, Pushing, Popping
  <2>2. \A u \in Callers : at'[u] = at[u] \/ (at[u] \notin Changing /\ at'[u] \notin Changing)
    BY <1>4, <2>1, LaunchMoves DEF Clients
  <2>3. UNCHANGED <<poolVars, callVars, thrown, overtaken, emptied>>
    BY <1>4, LaunchMoves DEF poolHistory
  <2> QED BY <1>3, <2>2, <2>3
<1>5. CASE \E a \in Arbiters : Reports(a)
  <2>1. PICK a \in Arbiters : Reports(a)
    BY <1>5
  <2>2. {"report", "none", "waiting", "idle", "destroyed"} \cap Changing = {}
    BY DEF Changing, Pushing, Popping
  <2>3. \A u \in Callers : at'[u] = at[u] \/ (at[u] \notin Changing /\ at'[u] \notin Changing)
    BY <2>1, <2>2, ReportMoves
  <2>4. UNCHANGED <<poolVars, callVars, thrown, overtaken, emptied>>
    BY <2>1, ReportMoves DEF poolHistory, poolState
  <2> QED BY <1>3, <2>3, <2>4
<1>6. CASE \E o \in Objects : Works(o)
  BY <1>3, <1>6, WorkerTyped DEF Works, Typed, poolHistory
<1> QED BY <1>1, <1>2, <1>4, <1>5, <1>6, StepActs

LEMMA RoomTyped ==
  ASSUME Typed
  PROVE  /\ Claims(Owner) \in {0, 1} /\ Claims(Other) \in {0, 1} /\ Cd \in Nat /\ C \in Nat
         /\ IsFiniteSet(DOMAIN pool) /\ Cardinality(DOMAIN pool) \in Nat
<1>1. IsFiniteSet(0 .. IdSpace - 1)
  <2>1. 0 \in Int /\ IdSpace - 1 \in Int
    BY PoolAssumption DEF PoolAssumption
  <2> QED BY <2>1, FS_Interval
<1>2. IsFiniteSet(DOMAIN pool)
  BY <1>1, FS_Subset DEF Typed, PoolTyped, Ids
<1> QED BY <1>2, CoresCount, FS_CardinalityType DEF Claims

LEMMA RoomyStays ==
  ASSUME Typed, Typed', Roomy, unused' = unused, DOMAIN pool' \subseteq DOMAIN pool,
         \A u \in Clients : Claims(u)' <= Claims(u)
  PROVE  Roomy'
<1>1. Cardinality(DOMAIN pool') <= Cardinality(DOMAIN pool)
  BY RoomTyped, FS_Subset
<1>2. /\ Claims(Owner)' <= Claims(Owner) /\ Claims(Other)' <= Claims(Other)
      /\ Cd' = Cd /\ C' = C
  BY DEF Clients, Cd, C
<1>3. /\ Claims(Owner) \in {0, 1} /\ Claims(Other) \in {0, 1} /\ Cd \in Nat /\ C \in Nat
      /\ Cardinality(DOMAIN pool) \in Nat /\ Cardinality(DOMAIN pool') \in Nat
      /\ Claims(Owner)' \in {0, 1} /\ Claims(Other)' \in {0, 1}
  <2>1. Cardinality(DOMAIN pool') \in Nat /\ Claims(Owner)' \in {0, 1} /\ Claims(Other)' \in {0, 1}
    BY RoomTyped, FS_CardinalityType, FS_Subset DEF Claims
  <2> QED BY <2>1, RoomTyped
<1>4. Cardinality(DOMAIN pool) + Claims(Owner) + Claims(Other) + 2 * Cd <= 2 * C
  BY DEF Roomy
<1>5. Cardinality(DOMAIN pool') + Claims(Owner)' + Claims(Other)' + 2 * Cd' <= 2 * C'
  <2> HIDE DEF Claims, Cd, C
  <2> QED BY <1>1, <1>2, <1>3, <1>4
<1> QED BY <1>5 DEF Roomy

\* A core less leaves room for what both threads may make of it.
LEMMA RoomyTakes ==
  ASSUME Typed, Roomy, pool' = pool, NEW c \in unused, unused' = unused \ {c}
  PROVE  Roomy'
<1>1. Cd' = Cd - 1 /\ C' = C
  BY CoresCount DEF Cd, C
<1>2. Claims(Owner)' \in {0, 1} /\ Claims(Other)' \in {0, 1}
  BY DEF Claims
<1>3. /\ Claims(Owner) \in {0, 1} /\ Claims(Other) \in {0, 1} /\ Cd \in Nat /\ C \in Nat
      /\ Cardinality(DOMAIN pool) \in Nat
  BY RoomTyped
<1>4. Cardinality(DOMAIN pool) + Claims(Owner) + Claims(Other) + 2 * Cd <= 2 * C
  BY DEF Roomy
<1>5. Cardinality(DOMAIN pool) + Claims(Owner)' + Claims(Other)' + 2 * Cd' <= 2 * C'
  <2> HIDE DEF Claims, Cd, C
  <2> QED BY <1>1, <1>2, <1>3, <1>4
<1> QED BY <1>5 DEF Roomy

LEMMA RoomyContinues ==
  ASSUME Typed, Typed', Roomy, NEW t \in Callers, Continues(t)
  PROVE  Roomy'
<1> USE CallersKnown
<1>0. /\ at \in [Callers -> Points] /\ core \in [Callers -> Cores \cup {None}] /\ Alone(t)
  BY ActsAlone DEF Typed, PlacesTyped, PoolTyped, Acts
<1>1. \A u \in Clients \ {t} : unused' = unused => Claims(u)' = Claims(u)
  BY <1>0 DEF Alone, Claims
<1>2. \A u \in Clients : Claims(u) \in {0, 1}
  BY DEF Claims
<1>3. ASSUME unused' = unused, DOMAIN pool' \subseteq DOMAIN pool, t \in Clients => Claims(t)' <= Claims(t)
      PROVE  Roomy'
  <2>1. \A u \in Clients : Claims(u)' <= Claims(u)
    <3> HIDE DEF Claims
    <3> QED BY <1>1, <1>2, <1>3
  <2> QED BY <1>3, <2>1, RoomyStays
<1>4. ASSUME unused' = unused, DOMAIN pool' \subseteq DOMAIN pool, t \in Clients => Claims(t)' = 0
      PROVE  Roomy'
  <2>1. t \in Clients => Claims(t)' <= Claims(t)
    BY <1>2, <1>4 DEF Claims
  <2> QED BY <1>3, <1>4, <2>1
<1>5. CASE t \in Clients /\ (PushThrows(t, "idle") \/ PushChoose(t))
  <2>1. /\ at'[t] = "idle" \/ (at'[t] = "construct" /\ core'[t] \in unused)
        /\ unused' = unused /\ pool' = pool
    <3>1. unused # {} => Min(unused) \in unused
      BY MinIsIn DEF Typed, PoolTyped
    <3> QED BY <1>0, <1>5, <3>1 DEF PushThrows, PushChoose, Goes, poolVars
  <2>2. Claims(t)' = 0
    BY <2>1 DEF Claims
  <2> QED BY <1>4, <2>1, <2>2
<1>6. CASE t \in Clients /\ PushConstruct(t)
  <2>1. at[t] = "construct" /\ unused' = unused \ {core[t]} /\ pool' = pool
    BY <1>6 DEF PushConstruct, Goes
  <2>2. CASE core[t] \in unused
    BY <2>1, <2>2, RoomyTakes
  <2>3. CASE core[t] \notin unused
    <3>1. Claims(t) = 1 /\ Claims(t)' \in {0, 1}
      BY <2>1, <2>3 DEF Claims
    <3>2. Claims(t)' <= Claims(t)
      <4> HIDE DEF Claims
      <4> QED BY <3>1
    <3>3. unused' = unused
      BY <2>1, <2>3
    <3> QED BY <1>3, <2>1, <3>2, <3>3
  <2> QED BY <2>2, <2>3
<1>7. CASE t \in Clients /\ PushInsert(t, Pushed(t))
  <2>1. /\ at[t] = "insert" /\ at'[t] = Pushed(t) /\ unused' = unused
        /\ id[t] \notin DOMAIN pool /\ DOMAIN pool' = DOMAIN pool \cup {id[t]}
    BY <1>0, <1>7 DEF PushInsert, Goes
  <2>2. Claims(t) = 1 /\ Claims(t)' = 0
    BY <2>1 DEF Claims, Pushed
  <2>3. Cardinality(DOMAIN pool') = Cardinality(DOMAIN pool) + 1
    BY <2>1, RoomTyped, CountsOne
  <2>4. Claims(Owner)' + Claims(Other)' = Claims(Owner) + Claims(Other) - 1
    <3>1. CASE t = Owner
      <4>1. Claims(Other)' = Claims(Other) /\ Claims(Owner) = 1 /\ Claims(Owner)' = 0
        BY <1>1, <2>1, <2>2, <3>1
      <4> HIDE DEF Claims
      <4> QED BY <4>1, RoomTyped
    <3>2. CASE t = Other
      <4>1. Claims(Owner)' = Claims(Owner) /\ Claims(Other) = 1 /\ Claims(Other)' = 0
        BY <1>1, <2>1, <2>2, <3>2
      <4> HIDE DEF Claims
      <4> QED BY <4>1, RoomTyped
    <3> QED BY <1>7, <3>1, <3>2 DEF Clients
  <2>5. Cd' = Cd /\ C' = C /\ Claims(Owner)' \in {0, 1} /\ Claims(Other)' \in {0, 1}
    BY <2>1 DEF Cd, C, Claims
  <2>6. Cardinality(DOMAIN pool) + Claims(Owner) + Claims(Other) + 2 * Cd <= 2 * C
    BY DEF Roomy
  <2>7. Cardinality(DOMAIN pool') + Claims(Owner)' + Claims(Other)' + 2 * Cd' <= 2 * C'
    <3> HIDE DEF Claims, Cd, C
    <3> QED BY <2>3, <2>4, <2>5, <2>6, RoomTyped
  <2> QED BY <2>7 DEF Roomy
<1>8. CASE t \in Clients /\ PushClashes(t)
  <2>1. UNCHANGED <<at, pool, unused, core>>
    BY <1>8 DEF PushClashes, poolVars, callVars
  <2>2. Claims(t)' = Claims(t) /\ Claims(t) \in {0, 1}
    BY <2>1 DEF Claims
  <2>3. Claims(t)' <= Claims(t)
    <3> HIDE DEF Claims
    <3> QED BY <2>2
  <2> QED BY <1>3, <2>1, <2>3
<1>9. CASE \/ PopNone(t, IF t \in Arbiters THEN "report" ELSE "idle")
           \/ PopNull(t, Popped(t)) \/ PopTake(t) \/ PopRaise(t) \/ PopDestroy(t, Popped(t))
  <2>1. unused' = unused /\ DOMAIN pool' \subseteq DOMAIN pool
    BY <1>9 DEF PopNone, PopNull, PopTake, PopRaise, PopDestroy, poolVars, Restrict
  <2>2. at'[t] \notin {"construct", "insert"}
    BY <1>0, <1>9 DEF PopNone, PopNull, PopTake, PopRaise, PopDestroy, Goes, Popped
  <2>3. Claims(t)' = 0
    BY <2>2 DEF Claims
  <2> QED BY <1>4, <2>1, <2>3
<1> QED BY <1>5, <1>6, <1>7, <1>8, <1>9 DEF Continues

LEMMA RoomyStep ==
  ASSUME Typed, Typed', Roomy, Next
  PROVE  Roomy'
<1> USE CallersKnown
<1>0. /\ at \in [Callers -> Points] /\ core \in [Callers -> Cores \cup {None}]
      /\ unused \in SUBSET Nat
  BY DEF Typed, PlacesTyped, PoolTyped
<1>1. ASSUME \A u \in Callers : /\ at'[u] = at[u] \/ at'[u] \notin {"construct", "insert"}
                                /\ core'[u] = core[u],
             pool' = pool, unused' = unused
      PROVE  Roomy'
  <2>1. \A u \in Clients : Claims(u)' = Claims(u) \/ (Claims(u)' = 0 /\ Claims(u) \in {0, 1})
    BY <1>1 DEF Claims
  <2>2. \A u \in Clients : Claims(u) \in {0, 1}
    BY DEF Claims
  <2>3. \A u \in Clients : Claims(u)' <= Claims(u)
    <3> HIDE DEF Claims
    <3> QED BY <2>1, <2>2
  <2> QED BY <1>1, <2>3, RoomyStays
<1>2. ASSUME NEW t \in Callers, Acts(t), ~Continues(t), unused' = unused
      PROVE  Roomy'
  <2>1. Alone(t) /\ pool' = pool
    BY <1>2, ActsAlone, OuterActs
  <2>2. core'[t] = core[t]
    BY <1>2
    DEF Acts, OwnerActs, OtherActs, ClientActs, ArbiterActs, StartBegin, StartPins, StartJoins,
        Destroys, StartPushes, Pushes, Pops, PushCount, PopCount, StopBegins, StopWaits,
        StopWakesSpuriously, Signals, FrameBegins, TakesTurn, Assigns, Drops, Retries,
        BarrierBegins, BarrierFinds, BarrierPasses, FrameEnds, FramesStop, PopsNext, callVars
  <2>3. at'[t] \notin {"construct", "insert"}
    <3>1. CASE t = Owner /\ OwnerActs
      BY <1>0, <3>1
      DEF OwnerActs, StartBegin, StartPins, StartJoins, Destroys, StartPushes, Call, PushCount,
          Goes
    <3>2. CASE t = Other /\ OtherActs
      BY <1>0, <3>2 DEF OtherActs, Pushes, Pops, PushCount, PopCount, Goes
    <3>3. CASE t \in Clients /\ ClientActs(t)
      BY <1>0, <3>3
      DEF ClientActs, StopBegins, StopWaits, StopWakesSpuriously, Signals, Call, Goes, Stopped
    <3>4. CASE t \in Arbiters /\ ArbiterActs(t)
      BY <1>0, <3>4
      DEF ArbiterActs, FrameBegins, TakesTurn, Assigns, Drops, Retries, BarrierBegins,
          BarrierFinds, BarrierPasses, FrameEnds, FramesStop, PopsNext, PopCount, Goes
    <3> QED BY <1>2, <3>1, <3>2, <3>3, <3>4 DEF Acts
  <2> QED BY <1>1, <1>2, <2>1, <2>2, <2>3 DEF Alone
<1>3. ASSUME NEW t \in Callers, Acts(t), ~Continues(t), unused' # unused
      PROVE  Roomy'
  <2>1. StartPins /\ unused # {} /\ unused' = unused \ {Min(unused)} /\ pool' = pool
    BY <1>3
    DEF Acts, OwnerActs, OtherActs, ClientActs, ArbiterActs, StartBegin, StartPins, StartJoins,
        Destroys, StartPushes, Pushes, Pops, PushCount, PopCount, StopBegins, StopWaits,
        StopWakesSpuriously, Signals, FrameBegins, TakesTurn, Assigns, Drops, Retries,
        BarrierBegins, BarrierFinds, BarrierPasses, FrameEnds, FramesStop, PopsNext, poolVars
  <2>2. Min(unused) \in unused
    BY <1>0, <2>1, MinIsIn
  <2> QED BY <2>1, <2>2, RoomyTakes
<1>4. CASE StartLaunches
  <2>1. \A u \in Callers : at'[u] = at[u] \/ at'[u] \notin {"construct", "insert"}
    BY <1>4, LaunchMoves DEF Clients
  <2>2. UNCHANGED <<pool, unused, core>>
    BY <1>4, LaunchMoves DEF poolVars, callVars
  <2> QED BY <1>1, <2>1, <2>2
<1>5. CASE \E a \in Arbiters : Reports(a)
  <2>1. PICK a \in Arbiters : Reports(a)
    BY <1>5
  <2>2. \A u \in Callers : at'[u] = at[u] \/ at'[u] \notin {"construct", "insert"}
    BY <2>1, ReportMoves
  <2>3. UNCHANGED <<pool, unused, core>>
    BY <2>1, ReportMoves DEF poolState, poolVars, callVars
  <2> QED BY <1>1, <2>2, <2>3
<1>6. CASE \E o \in Objects : Works(o)
  <2>1. UNCHANGED <<at, poolVars, callVars>>
    BY <1>6, WorkerTyped DEF Works, Typed
  <2> QED BY <1>1, <2>1 DEF poolVars, callVars
<1> QED BY <1>2, <1>3, <1>4, <1>5, <1>6, RoomyContinues, StepActs

NumberedInv == Roomy /\ (Untroubled => Balanced)

\* At rest every sum is one or zero, and the pool has no room for all ids.
LEMMA NumberedInvSays == Typed /\ NumberedInv => PoolNumbered
<1> SUFFICES ASSUME Typed, Roomy, Balanced, PoolAtRest
             PROVE  DOMAIN pool = {i \in Ids : i < counter}
  BY DEF NumberedInv, PoolNumbered, Untroubled
<1>0. /\ counter \in Ids /\ Ids = 0 .. IdSpace - 1 /\ IdSpace \in Nat
      /\ IdSpace > 0 /\ DOMAIN pool \subseteq Ids /\ 2 * C + 1 < IdSpace /\ C \in Nat
  BY CoresCount DEF Typed, PoolTyped, Ids
<1>1. PICK q \in Int : \A i \in Ids : Sum(i) = q + Below(i)
  BY DEF Balanced
<1>2. \A i \in Ids : Sum(i) = Housing(i)
  <2>1. \A i \in Ids : Pushers(i) = {} /\ Takers(i) = {}
    BY DEF PoolAtRest, Pushers, Takers, Popping
  <2>2. \A i \in Ids : Housing(i) \in {0, 1}
    BY DEF Housing
  <2> HIDE DEF Housing
  <2> QED BY <2>1, <2>2, FS_EmptySet DEF Sum
<1>3. \A i \in Ids : Housing(i) = q + Below(i)
  BY <1>1, <1>2
<1>4. q = 0
  <2>1. PICK last \in Ids : last = IdSpace - 1
    BY <1>0
  <2>2. Below(last) = 0 /\ Housing(last) \in {0, 1}
    BY <1>0, <2>1 DEF Below, Housing
  <2>3. q \in {0, 1}
    <3> HIDE DEF Below, Housing
    <3> QED BY <1>3, <2>2
  <2>4. ASSUME q = 1
        PROVE  FALSE
    <3>1. DOMAIN pool = Ids
      <4> SUFFICES ASSUME NEW i \in Ids, i \notin DOMAIN pool
                   PROVE  FALSE
        BY <1>0
      <4>1. Housing(i) = 0 /\ Below(i) \in {0, 1} /\ Housing(i) = 1 + Below(i)
        BY <1>3, <2>4 DEF Housing, Below
      <4> HIDE DEF Housing, Below
      <4> QED BY <4>1
    <3>2. Cardinality(DOMAIN pool) = IdSpace
      <4>1. 0 \in Int /\ IdSpace - 1 \in Int /\ ~(0 > IdSpace - 1)
            /\ (IdSpace - 1) - 0 + 1 = IdSpace
        BY <1>0
      <4>2. Cardinality(0 .. IdSpace - 1) = (IdSpace - 1) - 0 + 1
        BY <4>1, FS_Interval
      <4> QED BY <1>0, <3>1, <4>1, <4>2
    <3>3. Cardinality(DOMAIN pool) + Claims(Owner) + Claims(Other) + 2 * Cd <= 2 * C
      BY DEF Roomy
    <3> HIDE DEF Claims, Cd, C
    <3> QED BY <1>0, <3>2, <3>3, RoomTyped
  <2> QED BY <2>3, <2>4
<1>5. \A i \in Ids : i \in DOMAIN pool <=> i < counter
  <2>1. \A i \in Ids : Below(i) \in {0, 1} /\ Housing(i) = 0 + Below(i)
    BY <1>3, <1>4 DEF Below
  <2>2. \A i \in Ids : Housing(i) = Below(i)
    <3> HIDE DEF Below, Housing
    <3> QED BY <2>1
  <2> QED BY <2>2 DEF Below, Housing
<1> QED BY <1>0, <1>5

LEMMA NumberedStart == Init => NumberedInv
<1> SUFFICES ASSUME Init
             PROVE  NumberedInv
  OBVIOUS
<1>1. /\ counter = 0 /\ DOMAIN pool = {} /\ unused = Cores
      /\ \A t \in Callers : at[t] \in {"none", "idle"}
  BY DEF Init, PoolInit
<1>2. Roomy
  <2>1. Claims(Owner) = 0 /\ Claims(Other) = 0
    BY <1>1, CallersKnown DEF Claims
  <2>2. Cd = C /\ Cardinality(DOMAIN pool) = 0
    BY <1>1, FS_EmptySet DEF Cd, C
  <2>3. C \in Nat
    BY TypedStart, CoresCount
  <2>4. 0 + 0 + 0 + 2 * C <= 2 * C
    BY <2>3
  <2> QED BY <2>1, <2>2, <2>4 DEF Roomy
<1>3. \A i \in Ids : Sum(i) = 0 + Below(i)
  <2>1. \A i \in Ids : Housing(i) = 0 /\ Pushers(i) = {} /\ Takers(i) = {} /\ Below(i) = 0
    BY <1>1, PoolAssumption DEF Housing, Pushers, Takers, Below, Pushing, Ids, PoolAssumption
  <2> QED BY <2>1, FS_EmptySet DEF Sum
<1>4. Balanced
  BY <1>3 DEF Balanced
<1> QED BY <1>2, <1>4 DEF NumberedInv

\* However many threads push and pop at the same time, between starts, frames and
\* stops: when all of them are done the ids of the pool are those below the counter,
\* unless a push failed, a pop came before a push or pop it counted on, or a pool was
\* popped empty (runner.cpp:18-58).
THEOREM PoolKeepsNumbers == Spec => []PoolNumbered
<1>1. Typed /\ Typed' /\ NumberedInv /\ [Next]_lifeVars => NumberedInv'
  <2>1. ASSUME Typed, Typed', NumberedInv, Next
        PROVE  NumberedInv'
    BY <2>1, BalanceStep, RoomyStep DEF NumberedInv
  <2>2. ASSUME NumberedInv, UNCHANGED lifeVars
        PROVE  NumberedInv'
    BY <2>2
    DEF NumberedInv, Roomy, Balanced, Untroubled, Sum, Housing, Pushers, Takers, Below, Claims,
        Cd, C, lifeVars, poolVars, callVars, poolHistory
  <2> QED BY <2>1, <2>2
<1> QED BY <1>1, NumberedStart, NumberedInvSays, TypedHolds, PTL DEF Spec

===============================================================================
