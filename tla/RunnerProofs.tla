----------------------------- MODULE RunnerProofs -----------------------------
(***************************************************************************)
(* Theorems about sched::runner, for every number of workers, every forest *)
(* of jobs and every choice of the jobs that exit or are scheduled late.   *)
(***************************************************************************)
EXTENDS Runner, WorkerMonitorProofs, SequenceTheorems

USE DEF ArbiterGoes

-------------------------------------------------------------------------------
(* The helpers *)

LEMMA WithoutType ==
  ASSUME NEW seq \in Seq(Jobs), NEW j
  PROVE  Without(seq, j) \in Seq(Jobs)
<1>1. CASE j \in ToSet(seq)
  <2> DEFINE i == CHOOSE i \in DOMAIN seq : seq[i] = j
  <2>1. i \in 1 .. Len(seq)
    BY <1>1 DEF ToSet
  <2> HIDE DEF i
  <2>2. SubSeq(seq, 1, i - 1) \o SubSeq(seq, i + 1, Len(seq)) \in Seq(Jobs)
    BY <2>1
  <2> QED BY <1>1, <2>2 DEF Without, RemoveAt, i
<1>2. CASE j \notin ToSet(seq) BY <1>2 DEF Without
<1> QED BY <1>1, <1>2

LEMMA WrapRange ==
  ASSUME NEW n \in Nat \ {0}, NEW c \in 0 .. n - 1
  PROVE  (c + n - 1) % n \in 0 .. n - 1
OBVIOUS

LEMMA WrapDown ==
  ASSUME NEW n \in Nat \ {0}, NEW c \in 0 .. n - 1, c # 0
  PROVE  (c + n - 1) % n = c - 1
OBVIOUS

LEMMA BeforeType ==
  ASSUME NEW id \in 0 .. IdSpace - 1
  PROVE  /\ Before(id) \in 0 .. IdSpace - 1
         /\ id # 0 => Before(id) = id - 1
<1>1. IdSpace \in Nat \ {0}
  BY RunnerAssumption DEF RunnerAssumption
<1> QED BY <1>1, WrapRange, WrapDown DEF Before

-------------------------------------------------------------------------------
(* Where the arbiter stands with each worker *)

\* At every point of start() and of the arbiter it is known in which call of
\* which worker the caller is: that makes every call one the class allows, and
\* every id one of a worker in the pool.
OwnersKnown ==
  /\ apc = "start" =>
       /\ counter <= NumWorkers
       /\ \A w \in Workers : call[w] = IF w < counter THEN "ready" ELSE "none"
  /\ apc = "pushed" =>
       /\ counter \in 1 .. NumWorkers
       /\ \A w \in Workers :
            call[w] = IF w = counter - 1 THEN "built"
                      ELSE IF w < counter THEN "ready" ELSE "none"
  /\ apc \in {"top", "assign", "wake", "kids", "wait"} => counter = NumWorkers
  /\ apc = "top" => \A w \in Workers : call[w] = "ready"
  /\ apc \in {"assign", "kids"} => \A w \in Workers : call[w] \in {"ready", "fed"}
  /\ apc = "wake" =>
       /\ nextId \in 1 .. NumWorkers
       /\ call[nextId - 1] = "assigned"
       /\ \A w \in Workers \ {nextId - 1} : call[w] \in {"ready", "fed"}
  /\ apc \in {"wake", "kids"} => now # <<>>
  /\ apc = "wait" =>
       \A w \in Workers :
         /\ w < waitId => call[w] = "ready"
         /\ w = waitId => call[w] \in {"ready", "fed", "wait"}
         /\ w > waitId => call[w] \in {"ready", "fed"}
  /\ apc = "pop" =>
       /\ counter <= NumWorkers
       /\ \A w \in Workers : call[w] = IF w < counter THEN "ready" ELSE "gone"
  /\ apc = "stopping" =>
       /\ counter < NumWorkers
       /\ \A w \in Workers :
            /\ w < counter => call[w] = "ready"
            /\ w = counter => call[w] \in {"stop_awake", "stopping"}
            /\ w > counter => call[w] = "gone"

\* Every step of the runner is one of the workers' steps or none of them.
LEMMA StepOfWorkers ==
  ASSUME RunnerTypeOK, OwnersKnown, [Next]_runnerVars
  PROVE  [MonitorNext]_monitorVars
<1> USE RunnerAssumption DEF RunnerAssumption, RunnerTypeOK, OwnersKnown, monitorVars
<1>1. CASE PushConstruct
  <2>1. counter \in Workers /\ Construct(counter) BY <1>1 DEF PushConstruct
  <2> QED BY <2>1 DEF MonitorNext, Begin
<1>2. CASE PushDetach
  <2>1. counter - 1 \in Workers /\ Detach(counter - 1) BY <1>2 DEF PushDetach
  <2> QED BY <2>1 DEF MonitorNext, Continue
<1>3. CASE AssignNext
  <2>1. PICK id : Assign(id, Head(now)) /\ id = IF nextId = counter THEN 0 ELSE nextId
    BY <1>3 DEF AssignNext
  <2>2. id \in Workers /\ Head(now) \in Jobs
    BY <1>3, <2>1 DEF AssignNext
  <2> QED BY <2>1, <2>2 DEF MonitorNext, Begin
<1>4. CASE AssignWake
  <2>1. nextId - 1 \in Workers /\ Wake(nextId - 1) BY <1>4 DEF AssignWake
  <2> QED BY <2>1 DEF MonitorNext, Continue
<1>5. CASE BarrierWait
  <2>1. waitId \in Workers /\ WaitBegin(waitId) BY <1>5 DEF BarrierWait
  <2> QED BY <2>1 DEF MonitorNext, Begin
<1>6. CASE BarrierNext
  <2>1. waitId \in Workers /\ WaitReturn(waitId) BY <1>6 DEF BarrierNext
  <2> QED BY <2>1 DEF MonitorNext, Continue
<1>7. CASE PopBegin
  <2>1. counter # 0
    BY <1>7 DEF PopBegin
  <2>2. counter - 1 \in Workers /\ StopActive(counter - 1)
    BY <1>7, <2>1, BeforeType DEF PopBegin
  <2> QED BY <2>2 DEF MonitorNext, Begin
<1>8. CASE PopAwake
  <2>1. counter \in Workers /\ StopAwake(counter) BY <1>8 DEF PopAwake
  <2> QED BY <2>1 DEF MonitorNext, Continue
<1>9. CASE PopEnd
  <2>1. counter \in Workers /\ StopReturn(counter) BY <1>9 DEF PopEnd
  <2> QED BY <2>1 DEF MonitorNext, Continue
<1>10. CASE \/ Launch \/ FrameBegin \/ AssignExited \/ AssignKids \/ BarrierBegin
            \/ NextSubCycle \/ FrameEnd \/ FramesStop \/ PopNone
  BY <1>10 DEF Launch, FrameBegin, AssignExited, AssignKids, BarrierBegin,
               NextSubCycle, FrameEnd, FramesStop, PopNone
<1>11. ASSUME NEW w \in Workers, WorkerThread(w) PROVE MonitorNext
  BY <1>11 DEF WorkerThread, Take, Execute, Cycle, MonitorNext, Thread
<1>12. CASE SignalStop \/ \E j \in Jobs : Schedule(j)
  BY <1>12 DEF SignalStop, Schedule
<1>13. CASE UNCHANGED runnerVars BY <1>13 DEF runnerVars
<1> QED BY <1>1, <1>2, <1>3, <1>4, <1>5, <1>6, <1>7, <1>8, <1>9, <1>10, <1>11,
           <1>12, <1>13 DEF Next, Arbiter

-------------------------------------------------------------------------------
(* Type correctness *)

LEMMA RunnerTypeStep ==
  ASSUME RunnerTypeOK, OwnersKnown, [Next]_runnerVars
  PROVE  RunnerTypeOK'
<1>0. TypeOK'
  BY StepOfWorkers, MonitorTypeStep DEF RunnerTypeOK
<1> USE <1>0, RunnerAssumption
    DEF RunnerAssumption, RunnerTypeOK, OwnersKnown, ArbiterPoints, Parentage,
        arbiterVars, graphVars, historyVars
<1>1. CASE PushConstruct BY <1>1 DEF PushConstruct
<1>2. CASE PushDetach BY <1>2 DEF PushDetach
<1>3. CASE Launch BY <1>3 DEF Launch
<1>4. CASE FrameBegin BY <1>4 DEF FrameBegin, Attached
<1>5. CASE AssignExited
  <2>1. Head(now) \in Jobs /\ Tail(now) \in Seq(Jobs)
    BY <1>5 DEF AssignExited
  <2>2. Without(roots, Head(now)) \in Seq(Jobs)
    BY WithoutType
  <2>3. parent[Head(now)] # NoJob
          => Without(kids[parent[Head(now)]], Head(now)) \in Seq(Jobs)
    BY <2>1, WithoutType
  <2>4. roots' \in Seq(Jobs) /\ apc' \in ArbiterPoints
    BY <1>5, <2>2 DEF AssignExited, Erase
  <2>5. kids' \in [Jobs -> Seq(Jobs)]
    BY <1>5, <2>1, <2>3 DEF AssignExited, Erase
  <2>6. parent' \in Parentage
    BY <1>5, <2>1 DEF AssignExited, Erase
  <2> QED BY <1>5, <2>1, <2>4, <2>5, <2>6 DEF AssignExited
<1>6. CASE AssignNext
  <2>1. PICK id : /\ id = IF nextId = counter THEN 0 ELSE nextId
                  /\ nextId' = id + 1
                  /\ tally' = [tally EXCEPT ![id] = @ + 1]
    BY <1>6 DEF AssignNext
  <2>2. id \in Workers
    BY <1>6, <2>1 DEF AssignNext
  <2>3. nextId' \in 0 .. NumWorkers /\ tally' \in [Workers -> Nat]
    BY <2>1, <2>2
  <2>4. apc' \in ArbiterPoints
    BY <1>6 DEF AssignNext
  <2> QED BY <1>6, <2>3, <2>4 DEF AssignNext
<1>7. CASE AssignWake BY <1>7 DEF AssignWake
<1>8. CASE AssignKids
  <2>1. Head(now) \in Jobs /\ Tail(now) \in Seq(Jobs)
    BY <1>8 DEF AssignKids
  <2>2. later \o kids[Head(now)] \in Seq(Jobs)
    BY <2>1
  <2> QED BY <1>8, <2>1, <2>2 DEF AssignKids
<1>9. CASE BarrierBegin BY <1>9 DEF BarrierBegin
<1>10. CASE BarrierWait BY <1>10 DEF BarrierWait
<1>11. CASE BarrierNext BY <1>11 DEF BarrierNext
<1>12. CASE NextSubCycle BY <1>12 DEF NextSubCycle
<1>13. CASE FrameEnd BY <1>13 DEF FrameEnd
<1>14. CASE FramesStop BY <1>14 DEF FramesStop
<1>15. CASE PopBegin BY <1>15, BeforeType DEF PopBegin
<1>16. CASE PopAwake BY <1>16 DEF PopAwake
<1>17. CASE PopEnd BY <1>17 DEF PopEnd
<1>18. CASE PopNone BY <1>18, BeforeType DEF PopNone
<1>19. ASSUME NEW w \in Workers, Take(w) PROVE RunnerTypeOK'
  <2>1. jobs[w] \in Seq(Jobs) /\ jobs[w] # <<>>
    BY <1>19 DEF Take, PopJob, TypeOK
  <2>2. Head(jobs[w]) \in Jobs
    BY <2>1
  <2>3. PICK j \in Jobs : ran' = [ran EXCEPT ![j] = @ + 1]
    BY <1>19, <2>2 DEF Take
  <2>4. ran' \in [Jobs -> Nat]
    BY <2>3
  <2> QED BY <1>19, <2>4 DEF Take
<1>20. ASSUME NEW w \in Workers, Execute(w) PROVE RunnerTypeOK'
  BY <1>20 DEF Execute
<1>21. ASSUME NEW w \in Workers, Cycle(w) PROVE RunnerTypeOK'
  BY <1>21 DEF Cycle
<1>22. ASSUME NEW j \in Jobs, Schedule(j) PROVE RunnerTypeOK'
  <2>1. CASE Forest[j] = NoJob
    <3>1. roots' = Append(roots, j) /\ UNCHANGED <<kids, parent>>
      BY <1>22, <2>1 DEF Schedule
    <3>2. roots' \in Seq(Jobs)
      BY <3>1
    <3> QED BY <1>22, <3>1, <3>2 DEF Schedule
  <2>2. CASE Forest[j] # NoJob
    <3>1. Forest[j] \in Jobs
      BY <2>2
    <3>2. parent' = [parent EXCEPT ![j] = Forest[j]]
      BY <1>22, <2>2 DEF Schedule
    <3>3. kids' = [kids EXCEPT ![Forest[j]] = Append(@, j)]
      BY <1>22, <2>2 DEF Schedule
    <3>4. parent' \in Parentage
      BY <3>1, <3>2
    <3>5. kids' \in [Jobs -> Seq(Jobs)]
      BY <3>1, <3>3
    <3> QED BY <1>22, <2>2, <3>4, <3>5 DEF Schedule
  <2> QED BY <2>1, <2>2
<1>23. CASE SignalStop BY <1>23 DEF SignalStop
<1>24. CASE UNCHANGED runnerVars BY <1>24 DEF runnerVars
<1> QED BY <1>1, <1>2, <1>3, <1>4, <1>5, <1>6, <1>7, <1>8, <1>9, <1>10, <1>11,
           <1>12, <1>13, <1>14, <1>15, <1>16, <1>17, <1>18, <1>19,
           <1>20, <1>21, <1>22, <1>23, <1>24
        DEF Next, Arbiter, WorkerThread

LEMMA OwnersStep ==
  ASSUME RunnerTypeOK, OwnersKnown, [Next]_runnerVars
  PROVE  OwnersKnown'
<1> USE RunnerAssumption
    DEF RunnerAssumption, RunnerTypeOK, OwnersKnown, TypeOK, OwnerPoints, ArbiterPoints,
        arbiterVars, graphVars, historyVars, monitorVars
<1>1. CASE PushConstruct BY <1>1 DEF PushConstruct, Construct, OwnerGoes
<1>2. CASE PushDetach BY <1>2 DEF PushDetach, Detach, OwnerGoes
<1>3. CASE Launch BY <1>3 DEF Launch
<1>4. CASE FrameBegin BY <1>4 DEF FrameBegin
<1>5. CASE AssignExited BY <1>5 DEF AssignExited, Erase
<1>6. CASE AssignNext BY <1>6 DEF AssignNext, Assign
<1>7. CASE AssignWake BY <1>7 DEF AssignWake, Wake, OwnerGoes
<1>8. CASE AssignKids BY <1>8 DEF AssignKids
<1>9. CASE BarrierBegin BY <1>9 DEF BarrierBegin
<1>10. CASE BarrierWait BY <1>10 DEF BarrierWait, WaitBegin, OwnerGoes
<1>11. CASE BarrierNext BY <1>11 DEF BarrierNext, WaitReturn, OwnerGoes
<1>12. CASE NextSubCycle BY <1>12 DEF NextSubCycle
<1>13. CASE FrameEnd BY <1>13 DEF FrameEnd
<1>14. CASE FramesStop BY <1>14 DEF FramesStop
<1>15. CASE PopBegin
  <2>1. counter # 0
    BY <1>15 DEF PopBegin
  <2>2. counter' = counter - 1
    BY <1>15, <2>1, BeforeType DEF PopBegin
  <2>3. call' = [call EXCEPT ![counter'] = "stop_awake"] /\ apc' = "stopping"
    BY <1>15 DEF PopBegin, StopActive, OwnerGoes
  <2> QED BY <1>15, <2>1, <2>2, <2>3 DEF PopBegin
<1>16. CASE PopAwake BY <1>16 DEF PopAwake, StopAwake, OwnerGoes
<1>17. CASE PopEnd BY <1>17 DEF PopEnd, StopReturn, OwnerGoes
<1>18. CASE PopNone BY <1>18, BeforeType DEF PopNone
<1>19. ASSUME NEW w \in Workers, WorkerThread(w) PROVE OwnersKnown'
  <2>1. UNCHANGED <<call, arbiterVars>>
    BY <1>19 DEF WorkerThread, Take, Execute, Cycle, PopJob, Run, Rise, Check,
                 PopNothing, Rest, Leave
  <2> QED BY <2>1
<1>20. CASE SignalStop \/ \E j \in Jobs : Schedule(j)
  <2>1. UNCHANGED <<call, apc, counter, nextId, waitId, now>>
    BY <1>20 DEF SignalStop, Schedule
  <2> QED BY <2>1
<1>21. CASE UNCHANGED runnerVars BY <1>21 DEF runnerVars
<1> QED BY <1>1, <1>2, <1>3, <1>4, <1>5, <1>6, <1>7, <1>8, <1>9, <1>10, <1>11,
           <1>12, <1>13, <1>14, <1>15, <1>16, <1>17, <1>18, <1>19,
           <1>20, <1>21
        DEF Next, Arbiter

LEMMA RunnerStart == Init => RunnerTypeOK /\ OwnersKnown /\ MonitorInit
<1> SUFFICES ASSUME Init PROVE RunnerTypeOK /\ OwnersKnown /\ MonitorInit
  OBVIOUS
<1> USE RunnerAssumption DEF RunnerAssumption, Init
<1>1. TypeOK
  BY DEF MonitorInit, TypeOK, ThreadPoints, OwnerPoints
<1>2. parent \in Parentage
  BY DEF Parentage
<1>3. now \in Seq(Jobs) /\ later \in Seq(Jobs) /\ roots \in Seq(Jobs)
  OBVIOUS
<1>4. 0 \in 0 .. IdSpace - 1 /\ 0 \in 0 .. NumWorkers
  OBVIOUS
<1>5. RunnerTypeOK
  BY <1>1, <1>2, <1>3, <1>4 DEF RunnerTypeOK, ArbiterPoints
<1>6. OwnersKnown
  BY DEF OwnersKnown, MonitorInit
<1> QED BY <1>5, <1>6

\* Every variable of the runner keeps its type: the counter and the turn stay in
\* their ranges although pop_worker decrements before it looks
\* (runner.cpp:40-58, 75-84, 107-119).
THEOREM RunnerTyping == Spec => []RunnerTypeOK
BY RunnerStart, RunnerTypeStep, OwnersStep, PTL DEF Spec

LEMMA OwnersAlwaysKnown == Spec => []OwnersKnown
BY RunnerStart, RunnerTypeStep, OwnersStep, PTL DEF Spec

\* The scheduler uses every worker as the class allows (runner.cpp:18-119,
\* 190-191), so that what is proved of WorkerMonitor holds in it.
THEOREM RunnerUsesWorkers == Spec => MonitorSpec
BY RunnerStart, RunnerTyping, OwnersAlwaysKnown, StepOfWorkers, PTL
   DEF Spec, MonitorSpec

-------------------------------------------------------------------------------
(* The barrier between sub-cycles *)

\* Between two sub-cycles nothing runs and nothing is left in a queue, unless
\* the worker forgot a wake (runner.cpp:107-119, 152-168).
THEOREM SubCyclesSeparated == Spec => []SubCycleBarrier
<1>1. RunnerTypeOK /\ OwnersKnown /\ Barrier => SubCycleBarrier
  BY RunnerAssumption
     DEF RunnerAssumption, RunnerTypeOK, OwnersKnown, Barrier, SubCycleBarrier
<1> QED BY <1>1, RunnerTyping, OwnersAlwaysKnown, RunnerUsesWorkers, BarrierHolds,
           PTL

-------------------------------------------------------------------------------
(* Sequences without repetition *)

LEMMA OneMore ==
  ASSUME NEW n \in Nat
  PROVE  1 .. n + 1 = 1 .. n \cup {n + 1} /\ n + 1 \notin 1 .. n
<1>1. \A i : i \in 1 .. n + 1 <=> i \in 1 .. n \/ i = n + 1
  OBVIOUS
<1> QED BY <1>1

LEMMA AppendOnce ==
  ASSUME NEW seq \in Seq(Jobs), NEW j \in Jobs
  PROVE  /\ ToSet(Append(seq, j)) = ToSet(seq) \cup {j}
         /\ NoneTwice(seq) /\ j \notin ToSet(seq) => NoneTwice(Append(seq, j))
<1> DEFINE new == Append(seq, j)
<1>1. /\ DOMAIN seq = 1 .. Len(seq) /\ Len(seq) \in Nat
      /\ DOMAIN new = 1 .. Len(seq) + 1
      /\ \A i \in 1 .. Len(seq) : new[i] = seq[i]
      /\ new[Len(seq) + 1] = j
  OBVIOUS
<1> HIDE DEF new
<1>2. ToSet(new) = ToSet(seq) \cup {j}
  BY <1>1 DEF ToSet
<1>3. NoneTwice(seq) /\ j \notin ToSet(seq) => NoneTwice(new)
  BY <1>1 DEF NoneTwice, ToSet
<1> QED BY <1>2, <1>3 DEF new

LEMMA ConcatOnce ==
  ASSUME NEW s \in Seq(Jobs), NEW t \in Seq(Jobs)
  PROVE  /\ ToSet(s \o t) = ToSet(s) \cup ToSet(t)
         /\ NoneTwice(s) /\ NoneTwice(t) /\ ToSet(s) \cap ToSet(t) = {}
              => NoneTwice(s \o t)
<1> DEFINE new == s \o t
<1>1. /\ DOMAIN s = 1 .. Len(s) /\ Len(s) \in Nat
      /\ DOMAIN t = 1 .. Len(t) /\ Len(t) \in Nat
      /\ DOMAIN new = 1 .. Len(s) + Len(t)
      /\ \A i \in 1 .. Len(s) : new[i] = s[i]
      /\ \A i \in 1 .. Len(t) : new[Len(s) + i] = t[i]
      /\ \A i \in Len(s) + 1 .. Len(s) + Len(t) : new[i] = t[i - Len(s)]
  OBVIOUS
<1> HIDE DEF new
<1>2. ToSet(s) \subseteq ToSet(new)
  BY <1>1 DEF ToSet
<1>3. ToSet(t) \subseteq ToSet(new)
  BY <1>1 DEF ToSet
<1>4. ASSUME NEW i \in DOMAIN new
      PROVE  /\ i <= Len(s) => i \in DOMAIN s /\ new[i] = s[i] /\ new[i] \in ToSet(s)
             /\ i > Len(s) => /\ i - Len(s) \in DOMAIN t
                              /\ new[i] = t[i - Len(s)] /\ new[i] \in ToSet(t)
  <2>1. CASE i <= Len(s)
    BY <1>1, <2>1 DEF ToSet
  <2>2. CASE i > Len(s)
    <3>1. i - Len(s) \in DOMAIN t /\ new[i] = t[i - Len(s)]
      BY <1>1, <2>2
    <3> QED BY <1>1, <2>2, <3>1 DEF ToSet
  <2> QED BY <1>1, <2>1, <2>2
<1>6. ToSet(new) \subseteq ToSet(s) \cup ToSet(t)
  BY <1>1, <1>4 DEF ToSet
<1>5. ASSUME NoneTwice(s), NoneTwice(t), ToSet(s) \cap ToSet(t) = {}
      PROVE  NoneTwice(new)
  <2> SUFFICES ASSUME NEW i \in DOMAIN new, NEW k \in DOMAIN new, new[i] = new[k]
               PROVE  i = k
    BY DEF NoneTwice
  <2>1. CASE i <= Len(s) /\ k <= Len(s)
    BY <1>4, <1>5, <2>1 DEF NoneTwice
  <2>2. CASE i > Len(s) /\ k > Len(s)
    <3>1. i - Len(s) = k - Len(s)
      BY <1>4, <1>5, <2>2 DEF NoneTwice
    <3> QED BY <1>1, <3>1
  <2>3. CASE i <= Len(s) /\ k > Len(s)
    BY <1>4, <1>5, <2>3
  <2>4. CASE i > Len(s) /\ k <= Len(s)
    BY <1>4, <1>5, <2>4
  <2> QED BY <1>1, <2>1, <2>2, <2>3, <2>4
<1> QED BY <1>2, <1>3, <1>5, <1>6 DEF new

LEMMA TailOnce ==
  ASSUME NEW seq \in Seq(Jobs), seq # <<>>
  PROVE  /\ Head(seq) \in ToSet(seq) /\ ToSet(seq) = ToSet(Tail(seq)) \cup {Head(seq)}
         /\ NoneTwice(seq) => NoneTwice(Tail(seq)) /\ Head(seq) \notin ToSet(Tail(seq))
<1>1. /\ DOMAIN seq = 1 .. Len(seq) /\ Len(seq) \in Nat \ {0}
      /\ DOMAIN Tail(seq) = 1 .. Len(seq) - 1
      /\ \A i \in 1 .. Len(seq) - 1 : Tail(seq)[i] = seq[i + 1]
      /\ Head(seq) = seq[1]
  OBVIOUS
<1>2. Head(seq) \in ToSet(seq)
  BY <1>1 DEF ToSet
<1>3. ToSet(Tail(seq)) \subseteq ToSet(seq)
  BY <1>1 DEF ToSet
<1>4. ToSet(seq) \subseteq ToSet(Tail(seq)) \cup {Head(seq)}
  <2> SUFFICES ASSUME NEW i \in 2 .. Len(seq) PROVE seq[i] \in ToSet(Tail(seq))
    BY <1>1 DEF ToSet
  <2>1. i - 1 \in 1 .. Len(seq) - 1 /\ Tail(seq)[i - 1] = seq[i]
    BY <1>1
  <2> QED BY <1>1, <2>1 DEF ToSet
<1>5. ASSUME NoneTwice(seq)
      PROVE  NoneTwice(Tail(seq)) /\ Head(seq) \notin ToSet(Tail(seq))
  BY <1>1, <1>5 DEF NoneTwice, ToSet
<1> QED BY <1>2, <1>3, <1>4, <1>5

LEMMA WithoutOnce ==
  ASSUME NEW seq \in Seq(Jobs), NoneTwice(seq), NEW j
  PROVE  ToSet(Without(seq, j)) = ToSet(seq) \ {j} /\ NoneTwice(Without(seq, j))
<1>1. CASE j \notin ToSet(seq)
  BY <1>1 DEF Without
<1>2. CASE j \in ToSet(seq)
  <2> DEFINE i == CHOOSE i \in DOMAIN seq : seq[i] = j
             n == Len(seq)
  <2>1. n \in Nat /\ DOMAIN seq = 1 .. n /\ i \in 1 .. n /\ seq[i] = j
    BY <1>2 DEF ToSet
  <2> DEFINE front == SubSeq(seq, 1, i - 1)
             back  == SubSeq(seq, i + 1, n)
  <2>2. Without(seq, j) = front \o back
    BY <1>2 DEF Without, RemoveAt
  <2> HIDE DEF i
  <2>3. /\ front \in Seq(Jobs) /\ back \in Seq(Jobs)
        /\ DOMAIN front = 1 .. i - 1 /\ DOMAIN back = 1 .. n - i
        /\ \A k \in 1 .. i - 1 : front[k] = seq[k]
        /\ \A k \in 1 .. n - i : back[k] = seq[i + k]
    BY <2>1
  <2> HIDE DEF front, back
  <2>4. \A k \in i + 1 .. n : k - i \in 1 .. n - i /\ back[k - i] = seq[k]
    <3> SUFFICES ASSUME NEW k \in i + 1 .. n
                 PROVE  k - i \in 1 .. n - i /\ back[k - i] = seq[k]
      OBVIOUS
    <3>1. k - i \in 1 .. n - i /\ i + (k - i) = k
      BY <2>1
    <3> QED BY <2>3, <3>1
  <2>5. ToSet(front) \cup ToSet(back) = ToSet(seq) \ {j}
    <3>1. ToSet(front) \subseteq ToSet(seq) \ {j}
      BY <2>1, <2>3 DEF ToSet, NoneTwice
    <3>2. ToSet(back) \subseteq ToSet(seq) \ {j}
      <4> SUFFICES ASSUME NEW k \in 1 .. n - i
                   PROVE  back[k] \in ToSet(seq) \ {j}
        BY <2>3 DEF ToSet
      <4>1. i + k \in 1 .. n /\ i + k # i
        BY <2>1
      <4> QED BY <2>1, <2>3, <4>1 DEF ToSet, NoneTwice
    <3>3. ASSUME NEW k \in 1 .. n, k # i
          PROVE  seq[k] \in ToSet(front) \cup ToSet(back)
      <4>1. CASE k < i
        <5>1. k \in DOMAIN front /\ front[k] = seq[k]
          BY <2>1, <2>3, <4>1
        <5> QED BY <5>1 DEF ToSet
      <4>2. CASE k > i
        <5>1. k - i \in DOMAIN back /\ back[k - i] = seq[k]
          BY <2>1, <2>3, <2>4, <4>2
        <5> QED BY <5>1 DEF ToSet
      <4> QED BY <2>1, <3>3, <4>1, <4>2
    <3>4. ToSet(seq) \ {j} \subseteq ToSet(front) \cup ToSet(back)
      BY <2>1, <3>3 DEF ToSet
    <3> QED BY <3>1, <3>2, <3>4
  <2>6. NoneTwice(front)
    BY <2>1, <2>3 DEF NoneTwice
  <2>7. NoneTwice(back)
    <3> SUFFICES ASSUME NEW k \in 1 .. n - i, NEW l \in 1 .. n - i, back[k] = back[l]
                 PROVE  k = l
      BY <2>3 DEF NoneTwice
    <3>1. i + k \in 1 .. n /\ i + l \in 1 .. n /\ seq[i + k] = seq[i + l]
      BY <2>1, <2>3
    <3>2. i + k = i + l
      BY <2>1, <3>1 DEF NoneTwice
    <3> QED BY <2>1, <3>2
  <2>8. ToSet(front) \cap ToSet(back) = {}
    <3> SUFFICES ASSUME NEW k \in 1 .. i - 1, NEW l \in 1 .. n - i, front[k] = back[l]
                 PROVE  FALSE
      BY <2>3 DEF ToSet
    <3>1. k \in 1 .. n /\ i + l \in 1 .. n /\ seq[k] = seq[i + l] /\ k # i + l
      BY <2>1, <2>3
    <3> QED BY <2>1, <3>1 DEF NoneTwice
  <2> QED BY <2>2, <2>3, <2>5, <2>6, <2>7, <2>8, ConcatOnce
<1> QED BY <1>1, <1>2

-------------------------------------------------------------------------------
(* The turn *)

\* The worker whose turn it is.
Turn == IF nextId = NumWorkers THEN 0 ELSE nextId

\* The workers from first on, up to the one whose turn it is, around the end of
\* the pool if need be.
Served(w, first) ==
  IF first <= Turn THEN first <= w /\ w < Turn ELSE first <= w \/ w < Turn

\* EvenDistribution does not say where the turn stands, so a step may break it:
\* it is kept because the workers that have one job more are those that the turn
\* has passed since it was at first.
Spread ==
  \E least \in Nat, first \in Workers :
    \A w \in Workers : tally[w] = IF Served(w, first) THEN least + 1 ELSE least

LEMMA SpreadAnew ==
  ASSUME RunnerTypeOK, nextId' = nextId, tally' = [w \in Workers |-> 0]
  PROVE  Spread'
<1>1. Turn \in Workers /\ Turn' = Turn /\ 0 \in Nat
  BY RunnerAssumption DEF RunnerAssumption, RunnerTypeOK, Turn
<1>2. \A w \in Workers : tally'[w] = IF Served(w, Turn)' THEN 0 + 1 ELSE 0
  BY <1>1, RunnerAssumption DEF RunnerAssumption, Served
<1> QED BY <1>1, <1>2 DEF Spread

LEMMA SpreadStep ==
  ASSUME RunnerTypeOK, OwnersKnown, Spread, [Next]_runnerVars
  PROVE  Spread'
<1>1. CASE AssignNext
  <2>1. Turn \in Workers /\ NumWorkers \in Nat \ {0} /\ Workers = 0 .. NumWorkers - 1
    BY RunnerAssumption DEF RunnerAssumption, RunnerTypeOK, Turn
  <2>2. nextId' = Turn + 1 /\ tally' = [tally EXCEPT ![Turn] = @ + 1]
    BY <1>1 DEF AssignNext, OwnersKnown, Turn
  <2>3. Turn' = IF Turn + 1 = NumWorkers THEN 0 ELSE Turn + 1
    BY <2>2 DEF Turn
  <2>4. PICK least \in Nat, first \in Workers :
          \A w \in Workers : tally[w] = IF Served(w, first) THEN least + 1 ELSE least
    BY DEF Spread
  <2>5. ~Served(Turn, first)
    BY <2>1 DEF Served
  <2>6. \A w \in Workers : tally'[w] = IF w = Turn THEN least + 1 ELSE tally[w]
    BY <2>1, <2>2, <2>4, <2>5 DEF RunnerTypeOK
  <2>7. CASE Turn' = first
    <3>1. first = IF Turn + 1 = NumWorkers THEN 0 ELSE Turn + 1
      BY <2>3, <2>7
    <3>2. \A w \in Workers : w = Turn \/ Served(w, first)
      BY <2>1, <3>1 DEF Served
    <3>3. \A w \in Workers : ~Served(w, first)'
      BY <2>1, <2>7 DEF Served
    <3>4. \A w \in Workers :
            tally'[w] = IF Served(w, first)' THEN (least + 1) + 1 ELSE least + 1
      BY <2>4, <2>6, <3>2, <3>3
    <3>5. least + 1 \in Nat
      OBVIOUS
    <3> QED BY <3>4, <3>5 DEF Spread
  <2>8. CASE Turn' # first
    <3>1. \A w \in Workers : Served(w, first)' <=> w = Turn \/ Served(w, first)
      BY <2>1, <2>3, <2>8 DEF Served
    <3>2. \A w \in Workers : tally'[w] = IF Served(w, first)' THEN least + 1 ELSE least
      BY <2>4, <2>6, <3>1
    <3> QED BY <3>2 DEF Spread
  <2> QED BY <2>7, <2>8
<1>2. CASE FrameBegin \/ NextSubCycle
  BY <1>2, SpreadAnew DEF FrameBegin, NextSubCycle
<1>3. CASE UNCHANGED <<nextId, tally>>
  BY <1>3 DEF Spread, Served, Turn
<1>4. ASSUME Next, ~AssignNext, ~FrameBegin, ~NextSubCycle
      PROVE  UNCHANGED <<nextId, tally>>
  BY <1>4
  DEF Next, Arbiter, arbiterVars, historyVars, PushConstruct, PushDetach, Launch,
      AssignExited, AssignWake, AssignKids, BarrierBegin, BarrierWait, BarrierNext,
      FrameEnd, FramesStop, PopBegin, PopAwake, PopEnd, PopNone, WorkerThread, Take,
      Execute, Cycle, Schedule, SignalStop
<1> QED BY <1>1, <1>2, <1>3, <1>4 DEF runnerVars, arbiterVars, historyVars

\* In every sub-cycle the jobs are spread over the workers as evenly as they can
\* be, wherever the turn stood when it began (runner.cpp:65-67, 75-84).
THEOREM JobsSpreadEvenly == Spec => []EvenDistribution
<1>1. Init => Spread
  <2> SUFFICES ASSUME Init PROVE Spread
    OBVIOUS
  <2>1. 0 \in Workers /\ 0 \in Nat /\ \A w \in Workers : ~Served(w, 0)
    BY RunnerAssumption DEF RunnerAssumption, Init, Served, Turn
  <2>2. \A w \in Workers : tally[w] = IF Served(w, 0) THEN 0 + 1 ELSE 0
    BY <2>1 DEF Init
  <2> QED BY <2>1, <2>2 DEF Spread
<1>2. Spread => EvenDistribution
  <2> SUFFICES ASSUME Spread PROVE EvenDistribution
    OBVIOUS
  <2>1. PICK least \in Nat, first \in Workers :
          \A w \in Workers : tally[w] = IF Served(w, first) THEN least + 1 ELSE least
    BY DEF Spread
  <2>2. ASSUME NEW v \in Workers, NEW w \in Workers
        PROVE  tally[v] <= tally[w] + 1
    <3>1. tally[v] = least \/ tally[v] = least + 1
      BY <2>1
    <3>2. tally[w] = least \/ tally[w] = least + 1
      BY <2>1
    <3> QED BY <3>1, <3>2
  <2> QED BY <2>2 DEF EvenDistribution
<1> QED BY <1>1, <1>2, SpreadStep, RunnerTyping, OwnersAlwaysKnown, PTL DEF Spec

-------------------------------------------------------------------------------
(* The links between the jobs *)

\* What is on a list is there once, and under its parent in the forest.
LinksAgree ==
  /\ NoneTwice(roots) /\ \A p \in Jobs : NoneTwice(kids[p])
  /\ \A j \in ToSet(roots) : Forest[j] = NoJob
  /\ \A j \in Jobs : parent[j] \in {NoJob, Forest[j]}
  /\ \A j, p \in Jobs : j \in ToSet(kids[p]) <=> parent[j] = p

\* Erasing a job takes it off its list and leaves the other lists alone.
LEMMA EraseEffect ==
  ASSUME RunnerTypeOK, LinksAgree, NEW j \in Jobs, Erase(j),
         parent[j] # NoJob \/ j \in ToSet(roots)
  PROVE  /\ apc' = "assign"
         /\ LinksAgree'
         /\ parent' = [parent EXCEPT ![j] = NoJob]
         /\ ToSet(roots') = ToSet(roots) \ {j}
<1> USE DEF RunnerTypeOK, Parentage
<1>0. NoJob \notin Jobs
  BY MonitorAssumption DEF MonitorAssumption
<1>1. CASE parent[j] # NoJob
  <2> DEFINE p == parent[j]
  <2>1. p \in Jobs /\ p = Forest[j]
    BY <1>1 DEF LinksAgree
  <2>2. /\ kids' = [kids EXCEPT ![p] = Without(@, j)]
        /\ parent' = [parent EXCEPT ![j] = NoJob]
        /\ apc' = "assign" /\ roots' = roots
    BY <1>1 DEF Erase
  <2>3. j \notin ToSet(roots)
    BY <1>0, <2>1 DEF LinksAgree
  <2>4. ToSet(Without(kids[p], j)) = ToSet(kids[p]) \ {j} /\ NoneTwice(Without(kids[p], j))
    BY <2>1, WithoutOnce DEF LinksAgree
  <2> HIDE DEF p
  <2>5. \A i, q \in Jobs : i \in ToSet(kids'[q]) <=> parent'[i] = q
    <3> SUFFICES ASSUME NEW i \in Jobs, NEW q \in Jobs
                 PROVE  i \in ToSet(kids'[q]) <=> parent'[i] = q
      OBVIOUS
    <3>1. parent[j] = p
      BY DEF p
    <3>2. CASE q = p
      BY <1>0, <2>1, <2>2, <2>4, <3>1, <3>2 DEF LinksAgree
    <3>3. CASE q # p
      BY <1>0, <2>1, <2>2, <3>1, <3>3 DEF LinksAgree
    <3> QED BY <3>2, <3>3
  <2>6. \A q \in Jobs : NoneTwice(kids'[q])
    BY <2>1, <2>2, <2>4 DEF LinksAgree
  <2> QED BY <2>1, <2>2, <2>3, <2>5, <2>6 DEF LinksAgree
<1>2. CASE parent[j] = NoJob
  <2>1. /\ roots' = Without(roots, j)
        /\ apc' = "assign" /\ kids' = kids /\ parent' = parent
    BY <1>2 DEF Erase
  <2>2. ToSet(Without(roots, j)) = ToSet(roots) \ {j} /\ NoneTwice(Without(roots, j))
    BY WithoutOnce DEF LinksAgree
  <2> QED BY <1>2, <2>1, <2>2 DEF LinksAgree
<1> QED BY <1>1, <1>2

\* A job that is scheduled is put at the end of the list it belongs to.
LEMMA ScheduleEffect ==
  ASSUME RunnerTypeOK, LinksAgree, NEW j \in Jobs, Schedule(j)
  PROVE  /\ LinksAgree'
         /\ ToSet(roots) \subseteq ToSet(roots')
         /\ parent'[j] \in {parent[j], Forest[j]}
         /\ \A i \in Jobs \ {j} : parent'[i] = parent[i]
<1> USE DEF RunnerTypeOK, Parentage
<1>0. NoJob \notin Jobs /\ Forest \in Parentage
  BY MonitorAssumption, RunnerAssumption DEF MonitorAssumption, RunnerAssumption
<1>1. j \notin ToSet(roots) /\ parent[j] = NoJob
  BY DEF Schedule
<1>2. CASE Forest[j] = NoJob
  <2>1. roots' = Append(roots, j) /\ kids' = kids /\ parent' = parent
    BY <1>2 DEF Schedule
  <2>2. NoneTwice(roots') /\ ToSet(roots') = ToSet(roots) \cup {j}
    BY <1>1, <2>1, AppendOnce DEF LinksAgree
  <2> QED BY <1>2, <2>1, <2>2 DEF LinksAgree
<1>3. CASE Forest[j] # NoJob
  <2> DEFINE p == Forest[j]
  <2>1. p \in Jobs
    BY <1>0, <1>3
  <2>2. /\ parent' = [parent EXCEPT ![j] = p] /\ roots' = roots
        /\ kids' = [kids EXCEPT ![p] = Append(@, j)]
    BY <1>3 DEF Schedule
  <2>3. j \notin ToSet(kids[p])
    BY <1>0, <1>1, <2>1 DEF LinksAgree
  <2>4. ToSet(Append(kids[p], j)) = ToSet(kids[p]) \cup {j} /\ NoneTwice(Append(kids[p], j))
    BY <2>1, <2>3, AppendOnce DEF LinksAgree
  <2>5. \A i, q \in Jobs : i \in ToSet(kids'[q]) <=> parent'[i] = q
    <3> SUFFICES ASSUME NEW i \in Jobs, NEW q \in Jobs
                 PROVE  i \in ToSet(kids'[q]) <=> parent'[i] = q
      OBVIOUS
    <3> HIDE DEF p
    <3>1. CASE q = p
      BY <1>0, <1>1, <2>1, <2>2, <2>4, <3>1 DEF LinksAgree
    <3>2. CASE q # p
      BY <1>0, <1>1, <2>1, <2>2, <3>2 DEF LinksAgree
    <3> QED BY <3>1, <3>2
  <2>6. \A q \in Jobs : NoneTwice(kids'[q])
    BY <2>1, <2>2, <2>4 DEF LinksAgree
  <2> QED BY <2>1, <2>2, <2>5, <2>6 DEF LinksAgree
<1> QED BY <1>2, <1>3

LEMMA LinksAtStart == Init => LinksAgree
<1> SUFFICES ASSUME Init PROVE LinksAgree
  OBVIOUS
<1>0. NoJob \notin Jobs
  BY MonitorAssumption DEF MonitorAssumption
<1>1. \A j, p \in Jobs : j \in ToSet(kids[p]) <=> parent[j] = p
  BY <1>0, RunnerAssumption DEF RunnerAssumption, Init, Late, Parentage
<1>2. NoneTwice(roots) /\ \A p \in Jobs : NoneTwice(kids[p])
  BY RunnerAssumption DEF RunnerAssumption, Init
<1>3. \A j \in ToSet(roots) : Forest[j] = NoJob
  <2>1. ToSet(FirstRoots) \subseteq Jobs
    BY RunnerAssumption DEF RunnerAssumption, ToSet
  <2> QED BY <2>1, RunnerAssumption DEF RunnerAssumption, Init
<1>4. \A j \in Jobs : parent[j] \in {NoJob, Forest[j]}
  BY DEF Init
<1> QED BY <1>1, <1>2, <1>3, <1>4 DEF LinksAgree

-------------------------------------------------------------------------------
(* The course of a frame *)

Buffered == ToSet(now) \cup ToSet(later)

\* The job that has been put into a worker's queue and is still in the buffer.
Handing == IF apc \in {"wake", "kids"} THEN {Head(now)} ELSE {}

Queued(j) == \E w \in Workers : j \in ToSet(jobs[w])

\* S is the set of the jobs that the frame is through with.  A job comes into a
\* buffer when the frame is through with its parent, and never comes back.  The
\* arbiter erases nothing but the job in front, so the others stay attached.
Through(S) ==
  /\ NoneTwice(now) /\ NoneTwice(later) /\ ToSet(now) \cap ToSet(later) = {}
  /\ S \cap Buffered = {}
  /\ \A k \in S \cup Buffered : Forest[k] \in S \cup {NoJob}
  /\ \A k \in Buffered : k \in ToSet(roots) \/ parent[k] # NoJob
  /\ apc \in {"assign", "wake", "kids"} \/ now = <<>>
  /\ apc \in {"assign", "wake", "kids", "wait"} \/ later = <<>>
  /\ apc # "terminated"

\* A job that no earlier frame has left in a queue was handed out once at most,
\* and is in one place of the queues or has been taken from it.
HandedOnce(S) ==
  \A j \in Jobs \ carried :
    /\ ran[j] # 0 \/ Queued(j) => j \in S \cup Handing
    /\ ran[j] # 0 => ran[j] = 1 /\ ~Queued(j)
    /\ \A v, w \in Workers : \A i \in DOMAIN jobs[v], k \in DOMAIN jobs[w] :
         jobs[v][i] = j /\ jobs[w][k] = j => v = w /\ i = k

\* What the frame is through with was handed out or has exited.  What it has not
\* come to yet is linked to a parent that it will come to, or that has exited.
NoneDropped(S) ==
  /\ \A j \in (S \cup Handing) \cap due : exited[j] \/ ran[j] > 0 \/ Queued(j)
  /\ \A j \in due \ (S \cup Buffered) :
       /\ Forest[j] \in Jobs /\ parent[j] = Forest[j]
       /\ Forest[j] \in due \/ exited[Forest[j]]
       /\ Forest[j] \in S => exited[Forest[j]]

FrameInv(S) == Through(S) /\ HandedOnce(S) /\ NoneDropped(S)

LEMMA EmptySet ==
  ASSUME NEW seq \in Seq(Jobs)
  PROVE  ToSet(seq) \subseteq Jobs /\ (ToSet(seq) = {} <=> seq = <<>>) /\ NoneTwice(<<>>)
<1>1. ToSet(seq) \subseteq Jobs /\ NoneTwice(<<>>)
  BY DEF ToSet, NoneTwice
<1>2. seq = <<>> => ToSet(seq) = {}
  BY DEF ToSet
<1>3. seq # <<>> => seq[1] \in ToSet(seq)
  BY DEF ToSet
<1> QED BY <1>1, <1>2, <1>3

\* A step that does not touch what the frame does.
LEMMA FrameStays ==
  ASSUME RunnerTypeOK, NEW S \in SUBSET Jobs, FrameInv(S),
         UNCHANGED <<now, later, due, carried, ran, jobs>>,
         Handing' = Handing,
         ToSet(roots) \subseteq ToSet(roots'),
         \A j \in Jobs : parent'[j] \in {parent[j], Forest[j]} /\ (exited[j] => exited'[j]),
         \A j \in Jobs : parent[j] # NoJob => parent'[j] = parent[j],
         apc' \in {"assign", "wake", "kids"} \/ now = <<>>,
         apc' \in {"assign", "wake", "kids", "wait"} \/ later = <<>>,
         apc' # "terminated"
  PROVE  FrameInv(S)'
<1>0. Buffered' = Buffered /\ Buffered \subseteq Jobs /\ due \subseteq Jobs /\ NoJob \notin Jobs
      /\ \A j : Queued(j)' <=> Queued(j)
  BY EmptySet, MonitorAssumption DEF Buffered, RunnerTypeOK, Queued, MonitorAssumption
<1>1. Through(S)'
  BY <1>0 DEF FrameInv, Through
<1>2. HandedOnce(S)'
  BY <1>0 DEF FrameInv, HandedOnce
<1>3. NoneDropped(S)'
  BY <1>0 DEF FrameInv, NoneDropped
<1> QED BY <1>1, <1>2, <1>3 DEF FrameInv

\* The roots are copied, and everything below them is due.
LEMMA FrameStarts ==
  ASSUME RunnerTypeOK, LinksAgree, NEW S \in SUBSET Jobs, FrameInv(S), FrameBegin
  PROVE  FrameInv({})'
<1> USE DEF RunnerTypeOK
<1>0. NoJob \notin Jobs /\ Forest \in Parentage
  BY MonitorAssumption, RunnerAssumption DEF MonitorAssumption, RunnerAssumption
<1>1. /\ now = <<>> /\ later = <<>> /\ now' = roots /\ later' = later
      /\ apc' = "assign" /\ Handing' = {} /\ roots' = roots /\ parent' = parent
      /\ exited' = exited /\ kids' = kids /\ jobs' = jobs
  BY DEF FrameBegin, FrameInv, Through, Handing, graphVars, monitorVars
<1>2. ToSet(roots) \subseteq Jobs /\ ToSet(later) = {} /\ Buffered' = ToSet(roots)
  BY <1>1, EmptySet DEF Buffered
<1>3. Through({})'
  BY <1>1, <1>2, EmptySet DEF Through, LinksAgree
<1>4. HandedOnce({})'
  <2>1. /\ ran' = [j \in Jobs |-> 0]
        /\ carried' = {j \in Jobs : \E w \in Workers : j \in ToSet(jobs[w])}
    BY DEF FrameBegin
  <2>2. \A j \in Jobs \ carried' : ran'[j] = 0 /\ ~Queued(j)'
    BY <1>1, <2>1 DEF Queued
  <2>3. \A j \in Jobs \ carried' : \A v \in Workers : \A i \in DOMAIN jobs'[v] : jobs'[v][i] # j
    BY <1>1, <2>2 DEF Queued, ToSet
  <2> QED BY <2>2, <2>3 DEF HandedOnce
<1>5. NoneDropped({})'
  <2>1. due' = {j \in Attached : ~exited[j]}
    BY DEF FrameBegin
  <2>2. ASSUME NEW j \in Attached, j \notin ToSet(roots)
        PROVE  parent[j] \in Attached
    <3> DEFINE T == Attached \ {j}
    <3>1. Attached \subseteq Jobs /\ T \in SUBSET Jobs /\ j \notin T
      BY DEF Attached
    <3>2. ~(ToSet(roots) \cup UNION {ToSet(kids[p]) : p \in T} \subseteq T)
      BY <3>1, <2>2 DEF Attached
    <3>3. ToSet(roots) \subseteq T
      BY <1>2, <2>2 DEF Attached
    <3>4. PICK p \in T : ~(ToSet(kids[p]) \subseteq T)
      BY <3>2, <3>3
    <3>5. ToSet(kids[p]) \subseteq Attached
      <4> SUFFICES ASSUME NEW k \in ToSet(kids[p]), NEW U \in SUBSET Jobs,
                          ToSet(roots) \cup UNION {ToSet(kids[q]) : q \in U} \subseteq U
                   PROVE  k \in U
        BY <3>1, EmptySet DEF Attached
      <4>1. p \in U
        BY DEF Attached
      <4> QED BY <4>1
    <3>6. j \in ToSet(kids[p])
      BY <3>4, <3>5
    <3> QED BY <3>1, <3>6 DEF LinksAgree
  <2>3. Attached \subseteq Jobs
    BY DEF Attached
  <2>4. ASSUME NEW j \in due', j \notin ToSet(roots)
        PROVE  /\ Forest[j] \in Jobs /\ parent[j] = Forest[j]
               /\ Forest[j] \in due' \/ exited[Forest[j]]
    <3>1. j \in Jobs /\ parent[j] \in Attached
      BY <2>1, <2>2, <2>3, <2>4
    <3>2. parent[j] = Forest[j]
      BY <1>0, <2>3, <3>1 DEF LinksAgree
    <3> QED BY <2>1, <2>3, <3>1, <3>2
  <2> QED BY <1>1, <1>2, <2>4 DEF NoneDropped
<1> QED BY <1>3, <1>4, <1>5 DEF FrameInv

\* The job in front has exited: it is erased, and no job below it is handed out.
LEMMA FrameSkips ==
  ASSUME RunnerTypeOK, LinksAgree, NEW S \in SUBSET Jobs, FrameInv(S), AssignExited,
         NEW T, T = S \cup {Head(now)}
  PROVE  LinksAgree' /\ T \in SUBSET Jobs /\ FrameInv(T)'
<1> USE DEF RunnerTypeOK, FrameInv
<1> DEFINE h == Head(now)
<1>0. NoJob \notin Jobs /\ now # <<>> /\ now \in Seq(Jobs)
  BY MonitorAssumption DEF MonitorAssumption, AssignExited
<1>1. /\ h \in ToSet(now) /\ ToSet(now) = ToSet(Tail(now)) \cup {h} /\ h \in Jobs
      /\ NoneTwice(Tail(now)) /\ h \notin ToSet(Tail(now))
  BY <1>0, TailOnce, EmptySet DEF Through
<1> HIDE DEF h
<1>2. /\ exited[h] /\ Erase(h) /\ now' = Tail(now) /\ later' = later
      /\ exited' = exited /\ jobs' = jobs /\ apc = "assign"
      /\ due' = due /\ carried' = carried /\ ran' = ran
  BY DEF AssignExited, h, monitorVars, historyVars
<1>3. parent[h] # NoJob \/ h \in ToSet(roots)
  BY <1>1 DEF Through, Buffered
<1>4. /\ apc' = "assign" /\ LinksAgree'
      /\ parent' = [parent EXCEPT ![h] = NoJob]
      /\ ToSet(roots') = ToSet(roots) \ {h}
  BY <1>1, <1>2, <1>3, EraseEffect
<1>5. /\ Handing = {} /\ Handing' = {} /\ \A j : Queued(j)' <=> Queued(j)
      /\ T = S \cup {h} /\ Buffered' = Buffered \ {h} /\ h \in Buffered
      /\ T \cup Buffered' = S \cup Buffered
  BY <1>1, <1>2, <1>4 DEF Handing, Queued, Buffered, Through, h
<1>6. Through(T)'
  <2>1. NoneTwice(now)' /\ NoneTwice(later)' /\ (ToSet(now) \cap ToSet(later) = {})'
    BY <1>1, <1>2 DEF Through
  <2>2. T \cap Buffered' = {} /\ \A k \in T \cup Buffered' : Forest[k] \in T \cup {NoJob}
    BY <1>5 DEF Through
  <2>3. \A k \in Buffered' : k \in ToSet(roots') \/ parent'[k] # NoJob
    <3>1. Buffered \subseteq Jobs
      BY EmptySet DEF Buffered
    <3> QED BY <1>4, <1>5, <3>1 DEF Through, Parentage
  <2>4. later' = <<>> \/ apc' = "assign"
    BY <1>4
  <2> QED BY <1>4, <2>1, <2>2, <2>3 DEF Through
<1>7. HandedOnce(T)'
  BY <1>2, <1>5 DEF HandedOnce
<1>8. NoneDropped(T)'
  <2>1. \A j \in (T \cup Handing') \cap due' : exited'[j] \/ ran'[j] > 0 \/ Queued(j)'
    BY <1>2, <1>5 DEF NoneDropped
  <2>2. ASSUME NEW j \in due', j \notin T \cup Buffered'
        PROVE  /\ Forest[j] \in Jobs /\ parent'[j] = Forest[j]
               /\ Forest[j] \in due' \/ exited'[Forest[j]]
               /\ Forest[j] \in T => exited'[Forest[j]]
    BY <1>2, <1>4, <1>5, <2>2 DEF NoneDropped, Parentage
  <2> QED BY <2>1, <2>2 DEF NoneDropped
<1> QED BY <1>1, <1>4, <1>5, <1>6, <1>7, <1>8

\* The job in front is handed out: it was in no queue and has not run in the frame,
\* unless an earlier frame left it there.
LEMMA FrameHands ==
  ASSUME RunnerTypeOK, OwnersKnown, NEW S \in SUBSET Jobs, FrameInv(S), AssignNext
  PROVE  FrameInv(S)'
<1> USE DEF RunnerTypeOK, TypeOK, FrameInv
<1> DEFINE h == Head(now)
           id == IF nextId = counter THEN 0 ELSE nextId
<1>1. /\ now # <<>> /\ h \in ToSet(now) /\ h \in Jobs
  BY TailOnce, EmptySet DEF AssignNext
<1>2. id \in Workers
  BY RunnerAssumption DEF RunnerAssumption, OwnersKnown, AssignNext
<1>3. /\ jobs' = [jobs EXCEPT ![id] = Append(@, h)]
      /\ apc = "assign" /\ apc' = "wake" /\ now' = now /\ later' = later
      /\ roots' = roots /\ parent' = parent /\ exited' = exited
      /\ due' = due /\ carried' = carried /\ ran' = ran
  BY DEF AssignNext, Assign, graphVars
<1> HIDE DEF h, id
<1>4. Handing = {} /\ Handing' = {h} /\ Buffered' = Buffered /\ h \notin S
  BY <1>1, <1>3 DEF Handing, Buffered, Through, h
<1> DEFINE n == Len(jobs[id])
<1>5. /\ DOMAIN jobs'[id] = DOMAIN jobs[id] \cup {n + 1} /\ n + 1 \notin DOMAIN jobs[id]
      /\ \A i \in DOMAIN jobs[id] : jobs'[id][i] = jobs[id][i]
      /\ jobs'[id][n + 1] = h
  <2>1. /\ n \in Nat /\ DOMAIN jobs[id] = 1 .. n /\ DOMAIN jobs'[id] = 1 .. n + 1
        /\ \A i \in 1 .. n : jobs'[id][i] = jobs[id][i]
        /\ jobs'[id][n + 1] = h
    BY <1>1, <1>2, <1>3
  <2>2. 1 .. n + 1 = 1 .. n \cup {n + 1} /\ n + 1 \notin 1 .. n
    BY <2>1, OneMore
  <2> QED BY <2>1, <2>2
<1>6. \A w \in Workers \ {id} : jobs'[w] = jobs[w]
  BY <1>3
<1> HIDE DEF n
<1>7. \A j : Queued(j)' <=> Queued(j) \/ j = h
  <2>1. ToSet(jobs'[id]) = ToSet(jobs[id]) \cup {h}
    BY <1>5 DEF ToSet
  <2> QED BY <1>2, <1>6, <2>1 DEF Queued
<1>8. Through(S)'
  BY <1>3, <1>4 DEF Through
<1>9. HandedOnce(S)'
  <2> SUFFICES ASSUME NEW j \in Jobs \ carried
               PROVE  /\ ran[j] # 0 \/ Queued(j)' => j \in S \cup {h}
                      /\ ran[j] # 0 => ran[j] = 1 /\ ~Queued(j)'
                      /\ \A v, w \in Workers : \A i \in DOMAIN jobs'[v], k \in DOMAIN jobs'[w] :
                           jobs'[v][i] = j /\ jobs'[w][k] = j => v = w /\ i = k
    BY <1>3, <1>4 DEF HandedOnce
  <2>1. ran[j] # 0 \/ Queued(j) => j \in S
    BY <1>4 DEF HandedOnce
  <2>2. CASE j = h
    <3>1. ran[h] = 0 /\ ~Queued(h)
      BY <1>4, <2>1, <2>2
    <3>2. \A v \in Workers : \A i \in DOMAIN jobs'[v] : jobs'[v][i] = h => v = id /\ i = n + 1
      BY <1>2, <1>5, <1>6, <3>1 DEF Queued, ToSet
    <3> QED BY <2>2, <3>1, <3>2
  <2>3. CASE j # h
    <3>1. \A v \in Workers : \A i \in DOMAIN jobs'[v] :
            jobs'[v][i] = j => i \in DOMAIN jobs[v] /\ jobs[v][i] = j
      BY <1>2, <1>5, <1>6, <2>3
    <3>2. ran[j] # 0 => ran[j] = 1 /\ ~Queued(j)'
      BY <1>7, <2>3 DEF HandedOnce
    <3>3. ran[j] # 0 \/ Queued(j)' => j \in S
      BY <1>7, <2>1, <2>3
    <3>4. \A v, w \in Workers : \A i \in DOMAIN jobs[v], k \in DOMAIN jobs[w] :
            jobs[v][i] = j /\ jobs[w][k] = j => v = w /\ i = k
      BY DEF HandedOnce
    <3> QED BY <3>1, <3>2, <3>3, <3>4
  <2> QED BY <2>2, <2>3
<1>10. NoneDropped(S)'
  BY <1>3, <1>4, <1>7 DEF NoneDropped
<1> QED BY <1>8, <1>9, <1>10

\* The children of the job that was handed out come after those of the jobs
\* before it.
LEMMA FrameDescends ==
  ASSUME RunnerTypeOK, OwnersKnown, LinksAgree, NEW S \in SUBSET Jobs, FrameInv(S),
         AssignKids, NEW T, T = S \cup {Head(now)}
  PROVE  T \in SUBSET Jobs /\ FrameInv(T)'
<1> USE DEF RunnerTypeOK, FrameInv
<1> DEFINE h == Head(now)
<1>0. NoJob \notin Jobs /\ now # <<>> /\ now \in Seq(Jobs) /\ later \in Seq(Jobs)
  BY MonitorAssumption DEF MonitorAssumption, AssignKids, OwnersKnown
<1>1. /\ h \in ToSet(now) /\ ToSet(now) = ToSet(Tail(now)) \cup {h} /\ h \in Jobs
      /\ NoneTwice(Tail(now)) /\ h \notin ToSet(Tail(now))
  BY <1>0, TailOnce, EmptySet DEF Through
<1> HIDE DEF h
<1>2. /\ now' = Tail(now) /\ later' = later \o kids[h]
      /\ exited' = exited /\ jobs' = jobs /\ apc = "kids" /\ apc' = "assign"
      /\ roots' = roots /\ parent' = parent
      /\ due' = due /\ carried' = carried /\ ran' = ran
  BY DEF AssignKids, h, monitorVars, historyVars, graphVars
<1> DEFINE K == ToSet(kids[h])
<1>3. kids[h] \in Seq(Jobs) /\ NoneTwice(kids[h]) /\ K \subseteq Jobs
  BY <1>1, EmptySet DEF LinksAgree
<1>4. \A k \in K : parent[k] = h /\ Forest[k] = h
  BY <1>0, <1>1, <1>3 DEF LinksAgree
<1>5. h \in Buffered /\ h \notin S /\ h \notin ToSet(later) /\ T = S \cup {h}
  BY <1>1 DEF Through, Buffered, h
<1>6. K \cap (S \cup Buffered) = {}
  <2> SUFFICES ASSUME NEW k \in K, k \in S \cup Buffered PROVE FALSE
    OBVIOUS
  <2>1. Forest[k] \in S \cup {NoJob} /\ Forest[k] = h
    BY <1>4 DEF Through
  <2> QED BY <1>0, <1>1, <1>5, <2>1
<1>7. ToSet(later') = ToSet(later) \cup K /\ NoneTwice(later')
  BY <1>0, <1>2, <1>3, <1>6, ConcatOnce DEF Through, Buffered
<1> HIDE DEF K
<1>8. /\ Handing = {h} /\ Handing' = {} /\ \A j : Queued(j)' <=> Queued(j)
      /\ Buffered' = (Buffered \ {h}) \cup K
  BY <1>1, <1>2, <1>5, <1>7 DEF Handing, Queued, Buffered, h
<1>9. Through(T)'
  <2>1. NoneTwice(now)' /\ NoneTwice(later)' /\ (ToSet(now) \cap ToSet(later) = {})'
    BY <1>1, <1>2, <1>6, <1>7 DEF Through, Buffered
  <2>2. T \cap Buffered' = {}
    BY <1>5, <1>6, <1>8 DEF Through
  <2>3. \A k \in T \cup Buffered' : Forest[k] \in T \cup {NoJob}
    BY <1>4, <1>5, <1>8 DEF Through
  <2>4. \A k \in Buffered' : k \in ToSet(roots') \/ parent'[k] # NoJob
    BY <1>0, <1>1, <1>2, <1>4, <1>8 DEF Through
  <2> QED BY <1>2, <2>1, <2>2, <2>3, <2>4 DEF Through
<1>10. HandedOnce(T)'
  BY <1>2, <1>5, <1>8 DEF HandedOnce
<1>11. NoneDropped(T)'
  <2>1. \A j \in (T \cup Handing') \cap due' : exited'[j] \/ ran'[j] > 0 \/ Queued(j)'
    BY <1>2, <1>5, <1>8 DEF NoneDropped
  <2>2. ASSUME NEW j \in due', j \notin T \cup Buffered'
        PROVE  /\ Forest[j] \in Jobs /\ parent'[j] = Forest[j]
               /\ Forest[j] \in due' \/ exited'[Forest[j]]
               /\ Forest[j] \in T => exited'[Forest[j]]
    <3>1. j \in due \ (S \cup Buffered) /\ j \notin K /\ j \in Jobs
      BY <1>2, <1>5, <1>8, <2>2
    <3>2. Forest[j] # h
      BY <1>1, <3>1 DEF NoneDropped, LinksAgree, K
    <3> QED BY <1>2, <1>5, <3>1, <3>2 DEF NoneDropped
  <2> QED BY <2>1, <2>2 DEF NoneDropped
<1> QED BY <1>1, <1>5, <1>9, <1>10, <1>11

\* A job is taken from the only place where it is queued.
LEMMA FrameServes ==
  ASSUME RunnerTypeOK, NEW S \in SUBSET Jobs, FrameInv(S), NEW w \in Workers, Take(w)
  PROVE  FrameInv(S)'
<1> USE DEF FrameInv
<1> PICK h : h = Head(jobs[w])
  OBVIOUS
<1>0. /\ jobs \in [Workers -> Seq(Jobs)] /\ ran \in [Jobs -> Nat] /\ due \subseteq Jobs
      /\ jobs[w] # <<>> /\ jobs' = [jobs EXCEPT ![w] = Tail(@)]
      /\ ran' = [ran EXCEPT ![h] = @ + 1]
  BY DEF RunnerTypeOK, TypeOK, Take, PopJob
<1>1. /\ apc' = apc /\ now' = now /\ later' = later /\ roots' = roots
      /\ parent' = parent /\ exited' = exited /\ due' = due /\ carried' = carried
  BY DEF Take, arbiterVars, graphVars
<1>2. /\ h \in Jobs /\ ToSet(jobs[w]) = ToSet(jobs'[w]) \cup {h} /\ Queued(h)
  BY <1>0, TailOnce, EmptySet DEF Queued
<1>3. 1 \in DOMAIN jobs[w] /\ jobs[w][1] = h
  BY <1>0
<1>4. \A i \in DOMAIN jobs'[w] : /\ i + 1 \in DOMAIN jobs[w] /\ i + 1 # 1
                                 /\ jobs'[w][i] = jobs[w][i + 1]
                                 /\ i \in Nat
  BY <1>0
<1>5. \A v \in Workers \ {w} : jobs'[v] = jobs[v]
  BY <1>0
<1>6. \A j : Queued(j)' => Queued(j)
  BY <1>2, <1>5 DEF Queued
<1>7. \A j : j # h /\ Queued(j) => Queued(j)'
  BY <1>2, <1>5 DEF Queued
<1>8. ran'[h] = ran[h] + 1 /\ ran[h] \in Nat /\ \A j \in Jobs : j # h => ran'[j] = ran[j]
  BY <1>0, <1>2
<1>9. Handing' = Handing /\ Buffered' = Buffered /\ Through(S)'
  BY <1>1 DEF Handing, Buffered, Through
<1>10. HandedOnce(S)'
  <2> SUFFICES ASSUME NEW j \in Jobs \ carried
               PROVE  /\ ran'[j] # 0 \/ Queued(j)' => j \in S \cup Handing
                      /\ ran'[j] # 0 => ran'[j] = 1 /\ ~Queued(j)'
                      /\ \A u, v \in Workers : \A i \in DOMAIN jobs'[u], k \in DOMAIN jobs'[v] :
                           jobs'[u][i] = j /\ jobs'[v][k] = j => u = v /\ i = k
    BY <1>1, <1>9 DEF HandedOnce
  <2>1. \A u, v \in Workers : \A i \in DOMAIN jobs[u], k \in DOMAIN jobs[v] :
          jobs[u][i] = j /\ jobs[v][k] = j => u = v /\ i = k
    BY DEF HandedOnce
  <2>2. ASSUME NEW u \in Workers, NEW v \in Workers,
               NEW i \in DOMAIN jobs'[u], NEW k \in DOMAIN jobs'[v],
               jobs'[u][i] = j, jobs'[v][k] = j
        PROVE  u = v /\ i = k
    <3>1. CASE u = w /\ v = w
      <4>1. i + 1 = k + 1
        BY <1>4, <2>1, <2>2, <3>1
      <4> QED BY <1>4, <3>1, <4>1
    <3>2. CASE u = w /\ v # w
      BY <1>4, <1>5, <2>1, <2>2, <3>2
    <3>3. CASE u # w /\ v = w
      BY <1>4, <1>5, <2>1, <2>2, <3>3
    <3>4. CASE u # w /\ v # w
      BY <1>5, <2>1, <2>2, <3>4
    <3> QED BY <3>1, <3>2, <3>3, <3>4
  <2>3. CASE j = h
    <3>1. ran[h] = 0 /\ h \in S \cup Handing
      BY <1>2, <2>3 DEF HandedOnce
    <3>2. ~Queued(h)'
      <4> SUFFICES ASSUME NEW v \in Workers, NEW i \in DOMAIN jobs'[v], jobs'[v][i] = h
                   PROVE  FALSE
        BY DEF Queued, ToSet
      <4>1. CASE v = w
        BY <1>3, <1>4, <2>1, <2>3, <4>1
      <4>2. CASE v # w
        BY <1>3, <1>5, <2>1, <2>3, <4>2
      <4> QED BY <4>1, <4>2
    <3> QED BY <1>8, <2>2, <2>3, <3>1, <3>2
  <2>4. CASE j # h
    BY <1>6, <1>7, <1>8, <2>2, <2>4 DEF HandedOnce
  <2> QED BY <2>3, <2>4
<1>11. NoneDropped(S)'
  <2>1. \A j \in (S \cup Handing) \cap due : exited[j] \/ ran'[j] > 0 \/ Queued(j)'
    <3> SUFFICES ASSUME NEW j \in (S \cup Handing) \cap due
                 PROVE  exited[j] \/ ran'[j] > 0 \/ Queued(j)'
      OBVIOUS
    <3>1. exited[j] \/ ran[j] > 0 \/ Queued(j)
      BY DEF NoneDropped
    <3> QED BY <1>0, <1>7, <1>8, <3>1
  <2> QED BY <1>1, <1>9, <2>1 DEF NoneDropped
<1> QED BY <1>9, <1>10, <1>11

LEMMA FrameStep ==
  ASSUME RunnerTypeOK, OwnersKnown, LinksAgree, NEW S \in SUBSET Jobs, FrameInv(S),
         [Next]_runnerVars
  PROVE  LinksAgree' /\ \E T \in SUBSET Jobs : FrameInv(T)'
<1>0. Through(S)
  BY DEF FrameInv
<1>1. CASE FrameBegin
  <2>1. LinksAgree'
    BY <1>1 DEF FrameBegin, graphVars, LinksAgree
  <2>2. FrameInv({})'
    BY <1>1, FrameStarts
  <2> QED BY <2>1, <2>2
<1>2. CASE AssignExited
  BY <1>2, FrameSkips
<1>3. CASE AssignNext
  <2>1. LinksAgree'
    BY <1>3 DEF AssignNext, graphVars, LinksAgree
  <2> QED BY <1>3, <2>1, FrameHands
<1>4. CASE AssignKids
  <2>1. LinksAgree'
    BY <1>4 DEF AssignKids, graphVars, LinksAgree
  <2> QED BY <1>4, <2>1, FrameDescends
<1>5. CASE NextSubCycle
  <2>1. /\ LinksAgree' /\ now = <<>> /\ now' = later /\ later' = <<>>
        /\ Handing = {} /\ Handing' = {} /\ apc' = "assign"
        /\ roots' = roots /\ parent' = parent /\ exited' = exited
        /\ due' = due /\ carried' = carried /\ ran' = ran /\ jobs' = jobs
    BY <1>0, <1>5 DEF NextSubCycle, Through, Handing, graphVars, monitorVars, LinksAgree
  <2>2. /\ Buffered' = Buffered /\ ToSet(now) = {} /\ ToSet(later') = {}
        /\ \A j : Queued(j)' <=> Queued(j)
    <3>1. ToSet(<<>>) = {}
      BY DEF ToSet
    <3> QED BY <2>1, <3>1 DEF Buffered, Queued
  <2>3. Through(S)'
    BY <1>0, <2>1, <2>2 DEF Through
  <2>4. HandedOnce(S)' /\ NoneDropped(S)'
    BY <2>1, <2>2 DEF HandedOnce, NoneDropped, FrameInv
  <2> QED BY <2>1, <2>3, <2>4 DEF FrameInv
<1>6. ASSUME NEW w \in Workers, Take(w) PROVE LinksAgree' /\ FrameInv(S)'
  <2>1. LinksAgree'
    BY <1>6 DEF Take, graphVars, LinksAgree
  <2> QED BY <1>6, <2>1, FrameServes
<1>7. ASSUME NEW j \in Jobs, Schedule(j) PROVE LinksAgree' /\ FrameInv(S)'
  <2>1. /\ UNCHANGED <<apc, now, later, due, carried, ran, jobs, exited>>
        /\ Handing' = Handing /\ parent[j] = NoJob
    BY <1>7 DEF Schedule, arbiterVars, historyVars, monitorVars, Handing
  <2>2. /\ LinksAgree' /\ ToSet(roots) \subseteq ToSet(roots')
        /\ parent'[j] \in {parent[j], Forest[j]}
        /\ \A i \in Jobs \ {j} : parent'[i] = parent[i]
    BY <1>7, ScheduleEffect
  <2> QED BY <1>0, <2>1, <2>2, FrameStays DEF Through
<1>8. ASSUME UNCHANGED <<now, later, due, carried, ran, jobs, graphVars>>,
             Handing' = Handing,
             apc' \in {"assign", "wake", "kids"} \/ now = <<>>,
             apc' \in {"assign", "wake", "kids", "wait"} \/ later = <<>>,
             apc' # "terminated"
      PROVE  LinksAgree' /\ FrameInv(S)'
  <2>1. LinksAgree' /\ roots' = roots /\ parent' = parent /\ exited' = exited
    BY <1>8 DEF graphVars, LinksAgree
  <2> QED BY <1>8, <2>1, FrameStays
<1>9. CASE \/ PushConstruct \/ PushDetach \/ Launch \/ AssignWake \/ BarrierBegin
           \/ BarrierWait \/ BarrierNext \/ FrameEnd
  BY <1>0, <1>8, <1>9
     DEF PushConstruct, PushDetach, Launch, AssignWake, BarrierBegin, BarrierWait,
         BarrierNext, FrameEnd, Through, Handing, arbiterVars, graphVars, historyVars,
         monitorVars, Construct, Detach, Wake, WaitBegin, WaitReturn
<1>10. CASE \/ FramesStop \/ PopBegin \/ PopAwake \/ PopEnd \/ PopNone \/ SignalStop
            \/ UNCHANGED runnerVars
  BY <1>0, <1>8, <1>10
     DEF FramesStop, PopBegin, PopAwake, PopEnd, PopNone, SignalStop, runnerVars,
         Through, Handing, arbiterVars, graphVars, historyVars, monitorVars,
         StopActive, StopAwake, StopReturn
<1>11. ASSUME NEW w \in Workers, Cycle(w) PROVE LinksAgree' /\ FrameInv(S)'
  BY <1>0, <1>8, <1>11
     DEF Cycle, Rise, Check, PopNothing, Rest, Leave, Through, Handing, arbiterVars,
         historyVars
<1>12. ASSUME NEW w \in Workers, Execute(w) PROVE LinksAgree' /\ FrameInv(S)'
  <2>1. /\ UNCHANGED <<apc, now, later, due, carried, ran, jobs, roots, kids, parent>>
        /\ Handing' = Handing
    BY <1>12 DEF Execute, Run, arbiterVars, historyVars, Handing
  <2>2. \A j \in Jobs : exited[j] => exited'[j]
    BY <1>12 DEF Execute, RunnerTypeOK
  <2> QED BY <1>0, <2>1, <2>2, FrameStays DEF Through, LinksAgree
<1> QED BY <1>1, <1>2, <1>3, <1>4, <1>5, <1>6, <1>7, <1>9, <1>10, <1>11, <1>12
        DEF Next, Arbiter, WorkerThread

LEMMA FrameAlways == Spec => [](LinksAgree /\ \E S \in SUBSET Jobs : FrameInv(S))
<1>1. Init => LinksAgree /\ \E S \in SUBSET Jobs : FrameInv(S)
  <2> SUFFICES ASSUME Init PROVE FrameInv({})
    BY LinksAtStart
  <2>1. /\ now = <<>> /\ later = <<>> /\ Handing = {} /\ due = {} /\ apc = "start"
        /\ \A j \in Jobs : ran[j] = 0
        /\ \A w \in Workers : jobs[w] = <<>>
    BY DEF Init, MonitorInit, Handing
  <2>2. Buffered = {} /\ NoneTwice(<<>>) /\ \A j : ~Queued(j)
    BY <2>1, EmptySet DEF Buffered, Queued, ToSet, NoneTwice
  <2>3. \A j : \A w \in Workers : \A i \in DOMAIN jobs[w] : jobs[w][i] # j
    BY <2>2 DEF Queued, ToSet
  <2>4. Through({})
    BY <2>1, <2>2 DEF Through, Buffered
  <2>5. HandedOnce({}) /\ NoneDropped({})
    BY <2>1, <2>2, <2>3 DEF HandedOnce, NoneDropped
  <2> QED BY <2>4, <2>5 DEF FrameInv
<1>2. /\ LinksAgree /\ \E S \in SUBSET Jobs : FrameInv(S)
      /\ RunnerTypeOK /\ OwnersKnown /\ [Next]_runnerVars
      => (LinksAgree /\ \E S \in SUBSET Jobs : FrameInv(S))'
  BY FrameStep
<1> QED BY <1>1, <1>2, RunnerTyping, OwnersAlwaysKnown, PTL DEF Spec

\* The erase of an exited job never throws out of the noexcept assign_job
\* (runner.cpp:69-73, 280-303).
THEOREM EraseFindsJob == Spec => []NeverTerminates
<1>1. (LinksAgree /\ \E S \in SUBSET Jobs : FrameInv(S)) => NeverTerminates
  BY DEF FrameInv, Through, NeverTerminates
<1> QED BY <1>1, FrameAlways, PTL

\* No job is executed twice in a frame, but for one that an earlier frame left
\* in a queue (runner.cpp:131-168).
THEOREM JobsRunOnce == Spec => []OncePerFrame
<1>1. ASSUME RunnerTypeOK, NEW S \in SUBSET Jobs, FrameInv(S), NEW j \in Jobs, ran[j] > 1
      PROVE  j \in carried
  <2>1. ran[j] # 0 /\ ran[j] # 1
    BY <1>1 DEF RunnerTypeOK
  <2> QED BY <1>1, <2>1 DEF FrameInv, HandedOnce
<1>2. RunnerTypeOK /\ (LinksAgree /\ \E S \in SUBSET Jobs : FrameInv(S)) => OncePerFrame
  BY <1>1 DEF OncePerFrame
<1> QED BY <1>2, FrameAlways, RunnerTyping, PTL

LEMMA LineOfParent ==
  ASSUME NEW j \in Jobs
  PROVE  j \in Line(j) /\ (Forest[j] \in Jobs => Line(Forest[j]) \subseteq Line(j))
BY MonitorAssumption DEF Line, MonitorAssumption

\* A frame executes every job that was attached when it began and is not cut
\* off by an exit(), or leaves it in the queue of a worker that forgot a wake:
\* no job is dropped (runner.cpp:131-168).
THEOREM FramesDropNothing == Spec => []FrameComplete
<1>1. ASSUME RunnerTypeOK, SubCycleBarrier, LinksAgree, NEW S \in SUBSET Jobs, FrameInv(S)
      PROVE  FrameComplete
  <2> SUFFICES ASSUME apc = "top", NEW j \in due
               PROVE  \/ ran[j] > 0
                      \/ \E p \in Line(j) : exited[p]
                      \/ \E w \in Workers : overlap[w] /\ j \in ToSet(jobs[w])
    BY DEF FrameComplete
  <2>1. j \in Jobs /\ due \subseteq Jobs
    BY <1>1 DEF RunnerTypeOK
  <2>2. Buffered = {} /\ Handing = {}
    BY <1>1, EmptySet DEF FrameInv, Through, Buffered, Handing, RunnerTypeOK
  <2>3. CASE j \in S
    <3>1. exited[j] \/ ran[j] > 0 \/ Queued(j)
      BY <1>1, <2>3 DEF FrameInv, NoneDropped
    <3>2. \A w \in Workers : jobs[w] = <<>> \/ overlap[w]
      BY <1>1 DEF SubCycleBarrier
    <3>3. Queued(j) => \E w \in Workers : overlap[w] /\ j \in ToSet(jobs[w])
      BY <3>2, EmptySet DEF Queued, ToSet
    <3> QED BY <2>1, <3>1, <3>3, LineOfParent
  <2>4. CASE j \notin S
    <3> DEFINE G == {i \in Jobs : i \in due \ S => \E p \in Line(i) : exited[p]}
    <3>1. ASSUME NEW i \in Jobs, Forest[i] \in G \cup {NoJob}
          PROVE  i \in G
      <4> SUFFICES ASSUME i \in due \ S PROVE \E p \in Line(i) : exited[p]
        OBVIOUS
      <4>1. /\ Forest[i] \in Jobs
            /\ Forest[i] \in due \/ exited[Forest[i]]
            /\ Forest[i] \in S => exited[Forest[i]]
        BY <1>1, <2>2 DEF FrameInv, NoneDropped
      <4>2. Forest[i] \in Line(i) /\ Line(Forest[i]) \subseteq Line(i)
        BY <4>1, LineOfParent
      <4>3. CASE exited[Forest[i]]
        BY <4>2, <4>3
      <4>4. CASE ~exited[Forest[i]]
        <5>1. Forest[i] \in due \ S /\ Forest[i] \in G
          BY <3>1, <4>1, <4>4, MonitorAssumption DEF MonitorAssumption
        <5> QED BY <4>2, <5>1
      <4> QED BY <4>3, <4>4
    <3>2. G = Jobs
      <4>1. G \in SUBSET Jobs
        OBVIOUS
      <4> HIDE DEF G
      <4> QED BY <3>1, <4>1, ForestAssumption DEF ForestAssumption
    <3> QED BY <2>1, <2>4, <3>2
  <2> QED BY <2>3, <2>4
<1>2. RunnerTypeOK /\ SubCycleBarrier /\ (LinksAgree /\ \E S \in SUBSET Jobs : FrameInv(S))
      => FrameComplete
  BY <1>1
<1> QED BY <1>2, FrameAlways, RunnerTyping, SubCyclesSeparated, PTL

===============================================================================
