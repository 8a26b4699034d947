------------------------------- MODULE JobGraph -------------------------------
(***************************************************************************)
(* The forest of jobs (job.cpp, runner.cpp:274-331) while two threads      *)
(* change and count it: the root jobs of the runner, the children of each  *)
(* job and its raw pointer to its parent.  Runner assumes that nobody      *)
(* misuses the forest; here is what happens when somebody does.            *)
(***************************************************************************)
EXTENDS Integers, SequencesExt

CONSTANTS
  Top,        \* stands for the runner: the parent of the root jobs
  Jobs, None,
  Arbiter,    \* the thread whose assign_job is noexcept
  Threads,
  FirstLists, \* what was scheduled so far, each job once
  Owned,      \* the jobs that somebody outside holds all the time
  MaxCalls,   \* bound: calls that are made
  MaxCount    \* bound: what job_count adds up, in a forest that is not one

Nodes == Jobs \cup {Top}

ASSUME JobGraphAssumption ==
  /\ Top \notin Jobs /\ None \notin Nodes \cup Threads /\ Arbiter \in Threads
  /\ IsFiniteSet(Jobs)
  /\ Owned \subseteq Jobs /\ FirstLists \in [Nodes -> Seq(Jobs)]
  /\ \A m, n \in Nodes : \A i \in DOMAIN FirstLists[m], k \in DOMAIN FirstLists[n] :
       FirstLists[m][i] = FirstLists[n][k] => m = n /\ i = k
  /\ MaxCalls \in Nat /\ MaxCount \in Nat

VARIABLES
  proc,     \* how the process is
  lists,    \* runner::_root_jobs and the _children of each job
  parent,   \* job::_parent
  holder,   \* the thread in the mutex of each list, or None
  at,       \* where each thread is
  job,      \* the job that its call is about
  node,     \* the owner of the list that it uses, by a raw pointer
  args,     \* the jobs that the call holds
  sub, todo, total,  \* of job_count: sub_jobs, the children not read yet, size
  calls,    \* calls made so far
  clean,    \* history: each job was in one list at most, and in one call at a time
  from,     \* history: how many jobs were attached when the count began
  grown, shrunk, torn  \* history: what happened to the lists during the count

graph   == <<lists, parent, holder>>
counter == <<sub, todo, total>>
tally   == <<from, grown, shrunk, torn>>
vars == <<proc, graph, at, job, node, args, counter, calls, clean, tally>>

Counting == {"expand", "read", "counted"}
Changing == {"adopt", "add", "adding", "reread", "orphan", "drop", "dropping", "unroot"}

TypeOK ==
  /\ proc \in {"runs", "crashed", "terminated"}
  /\ \A n \in Nodes : lists[n] \in Seq(Jobs)
  /\ parent \in [Jobs -> Jobs \cup {None}]
  /\ holder \in [Nodes -> Threads \cup {None}]
  /\ at \in [Threads -> {"idle"} \cup Counting \cup Changing]
  /\ \A t \in Threads :
       /\ job[t] \in IF at[t] \in Changing THEN Jobs ELSE {None}
       /\ node[t] \in IF at[t] \in {"adopt", "reread", "orphan", "drop"}
                      THEN Jobs ELSE Nodes \cup {None}
       /\ args[t] \subseteq Jobs /\ ToSet(sub[t]) \cup ToSet(todo[t]) \subseteq Jobs
       /\ total[t] \in 0 .. MaxCount /\ from[t] \in 0 .. Cardinality(Jobs)
       /\ at[t] \in {"adding", "dropping", "read"} =>
            node[t] \in Nodes /\ holder[node[t]] = t
  /\ calls \in 0 .. MaxCalls
  /\ clean \in [Jobs -> BOOLEAN]
  /\ {grown, shrunk, torn} \subseteq [Threads -> BOOLEAN]

Init ==
  /\ proc = "runs"
  /\ lists = FirstLists
  /\ parent = [j \in Jobs |->
       IF \E n \in Jobs : j \in ToSet(lists[n])
       THEN CHOOSE n \in Jobs : j \in ToSet(lists[n]) ELSE None]
  /\ holder = [n \in Nodes |-> None]
  /\ at = [t \in Threads |-> "idle"]
  /\ job = [t \in Threads |-> None] /\ node = [t \in Threads |-> None]
  /\ args = [t \in Threads |-> {}]
  /\ sub = [t \in Threads |-> <<>>] /\ todo = [t \in Threads |-> <<>>]
  /\ total = [t \in Threads |-> 0]
  /\ calls = 0
  /\ clean = [j \in Jobs |-> TRUE]
  /\ from = [t \in Threads |-> 0]
  /\ grown = [t \in Threads |-> FALSE] /\ shrunk = grown /\ torn = grown

\* The nodes that the lists lead to from those of S.
Reach(S) ==
  LET Closed == {X \in SUBSET Nodes :
                   S \subseteq X /\ \A n \in X : ToSet(lists[n]) \subseteq X}
  IN  {n \in Nodes : \A X \in Closed : n \in X}

\* The jobs that a frame would execute.
Attached == Reach({Top}) \ {Top}

\* What is not destroyed: all that a shared_ptr leads to.
Alive ==
  Reach({Top} \cup Owned \cup UNION {args[t] \cup ToSet(sub[t]) : t \in Threads})

Places(j) == {n \in Nodes : j \in ToSet(lists[n])}
InCall(j) == \E t \in Threads : job[t] = j

-------------------------------------------------------------------------------
(* Calls *)

Begins(t, j, n, held, p) ==
  /\ proc = "runs" /\ at[t] = "idle"
  /\ calls < MaxCalls /\ calls' = calls + 1
  /\ at' = [at EXCEPT ![t] = p]
  /\ job' = [job EXCEPT ![t] = j] /\ node' = [node EXCEPT ![t] = n]
  /\ args' = [args EXCEPT ![t] = held]
  /\ UNCHANGED <<proc, graph, sub, todo>>

Returns(t) ==
  /\ at' = [at EXCEPT ![t] = "idle"]
  /\ job' = [job EXCEPT ![t] = None] /\ node' = [node EXCEPT ![t] = None]
  /\ args' = [args EXCEPT ![t] = {}]

\* A thread goes on in its call.
Goes(t, a, b) ==
  /\ proc = "runs" /\ at[t] = a
  /\ at' = [at EXCEPT ![t] = b]
  /\ UNCHANGED <<job, args, calls>>

\* It uses a job that is destroyed, or one whose list it is in the middle of.
Crashes(t) ==
  /\ proc = "runs" /\ at[t] \in {"drop", "dropping", "expand", "read"}
  /\ node[t] \notin Alive
  /\ proc' = "crashed"
  /\ UNCHANGED <<graph, at, job, node, args, counter, calls, clean, tally>>

-------------------------------------------------------------------------------
(* runner::schedule and job::schedule *)

\* A job is refused as a child of its own.
Schedules(t, n, j) ==
  /\ j \in Owned /\ n \in Owned \cup {Top} /\ n # j
  /\ Begins(t, j, n, {n, j} \ {Top}, IF n = Top THEN "add" ELSE "adopt")
  /\ clean' = [clean EXCEPT ![j] = @ /\ Places(j) = {} /\ ~InCall(j)]
  /\ UNCHANGED <<total, tally>>

\* Mutant: the child does not learn its parent.
AdoptsNot(t) ==
  /\ Goes(t, "adopt", "add")
  /\ UNCHANGED <<proc, graph, node, counter, clean, tally>>

\* The child learns its parent ...
Adopts(t) ==
  /\ Goes(t, "adopt", "add")
  /\ holder[job[t]] \in {None, t}
  /\ parent' = [parent EXCEPT ![job[t]] = node[t]]
  /\ UNCHANGED <<proc, lists, holder, node, counter, clean, tally>>

\* Mutant: the list changes outside of its mutex.
AddsUnlocked(t) ==
  /\ Goes(t, "add", "adding")
  /\ UNCHANGED <<proc, graph, node, counter, clean, tally>>

\* ... and in a later critical section it is appended to the list, which nobody may
\* read meanwhile.
Adds(t) ==
  /\ Goes(t, "add", "adding")
  /\ holder[node[t]] = None
  /\ holder' = [holder EXCEPT ![node[t]] = t]
  /\ UNCHANGED <<proc, lists, parent, node, counter, clean, tally>>

Added(t) ==
  /\ proc = "runs" /\ at[t] = "adding"
  /\ lists' = [lists EXCEPT ![node[t]] = Append(@, job[t])]
  /\ holder' = [holder EXCEPT ![node[t]] = None]
  /\ grown' = [u \in Threads |-> grown[u] \/ at[u] \in Counting]
  /\ Returns(t)
  /\ UNCHANGED <<proc, parent, counter, calls, clean, from, shrunk, torn>>

-------------------------------------------------------------------------------
(* runner::erase and job::erase *)

\* runner::erase asks for the parent ...
Erases(t, j) ==
  /\ j \in Alive \ {Top}
  /\ Begins(t, j, parent[j], {j}, IF parent[j] = None THEN "unroot" ELSE "reread")
  /\ clean' = [clean EXCEPT ![j] = @ /\ Places(j) # {} /\ ~InCall(j)]
  /\ UNCHANGED <<total, tally>>

\* ... and asks again, unless the compiler reuses the answer, to call job::erase.
Rereads(t) ==
  /\ Goes(t, "reread", "orphan")
  /\ \E n \in {node[t], parent[job[t]]} :
       \/ n # None /\ node' = [node EXCEPT ![t] = n] /\ UNCHANGED proc
       \/ n = None /\ proc' = "crashed" /\ UNCHANGED node
  /\ UNCHANGED <<graph, counter, clean, tally>>

\* job::erase that is called directly.
ErasesFrom(t, n, j) ==
  /\ j \in Owned /\ n \in Owned /\ n # j
  /\ Begins(t, j, n, {n, j}, "orphan")
  /\ clean' = [clean EXCEPT ![j] = @ /\ Places(j) = {n} /\ ~InCall(j)]
  /\ UNCHANGED <<total, tally>>

\* Mutant: the child keeps its parent.
OrphansNot(t) ==
  /\ Goes(t, "orphan", "drop")
  /\ UNCHANGED <<proc, graph, node, counter, clean, tally>>

Orphans(t) ==
  /\ Goes(t, "orphan", "drop")
  /\ holder[job[t]] \in {None, t}
  /\ parent' = [parent EXCEPT ![job[t]] = None]
  /\ UNCHANGED <<proc, lists, holder, node, counter, clean, tally>>

Drops(t) ==
  /\ Goes(t, "drop", "dropping")
  /\ node[t] \in Alive /\ holder[node[t]] = None
  /\ holder' = [holder EXCEPT ![node[t]] = t]
  /\ UNCHANGED <<proc, lists, parent, node, counter, clean, tally>>

\* std::erase: all places of the job are removed.
Without(list, j) ==
  LET W[k \in 0 .. Len(list)] ==
        IF k = 0 THEN <<>>
        ELSE IF list[k] = j THEN W[k - 1] ELSE Append(W[k - 1], list[k])
  IN  W[Len(list)]

Shrinks == shrunk' = [u \in Threads |-> shrunk[u] \/ at[u] \in Counting]

Dropped(t) ==
  /\ proc = "runs" /\ at[t] = "dropping"
  /\ lists' = [lists EXCEPT ![node[t]] = Without(@, job[t])]
  /\ holder' = [holder EXCEPT ![node[t]] = None]
  /\ Shrinks
  /\ Returns(t)
  /\ UNCHANGED <<proc, parent, counter, calls, clean, from, grown, torn>>

\* A job without a parent is searched among the roots, of which one is removed.
Unroots(t) ==
  /\ proc = "runs" /\ at[t] = "unroot" /\ holder[Top] = None
  /\ job[t] \in ToSet(lists[Top])
  /\ lists' = [lists EXCEPT ![Top] = RemoveFirst(@, job[t])]
  /\ Shrinks
  /\ Returns(t)
  /\ UNCHANGED <<proc, parent, holder, counter, calls, clean, from, grown, torn>>

\* When it is not there the exception ends the process if the arbiter called.
FindsNot(t) ==
  /\ proc = "runs" /\ at[t] = "unroot" /\ holder[Top] = None
  /\ job[t] \notin ToSet(lists[Top])
  /\ proc' = IF t = Arbiter THEN "terminated" ELSE proc
  /\ Returns(t)
  /\ UNCHANGED <<graph, counter, calls, clean, tally>>

-------------------------------------------------------------------------------
(* runner::job_count *)

Counts(t) ==
  /\ Begins(t, None, Top, {}, "expand")
  /\ from' = [from EXCEPT ![t] = Cardinality(Attached)]
  /\ grown' = [grown EXCEPT ![t] = FALSE]
  /\ shrunk' = [shrunk EXCEPT ![t] = FALSE]
  /\ torn' = [torn EXCEPT ![t] = FALSE]
  /\ UNCHANGED <<total, clean>>

\* Mutant: the size of every list is added when it is locked, too.
ExpandsTwice(t) ==
  /\ Goes(t, "expand", "read")
  /\ node[t] \in Alive /\ holder[node[t]] = None
  /\ total[t] + Len(lists[node[t]]) <= MaxCount
  /\ holder' = [holder EXCEPT ![node[t]] = t]
  /\ todo' = [todo EXCEPT ![t] = lists[node[t]]]
  /\ total' = [total EXCEPT ![t] = @ + Len(lists[node[t]])]
  /\ UNCHANGED <<proc, lists, parent, node, sub, clean, tally>>

\* The list of the runner, later of the job taken from sub_jobs, is locked; the job
\* is not held any more.
Expands(t) ==
  /\ Goes(t, "expand", "read")
  /\ node[t] \in Alive /\ holder[node[t]] = None
  /\ node[t] = Top => Len(lists[Top]) <= MaxCount
  /\ holder' = [holder EXCEPT ![node[t]] = t]
  /\ todo' = [todo EXCEPT ![t] = lists[node[t]]]
  /\ total' = [total EXCEPT ![t] = IF node[t] = Top THEN Len(lists[Top]) ELSE @]
  /\ UNCHANGED <<proc, lists, parent, node, sub, clean, tally>>

\* The size of each child's own list is read without the child's mutex; while that
\* list changes it may be anything.
Reads(t) ==
  LET j == Head(todo[t])
  IN  /\ Goes(t, "read", "read")
      /\ todo[t] # <<>>
      /\ todo' = [todo EXCEPT ![t] = Tail(@)] /\ sub' = [sub EXCEPT ![t] = Append(@, j)]
      /\ IF holder[j] # None /\ at[holder[j]] \in {"adding", "dropping"}
         THEN torn' = [torn EXCEPT ![t] = TRUE] /\ UNCHANGED total
         ELSE /\ total[t] + Len(lists[j]) <= MaxCount
              /\ total' = [total EXCEPT ![t] = @ + Len(lists[j])]
              /\ UNCHANGED torn
      /\ UNCHANGED <<proc, graph, node, clean, from, grown, shrunk>>

\* Mutant: the job stays in sub_jobs.
ReadAllKeeps(t) ==
  /\ Goes(t, "read", IF sub[t] = <<>> THEN "counted" ELSE "expand")
  /\ todo[t] = <<>>
  /\ holder' = [holder EXCEPT ![node[t]] = None]
  /\ node' = [node EXCEPT ![t] = IF sub[t] = <<>> THEN @ ELSE Last(sub[t])]
  /\ UNCHANGED <<proc, lists, parent, counter, clean, tally>>

ReadAll(t) ==
  /\ at[t] = "read" /\ todo[t] = <<>>
  /\ holder' = [holder EXCEPT ![node[t]] = None]
  /\ IF sub[t] = <<>>
     THEN Goes(t, "read", "counted") /\ UNCHANGED <<node, sub>>
     ELSE /\ Goes(t, "read", "expand")
          /\ node' = [node EXCEPT ![t] = Last(sub[t])]
          /\ sub' = [sub EXCEPT ![t] = Front(@)]
  /\ UNCHANGED <<proc, lists, parent, todo, total, clean, tally>>

Counted(t) ==
  /\ proc = "runs" /\ at[t] = "counted"
  /\ Returns(t)
  /\ total' = [total EXCEPT ![t] = 0] /\ from' = [from EXCEPT ![t] = 0]
  /\ UNCHANGED <<proc, graph, sub, todo, calls, clean, grown, shrunk, torn>>

-------------------------------------------------------------------------------

Continues(t) ==
  \/ Adopts(t) \/ Adds(t) \/ Added(t)
  \/ Rereads(t) \/ Orphans(t) \/ Drops(t) \/ Dropped(t) \/ Unroots(t) \/ FindsNot(t)
  \/ Expands(t) \/ Reads(t) \/ ReadAll(t) \/ Counted(t)
  \/ Crashes(t)

Next ==
  \/ \E t \in Threads :
       \/ \E j \in Jobs, n \in Nodes : Schedules(t, n, j) \/ ErasesFrom(t, n, j)
       \/ \E j \in Jobs : Erases(t, j)
       \/ Counts(t)
       \/ Continues(t)

Spec == Init /\ [][Next]_vars

\* A call goes on; the mutexes are released after a few steps.
FairSpec == Spec /\ \A t \in Threads : WF_vars(Continues(t))

-------------------------------------------------------------------------------
(* Properties *)

AllClean == \A j \in Jobs : clean[j]

\* Between the calls about it, a job that was never shared is in one list at most,
\* once, and points to the owner of that list (job.cpp:8-14, 18-24, runner.cpp:274-303).
ParentsAgree ==
  \A j \in Jobs : clean[j] /\ ~InCall(j) =>
    IF \A n \in Jobs : j \notin ToSet(lists[n])
    THEN parent[j] = None /\ Cardinality({i \in DOMAIN lists[Top] : lists[Top][i] = j}) <= 1
    ELSE \E n \in Jobs :
           /\ Places(j) = {n} /\ parent[j] = n
           /\ Cardinality({i \in DOMAIN lists[n] : lists[n][i] = j}) = 1

\* Neither the exception of erase nor a destroyed job ends the process, unless a job
\* was shared or was in two calls at once, a job was erased under a count, or a
\* parent was destroyed before its child (runner.cpp:280-303, 319-328).
ForestIsSafe ==
  proc # "runs" =>
    \/ ~AllClean
    \/ \E t \in Threads : shrunk[t]
    \/ \E n \in Jobs \ Alive : lists[n] # <<>>

\* job_count is exact when nothing changes meanwhile, and between what there was and
\* what there is when jobs only come or only go, unless it reads a list in the middle
\* of a change (runner.cpp:305-331).
CountInBounds ==
  \A t \in Threads : at[t] = "counted" /\ AllClean /\ ~torn[t] =>
    LET now == Cardinality(Attached)
    IN  /\ ~shrunk[t] => from[t] <= total[t] /\ total[t] <= now
        /\ ~grown[t]  => now <= total[t] /\ total[t] <= from[t]

\* job_count returns, unless a job was shared or erased meanwhile: a cycle of jobs that
\* a count can enter needs either (job.cpp:5, runner.cpp:319-328).
CountEnds ==
  \A t \in Threads :
    at[t] = "expand" ~> at[t] = "idle" \/ proc # "runs" \/ ~AllClean \/ shrunk[t]

===============================================================================
