-------------------------------- MODULE Objects --------------------------------
(***************************************************************************)
(* The children of one game::object (src/src/game/object.hpp, object.cpp). *)
(* add_child and remove_child queue a function for the write job, which    *)
(* executes it in a later frame or later in the same one.  remove_child    *)
(* looks for the child at once and queues the iterator it found.           *)
(*                                                                         *)
(* _children is a std::vector: an iterator into it is a buffer and a       *)
(* place.  The buffer changes when the vector grows beyond its capacity,   *)
(* which then doubles, and it is known by that capacity.                   *)
(***************************************************************************)
EXTENDS WriteJob, SequencesExt

CONSTANTS
  Objs,         \* the objects that are added and removed
  None,         \* no function is being executed
  MaxChildren,  \* bound on children and on wanted, for model checking only
  MaxWrites     \* bound on the queue, for model checking only

ASSUME ObjectsAssumption == MaxChildren \in Nat /\ MaxWrites \in Nat

VARIABLES
  children,   \* object::_children
  capacity,   \* the capacity of its buffer
  executing,  \* the function that the write job executes
  corrupted,  \* memory was overwritten, anything may happen
  wanted,     \* history: the children, had every function done what was asked
  overtaken   \* history: a function erased at an iterator that was not valid

objectVars == <<children, capacity, executing, corrupted, wanted, overtaken>>
vars == <<writeVars, objectVars>>

\* valid is history: the iterator still points to the child.
WriteFunctions ==
  [op : {"add"}, child : Objs]
    \cup [op : {"erase"}, child : Objs, buffer : Nat, at : Nat \ {0},
        valid : BOOLEAN]

TypeOK ==
  /\ writes \in Seq(WriteFunctions) /\ holder \in Holders
  /\ children \in Seq(Objs)
  /\ capacity \in Nat /\ Len(children) <= capacity
  /\ executing \in WriteFunctions \cup {None}
  /\ corrupted \in BOOLEAN
  /\ wanted \in Seq(Objs)
  /\ overtaken \in BOOLEAN

Init ==
  /\ WriteInit
  /\ children = <<>> /\ capacity = 0 /\ wanted = <<>>
  /\ executing = None
  /\ corrupted = FALSE /\ overtaken = FALSE

\* The place of the first c in a sequence, or the place behind the last one.
Find(seq, c) ==
  IF c \in ToSet(seq)
  THEN CHOOSE i \in DOMAIN seq : seq[i] = c /\ \A j \in 1 .. i - 1 : seq[j] # c
  ELSE Len(seq) + 1

-------------------------------------------------------------------------------
(* add_child and remove_child, by any thread *)

AddChild(c) ==
  /\ Enqueue([op |-> "add", child |-> c])
  /\ UNCHANGED <<holder, objectVars>>

\* A search while the write job changes the vector may find any place.
RemoveChild(c) ==
  /\ \E at \in IF executing = None THEN {Find(children, c)}
                                   ELSE 1 .. Len(children) + 1 :
       Enqueue([op |-> "erase", child |-> c, buffer |-> capacity, at |-> at,
                valid |-> executing = None /\ c \in ToSet(children)])
  /\ UNCHANGED <<holder, objectVars>>

-------------------------------------------------------------------------------
(* The write job *)

Begin ==
  /\ WriteBegin
  /\ UNCHANGED objectVars

\* Mutant: a function may be lost between the queue and its execution.
TakeLoses ==
  /\ executing = None
  /\ writes # <<>> /\ WritePop(Head(writes))
  /\ executing' \in {Head(writes), None}
  /\ UNCHANGED <<children, capacity, corrupted, wanted, overtaken>>

Take ==
  /\ executing = None
  /\ writes # <<>> /\ WritePop(Head(writes))
  /\ executing' = Head(writes)
  /\ UNCHANGED <<children, capacity, corrupted, wanted, overtaken>>

End ==
  /\ executing = None
  /\ WriteEnd
  /\ UNCHANGED objectVars

\* The queued iterators from a place on are no longer valid.
InvalidateFrom(place) ==
  writes' = [i \in DOMAIN writes |->
               IF writes[i].op = "erase" /\ writes[i].at >= place
               THEN [writes[i] EXCEPT !.valid = FALSE] ELSE writes[i]]

\* Mutant: the buffer does not grow.
DoAddInPlace ==
  /\ executing # None /\ executing.op = "add"
  /\ children' = Append(children, executing.child)
  /\ wanted' = Append(wanted, executing.child)
  /\ executing' = None
  /\ UNCHANGED <<writes, capacity, holder, corrupted, overtaken>>

\* push_back
DoAdd ==
  /\ executing # None /\ executing.op = "add"
  /\ children' = Append(children, executing.child)
  /\ wanted' = Append(wanted, executing.child)
  /\ IF Len(children) < capacity
     THEN UNCHANGED <<capacity, writes>>
     ELSE /\ capacity' = IF capacity = 0 THEN 1 ELSE 2 * capacity
          /\ InvalidateFrom(1)
  /\ executing' = None
  /\ UNCHANGED <<holder, corrupted, overtaken>>

\* An iterator to a place in the vector as it is.
Inside(f) == f.buffer = capacity /\ f.at <= Len(children)

\* Mutant: always the last element goes.
ErasedLast(f) ==
  {[seq |-> IF children = <<>> THEN children ELSE Front(children), bad |-> FALSE]}

\* What erase(it) does to the vector.  An iterator to the end, or into a buffer
\* that is gone, is undefined behaviour: the standard library drops the last
\* element, or memory is overwritten.
Erased(f) ==
  IF Inside(f)
  THEN {[seq |-> RemoveAt(children, f.at), bad |-> FALSE]}
  ELSE {[seq |-> children, bad |-> TRUE]}
         \cup (IF children = <<>> THEN {}
               ELSE {[seq |-> Front(children), bad |-> FALSE]})

DoErase ==
  /\ executing # None /\ executing.op = "erase"
  /\ \E e \in Erased(executing) : children' = e.seq /\ corrupted' = e.bad
  /\ wanted' = IF executing.child \in ToSet(wanted)
               THEN RemoveAt(wanted, Find(wanted, executing.child)) ELSE wanted
  /\ overtaken' = (overtaken \/ ~executing.valid)
  /\ LET place == IF Inside(executing) THEN executing.at ELSE Len(children)
     IN  InvalidateFrom(place)
  /\ executing' = None
  /\ UNCHANGED <<holder, capacity>>

WriteJobStep == Begin \/ Take \/ DoAdd \/ DoErase \/ End

-------------------------------------------------------------------------------
Adds == {i \in DOMAIN writes : writes[i].op = "add"}

Calls ==
  /\ Len(writes) < MaxWrites
  /\ \E c \in Objs :
       \/ /\ \A seq \in {children, wanted} :
               Len(seq) + Cardinality(Adds) < MaxChildren
          /\ AddChild(c)
       \/ RemoveChild(c)

Next == ~corrupted /\ (Calls \/ WriteJobStep)

Spec == Init /\ [][Next]_vars

\* The scheduler executes the write job in every frame.
FairSpec == Spec /\ WF_vars(~corrupted /\ WriteJobStep)

-------------------------------------------------------------------------------
(* Properties *)

\* The object has the children it should have, until a removal is executed whose
\* iterator an earlier write, or a search during a write, has made invalid
\* (object.cpp:6-25, write_job.cpp:5-22).
ChildrenAsWanted == ~overtaken => children = wanted

\* Every addition that is queued is executed (write_job.cpp:12-17).
WritesExecuted ==
  \A c \in Objs :
    [op |-> "add", child |-> c] \in ToSet(writes)
      ~> corrupted \/ executing = [op |-> "add", child |-> c]

\* object.hpp:86, "Remove an object as a child to this object": when nothing is
\* queued any more the children are those that were asked for.
RemovesTheChild ==
  writes = <<>> /\ executing = None => children = wanted

===============================================================================
