----------------------------- MODULE ObjectsProofs -----------------------------
(***************************************************************************)
(* Theorems about the children of a game::object, for any objects, any     *)
(* number of children and any number of queued writes.                     *)
(***************************************************************************)
EXTENDS Objects, FiniteSetTheorems, SequenceTheorems, TLAPS

(* The vector *)

\* Every nonempty set of natural numbers has a least element: of the sets of
\* smaller elements of a finite part of it, one is minimal.
LEMMA HasLeast ==
  ASSUME NEW S \in SUBSET Nat, S # {}
  PROVE  \E x \in S : \A y \in S : x <= y
<1>0. \A y \in S : y \in Nat
  OBVIOUS
<1>1. PICK s \in S : s \in Nat
  BY <1>0
<1> DEFINE T        == {y \in S : y <= s}
           Below(x) == {y \in T : y < x}
           Belows   == {Below(x) : x \in T}
<1>2. IsFiniteSet(T) /\ s \in T /\ T \subseteq S
  <2>1. IsFiniteSet(0 .. s)
    <3>1. 0 \in Int /\ s \in Int
      BY <1>1
    <3> QED BY <3>1, FS_Interval
  <2>2. T \subseteq 0 .. s
    <3>1. \A y \in T : y \in Nat /\ y <= s
      BY <1>0
    <3>2. \A y \in Nat : y <= s => y \in 0 .. s
      BY <1>1
    <3> HIDE DEF T
    <3> QED BY <3>1, <3>2
  <2>3. IsFiniteSet(T)
    <3> HIDE DEF T
    <3> QED BY <2>1, <2>2, FS_Subset
  <2> QED BY <1>1, <2>3
<1> HIDE DEF T
<1>3. /\ IsWellFoundedOn(StrictSubsetOrdering(T), SUBSET T)
      /\ Belows \subseteq SUBSET T /\ Belows # {}
  <2>1. IsWellFoundedOn(StrictSubsetOrdering(T), SUBSET T)
    <3>1. FiniteSubsetsOf(T) = SUBSET T
      BY <1>2, FS_FiniteSubsetsOfFinite
    <3>2. IsWellFoundedOn(StrictSubsetOrdering(T), FiniteSubsetsOf(T))
      BY FS_StrictSubsetOrderingWellFounded
    <3> QED BY <3>1, <3>2
  <2>2. Belows \subseteq SUBSET T /\ Belows # {}
    BY <1>2
  <2> QED BY <2>1, <2>2
<1>4. \E b \in Belows : \A c \in Belows : <<c, b>> \notin StrictSubsetOrdering(T)
  <2> HIDE DEF Belows
  <2> QED BY <1>3, WFMin
<1>5. PICK x \in T : \A y \in T : <<Below(y), Below(x)>> \notin StrictSubsetOrdering(T)
  BY <1>4
<1>6. ASSUME NEW y \in T, y < x
      PROVE  FALSE
  <2>1. Below(y) \subseteq Below(x) /\ y \in Below(x) /\ y \notin Below(y)
    <3>1. x \in Nat /\ y \in Nat /\ \A z \in T : z \in Nat
      BY <1>0, <1>2
    <3>2. \A z \in T : z < y => z < x
      BY <1>6, <3>1
    <3>3. ~(y < y)
      BY <3>1
    <3> QED BY <1>6, <3>2, <3>3
  <2> QED BY <1>5, <2>1 DEF StrictSubsetOrdering
<1>7. x \in S /\ x <= s /\ \A y \in S : x <= y
  BY <1>0, <1>1, <1>2, <1>6 DEF T
<1> QED BY <1>7

\* Find gives the first place of a child, or the end.
LEMMA FindsFirst ==
  ASSUME NEW seq \in Seq(Objs), NEW c
  PROVE  /\ Find(seq, c) \in 1 .. Len(seq) + 1
         /\ c \in ToSet(seq) =>
              /\ Find(seq, c) \in 1 .. Len(seq)
              /\ seq[Find(seq, c)] = c
              /\ \A j \in 1 .. Find(seq, c) - 1 : seq[j] # c
<1>1. CASE c \in ToSet(seq)
  <2> DEFINE S == {i \in 1 .. Len(seq) : seq[i] = c}
  <2>1. S \in SUBSET Nat /\ S # {}
    BY <1>1 DEF ToSet
  <2>2. PICK i \in S : \A j \in S : i <= j
    <3> HIDE DEF S
    <3> QED BY <2>1, HasLeast
  <2>3. i \in 1 .. Len(seq) /\ seq[i] = c /\ \A j \in 1 .. i - 1 : seq[j] # c
    BY <2>2
  <2> QED BY <1>1, <2>3 DEF Find
<1>2. CASE c \notin ToSet(seq)
  BY <1>2 DEF Find
<1> QED BY <1>1, <1>2

\* A place that is first stays the one Find gives.
LEMMA FirstIsFound ==
  ASSUME NEW seq \in Seq(Objs), NEW i \in 1 .. Len(seq),
         \A j \in 1 .. i - 1 : seq[j] # seq[i]
  PROVE  seq[i] \in ToSet(seq) /\ Find(seq, seq[i]) = i
<1>1. seq[i] \in ToSet(seq)
  BY DEF ToSet
<1>2. /\ Find(seq, seq[i]) \in 1 .. Len(seq)
      /\ seq[Find(seq, seq[i])] = seq[i]
      /\ \A j \in 1 .. Find(seq, seq[i]) - 1 : seq[j] # seq[i]
  BY <1>1, FindsFirst
<1> QED BY <1>1, <1>2

\* A child is found where it was when only what is behind it changes.
LEMMA FoundBefore ==
  ASSUME NEW old \in Seq(Objs), NEW seq \in Seq(Objs), NEW c,
         c \in ToSet(old),
         Find(old, c) <= Len(seq),
         \A j \in 1 .. Find(old, c) : seq[j] = old[j]
  PROVE  c \in ToSet(seq) /\ Find(seq, c) = Find(old, c)
<1> DEFINE i == Find(old, c)
<1>1. i \in 1 .. Len(old) /\ old[i] = c /\ \A j \in 1 .. i - 1 : old[j] # c
  BY FindsFirst
<1>2. i \in 1 .. Len(seq) /\ seq[i] = c /\ \A j \in 1 .. i - 1 : seq[j] # seq[i]
  <2> HIDE DEF i
  <2>1. Len(old) \in Nat /\ Len(seq) \in Nat
    OBVIOUS
  <2>2. i <= Len(seq) /\ \A j \in 1 .. i : seq[j] = old[j]
    BY DEF i
  <2> QED BY <1>1, <2>1, <2>2
<1> HIDE DEF i
<1>3. seq[i] \in ToSet(seq) /\ Find(seq, seq[i]) = i
  BY <1>2, FirstIsFound
<1> QED BY <1>2, <1>3 DEF i

LEMMA RemoveAtType ==
  ASSUME NEW seq \in Seq(Objs), NEW i \in 1 .. Len(seq)
  PROVE  /\ RemoveAt(seq, i) \in Seq(Objs)
         /\ Len(RemoveAt(seq, i)) = Len(seq) - 1
         /\ \A j \in 1 .. i - 1 : RemoveAt(seq, i)[j] = seq[j]
<1>1. /\ SubSeq(seq, 1, i - 1) \in Seq(Objs) /\ SubSeq(seq, i + 1, Len(seq)) \in Seq(Objs)
      /\ Len(SubSeq(seq, 1, i - 1)) = i - 1
      /\ Len(SubSeq(seq, i + 1, Len(seq))) = Len(seq) - i
      /\ \A j \in 1 .. i - 1 : SubSeq(seq, 1, i - 1)[j] = seq[j]
  OBVIOUS
<1> DEFINE a == SubSeq(seq, 1, i - 1)
           b == SubSeq(seq, i + 1, Len(seq))
<1> HIDE DEF a, b
<1>2. /\ a \in Seq(Objs) /\ b \in Seq(Objs)
      /\ Len(a) = i - 1 /\ Len(b) = Len(seq) - i
      /\ \A j \in 1 .. i - 1 : a[j] = seq[j]
  BY <1>1 DEF a, b
<1>3. /\ a \o b \in Seq(Objs) /\ Len(a \o b) = Len(a) + Len(b)
      /\ \A j \in 1 .. Len(a) : (a \o b)[j] = a[j]
  BY <1>2
<1>4. RemoveAt(seq, i) = a \o b
  BY DEF RemoveAt, a, b
<1>5. /\ Len(a) + Len(b) = Len(seq) - 1
      /\ \A j \in 1 .. i - 1 : j \in 1 .. Len(a)
  <2>1. Len(seq) \in Nat /\ i \in Nat
    OBVIOUS
  <2> QED BY <1>2, <2>1
<1>6. \A j \in 1 .. i - 1 : (a \o b)[j] = seq[j]
  BY <1>2, <1>3, <1>5
<1> QED BY <1>3, <1>4, <1>5, <1>6

LEMMA FrontType ==
  ASSUME NEW seq \in Seq(Objs), seq # <<>>
  PROVE  /\ Front(seq) \in Seq(Objs) /\ Len(Front(seq)) = Len(seq) - 1
         /\ \A j \in 1 .. Len(seq) - 1 : Front(seq)[j] = seq[j]
<1> DEFINE n == Len(seq) - 1
<1>1. n \in Nat /\ n < Len(seq)
  OBVIOUS
<1>2. \A j \in 1 .. n : seq[j] \in Objs
  BY <1>1
<1>3. /\ SubSeq(seq, 1, n) \in Seq(Objs)
      /\ Len(SubSeq(seq, 1, n)) = n
      /\ \A j \in 1 .. n : SubSeq(seq, 1, n)[j] = seq[j]
  <2> HIDE DEF n
  <2>1. /\ SubSeq(seq, 1, n) \in Seq(Objs)
        /\ Len(SubSeq(seq, 1, n)) = IF 1 <= n THEN n - 1 + 1 ELSE 0
        /\ \A j \in 1 .. n - 1 + 1 : SubSeq(seq, 1, n)[j] = seq[1 + j - 1]
    <3>1. 1 \in Int /\ n \in Int
      BY <1>1
    <3> QED BY <1>2, <3>1, SubSeqProperties
  <2>2. /\ n - 1 + 1 = n /\ (~ (1 <= n) => n = 0)
        /\ \A j \in 1 .. n : 1 + j - 1 = j
    BY <1>1
  <2> QED BY <2>1, <2>2
<1> QED BY <1>3 DEF Front

-------------------------------------------------------------------------------
(* The iterators *)

\* An iterator points to its child: it is into the buffer of the vector, at the
\* place where a search would find the child now.
PointsToChild(f) ==
  /\ f.buffer = capacity
  /\ f.child \in ToSet(children)
  /\ f.at = Find(children, f.child)

\* The iterators that are still said to be valid do so, the queued ones and the
\* one that is being used.  Without this nothing is known of the place that a
\* removal erases.
IteratorsPoint ==
  /\ \A i \in DOMAIN writes :
       writes[i].op = "erase" /\ writes[i].valid => PointsToChild(writes[i])
  /\ executing # None =>
       (executing.op = "erase" /\ executing.valid => PointsToChild(executing))

ObjectInv == TypeOK /\ IteratorsPoint /\ ChildrenAsWanted

\* What is known of a removal.
LEMMA EraseFields ==
  ASSUME NEW f \in WriteFunctions
  PROVE  /\ f.child \in Objs
         /\ f.op \in {"add", "erase"}
         /\ f.op = "erase" =>
              f \in [op : {"erase"}, child : Objs, buffer : Nat, at : Nat \ {0},
                    valid : BOOLEAN]
BY DEF WriteFunctions

\* The vector as it is has every place that a valid iterator names.
LEMMA PointsInside ==
  ASSUME NEW f, children \in Seq(Objs), PointsToChild(f)
  PROVE  Inside(f) /\ f.at \in 1 .. Len(children)
<1>1. f.at \in 1 .. Len(children) /\ f.buffer = capacity
  BY FindsFirst DEF PointsToChild
<1> QED BY <1>1 DEF Inside

\* Invalidation changes no function otherwise.
LEMMA Invalidation ==
  ASSUME TypeOK, NEW place, InvalidateFrom(place)
  PROVE  /\ writes' \in Seq(WriteFunctions) /\ DOMAIN writes' = DOMAIN writes
         /\ \A i \in DOMAIN writes :
              writes'[i].op = "erase" /\ writes'[i].valid =>
                writes'[i] = writes[i] /\ ~ (writes[i].at >= place)
<1>1. /\ DOMAIN writes = 1 .. Len(writes) /\ Len(writes) \in Nat
      /\ \A i \in DOMAIN writes : writes[i] \in WriteFunctions
  BY DEF TypeOK
<1>2. ASSUME NEW f \in WriteFunctions, f.op = "erase"
      PROVE  /\ [f EXCEPT !.valid = FALSE] \in WriteFunctions
             /\ [f EXCEPT !.valid = FALSE].valid = FALSE
  <2>1. f \in [op : {"erase"}, child : Objs, buffer : Nat, at : Nat \ {0},
                    valid : BOOLEAN]
    BY <1>2, EraseFields
  <2> QED BY <2>1 DEF WriteFunctions
<1>3. \A i \in DOMAIN writes :
        writes'[i] = IF writes[i].op = "erase" /\ writes[i].at >= place
                     THEN [writes[i] EXCEPT !.valid = FALSE] ELSE writes[i]
  BY DEF InvalidateFrom
<1>4. DOMAIN writes' = DOMAIN writes
  BY DEF InvalidateFrom
<1>5. \A i \in DOMAIN writes : writes'[i] \in WriteFunctions
  BY <1>1, <1>2, <1>3
<1>6. writes' = [i \in 1 .. Len(writes) |-> writes'[i]]
  BY <1>1 DEF InvalidateFrom
<1>7. writes' \in Seq(WriteFunctions)
  BY <1>1, <1>5, <1>6
<1>8. ASSUME NEW i \in DOMAIN writes, writes'[i].op = "erase", writes'[i].valid
      PROVE  writes'[i] = writes[i] /\ ~ (writes[i].at >= place)
  BY <1>1, <1>2, <1>3, <1>8
<1> QED BY <1>4, <1>7, <1>8

-------------------------------------------------------------------------------
(* The steps *)

LEMMA Untouched ==
  ASSUME ObjectInv, UNCHANGED objectVars,
         writes' \in Seq(WriteFunctions), holder' \in Holders,
         \A i \in DOMAIN writes' :
           writes'[i].op = "erase" /\ writes'[i].valid => PointsToChild(writes'[i])
  PROVE  ObjectInv'
BY DEF ObjectInv, TypeOK, IteratorsPoint, ChildrenAsWanted, PointsToChild, objectVars

LEMMA EnqueueStep ==
  ASSUME ObjectInv, UNCHANGED <<holder, objectVars>>,
         NEW f \in WriteFunctions, Enqueue(f),
         f.op = "erase" /\ f.valid => PointsToChild(f)
  PROVE  ObjectInv'
<1>1. writes \in Seq(WriteFunctions) /\ holder \in Holders
  BY DEF ObjectInv, TypeOK
<1>2. /\ writes' \in Seq(WriteFunctions)
      /\ \A i \in DOMAIN writes' :
           writes'[i] = f \/ (i \in DOMAIN writes /\ writes'[i] = writes[i])
  BY <1>1 DEF Enqueue
<1>3. \A i \in DOMAIN writes' :
        writes'[i].op = "erase" /\ writes'[i].valid => PointsToChild(writes'[i])
  BY <1>2 DEF ObjectInv, IteratorsPoint
<1> QED BY <1>1, <1>2, <1>3, Untouched

LEMMA RemoveStep ==
  ASSUME ObjectInv, NEW c \in Objs, RemoveChild(c)
  PROVE  ObjectInv'
<1>1. PICK place \in IF executing = None THEN {Find(children, c)}
                                         ELSE 1 .. Len(children) + 1 :
        Enqueue([op |-> "erase", child |-> c, buffer |-> capacity, at |-> place,
                 valid |-> executing = None /\ c \in ToSet(children)])
  BY DEF RemoveChild
<1> DEFINE f == [op |-> "erase", child |-> c, buffer |-> capacity, at |-> place,
                 valid |-> executing = None /\ c \in ToSet(children)]
<1>2. children \in Seq(Objs) /\ capacity \in Nat
  BY DEF ObjectInv, TypeOK
<1>3. place \in Nat \ {0}
  BY <1>2, FindsFirst
<1>4. f \in WriteFunctions
  BY <1>2, <1>3 DEF WriteFunctions
<1>5. f.valid => PointsToChild(f)
  BY <1>1 DEF PointsToChild
<1>6. UNCHANGED <<holder, objectVars>>
  BY DEF RemoveChild
<1> QED
  <2> HIDE DEF f
  <2> QED BY <1>1, <1>4, <1>5, <1>6, EnqueueStep DEF f

LEMMA AddStep ==
  ASSUME ObjectInv, NEW c \in Objs, AddChild(c)
  PROVE  ObjectInv'
<1> DEFINE f == [op |-> "add", child |-> c]
<1>1. f \in WriteFunctions /\ f.op = "add"
  BY DEF WriteFunctions
<1>2. Enqueue(f) /\ UNCHANGED <<holder, objectVars>>
  BY DEF AddChild
<1> HIDE DEF f
<1> QED BY <1>1, <1>2, EnqueueStep

LEMMA TakeStep ==
  ASSUME ObjectInv, Take
  PROVE  ObjectInv'
<1>1. /\ writes \in Seq(WriteFunctions) /\ writes # <<>>
      /\ writes' = Tail(writes) /\ executing' = Head(writes)
      /\ UNCHANGED <<children, capacity, holder, corrupted, wanted, overtaken>>
  BY DEF ObjectInv, TypeOK, Take, WritePop
<1>2. /\ writes' \in Seq(WriteFunctions)
      /\ executing' = writes[1] /\ 1 \in DOMAIN writes /\ writes[1] \in WriteFunctions
      /\ \A i \in DOMAIN writes' : i + 1 \in DOMAIN writes /\ writes'[i] = writes[i + 1]
  BY <1>1
<1>3. TypeOK'
  BY <1>1, <1>2 DEF ObjectInv, TypeOK
<1>4. \A f : PointsToChild(f) => PointsToChild(f)'
  BY <1>1 DEF PointsToChild
<1>5. IteratorsPoint'
  BY <1>2, <1>4 DEF ObjectInv, IteratorsPoint
<1>6. ChildrenAsWanted'
  BY <1>1 DEF ObjectInv, ChildrenAsWanted
<1> QED BY <1>3, <1>5, <1>6 DEF ObjectInv

LEMMA DoAddStep ==
  ASSUME ObjectInv, DoAdd
  PROVE  ObjectInv'
<1> DEFINE c == executing.child
<1>1. /\ TypeOK /\ children \in Seq(Objs) /\ wanted \in Seq(Objs) /\ capacity \in Nat
      /\ Len(children) <= capacity /\ Len(children) \in Nat
      /\ writes \in Seq(WriteFunctions) /\ c \in Objs
  BY EraseFields DEF ObjectInv, TypeOK, DoAdd
<1> HIDE DEF c
<1>2. /\ children' = Append(children, c) /\ wanted' = Append(wanted, c)
      /\ executing' = None /\ UNCHANGED <<holder, corrupted, overtaken>>
  BY DEF DoAdd, c
<1>3. /\ children' \in Seq(Objs) /\ wanted' \in Seq(Objs)
      /\ Len(children') = Len(children) + 1
      /\ \A j \in 1 .. Len(children) : children'[j] = children[j]
  BY <1>1, <1>2
<1>4. ChildrenAsWanted'
  BY <1>2 DEF ObjectInv, ChildrenAsWanted
<1>5. CASE Len(children) < capacity
  <2>1. capacity' = capacity /\ writes' = writes
    BY <1>5 DEF DoAdd
  <2>2. TypeOK'
    BY <1>1, <1>2, <1>3, <1>5, <2>1 DEF TypeOK
  <2>3. ASSUME NEW f, PointsToChild(f)
        PROVE  PointsToChild(f)'
    <3>1. Find(children, f.child) \in 1 .. Len(children)
      BY <1>1, <2>3, FindsFirst DEF PointsToChild
    <3>2. f.child \in ToSet(children') /\ Find(children', f.child) = Find(children, f.child)
      BY <1>1, <1>3, <2>3, <3>1, FoundBefore DEF PointsToChild
    <3> QED BY <2>1, <2>3, <3>2 DEF PointsToChild
  <2>4. IteratorsPoint'
    BY <1>2, <2>1, <2>3 DEF ObjectInv, IteratorsPoint
  <2> QED BY <1>4, <2>2, <2>4 DEF ObjectInv
<1>6. CASE ~ (Len(children) < capacity)
  <2>1. /\ capacity' = IF capacity = 0 THEN 1 ELSE 2 * capacity
        /\ InvalidateFrom(1)
    BY <1>6 DEF DoAdd
  <2>2. capacity' \in Nat /\ Len(children') <= capacity'
    BY <1>1, <1>3, <1>6, <2>1
  <2>3. /\ writes' \in Seq(WriteFunctions) /\ DOMAIN writes' = DOMAIN writes
        /\ \A i \in DOMAIN writes :
              writes'[i].op = "erase" /\ writes'[i].valid =>
                writes'[i] = writes[i] /\ ~ (writes[i].at >= 1)
    BY <1>1, <2>1, Invalidation
  <2>4. TypeOK'
    BY <1>1, <1>2, <1>3, <2>2, <2>3 DEF TypeOK
  <2>5. \A i \in DOMAIN writes' : ~ (writes'[i].op = "erase" /\ writes'[i].valid)
    <3> SUFFICES ASSUME NEW i \in DOMAIN writes,
                        writes'[i].op = "erase" /\ writes'[i].valid
                 PROVE  FALSE
      BY <2>3
    <3>1. PointsToChild(writes[i]) /\ ~ (writes[i].at >= 1)
      BY <2>3 DEF ObjectInv, IteratorsPoint
    <3> QED BY <1>1, <3>1, PointsInside
  <2>6. IteratorsPoint'
    BY <1>2, <2>5 DEF IteratorsPoint
  <2> QED BY <1>4, <2>4, <2>6 DEF ObjectInv
<1> QED BY <1>5, <1>6

\* What a removal leaves of the vector.  Nothing before the place from which on
\* iterators become invalid has changed.
LEMMA EraseLeaves ==
  ASSUME ObjectInv, NEW f \in WriteFunctions, f.op = "erase", NEW e \in Erased(f),
         NEW place, place = IF Inside(f) THEN f.at ELSE Len(children)
  PROVE  /\ e.seq \in Seq(Objs) /\ e.bad \in BOOLEAN
         /\ Len(e.seq) <= Len(children)
         /\ place \in Nat /\ place - 1 <= Len(e.seq)
         /\ \A j \in 1 .. place - 1 : e.seq[j] = children[j]
<1>1. children \in Seq(Objs) /\ Len(children) \in Nat /\ f.at \in Nat \ {0}
  BY EraseFields DEF ObjectInv, TypeOK
<1>2. PICK n \in Nat : n = Len(children)
  BY <1>1
<1>3. CASE Inside(f)
  <2>1. f.at \in 1 .. n /\ place = f.at
    BY <1>1, <1>2, <1>3 DEF Inside
  <2>2. e.seq = RemoveAt(children, f.at) /\ e.bad = FALSE
    BY <1>3 DEF Erased
  <2>3. /\ e.seq \in Seq(Objs) /\ Len(e.seq) = n - 1
        /\ \A j \in 1 .. f.at - 1 : e.seq[j] = children[j]
    BY <1>1, <1>2, <2>1, <2>2, RemoveAtType
  <2>4. n - 1 <= n /\ place \in Nat /\ place - 1 <= n - 1
    BY <2>1
  <2>5. e.bad \in BOOLEAN
    BY <2>2
  <2> QED BY <1>2, <2>1, <2>3, <2>4, <2>5
<1>4. CASE ~Inside(f)
  <2>1. place = n
    BY <1>2, <1>4
  <2>2. CASE e.seq = children /\ e.bad = TRUE
    <3>1. n <= n /\ n - 1 <= n
      OBVIOUS
    <3>2. e.bad \in BOOLEAN
      BY <2>2
    <3> QED BY <1>1, <1>2, <2>1, <2>2, <3>1, <3>2
  <2>3. CASE children # <<>> /\ e.seq = Front(children) /\ e.bad = FALSE
    <3>1. /\ e.seq \in Seq(Objs) /\ Len(e.seq) = n - 1
          /\ \A j \in 1 .. n - 1 : e.seq[j] = children[j]
      BY <1>1, <1>2, <2>3, FrontType
    <3>2. n - 1 <= n
      OBVIOUS
    <3>3. e.bad \in BOOLEAN
      BY <2>3
    <3> QED BY <1>2, <2>1, <3>1, <3>2, <3>3
  <2>4. \/ e.seq = children /\ e.bad = TRUE
        \/ children # <<>> /\ e.seq = Front(children) /\ e.bad = FALSE
    <3>1. e \in {[seq |-> children, bad |-> TRUE]}
               \cup (IF children = <<>> THEN {}
                     ELSE {[seq |-> Front(children), bad |-> FALSE]})
      BY <1>4 DEF Erased
    <3> QED BY <3>1
  <2> QED BY <2>2, <2>3, <2>4
<1> QED BY <1>3, <1>4

LEMMA DoEraseStep ==
  ASSUME ObjectInv, DoErase
  PROVE  ObjectInv'
<1> DEFINE place == IF Inside(executing) THEN executing.at ELSE Len(children)
           c     == executing.child
<1>1. /\ TypeOK /\ children \in Seq(Objs) /\ wanted \in Seq(Objs) /\ capacity \in Nat
      /\ Len(children) <= capacity /\ Len(children) \in Nat
      /\ executing \in WriteFunctions /\ executing.op = "erase" /\ c \in Objs
      /\ executing.valid \in BOOLEAN /\ overtaken \in BOOLEAN
  BY EraseFields DEF ObjectInv, TypeOK, DoErase
<1>2. PICK e \in Erased(executing) : children' = e.seq /\ corrupted' = e.bad
  BY DEF DoErase
<1>3. /\ wanted' = IF c \in ToSet(wanted) THEN RemoveAt(wanted, Find(wanted, c)) ELSE wanted
      /\ overtaken' = (overtaken \/ ~executing.valid)
      /\ InvalidateFrom(place)
      /\ executing' = None /\ UNCHANGED <<holder, capacity>>
  BY DEF DoErase
<1>4. PICK p : p = place
  OBVIOUS
<1> HIDE DEF place, c
<1>5. /\ children' \in Seq(Objs) /\ corrupted' \in BOOLEAN
      /\ Len(children') <= Len(children)
      /\ p \in Nat /\ p - 1 <= Len(children')
      /\ \A j \in 1 .. p - 1 : children'[j] = children[j]
  BY <1>1, <1>2, <1>4, EraseLeaves DEF place
<1>6. /\ writes' \in Seq(WriteFunctions) /\ DOMAIN writes' = DOMAIN writes
      /\ \A i \in DOMAIN writes :
            writes'[i].op = "erase" /\ writes'[i].valid =>
              writes'[i] = writes[i] /\ ~ (writes[i].at >= p)
  BY <1>1, <1>3, <1>4, Invalidation
<1>7. wanted' \in Seq(Objs)
  BY <1>1, <1>3, FindsFirst, RemoveAtType
<1>8. TypeOK'
  <2>1. Len(children') <= capacity
    BY <1>1, <1>5
  <2> QED BY <1>1, <1>3, <1>5, <1>6, <1>7, <2>1 DEF TypeOK
<1>9. ASSUME NEW f, PointsToChild(f), ~ (f.at >= p)
      PROVE  PointsToChild(f)'
  <2>1. /\ f.child \in ToSet(children) /\ f.at = Find(children, f.child)
        /\ f.at \in 1 .. Len(children) /\ f.buffer = capacity
    BY <1>1, <1>9, PointsInside DEF PointsToChild
  <2>2. f.at <= Len(children') /\ \A j \in 1 .. f.at : children'[j] = children[j]
    <3>1. f.at <= p - 1 /\ Len(children') \in Nat
      BY <1>5, <1>9, <2>1
    <3> QED BY <1>5, <2>1, <3>1
  <2>3. f.child \in ToSet(children') /\ Find(children', f.child) = Find(children, f.child)
    BY <1>1, <1>5, <2>1, <2>2, FoundBefore
  <2> QED BY <1>3, <2>1, <2>3 DEF PointsToChild
<1>10. IteratorsPoint'
  <2>1. ASSUME NEW i \in DOMAIN writes, NEW f, f = writes'[i], f.op = "erase" /\ f.valid
        PROVE  PointsToChild(f)'
    <3>1. f = writes[i] /\ ~ (f.at >= p)
      BY <1>6, <2>1
    <3>2. PointsToChild(f)
      BY <2>1, <3>1 DEF ObjectInv, IteratorsPoint
    <3> QED BY <1>9, <3>1, <3>2
  <2>2. \A i \in DOMAIN writes' :
          writes'[i].op = "erase" /\ writes'[i].valid =>
            /\ writes'[i].buffer = capacity'
            /\ writes'[i].child \in ToSet(children')
            /\ writes'[i].at = Find(children', writes'[i].child)
    BY <1>6, <2>1 DEF PointsToChild
  <2> QED BY <1>3, <2>2 DEF IteratorsPoint, PointsToChild
\* A removal that is valid takes the child that is asked for.
<1>11. ChildrenAsWanted'
  <2> SUFFICES ASSUME ~overtaken, executing.valid
               PROVE  children' = wanted'
    BY <1>1, <1>3 DEF ChildrenAsWanted
  <2>1. children = wanted
    BY DEF ObjectInv, ChildrenAsWanted
  <2>2. executing # None /\ executing.op = "erase"
    BY DEF DoErase
  <2>3. PointsToChild(executing)
    BY <2>2 DEF ObjectInv, IteratorsPoint
  <2>4. Inside(executing) /\ c \in ToSet(wanted) /\ executing.at = Find(wanted, c)
    BY <1>1, <2>1, <2>3, PointsInside DEF PointsToChild, c
  <2>5. children' = RemoveAt(children, executing.at)
    BY <1>2, <2>4 DEF Erased
  <2> QED BY <1>3, <2>1, <2>4, <2>5
<1> QED BY <1>8, <1>10, <1>11 DEF ObjectInv

-------------------------------------------------------------------------------
(* The theorems *)

LEMMA ObjectStart == Init => ObjectInv
<1> SUFFICES ASSUME Init PROVE ObjectInv
  OBVIOUS
<1>1. /\ writes \in Seq(WriteFunctions) /\ children \in Seq(Objs) /\ wanted \in Seq(Objs)
      /\ capacity \in Nat /\ Len(children) <= capacity
  BY DEF Init, WriteInit
<1>2. corrupted \in BOOLEAN /\ overtaken \in BOOLEAN
  BY DEF Init
<1>3. holder \in Holders /\ executing = None
  BY DEF Init, WriteInit, Holders
<1>4. TypeOK
  BY <1>1, <1>2, <1>3 DEF TypeOK
<1>5. IteratorsPoint /\ ChildrenAsWanted
  BY DEF Init, WriteInit, IteratorsPoint, ChildrenAsWanted
<1> QED BY <1>4, <1>5 DEF ObjectInv

LEMMA ObjectStep == ObjectInv /\ [Next]_vars => ObjectInv'
<1> SUFFICES ASSUME ObjectInv, [Next]_vars
             PROVE  ObjectInv'
  OBVIOUS
<1>0. writes \in Seq(WriteFunctions) /\ holder \in Holders
  BY DEF ObjectInv, TypeOK
<1>1. CASE Calls
  BY <1>1, AddStep, RemoveStep DEF Calls
<1>2. ASSUME UNCHANGED <<writes, objectVars>>, holder' \in Holders
      PROVE  ObjectInv'
  BY <1>0, <1>2, Untouched DEF ObjectInv, IteratorsPoint
<1>3. CASE WriteJobStep
  <2>1. CASE Begin
    BY <1>2, <2>1 DEF Begin, WriteBegin, Holders
  <2>2. CASE End
    BY <1>2, <2>2 DEF End, WriteEnd, Holders
  <2> QED BY <1>3, <2>1, <2>2, TakeStep, DoAddStep, DoEraseStep DEF WriteJobStep
<1>4. CASE UNCHANGED vars
  BY <1>0, <1>2, <1>4 DEF vars, writeVars
<1> QED BY <1>1, <1>3, <1>4 DEF Next

LEMMA ObjectInvHolds == Spec => []ObjectInv
BY ObjectStart, ObjectStep, PTL DEF Spec

\* The queue holds only functions that add or erase, the vector never outgrows its
\* buffer (object.cpp:6-25).
THEOREM ObjectTyping == Spec => []TypeOK
<1>1. ObjectInv => TypeOK
  BY DEF ObjectInv
<1> QED BY <1>1, ObjectInvHolds, PTL

\* The object has the children it should have until a removal is executed whose
\* iterator is invalid: a valid one always names the child it was made for
\* (object.cpp:6-25, write_job.cpp:5-22).
THEOREM ChildrenKept == Spec => []ChildrenAsWanted
<1>1. ObjectInv => ChildrenAsWanted
  BY DEF ObjectInv
<1> QED BY <1>1, ObjectInvHolds, PTL

===============================================================================
