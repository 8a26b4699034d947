---------------------------- MODULE JobGraphProofs ----------------------------
(***************************************************************************)
(* Theorems about the forest of jobs, for any jobs, any number of threads  *)
(* and of calls, and any forest to begin with.                             *)
(***************************************************************************)
EXTENDS JobGraph, FiniteSetTheorems, SequenceTheorems, TLAPS

(* Lists *)

\* A job is in a list once at most.
IsOnce(list, j) ==
  \A i, k \in 1 .. Len(list) : list[i] = j /\ list[k] = j => i = k

LEMMA AppendEffect ==
  ASSUME NEW list \in Seq(Jobs), NEW j \in Jobs
  PROVE  /\ Append(list, j) \in Seq(Jobs)
         /\ ToSet(Append(list, j)) = ToSet(list) \cup {j}
         /\ \A k \in Jobs : IsOnce(list, k) /\ (k # j \/ k \notin ToSet(list))
                              => IsOnce(Append(list, j), k)
<1> DEFINE longer == Append(list, j)
<1>1. /\ longer \in Seq(Jobs) /\ Len(longer) = Len(list) + 1 /\ Len(list) \in Nat
      /\ longer[Len(list) + 1] = j /\ \A i \in 1 .. Len(list) : longer[i] = list[i]
  OBVIOUS
<1> HIDE DEF longer
<1>2. ToSet(longer) = ToSet(list) \cup {j}
  <2>1. ToSet(longer) = {longer[i] : i \in 1 .. Len(longer)} /\ ToSet(list) = {list[i] : i \in 1 .. Len(list)}
    BY <1>1 DEF ToSet
  <2>2. 1 .. Len(longer) = 1 .. Len(list) \cup {Len(list) + 1}
    BY <1>1
  <2> QED BY <1>1, <2>1, <2>2
<1>3. ASSUME NEW k \in Jobs, IsOnce(list, k), k # j \/ k \notin ToSet(list)
      PROVE  IsOnce(longer, k)
  <2>1. \A i \in 1 .. Len(list) : list[i] \in ToSet(list)
    BY DEF ToSet
  <2>2. \A i \in 1 .. Len(longer) : i \in 1 .. Len(list) \/ i = Len(list) + 1
    BY <1>1
  <2> QED BY <1>1, <1>3, <2>1, <2>2 DEF IsOnce
<1> QED BY <1>1, <1>2, <1>3 DEF longer

LEMMA FrontEffect ==
  ASSUME NEW list \in Seq(Jobs), list # <<>>
  PROVE  /\ Front(list) \in Seq(Jobs) /\ Len(Front(list)) = Len(list) - 1
         /\ \A i \in 1 .. Len(list) - 1 : Front(list)[i] = list[i]
<1> DEFINE n == Len(list) - 1
<1>1. /\ n \in Nat /\ 1 \in Int /\ n \in Int
      /\ \A i \in 1 .. n : list[i] \in Jobs
  OBVIOUS
<1>2. Front(list) = SubSeq(list, 1, n)
  BY DEF Front
<1> HIDE DEF n
<1>3. /\ SubSeq(list, 1, n) \in Seq(Jobs)
      /\ Len(SubSeq(list, 1, n)) = IF 1 <= n THEN n - 1 + 1 ELSE 0
      /\ \A i \in 1 .. n - 1 + 1 : SubSeq(list, 1, n)[i] = list[1 + i - 1]
  BY <1>1, SubSeqProperties
<1>4. /\ n - 1 + 1 = n /\ (~ (1 <= n) => n = 0)
      /\ \A i \in 1 .. n : 1 + i - 1 = i
  BY <1>1
<1> QED BY <1>2, <1>3, <1>4 DEF n

LEMMA EndsEffect ==
  ASSUME NEW list \in Seq(Jobs), list # <<>>
  PROVE  /\ Head(list) \in Jobs /\ Head(list) \in ToSet(list)
         /\ Last(list) \in Jobs /\ Last(list) \in ToSet(list)
         /\ Tail(list) \in Seq(Jobs) /\ ToSet(Tail(list)) \subseteq ToSet(list)
         /\ Front(list) \in Seq(Jobs) /\ ToSet(Front(list)) \subseteq ToSet(list)
<1>1. /\ Len(list) \in Nat /\ Len(list) # 0
      /\ \A i \in 1 .. Len(list) : list[i] \in Jobs
      /\ \A l \in Seq(Jobs) : ToSet(l) = {l[i] : i \in 1 .. Len(l)}
  BY DEF ToSet
<1>2. Head(list) = list[1] /\ Last(list) = list[Len(list)]
  BY DEF Last
<1>3. /\ Tail(list) \in Seq(Jobs) /\ Len(Tail(list)) = Len(list) - 1
      /\ \A i \in 1 .. Len(list) - 1 : Tail(list)[i] = list[i + 1]
  BY <1>1
<1>4. ToSet(Tail(list)) \subseteq ToSet(list)
  <2>1. \A i \in 1 .. Len(list) - 1 : i + 1 \in 1 .. Len(list)
    BY <1>1
  <2> DEFINE tail == Tail(list)
  <2> HIDE DEF tail
  <2>2. ToSet(tail) = {tail[i] : i \in 1 .. Len(list) - 1}
    BY <1>1, <1>3 DEF tail
  <2>3. \A i \in 1 .. Len(list) - 1 : tail[i] \in ToSet(list)
    BY <1>1, <1>3, <2>1 DEF tail
  <2> QED BY <2>2, <2>3 DEF tail
<1>5. ToSet(Front(list)) \subseteq ToSet(list)
  <2> DEFINE front == Front(list)
  <2>1. /\ front \in Seq(Jobs) /\ Len(front) = Len(list) - 1
        /\ \A i \in 1 .. Len(list) - 1 : front[i] = list[i]
    BY FrontEffect
  <2> HIDE DEF front
  <2>2. ToSet(front) = {front[i] : i \in 1 .. Len(list) - 1}
    BY <1>1, <2>1
  <2>3. \A i \in 1 .. Len(list) - 1 : i \in 1 .. Len(list)
    BY <1>1
  <2> QED BY <1>1, <2>1, <2>2, <2>3 DEF front
<1> QED BY <1>1, <1>2, <1>3, <1>4, <1>5, FrontEffect

\* Every nonempty set of natural numbers that a number bounds has a least element.
LEMMA HasLeast ==
  ASSUME NEW n \in Nat, NEW S \in SUBSET (0 .. n), S # {}
  PROVE  \E x \in S : \A y \in S : x <= y
<1> DEFINE Below(x) == {y \in S : y < x}
           Belows   == {Below(x) : x \in S}
<1>0. \A y \in S : y \in Nat
  OBVIOUS
<1>1. IsFiniteSet(S)
  <2>1. IsFiniteSet(0 .. n)
    <3>1. 0 \in Int /\ n \in Int
      OBVIOUS
    <3> QED BY <3>1, FS_Interval
  <2> QED BY <2>1, FS_Subset
<1>2. IsWellFoundedOn(StrictSubsetOrdering(S), SUBSET S)
  <2>1. FiniteSubsetsOf(S) = SUBSET S
    BY <1>1, FS_FiniteSubsetsOfFinite
  <2>2. IsWellFoundedOn(StrictSubsetOrdering(S), FiniteSubsetsOf(S))
    BY FS_StrictSubsetOrderingWellFounded
  <2> QED BY <2>1, <2>2
<1>3. Belows \subseteq SUBSET S /\ Belows # {}
  OBVIOUS
<1>4. \E b \in Belows : \A c \in Belows : <<c, b>> \notin StrictSubsetOrdering(S)
  <2> HIDE DEF Belows
  <2> QED BY <1>2, <1>3, WFMin
<1>5. PICK x \in S : \A y \in S : <<Below(y), Below(x)>> \notin StrictSubsetOrdering(S)
  BY <1>4
<1>6. ASSUME NEW y \in S, y < x
      PROVE  FALSE
  <2>1. Below(y) \subseteq Below(x) /\ y \in Below(x) /\ y \notin Below(y)
    <3>1. x \in Nat /\ y \in Nat
      BY <1>0
    <3>2. \A z \in S : z < y => z < x
      BY <1>0, <1>6, <3>1
    <3>3. ~(y < y)
      BY <3>1
    <3> QED BY <1>6, <3>2, <3>3
  <2> QED BY <1>5, <2>1 DEF StrictSubsetOrdering
<1>7. \A y \in S : x <= y
  BY <1>0, <1>6
<1> QED BY <1>7

LEMMA RemoveFirstEffect ==
  ASSUME NEW list \in Seq(Jobs), NEW j \in ToSet(list)
  PROVE  /\ RemoveFirst(list, j) \in Seq(Jobs)
         /\ ToSet(RemoveFirst(list, j)) \subseteq ToSet(list)
         /\ ToSet(list) \ {j} \subseteq ToSet(RemoveFirst(list, j))
         /\ \A k \in Jobs : IsOnce(list, k) => IsOnce(RemoveFirst(list, j), k)
         /\ IsOnce(list, j) => j \notin ToSet(RemoveFirst(list, j))
<1> DEFINE I == {i \in 1 .. Len(list) : list[i] = j}
<1>0. Len(list) \in Nat /\ \A i \in 1 .. Len(list) : list[i] \in Jobs
  OBVIOUS
<1>1. PICK p \in 1 .. Len(list) : /\ list[p] = j
                                  /\ RemoveFirst(list, j) = RemoveAt(list, p)
  <2>1. I # {} /\ I \subseteq 0 .. Len(list)
    BY DEF ToSet
  <2>2. \E x \in I : \A y \in I : x <= y
    <3> HIDE DEF I
    <3> QED BY <1>0, <2>1, HasLeast
  <2>3. Min(I) \in I
    <3> HIDE DEF I
    <3> QED BY <2>2 DEF Min
  <2>4. RemoveFirst(list, j) = RemoveAt(list, Min(I))
    BY <2>1 DEF RemoveFirst, SelectInSeq
  <2> QED BY <2>3, <2>4
<1> HIDE DEF I
<1> DEFINE front == SubSeq(list, 1, p - 1)
           back  == SubSeq(list, p + 1, Len(list))
           rest  == front \o back
<1>2. /\ front \in Seq(Jobs) /\ back \in Seq(Jobs)
      /\ Len(front) = p - 1 /\ Len(back) = Len(list) - p
      /\ \A i \in 1 .. p - 1 : front[i] = list[i]
      /\ \A i \in 1 .. Len(list) - p : back[i] = list[i + p]
  BY <1>0
<1> HIDE DEF front, back
<1>3. /\ rest \in Seq(Jobs) /\ Len(rest) = Len(list) - 1
      /\ \A i \in 1 .. p - 1 : rest[i] = list[i]
      /\ \A i \in p .. Len(list) - 1 : rest[i] = list[i + 1]
  <2>1. /\ rest \in Seq(Jobs) /\ Len(rest) = Len(front) + Len(back)
        /\ \A i \in 1 .. Len(front) + Len(back) :
             rest[i] = IF i <= Len(front) THEN front[i] ELSE back[i - Len(front)]
    BY <1>2, ConcatProperties
  <2> HIDE DEF rest
  <2>2. Len(front) + Len(back) = Len(list) - 1
    BY <1>0, <1>2
  <2>3. ASSUME NEW i \in 1 .. p - 1
        PROVE  rest[i] = list[i]
    <3>1. i \in 1 .. Len(front) + Len(back) /\ i <= Len(front)
      BY <1>0, <1>2
    <3> QED BY <1>2, <2>1, <3>1
  <2>4. ASSUME NEW i \in p .. Len(list) - 1
        PROVE  rest[i] = list[i + 1]
    <3>1. /\ i \in 1 .. Len(front) + Len(back) /\ ~(i <= Len(front))
          /\ i - Len(front) \in 1 .. Len(list) - p /\ i - Len(front) + p = i + 1
      BY <1>0, <1>2
    <3> QED BY <1>2, <2>1, <3>1
  <2> QED BY <2>1, <2>2, <2>3, <2>4
<1>4. RemoveFirst(list, j) = rest
  BY <1>1 DEF RemoveAt, front, back
<1> HIDE DEF rest
<1> DEFINE Old(i) == IF i < p THEN i ELSE i + 1
<1>5. /\ \A i \in 1 .. Len(rest) : Old(i) \in 1 .. Len(list) /\ Old(i) # p /\ rest[i] = list[Old(i)]
      /\ \A i, k \in 1 .. Len(rest) : Old(i) = Old(k) => i = k
      /\ \A m \in 1 .. Len(list) : m # p => \E i \in 1 .. Len(rest) : Old(i) = m
  <2>1. ASSUME NEW i \in 1 .. Len(rest)
        PROVE  Old(i) \in 1 .. Len(list) /\ Old(i) # p /\ rest[i] = list[Old(i)]
    BY <1>0, <1>3
  <2>2. \A i, k \in 1 .. Len(rest) : Old(i) = Old(k) => i = k
    BY <1>0, <1>3
  <2>3. ASSUME NEW m \in 1 .. Len(list), m # p
        PROVE  \E i \in 1 .. Len(rest) : Old(i) = m
    <3>1. CASE m < p
      <4>1. m \in 1 .. Len(rest) /\ Old(m) = m
        BY <1>0, <1>3, <3>1
      <4> QED BY <4>1
    <3>2. CASE ~(m < p)
      <4>1. m - 1 \in 1 .. Len(rest) /\ Old(m - 1) = m
        BY <1>0, <1>3, <2>3, <3>2
      <4> QED BY <4>1
    <3> QED BY <3>1, <3>2
  <2> QED BY <2>1, <2>2, <2>3
<1> HIDE DEF Old
<1>6. /\ ToSet(rest) = {rest[i] : i \in 1 .. Len(rest)}
      /\ ToSet(list) = {list[i] : i \in 1 .. Len(list)}
  BY <1>3 DEF ToSet
<1>7. ToSet(rest) \subseteq ToSet(list)
  BY <1>5, <1>6
<1>8. ASSUME NEW k \in ToSet(list), k # j
      PROVE  k \in ToSet(rest)
  <2>1. PICK m \in 1 .. Len(list) : list[m] = k
    BY <1>6
  <2>2. PICK i \in 1 .. Len(rest) : Old(i) = m
    BY <1>1, <1>5, <1>8, <2>1
  <2> QED BY <1>5, <1>6, <2>1, <2>2
<1>9. ASSUME NEW k \in Jobs, IsOnce(list, k)
      PROVE  IsOnce(rest, k)
  BY <1>5, <1>9 DEF IsOnce
<1>10. ASSUME IsOnce(list, j)
       PROVE  j \notin ToSet(rest)
  BY <1>1, <1>5, <1>6, <1>10 DEF IsOnce
<1> QED BY <1>3, <1>4, <1>7, <1>8, <1>9, <1>10

\* The recursion of Without has a value: of the prefixes of the list without one,
\* the shortest is not empty, and the value of the prefix before it can be continued.
LEMMA WithoutIsDefined ==
  ASSUME NEW list \in Seq(Jobs), NEW j
  PROVE  \E W : /\ Without(list, j) = W[Len(list)]
                /\ W[0] = <<>>
                /\ \A k \in 1 .. Len(list) :
                     W[k] = IF list[k] = j THEN W[k - 1] ELSE Append(W[k - 1], list[k])
<1> DEFINE Continued(w, k) == IF k = 0 THEN <<>>
                              ELSE IF list[k] = j THEN w[k - 1] ELSE Append(w[k - 1], list[k])
           Good(w, n) == w = [k \in 0 .. n |-> Continued(w, k)]
           Bad == {n \in 0 .. Len(list) : \A w : ~Good(w, n)}
<1>0. Len(list) \in Nat
  OBVIOUS
<1>1. Bad = {}
  <2> SUFFICES ASSUME Bad # {}
               PROVE  FALSE
    OBVIOUS
  <2>1. PICK n \in Bad : \A m \in Bad : n <= m
    <3>1. Bad \in SUBSET (0 .. Len(list))
      OBVIOUS
    <3> HIDE DEF Bad
    <3> QED BY <1>0, <3>1, HasLeast
  <2>2. n \in 0 .. Len(list) /\ \A w : ~Good(w, n)
    BY <2>1
  <2>3. CASE n = 0
    <3> DEFINE w == [k \in 0 .. 0 |-> <<>>]
    <3>1. \A k \in 0 .. 0 : k = 0
      OBVIOUS
    <3>2. Good(w, 0)
      BY <3>1
    <3> HIDE DEF Good
    <3> QED BY <2>2, <2>3, <3>2
  <2>4. CASE n # 0
    <3>1. n - 1 \in 0 .. Len(list) /\ n \in 1 .. Len(list) /\ n - 1 \notin Bad
      <4>1. n - 1 \in 0 .. Len(list) /\ n \in 1 .. Len(list) /\ ~(n <= n - 1)
        BY <1>0, <2>2, <2>4
      <4> HIDE DEF Bad
      <4> QED BY <2>1, <4>1
    <3>2. PICK v : Good(v, n - 1)
      <4> HIDE DEF Good
      <4> QED BY <3>1 DEF Bad
    <3> DEFINE w == [k \in 0 .. n |-> IF k = n THEN Continued(v, n) ELSE v[k]]
    <3>3. ASSUME NEW k \in 0 .. n
          PROVE  w[k] = Continued(w, k)
      <4>1. CASE k = n
        <5>1. w[n] = Continued(v, n) /\ w[n - 1] = v[n - 1] /\ n # 0
          BY <1>0, <3>1
        <5> HIDE DEF w
        <5> QED BY <4>1, <5>1
      <4>2. CASE k # n
        <5>1. k \in 0 .. n - 1 /\ (k # 0 => k - 1 \in 0 .. n /\ k - 1 # n)
          BY <1>0, <2>2, <4>2
        <5>2. v[k] = Continued(v, k)
          <6>1. v = [i \in 0 .. n - 1 |-> Continued(v, i)]
            BY <3>2
          <6> HIDE DEF Continued
          <6> QED BY <5>1, <6>1
        <5>3. w[k] = v[k] /\ (k # 0 => w[k - 1] = v[k - 1])
          BY <4>2, <5>1
        <5> HIDE DEF w
        <5> QED BY <5>2, <5>3
      <4> QED BY <4>1, <4>2
    <3>4. Good(w, n)
      <4>1. w = [k \in 0 .. n |-> w[k]]
        OBVIOUS
      <4> HIDE DEF w, Continued
      <4> QED BY <3>3, <4>1
    <3> HIDE DEF Good, w
    <3> QED BY <2>2, <3>4
  <2> QED BY <2>3, <2>4
<1>2. \E w : Good(w, Len(list))
  <2>1. Len(list) \in 0 .. Len(list) /\ Len(list) \notin Bad
    <3> HIDE DEF Bad
    <3> QED BY <1>0, <1>1
  <2> HIDE DEF Good
  <2> QED BY <2>1 DEF Bad
<1> DEFINE W == CHOOSE w : Good(w, Len(list))
<1>3. Good(W, Len(list))
  <2> HIDE DEF Good
  <2> QED BY <1>2
<1>4. Without(list, j) = W[Len(list)]
  BY DEF Without
<1>5. \A k \in 0 .. Len(list) : W[k] = Continued(W, k)
  <2>1. W = [k \in 0 .. Len(list) |-> Continued(W, k)]
    BY <1>3
  <2> HIDE DEF W, Continued
  <2>2. \A f : W = f => \A k : W[k] = f[k]
    OBVIOUS
  <2> QED BY <2>1
<1> HIDE DEF W
<1>6. W[0] = <<>>
  <2>1. 0 \in 0 .. Len(list)
    BY <1>0
  <2> QED BY <1>5, <2>1
<1>7. \A k \in 1 .. Len(list) :
        W[k] = IF list[k] = j THEN W[k - 1] ELSE Append(W[k - 1], list[k])
  <2>1. \A k \in 1 .. Len(list) : k \in 0 .. Len(list) /\ k # 0
    BY <1>0
  <2> QED BY <1>5, <2>1
<1> QED BY <1>4, <1>6, <1>7

\* What std::erase leaves.
LEMMA WithoutEffect ==
  ASSUME NEW list \in Seq(Jobs), NEW j \in Jobs
  PROVE  /\ Without(list, j) \in Seq(Jobs)
         /\ ToSet(Without(list, j)) = ToSet(list) \ {j}
         /\ \A k \in Jobs : IsOnce(list, k) => IsOnce(Without(list, j), k)
<1>0. Len(list) \in Nat /\ \A k \in 1 .. Len(list) : list[k] \in Jobs
  OBVIOUS
<1>1. PICK W : /\ Without(list, j) = W[Len(list)]
               /\ W[0] = <<>>
               /\ \A k \in 1 .. Len(list) :
                    W[k] = IF list[k] = j THEN W[k - 1] ELSE Append(W[k - 1], list[k])
  BY WithoutIsDefined
<1> DEFINE Good(n) ==
      /\ W[n] \in Seq(Jobs)
      /\ ToSet(W[n]) = {list[i] : i \in 1 .. n} \ {j}
      /\ \A k \in Jobs : IsOnce(list, k) => IsOnce(W[n], k)
           Bad == {n \in 0 .. Len(list) : ~Good(n)}
<1>2. Good(0)
  <2>1. <<>> \in Seq(Jobs) /\ ToSet(<<>>) = {} /\ Len(<<>>) = 0 /\ 1 .. 0 = {}
    BY DEF ToSet
  <2> QED BY <1>1, <2>1 DEF IsOnce
<1>3. ASSUME NEW n \in 1 .. Len(list), Good(n - 1)
      PROVE  Good(n)
  <2>1. list[n] \in Jobs /\ {list[i] : i \in 1 .. n} = {list[i] : i \in 1 .. n - 1} \cup {list[n]}
    <3>1. 1 .. n = (1 .. n - 1) \cup {n}
      BY <1>0
    <3> QED BY <1>0, <3>1
  <2>2. CASE list[n] = j
    <3>1. W[n] = W[n - 1]
      BY <1>1, <2>2
    <3> QED BY <1>3, <2>1, <2>2, <3>1
  <2>3. CASE list[n] # j
    <3>1. W[n] = Append(W[n - 1], list[n])
      BY <1>1, <2>3
    <3>2. /\ W[n] \in Seq(Jobs) /\ ToSet(W[n]) = ToSet(W[n - 1]) \cup {list[n]}
          /\ \A k \in Jobs : IsOnce(W[n - 1], k) /\ (k # list[n] \/ k \notin ToSet(W[n - 1]))
                               => IsOnce(W[n], k)
      <4> HIDE DEF IsOnce
      <4> QED BY <1>3, <2>1, <3>1, AppendEffect
    <3>3. ASSUME NEW k \in Jobs, IsOnce(list, k), k = list[n]
          PROVE  k \notin ToSet(W[n - 1])
      <4>1. \A i \in 1 .. n - 1 : i \in 1 .. Len(list) /\ i # n
        BY <1>0
      <4>2. \A i \in 1 .. n - 1 : list[i] # k
        BY <3>3, <4>1 DEF IsOnce
      <4> QED BY <1>3, <4>2
    <3> QED BY <1>3, <2>1, <2>3, <3>2, <3>3
  <2> QED BY <2>2, <2>3
<1>4. Bad = {}
  <2> SUFFICES ASSUME Bad # {}
               PROVE  FALSE
    OBVIOUS
  <2>1. Bad \in SUBSET (0 .. Len(list)) /\ \A m \in Bad : m \in 0 .. Len(list) /\ ~Good(m)
    OBVIOUS
  <2>2. \A m \in 0 .. Len(list) : m \notin Bad => Good(m)
    OBVIOUS
  <2> HIDE DEF Bad, Good
  <2>3. PICK n \in Bad : \A m \in Bad : n <= m
    BY <1>0, <2>1, HasLeast
  <2>4. n # 0
    BY <1>2, <2>1
  <2>5. n \in 1 .. Len(list) /\ n - 1 \in 0 .. Len(list) /\ ~(n <= n - 1)
    BY <1>0, <2>1, <2>4
  <2> QED BY <1>3, <2>1, <2>2, <2>3, <2>5
<1>5. Good(Len(list))
  <2>1. Len(list) \in 0 .. Len(list)
    BY <1>0
  <2> HIDE DEF Good
  <2> QED BY <1>4, <2>1 DEF Bad
<1>6. ToSet(list) = {list[i] : i \in 1 .. Len(list)}
  BY DEF ToSet
<1> QED BY <1>1, <1>5, <1>6

-------------------------------------------------------------------------------
(* What the lists lead to *)

LEMMA ReachIsClosed ==
  ASSUME NEW S, NEW n \in Reach(S), lists \in [Nodes -> Seq(Jobs)]
  PROVE  ToSet(lists[n]) \subseteq Reach(S)
<1>1. n \in Nodes
  BY DEF Reach
<1>2. ToSet(lists[n]) \subseteq Nodes
  BY <1>1 DEF ToSet, Nodes
<1> QED BY <1>1, <1>2 DEF Reach

LEMMA ReachStarts ==
  ASSUME NEW S, S \subseteq Nodes
  PROVE  S \subseteq Reach(S) /\ Reach(S) \subseteq Nodes
BY DEF Reach

\* What the roots lead to is not destroyed.
LEMMA ReachedIsAlive == Reach({Top}) \subseteq Alive
BY DEF Reach, Alive

\* Lists that only grow lead to what they led to.
LEMMA ReachGrows ==
  ASSUME lists \in [Nodes -> Seq(Jobs)],
         \A n \in Nodes : ToSet(lists[n]) \subseteq ToSet(lists'[n])
  PROVE  Reach({Top}) \subseteq Reach({Top})'
BY DEF Reach

LEMMA ReachStays ==
  ASSUME UNCHANGED lists
  PROVE  Reach({Top})' = Reach({Top}) /\ Attached' = Attached
BY DEF Reach, Attached

LEMMA AttachedIsBounded ==
  /\ Attached \subseteq Jobs
  /\ Cardinality(Attached) \in 0 .. Cardinality(Jobs)
<1>1. Attached \subseteq Jobs
  BY DEF Attached, Reach, Nodes
<1>2. IsFiniteSet(Jobs)
  BY JobGraphAssumption DEF JobGraphAssumption
<1>3. /\ IsFiniteSet(Attached) /\ Cardinality(Attached) <= Cardinality(Jobs)
      /\ Cardinality(Attached) \in Nat /\ Cardinality(Jobs) \in Nat
  BY <1>1, <1>2, FS_Subset, FS_CardinalityType
<1> QED BY <1>1, <1>3

-------------------------------------------------------------------------------
(* Types *)

Points == {"idle"} \cup Counting \cup Changing

\* The values of the variables of the forest, of the calls and of the counts.
ForestTyped ==
  /\ proc \in {"runs", "crashed", "terminated"}
  /\ lists \in [Nodes -> Seq(Jobs)]
  /\ parent \in [Jobs -> Jobs \cup {None}]
  /\ holder \in [Nodes -> Threads \cup {None}]
  /\ clean \in [Jobs -> BOOLEAN]

CallsTyped ==
  /\ at \in [Threads -> Points]
  /\ job \in [Threads -> Jobs \cup {None}]
  /\ node \in [Threads -> Nodes \cup {None}]
  /\ args \in [Threads -> SUBSET Jobs]
  /\ calls \in 0 .. MaxCalls

CountsTyped ==
  /\ sub \in [Threads -> Seq(Jobs)] /\ todo \in [Threads -> Seq(Jobs)]
  /\ total \in [Threads -> 0 .. MaxCount]
  /\ from \in [Threads -> 0 .. Cardinality(Jobs)]
  /\ grown \in [Threads -> BOOLEAN] /\ shrunk \in [Threads -> BOOLEAN]
  /\ torn \in [Threads -> BOOLEAN]

ValuesTyped == ForestTyped /\ CallsTyped /\ CountsTyped

\* What a thread has in hand at its place: a call about a job, a list that is that of
\* a job, the mutex of the list.
PlaceTyped(t) ==
  /\ at[t] \in Changing <=> job[t] # None
  /\ at[t] \in {"adopt", "reread", "orphan", "drop", "dropping"} => node[t] \in Jobs
  /\ at[t] \in {"add", "adding", "expand", "read"} => node[t] \in Nodes
  /\ at[t] \in {"adding", "dropping", "read"} => holder[node[t]] = t

Typed == ValuesTyped /\ \A t \in Threads : PlaceTyped(t)

LEMMA Names ==
  /\ Top \notin Jobs /\ None \notin Jobs /\ None # Top /\ None \notin Threads
  /\ Nodes = Jobs \cup {Top} /\ Owned \subseteq Jobs /\ Arbiter \in Threads
  /\ MaxCalls \in Nat /\ MaxCount \in Nat /\ Cardinality(Jobs) \in Nat
<1>1. Cardinality(Jobs) \in Nat
  BY JobGraphAssumption, FS_CardinalityType DEF JobGraphAssumption
<1> QED BY <1>1, JobGraphAssumption DEF JobGraphAssumption, Nodes

LEMMA TypedIsTypeOK == Typed => TypeOK
<1> SUFFICES ASSUME Typed
             PROVE  TypeOK
  OBVIOUS
<1>1. ASSUME NEW t \in Threads
      PROVE  /\ job[t] \in IF at[t] \in Changing THEN Jobs ELSE {None}
             /\ node[t] \in IF at[t] \in {"adopt", "reread", "orphan", "drop"}
                            THEN Jobs ELSE Nodes \cup {None}
             /\ args[t] \subseteq Jobs /\ ToSet(sub[t]) \cup ToSet(todo[t]) \subseteq Jobs
             /\ total[t] \in 0 .. MaxCount /\ from[t] \in 0 .. Cardinality(Jobs)
             /\ at[t] \in {"adding", "dropping", "read"} =>
                  node[t] \in Nodes /\ holder[node[t]] = t
  <2>1. PlaceTyped(t) /\ job[t] \in Jobs \cup {None} /\ node[t] \in Nodes \cup {None}
    BY DEF Typed, ValuesTyped, ForestTyped, CallsTyped, CountsTyped
  <2>2. /\ args[t] \subseteq Jobs /\ sub[t] \in Seq(Jobs) /\ todo[t] \in Seq(Jobs)
        /\ total[t] \in 0 .. MaxCount /\ from[t] \in 0 .. Cardinality(Jobs)
    BY DEF Typed, ValuesTyped, ForestTyped, CallsTyped, CountsTyped
  <2>3. ToSet(sub[t]) \subseteq Jobs /\ ToSet(todo[t]) \subseteq Jobs
    BY <2>2 DEF ToSet
  <2> QED BY <2>1, <2>2, <2>3, Names DEF PlaceTyped
<1>2. /\ proc \in {"runs", "crashed", "terminated"}
      /\ \A n \in Nodes : lists[n] \in Seq(Jobs)
      /\ parent \in [Jobs -> Jobs \cup {None}]
      /\ holder \in [Nodes -> Threads \cup {None}]
      /\ at \in [Threads -> {"idle"} \cup Counting \cup Changing]
      /\ calls \in 0 .. MaxCalls
      /\ clean \in [Jobs -> BOOLEAN]
      /\ {grown, shrunk, torn} \subseteq [Threads -> BOOLEAN]
  BY DEF Typed, ValuesTyped, ForestTyped, CallsTyped, CountsTyped, Points
<1> QED BY <1>1, <1>2 DEF TypeOK

LEMMA TypedStart == Init => Typed
<1> SUFFICES ASSUME Init
             PROVE  Typed
  OBVIOUS
<1>1. parent \in [Jobs -> Jobs \cup {None}]
  <2>1. ASSUME NEW j \in Jobs, \E n \in Jobs : j \in ToSet(lists[n])
        PROVE  (CHOOSE n \in Jobs : j \in ToSet(lists[n])) \in Jobs
    BY <2>1
  <2> QED BY <2>1 DEF Init
<1>2. ValuesTyped
  BY <1>1, Names, JobGraphAssumption
     DEF Init, ValuesTyped, ForestTyped, CallsTyped, CountsTyped, Points, JobGraphAssumption
<1>3. \A t \in Threads : PlaceTyped(t)
  BY DEF Init, PlaceTyped, Changing
<1> QED BY <1>2, <1>3 DEF Typed

\* What a step of thread t leaves to the other threads.
Alone(t) ==
  \A u \in Threads \ {t} :
    /\ at'[u] = at[u] /\ job'[u] = job[u] /\ node'[u] = node[u]
    /\ sub'[u] = sub[u] /\ todo'[u] = todo[u]
    /\ \A n \in Nodes : holder[n] = u => holder'[n] = u

\* The steps of a thread.
Acts(t) ==
  \/ \E j \in Jobs, n \in Nodes : Schedules(t, n, j) \/ ErasesFrom(t, n, j)
  \/ \E j \in Jobs : Erases(t, j)
  \/ Counts(t)
  \/ Continues(t)

LEMMA ActsAlone ==
  ASSUME Typed, NEW t \in Threads, Acts(t)
  PROVE  Alone(t)
<1>0. ForestTyped /\ CallsTyped /\ CountsTyped /\ PlaceTyped(t)
  BY DEF Typed, ValuesTyped
<1>1. ASSUME NEW j \in Jobs, NEW n \in Nodes, Schedules(t, n, j)
      PROVE  Alone(t)
  BY <1>0, <1>1, Names DEF Schedules, Begins, graph, counter, Alone, CallsTyped, CountsTyped
<1>2. ASSUME NEW j \in Jobs, NEW n \in Nodes, ErasesFrom(t, n, j)
      PROVE  Alone(t)
  BY <1>0, <1>2, Names DEF ErasesFrom, Begins, graph, counter, Alone, CallsTyped,
                           CountsTyped
<1>3. ASSUME NEW j \in Jobs, Erases(t, j)
      PROVE  Alone(t)
  BY <1>0, <1>3, Names DEF Erases, Begins, graph, counter, Alone, CallsTyped, CountsTyped
<1>4. CASE Counts(t)
  BY <1>0, <1>4, Names DEF Counts, Begins, graph, counter, Alone, CallsTyped, CountsTyped
<1>5. CASE Adopts(t)
  BY <1>0, <1>5, Names DEF Adopts, Goes, graph, counter, Alone, CallsTyped, CountsTyped
<1>6. CASE Adds(t)
  BY <1>0, <1>6, Names DEF Adds, Goes, graph, counter, Alone, PlaceTyped, ForestTyped,
                           CallsTyped, CountsTyped
<1>7. CASE Added(t)
  BY <1>0, <1>7, Names DEF Added, Returns, graph, counter, Alone, PlaceTyped, ForestTyped,
                           CallsTyped, CountsTyped
<1>8. CASE Rereads(t)
  BY <1>0, <1>8, Names DEF Rereads, Goes, graph, counter, Alone, CallsTyped, CountsTyped
<1>9. CASE Orphans(t)
  BY <1>0, <1>9, Names DEF Orphans, Goes, graph, counter, Alone, CallsTyped, CountsTyped
<1>10. CASE Drops(t)
  BY <1>0, <1>10, Names DEF Drops, Goes, graph, counter, Alone, PlaceTyped, ForestTyped,
                            CallsTyped, CountsTyped
<1>11. CASE Dropped(t)
  BY <1>0, <1>11, Names DEF Dropped, Returns, Shrinks, graph, counter, Alone, PlaceTyped,
                            ForestTyped, CallsTyped, CountsTyped
<1>12. CASE Unroots(t)
  BY <1>0, <1>12, Names DEF Unroots, Returns, Shrinks, graph, counter, Alone, CallsTyped,
                            CountsTyped
<1>13. CASE FindsNot(t)
  BY <1>0, <1>13, Names DEF FindsNot, Returns, graph, counter, Alone, CallsTyped,
                            CountsTyped
<1>14. CASE Expands(t)
  BY <1>0, <1>14, Names DEF Expands, Goes, graph, counter, Alone, PlaceTyped, ForestTyped,
                            CallsTyped, CountsTyped
<1>15. CASE Reads(t)
  BY <1>0, <1>15, Names DEF Reads, Goes, graph, counter, Alone, CallsTyped, CountsTyped
<1>16. CASE ReadAll(t)
  BY <1>0, <1>16, Names DEF ReadAll, Goes, graph, counter, Alone, PlaceTyped, ForestTyped,
                            CallsTyped, CountsTyped
<1>17. CASE Counted(t)
  BY <1>0, <1>17, Names DEF Counted, Returns, graph, counter, Alone, CallsTyped, CountsTyped
<1>18. CASE Crashes(t)
  BY <1>0, <1>18, Names DEF Crashes, graph, counter, Alone, CallsTyped, CountsTyped
<1> QED BY <1>1, <1>2, <1>3, <1>4, <1>5, <1>6, <1>7, <1>8, <1>9, <1>10, <1>11, <1>12,
           <1>13, <1>14, <1>15, <1>16, <1>17, <1>18 DEF Acts, Continues

LEMMA OwnPlaceTyped ==
  ASSUME Typed, NEW t \in Threads, Acts(t)
  PROVE  PlaceTyped(t)'
<1>0. ForestTyped /\ CallsTyped /\ CountsTyped /\ PlaceTyped(t)
  BY DEF Typed, ValuesTyped
<1>1. ASSUME NEW j \in Jobs, NEW n \in Nodes, Schedules(t, n, j)
      PROVE  PlaceTyped(t)'
  BY <1>0, <1>1, Names DEF Schedules, Begins, graph, counter, PlaceTyped, CallsTyped,
                           Changing
<1>2. ASSUME NEW j \in Jobs, NEW n \in Nodes, ErasesFrom(t, n, j)
      PROVE  PlaceTyped(t)'
  BY <1>0, <1>2, Names DEF ErasesFrom, Begins, graph, counter, PlaceTyped, CallsTyped,
                           ForestTyped, Changing
<1>3. ASSUME NEW j \in Jobs, Erases(t, j)
      PROVE  PlaceTyped(t)'
  BY <1>0, <1>3, Names DEF Erases, Begins, graph, counter, PlaceTyped, CallsTyped,
                           ForestTyped, Changing
<1>4. CASE Counts(t)
  BY <1>0, <1>4, Names DEF Counts, Begins, graph, counter, PlaceTyped, CallsTyped, Changing
<1>5. CASE Adopts(t)
  BY <1>0, <1>5, Names DEF Adopts, Goes, graph, counter, PlaceTyped, CallsTyped, Changing
<1>6. CASE Adds(t)
  BY <1>0, <1>6, Names DEF Adds, Goes, graph, counter, PlaceTyped, CallsTyped, ForestTyped,
                           Changing
<1>7. CASE Added(t)
  BY <1>0, <1>7, Names DEF Added, Returns, graph, counter, PlaceTyped, CallsTyped,
                           ForestTyped, Changing
<1>8. CASE Rereads(t)
  BY <1>0, <1>8, Names DEF Rereads, Goes, graph, counter, PlaceTyped, CallsTyped,
                           ForestTyped, Changing
<1>9. CASE Orphans(t)
  BY <1>0, <1>9, Names DEF Orphans, Goes, graph, counter, PlaceTyped, CallsTyped, Changing
<1>10. CASE Drops(t)
  BY <1>0, <1>10, Names DEF Drops, Goes, graph, counter, PlaceTyped, CallsTyped,
                            ForestTyped, Changing
<1>11. CASE Dropped(t)
  BY <1>0, <1>11, Names DEF Dropped, Returns, Shrinks, graph, counter, PlaceTyped,
                            CallsTyped, ForestTyped, Changing
<1>12. CASE Unroots(t)
  BY <1>0, <1>12, Names DEF Unroots, Returns, Shrinks, graph, counter, PlaceTyped,
                            CallsTyped, Changing
<1>13. CASE FindsNot(t)
  BY <1>0, <1>13, Names DEF FindsNot, Returns, graph, counter, PlaceTyped, CallsTyped,
                            Changing
<1>14. CASE Expands(t)
  BY <1>0, <1>14, Names DEF Expands, Goes, graph, counter, PlaceTyped, CallsTyped,
                            ForestTyped, Changing
<1>15. CASE Reads(t)
  BY <1>0, <1>15, Names DEF Reads, Goes, graph, counter, PlaceTyped, CallsTyped, Changing
<1>16. CASE ReadAll(t)
  <2>1. sub[t] # <<>> => Last(sub[t]) \in Nodes
    BY <1>0, EndsEffect DEF ValuesTyped, ForestTyped, CallsTyped, CountsTyped, Nodes
  <2> QED BY <1>0, <1>16, <2>1, Names DEF ReadAll, Goes, graph, counter, PlaceTyped,
                                          CallsTyped, ForestTyped, CountsTyped, Changing
<1>17. CASE Counted(t)
  BY <1>0, <1>17, Names DEF Counted, Returns, graph, counter, PlaceTyped, CallsTyped,
                            Changing
<1>18. CASE Crashes(t)
  BY <1>0, <1>18, Names DEF Crashes, graph, counter, PlaceTyped, CallsTyped, Changing
<1> QED BY <1>1, <1>2, <1>3, <1>4, <1>5, <1>6, <1>7, <1>8, <1>9, <1>10, <1>11, <1>12,
           <1>13, <1>14, <1>15, <1>16, <1>17, <1>18 DEF Acts, Continues

LEMMA ValuesTypedStep ==
  ASSUME Typed, NEW t \in Threads, Acts(t)
  PROVE  ValuesTyped'
<1>0. /\ ForestTyped /\ CallsTyped /\ CountsTyped /\ PlaceTyped(t)
      /\ at[t] \in Changing => job[t] \in Jobs
  BY Names DEF Typed, ValuesTyped, CallsTyped, PlaceTyped
<1>1. ASSUME NEW j \in Jobs, NEW n \in Nodes, Schedules(t, n, j)
      PROVE  ValuesTyped'
  <2>1. ForestTyped'
    BY <1>0, <1>1, Names DEF Schedules, Begins, graph, ForestTyped, CallsTyped
  <2>2. CallsTyped'
    BY <1>0, <1>1, Names DEF Schedules, Begins, CallsTyped, Points, Changing, Counting
  <2>3. CountsTyped'
    BY <1>0, <1>1, Names DEF Schedules, Begins, counter, tally, CountsTyped
  <2> QED BY <2>1, <2>2, <2>3 DEF ValuesTyped
<1>2. ASSUME NEW j \in Jobs, NEW n \in Nodes, ErasesFrom(t, n, j)
      PROVE  ValuesTyped'
  <2>1. ForestTyped'
    BY <1>0, <1>2, Names DEF ErasesFrom, Begins, graph, ForestTyped, CallsTyped
  <2>2. CallsTyped'
    BY <1>0, <1>2, Names DEF ErasesFrom, Begins, CallsTyped, Points, Changing, Counting
  <2>3. CountsTyped'
    BY <1>0, <1>2, Names DEF ErasesFrom, Begins, counter, tally, CountsTyped
  <2> QED BY <2>1, <2>2, <2>3 DEF ValuesTyped
<1>3. ASSUME NEW j \in Jobs, Erases(t, j)
      PROVE  ValuesTyped'
  <2>1. ForestTyped'
    BY <1>0, <1>3, Names DEF Erases, Begins, graph, ForestTyped, CallsTyped
  <2>2. CallsTyped'
    BY <1>0, <1>3, Names DEF Erases, Begins, CallsTyped, ForestTyped, Points, Changing,
                             Counting
  <2>3. CountsTyped'
    BY <1>0, <1>3, Names DEF Erases, Begins, counter, tally, CountsTyped
  <2> QED BY <2>1, <2>2, <2>3 DEF ValuesTyped
<1>4. CASE Counts(t)
  <2>4. Cardinality(Attached) \in 0 .. Cardinality(Jobs)
    BY AttachedIsBounded
  <2>1. ForestTyped'
    BY <1>0, <1>4, Names DEF Counts, Begins, graph, ForestTyped, CallsTyped
  <2>2. CallsTyped'
    BY <1>0, <1>4, Names DEF Counts, Begins, CallsTyped, Points, Changing, Counting
  <2>3. CountsTyped'
    BY <1>0, <1>4, <2>4, Names DEF Counts, Begins, counter, tally, CountsTyped
  <2> QED BY <2>1, <2>2, <2>3 DEF ValuesTyped
<1>5. CASE Adopts(t)
  <2>1. ForestTyped'
    BY <1>0, <1>5, Names DEF Adopts, Goes, graph, ForestTyped, CallsTyped, PlaceTyped
  <2>2. CallsTyped'
    BY <1>0, <1>5, Names DEF Adopts, Goes, CallsTyped, Points, Changing, Counting
  <2>3. CountsTyped'
    BY <1>0, <1>5, Names DEF Adopts, Goes, counter, tally, CountsTyped
  <2> QED BY <2>1, <2>2, <2>3 DEF ValuesTyped
<1>6. CASE Adds(t)
  <2>1. ForestTyped'
    BY <1>0, <1>6, Names DEF Adds, Goes, graph, ForestTyped, CallsTyped, PlaceTyped
  <2>2. CallsTyped'
    BY <1>0, <1>6, Names DEF Adds, Goes, CallsTyped, Points, Changing, Counting
  <2>3. CountsTyped'
    BY <1>0, <1>6, Names DEF Adds, Goes, counter, tally, CountsTyped
  <2> QED BY <2>1, <2>2, <2>3 DEF ValuesTyped
<1>7. CASE Added(t)
  <2>4. node[t] \in Nodes /\ job[t] \in Jobs /\ lists[node[t]] \in Seq(Jobs)
    BY <1>0, <1>7 DEF Added, PlaceTyped, ForestTyped, Changing
  <2>5. Append(lists[node[t]], job[t]) \in Seq(Jobs)
    BY <2>4, AppendEffect
  <2>1. ForestTyped'
    BY <1>0, <1>7, <2>4, <2>5, Names DEF Added, Returns, graph, ForestTyped, CallsTyped,
                                         PlaceTyped
  <2>2. CallsTyped'
    BY <1>0, <1>7, Names DEF Added, Returns, CallsTyped, Points, Changing, Counting
  <2>3. CountsTyped'
    BY <1>0, <1>7, Names DEF Added, Returns, counter, tally, CountsTyped
  <2> QED BY <2>1, <2>2, <2>3 DEF ValuesTyped
<1>8. CASE Rereads(t)
  <2>4. PICK m \in {node[t], parent[job[t]]} :
          \/ m # None /\ node' = [node EXCEPT ![t] = m] /\ UNCHANGED proc
          \/ m = None /\ proc' = "crashed" /\ UNCHANGED node
    BY <1>8 DEF Rereads
  <2>5. m \in Nodes \cup {None} /\ job[t] \in Jobs
    BY <1>0, <1>8 DEF Rereads, Goes, ForestTyped, CallsTyped, Changing, Nodes
  <2>1. ForestTyped'
    BY <1>0, <1>8, <2>4, <2>5, Names DEF Rereads, Goes, graph, ForestTyped, CallsTyped
  <2>2. CallsTyped'
    BY <1>0, <1>8, <2>4, <2>5, Names DEF Rereads, Goes, CallsTyped, Points, Changing,
                                         Counting
  <2>3. CountsTyped'
    BY <1>0, <1>8, Names DEF Rereads, Goes, counter, tally, CountsTyped
  <2> QED BY <2>1, <2>2, <2>3 DEF ValuesTyped
<1>9. CASE Orphans(t)
  <2>1. ForestTyped'
    BY <1>0, <1>9, Names DEF Orphans, Goes, graph, ForestTyped, CallsTyped
  <2>2. CallsTyped'
    BY <1>0, <1>9, Names DEF Orphans, Goes, CallsTyped, Points, Changing, Counting
  <2>3. CountsTyped'
    BY <1>0, <1>9, Names DEF Orphans, Goes, counter, tally, CountsTyped
  <2> QED BY <2>1, <2>2, <2>3 DEF ValuesTyped
<1>10. CASE Drops(t)
  <2>1. ForestTyped'
    BY <1>0, <1>10, Names DEF Drops, Goes, graph, ForestTyped, CallsTyped, PlaceTyped
  <2>2. CallsTyped'
    BY <1>0, <1>10, Names DEF Drops, Goes, CallsTyped, Points, Changing, Counting
  <2>3. CountsTyped'
    BY <1>0, <1>10, Names DEF Drops, Goes, counter, tally, CountsTyped
  <2> QED BY <2>1, <2>2, <2>3 DEF ValuesTyped
<1>11. CASE Dropped(t)
  <2>4. node[t] \in Jobs /\ job[t] \in Jobs /\ lists[node[t]] \in Seq(Jobs)
    BY <1>0, <1>11 DEF Dropped, PlaceTyped, ForestTyped, Changing, Nodes
  <2>5. Without(lists[node[t]], job[t]) \in Seq(Jobs)
    BY <2>4, WithoutEffect
  <2>1. ForestTyped'
    BY <1>0, <1>11, <2>4, <2>5, Names DEF Dropped, Returns, Shrinks, graph, ForestTyped,
                                          CallsTyped, PlaceTyped
  <2>2. CallsTyped'
    BY <1>0, <1>11, Names DEF Dropped, Returns, Shrinks, CallsTyped, Points, Changing,
                              Counting
  <2>3. CountsTyped'
    BY <1>0, <1>11, Names DEF Dropped, Returns, Shrinks, counter, tally, CountsTyped
  <2> QED BY <2>1, <2>2, <2>3 DEF ValuesTyped
<1>12. CASE Unroots(t)
  <2>4. RemoveFirst(lists[Top], job[t]) \in Seq(Jobs)
    BY <1>0, <1>12, Names, RemoveFirstEffect DEF Unroots, ForestTyped
  <2>1. ForestTyped'
    BY <1>0, <1>12, <2>4, Names DEF Unroots, Returns, Shrinks, graph, ForestTyped,
                                    CallsTyped
  <2>2. CallsTyped'
    BY <1>0, <1>12, Names DEF Unroots, Returns, Shrinks, CallsTyped, Points, Changing,
                              Counting
  <2>3. CountsTyped'
    BY <1>0, <1>12, Names DEF Unroots, Returns, Shrinks, counter, tally, CountsTyped
  <2> QED BY <2>1, <2>2, <2>3 DEF ValuesTyped
<1>13. CASE FindsNot(t)
  <2>1. ForestTyped'
    BY <1>0, <1>13, Names DEF FindsNot, Returns, graph, ForestTyped, CallsTyped
  <2>2. CallsTyped'
    BY <1>0, <1>13, Names DEF FindsNot, Returns, CallsTyped, Points, Changing, Counting
  <2>3. CountsTyped'
    BY <1>0, <1>13, Names DEF FindsNot, Returns, counter, tally, CountsTyped
  <2> QED BY <2>1, <2>2, <2>3 DEF ValuesTyped
<1>14. CASE Expands(t)
  <2>1. ForestTyped'
    BY <1>0, <1>14, Names DEF Expands, Goes, graph, ForestTyped, CallsTyped, PlaceTyped
  <2>2. CallsTyped'
    BY <1>0, <1>14, Names DEF Expands, Goes, CallsTyped, Points, Changing, Counting
  <2>3. CountsTyped'
    <3>1. /\ node[t] \in Nodes /\ lists[node[t]] \in Seq(Jobs) /\ Len(lists[Top]) \in Nat
          /\ total[t] \in 0 .. MaxCount
      BY <1>0, <1>14, Names DEF Expands, Goes, PlaceTyped, ForestTyped, CountsTyped
    <3>2. /\ todo' = [todo EXCEPT ![t] = lists[node[t]]]
          /\ total' = [total EXCEPT ![t] = IF node[t] = Top THEN Len(lists[Top]) ELSE @]
          /\ node[t] = Top => Len(lists[Top]) <= MaxCount
          /\ UNCHANGED <<sub, tally>>
      BY <1>14 DEF Expands
    <3>3. (IF node[t] = Top THEN Len(lists[Top]) ELSE total[t]) \in 0 .. MaxCount
      BY <3>1, <3>2, Names
    <3>4. total' \in [Threads -> 0 .. MaxCount] /\ todo' \in [Threads -> Seq(Jobs)]
      BY <1>0, <3>1, <3>2, <3>3 DEF CountsTyped
    <3> QED BY <1>0, <3>2, <3>4 DEF tally, CountsTyped
  <2> QED BY <2>1, <2>2, <2>3 DEF ValuesTyped
<1>15. CASE Reads(t)
  <2>4. /\ todo[t] # <<>> /\ todo[t] \in Seq(Jobs) /\ sub[t] \in Seq(Jobs)
        /\ total[t] \in 0 .. MaxCount
    BY <1>0, <1>15 DEF Reads, CountsTyped
  <2>5. Head(todo[t]) \in Jobs /\ Tail(todo[t]) \in Seq(Jobs)
    BY <2>4, EndsEffect
  <2>6. Append(sub[t], Head(todo[t])) \in Seq(Jobs)
    BY <2>4, <2>5, AppendEffect
  <2>7. Len(lists[Head(todo[t])]) \in Nat
    BY <1>0, <2>5, Names DEF ForestTyped
  <2>1. ForestTyped'
    BY <1>0, <1>15, Names DEF Reads, Goes, graph, ForestTyped, CallsTyped
  <2>2. CallsTyped'
    BY <1>0, <1>15, Names DEF Reads, Goes, CallsTyped, Points, Changing, Counting
  <2>3. CountsTyped'
    <3> DEFINE j == Head(todo[t])
    <3>1. /\ todo' = [todo EXCEPT ![t] = Tail(@)]
          /\ sub' = [sub EXCEPT ![t] = Append(@, j)]
          /\ UNCHANGED <<from, grown, shrunk>>
          /\ \/ torn' = [torn EXCEPT ![t] = TRUE] /\ UNCHANGED total
             \/ /\ total[t] + Len(lists[j]) <= MaxCount
                /\ total' = [total EXCEPT ![t] = @ + Len(lists[j])]
                /\ UNCHANGED torn
      BY <1>15 DEF Reads
    <3>2. Append(sub[t], j) \in Seq(Jobs) /\ Len(lists[j]) \in Nat
      BY <2>6, <2>7
    <3> HIDE DEF j
    <3>3. torn' \in [Threads -> BOOLEAN]
      BY <1>0, <3>1 DEF CountsTyped
    <3>4. total' \in [Threads -> 0 .. MaxCount]
      <4>1. CASE UNCHANGED total
        BY <1>0, <4>1 DEF CountsTyped
      <4>2. CASE /\ total[t] + Len(lists[j]) <= MaxCount
                 /\ total' = [total EXCEPT ![t] = @ + Len(lists[j])]
        <5>1. total[t] + Len(lists[j]) \in 0 .. MaxCount
          BY <2>4, <3>2, <4>2, Names
        <5> QED BY <1>0, <4>2, <5>1 DEF CountsTyped
      <4> QED BY <3>1, <4>1, <4>2
    <3>5. todo' \in [Threads -> Seq(Jobs)] /\ sub' \in [Threads -> Seq(Jobs)]
      BY <1>0, <2>5, <3>1, <3>2 DEF CountsTyped
    <3> QED BY <1>0, <3>1, <3>3, <3>4, <3>5 DEF CountsTyped
  <2> QED BY <2>1, <2>2, <2>3 DEF ValuesTyped
<1>16. CASE ReadAll(t)
  <2>4. sub[t] # <<>> => Last(sub[t]) \in Nodes /\ Front(sub[t]) \in Seq(Jobs)
    BY <1>0, EndsEffect DEF CountsTyped, Nodes
  <2>1. ForestTyped'
    BY <1>0, <1>16, Names DEF ReadAll, Goes, graph, ForestTyped, CallsTyped, PlaceTyped
  <2>2. CallsTyped'
    BY <1>0, <1>16, <2>4, Names DEF ReadAll, Goes, CallsTyped, Points, Changing, Counting
  <2>3. CountsTyped'
    BY <1>0, <1>16, <2>4, Names DEF ReadAll, Goes, counter, tally, CountsTyped
  <2> QED BY <2>1, <2>2, <2>3 DEF ValuesTyped
<1>17. CASE Counted(t)
  <2>1. ForestTyped'
    BY <1>0, <1>17, Names DEF Counted, Returns, graph, ForestTyped, CallsTyped
  <2>2. CallsTyped'
    BY <1>0, <1>17, Names DEF Counted, Returns, CallsTyped, Points, Changing, Counting
  <2>3. CountsTyped'
    BY <1>0, <1>17, Names DEF Counted, Returns, counter, tally, CountsTyped
  <2> QED BY <2>1, <2>2, <2>3 DEF ValuesTyped
<1>18. CASE Crashes(t)
  <2>1. ForestTyped'
    BY <1>0, <1>18, Names DEF Crashes, graph, ForestTyped, CallsTyped
  <2>2. CallsTyped'
    BY <1>0, <1>18, Names DEF Crashes, CallsTyped, Points, Changing, Counting
  <2>3. CountsTyped'
    BY <1>0, <1>18, Names DEF Crashes, counter, tally, CountsTyped
  <2> QED BY <2>1, <2>2, <2>3 DEF ValuesTyped
<1> QED BY <1>1, <1>2, <1>3, <1>4, <1>5, <1>6, <1>7, <1>8, <1>9, <1>10, <1>11, <1>12,
           <1>13, <1>14, <1>15, <1>16, <1>17, <1>18 DEF Acts, Continues

LEMMA TypedStep == Typed /\ [Next]_vars => Typed'
<1>1. ASSUME Typed, NEW t \in Threads, Acts(t)
      PROVE  Typed'
  <2>1. ValuesTyped' /\ PlaceTyped(t)' /\ Alone(t)
    BY <1>1, ValuesTypedStep, OwnPlaceTyped, ActsAlone
  <2>2. ASSUME NEW u \in Threads \ {t}
        PROVE  PlaceTyped(u)'
    <3>1. /\ at'[u] = at[u] /\ job'[u] = job[u] /\ node'[u] = node[u]
          /\ \A n \in Nodes : holder[n] = u => holder'[n] = u
      BY <2>1, <2>2 DEF Alone
    <3>2. PlaceTyped(u) /\ node[u] \in Nodes \cup {None}
      BY <1>1, <2>2 DEF Typed, ValuesTyped, ForestTyped, CallsTyped, CountsTyped
    <3> QED BY <3>1, <3>2, Names DEF PlaceTyped
  <2> QED BY <2>1, <2>2 DEF Typed
<1>2. ASSUME Typed, UNCHANGED vars
      PROVE  Typed'
  BY <1>2 DEF Typed, ValuesTyped, ForestTyped, CallsTyped, CountsTyped, PlaceTyped, vars,
              graph, counter, tally
<1>3. Next => \E t \in Threads : Acts(t)
  BY DEF Next, Acts
<1> QED BY <1>1, <1>2, <1>3

LEMMA TypedHolds == Spec => []Typed
BY TypedStart, TypedStep, PTL DEF Spec

\* The types of the forest, of the calls and of the counts: a list is only changed
\* under its mutex, and a thread between the halves of a change or in the middle of a
\* list holds it (job.cpp:3-25, runner.cpp:274-331).
THEOREM JobGraphTyping == Spec => []TypeOK
BY TypedHolds, TypedIsTypeOK, PTL

-------------------------------------------------------------------------------
(* Lists and parents *)

\* The one place that a call expects of its job, and the parent it has left or made.
Placed(t, j) ==
  /\ at[t] = "adopt" => Places(j) = {} /\ parent[j] = None
  /\ at[t] \in {"add", "adding"} =>
       Places(j) = {} /\ parent[j] = IF node[t] = Top THEN None ELSE node[t]
  /\ at[t] \in {"reread", "orphan"} => Places(j) = {node[t]} /\ parent[j] = node[t]
  /\ at[t] \in {"drop", "dropping"} => Places(j) = {node[t]} /\ parent[j] = None
  /\ at[t] = "unroot" => Places(j) = {Top} /\ parent[j] = None

\* Between calls: among the roots or nowhere, or in the list of its parent alone.
Settled(j) ==
  \/ Places(j) \subseteq {Top} /\ parent[j] = None
  \/ parent[j] \in Jobs /\ Places(j) = {parent[j]}

\* What is known of a job that was never shared, and in one call at a time.  Without
\* the places of the jobs in calls nothing is known of them when the calls return.
LinkedTo(j) ==
  /\ \A n \in Nodes : IsOnce(lists[n], j)
  /\ \A t, u \in Threads : job[t] = j /\ job[u] = j => t = u
  /\ ~InCall(j) => Settled(j)
  /\ \A t \in Threads : job[t] = j => Placed(t, j)

Linked == \A j \in Jobs : clean[j] => LinkedTo(j)

LEMMA LinkedStart == Init => Linked
<1> SUFFICES ASSUME Init, NEW j \in Jobs
             PROVE  LinkedTo(j)
  BY DEF Linked
<1>1. /\ lists = FirstLists /\ FirstLists \in [Nodes -> Seq(Jobs)]
      /\ \A m, n \in Nodes : \A i \in DOMAIN FirstLists[m], k \in DOMAIN FirstLists[n] :
           FirstLists[m][i] = FirstLists[n][k] => m = n /\ i = k
  BY JobGraphAssumption DEF Init, JobGraphAssumption
<1>2. \A n \in Nodes : DOMAIN lists[n] = 1 .. Len(lists[n])
  BY <1>1
<1>3. \A n \in Nodes : IsOnce(lists[n], j)
  BY <1>1, <1>2 DEF IsOnce
<1>4. \A m, n \in Nodes : j \in ToSet(lists[m]) /\ j \in ToSet(lists[n]) => m = n
  BY <1>1 DEF ToSet
<1>5. \A t \in Threads : job[t] # j
  BY Names DEF Init
<1>6. Settled(j)
  <2>0. parent[j] = IF \E n \in Jobs : j \in ToSet(lists[n])
                    THEN CHOOSE n \in Jobs : j \in ToSet(lists[n]) ELSE None
    BY DEF Init
  <2>1. CASE \E n \in Jobs : j \in ToSet(lists[n])
    <3>1. parent[j] \in Jobs /\ j \in ToSet(lists[parent[j]])
      BY <2>0, <2>1
    <3>2. Places(j) = {parent[j]}
      BY <1>4, <3>1, Names DEF Places
    <3> QED BY <3>1, <3>2 DEF Settled
  <2>2. CASE ~ \E n \in Jobs : j \in ToSet(lists[n])
    BY <2>0, <2>2, Names DEF Places, Settled
  <2> QED BY <2>1, <2>2
<1> QED BY <1>3, <1>5, <1>6 DEF LinkedTo, InCall

\* A step of t keeps the links of a job that its call is not about ...
LEMMA LinksKept ==
  ASSUME NEW t \in Threads, Alone(t), NEW j \in Jobs, LinkedTo(j),
         job[t] # j, job'[t] # j,
         Places(j)' = Places(j), parent'[j] = parent[j],
         \A n \in Nodes : IsOnce(lists'[n], j)
  PROVE  LinkedTo(j)'
<1>1. /\ \A u \in Threads : job'[u] = j <=> job[u] = j
      /\ \A u \in Threads : job[u] = j => u # t /\ at'[u] = at[u] /\ node'[u] = node[u]
  BY DEF Alone
<1>2. \A u \in Threads : job'[u] = j => Placed(u, j)'
  BY <1>1 DEF LinkedTo, Placed
<1>3. ~InCall(j)' => Settled(j)'
  BY <1>1 DEF LinkedTo, InCall, Settled
<1> QED BY <1>1, <1>2, <1>3 DEF LinkedTo

\* ... and those of the one its call is about when they are right for where it is, ...
LEMMA LinksGoOn ==
  ASSUME NEW t \in Threads, Alone(t), NEW j \in Jobs, LinkedTo(j),
         job[t] = j \/ ~InCall(j), job'[t] = j, Placed(t, j)',
         \A n \in Nodes : IsOnce(lists'[n], j)
  PROVE  LinkedTo(j)'
<1>1. \A u \in Threads : job'[u] = j <=> u = t
  BY DEF Alone, LinkedTo, InCall
<1> QED BY <1>1 DEF LinkedTo, InCall

\* ... or, when it returns, for a job without a call.
LEMMA LinksEnd ==
  ASSUME NEW t \in Threads, Alone(t), NEW j \in Jobs, LinkedTo(j),
         job[t] = j, job'[t] # j, Settled(j)',
         \A n \in Nodes : IsOnce(lists'[n], j)
  PROVE  LinkedTo(j)'
<1>1. \A u \in Threads : job'[u] # j
  BY DEF Alone, LinkedTo
<1> QED BY <1>1 DEF LinkedTo, InCall

LEMMA PlacesStay ==
  ASSUME NEW j \in Jobs, UNCHANGED lists
  PROVE  Places(j)' = Places(j)
BY DEF Places

\* A call begins.
LEMMA LinkedBegins ==
  ASSUME Typed, Linked, NEW t \in Threads, NEW k \in Jobs, NEW n \in Nodes,
         Schedules(t, n, k) \/ Erases(t, k) \/ ErasesFrom(t, n, k)
  PROVE  Linked'
<1>0. PlaceTyped(t) /\ clean \in [Jobs -> BOOLEAN] /\ parent \in [Jobs -> Jobs \cup {None}]
      /\ at \in [Threads -> Points] /\ node \in [Threads -> Nodes \cup {None}]
      /\ job \in [Threads -> Jobs \cup {None}]
  BY DEF Typed, ValuesTyped, ForestTyped, CallsTyped, CountsTyped
<1>1. Alone(t)
  BY ActsAlone DEF Acts
<1>2. at[t] = "idle" /\ UNCHANGED <<lists, parent>> /\ job' = [job EXCEPT ![t] = k]
  BY DEF Schedules, Erases, ErasesFrom, Begins, graph
<1>3. job[t] = None /\ job'[t] = k
  BY <1>0, <1>2 DEF PlaceTyped, Changing
<1> SUFFICES ASSUME NEW j \in Jobs, clean'[j]
             PROVE  LinkedTo(j)'
  BY DEF Linked
<1>4. clean[j] /\ (j = k => ~InCall(j))
  BY <1>0 DEF Schedules, Erases, ErasesFrom
<1>5. LinkedTo(j) /\ \A m \in Nodes : IsOnce(lists'[m], j)
  BY <1>2, <1>4 DEF Linked, LinkedTo
<1>6. CASE j # k
  BY <1>1, <1>2, <1>3, <1>5, <1>6, Names, LinksKept, PlacesStay
<1>7. CASE j = k
  <2>1. Settled(j) /\ Places(j)' = Places(j) /\ parent'[j] = parent[j]
    BY <1>2, <1>4, <1>5, <1>7, PlacesStay DEF LinkedTo
  <2>2. Placed(t, j)'
    <3>1. CASE Schedules(t, n, k)
      <4>1. Places(j) = {} /\ parent[j] = None
        BY <1>0, <1>4, <1>7, <2>1, <3>1, Names DEF Schedules, Settled
      <4>2. at'[t] = (IF n = Top THEN "add" ELSE "adopt") /\ node'[t] = n
        BY <1>0, <3>1 DEF Schedules, Begins
      <4> QED BY <2>1, <4>1, <4>2 DEF Placed
    <3>2. CASE Erases(t, k)
      <4>1. Places(j) # {}
        BY <1>0, <1>7, <3>2, Names DEF Erases
      <4>2. /\ at'[t] = IF parent[j] = None THEN "unroot" ELSE "reread"
            /\ node'[t] = parent[j]
        BY <1>0, <1>7, <3>2 DEF Erases, Begins
      <4> QED BY <2>1, <4>1, <4>2, Names DEF Placed, Settled
    <3>3. CASE ErasesFrom(t, n, k)
      <4>1. Places(j) = {n} /\ n # Top
        BY <1>0, <1>7, <3>3, Names DEF ErasesFrom
      <4>2. parent[j] = n
        BY <2>1, <4>1 DEF Settled
      <4>3. at'[t] = "orphan" /\ node'[t] = n
        BY <1>0, <3>3 DEF ErasesFrom, Begins
      <4> QED BY <2>1, <4>1, <4>2, <4>3 DEF Placed
    <3> QED BY <3>1, <3>2, <3>3
  <2> QED BY <1>1, <1>3, <1>4, <1>5, <1>7, <2>2, LinksGoOn
<1> QED BY <1>6, <1>7

\* A call goes on, and its job may learn or forget its parent.
LEMMA LinkedGoes ==
  ASSUME Typed, Linked, NEW t \in Threads,
         Adopts(t) \/ Adds(t) \/ Rereads(t) \/ Orphans(t) \/ Drops(t)
  PROVE  Linked'
<1>0. PlaceTyped(t) /\ clean \in [Jobs -> BOOLEAN] /\ parent \in [Jobs -> Jobs \cup {None}]
      /\ at \in [Threads -> Points] /\ node \in [Threads -> Nodes \cup {None}]
      /\ job \in [Threads -> Jobs \cup {None}]
  BY DEF Typed, ValuesTyped, ForestTyped, CallsTyped, CountsTyped
<1>1. Alone(t)
  BY ActsAlone DEF Acts, Continues
<1>2. /\ UNCHANGED <<lists, job, clean>>
      /\ \A k \in Jobs : k # job[t] => parent'[k] = parent[k]
  BY <1>0 DEF Adopts, Adds, Rereads, Orphans, Drops, Goes, graph
<1> SUFFICES ASSUME NEW j \in Jobs, clean'[j]
             PROVE  LinkedTo(j)'
  BY DEF Linked
<1>3. LinkedTo(j) /\ \A m \in Nodes : IsOnce(lists'[m], j)
  BY <1>2 DEF Linked, LinkedTo
<1>4. Places(j)' = Places(j)
  BY <1>2, PlacesStay
<1>5. CASE j # job[t]
  BY <1>1, <1>2, <1>3, <1>4, <1>5, LinksKept
<1>6. CASE j = job[t]
  <2>1. Placed(t, j)
    BY <1>3, <1>6 DEF LinkedTo
  <2>2. Placed(t, j)'
    <3>1. CASE Adopts(t)
      <4>1. at[t] = "adopt" /\ at'[t] = "add" /\ node'[t] = node[t] /\ parent'[j] = node[t]
        BY <1>0, <1>6, <3>1 DEF Adopts, Goes
      <4>2. node[t] # Top
        BY <1>0, <4>1, Names DEF PlaceTyped
      <4> QED BY <1>4, <2>1, <4>1, <4>2 DEF Placed
    <3>2. CASE Adds(t)
      <4>1. /\ at[t] = "add" /\ at'[t] = "adding"
            /\ node'[t] = node[t] /\ parent'[j] = parent[j]
        BY <1>0, <1>6, <3>2 DEF Adds, Goes
      <4> QED BY <1>4, <2>1, <4>1 DEF Placed
    <3>3. CASE Rereads(t)
      <4>1. at[t] = "reread" /\ at'[t] = "orphan" /\ parent'[j] = parent[j]
        BY <1>0, <1>6, <3>3 DEF Rereads, Goes, graph
      <4>2. parent[j] = node[t]
        BY <2>1, <4>1 DEF Placed
      <4>3. node'[t] = node[t]
        BY <1>0, <1>6, <3>3, <4>2 DEF Rereads
      <4> QED BY <1>4, <2>1, <4>1, <4>3 DEF Placed
    <3>4. CASE Orphans(t)
      <4>1. at[t] = "orphan" /\ at'[t] = "drop" /\ node'[t] = node[t] /\ parent'[j] = None
        BY <1>0, <1>6, <3>4 DEF Orphans, Goes
      <4> QED BY <1>4, <2>1, <4>1 DEF Placed
    <3>5. CASE Drops(t)
      <4>1. /\ at[t] = "drop" /\ at'[t] = "dropping"
            /\ node'[t] = node[t] /\ parent'[j] = parent[j]
        BY <1>0, <1>6, <3>5 DEF Drops, Goes
      <4> QED BY <1>4, <2>1, <4>1 DEF Placed
    <3> QED BY <3>1, <3>2, <3>3, <3>4, <3>5
  <2> QED BY <1>1, <1>2, <1>3, <1>6, <2>2, LinksGoOn
<1> QED BY <1>5, <1>6

\* One list changes, and only the job of the call comes or goes: the others keep their
\* places.
LEMMA OneListChanges ==
  ASSUME Typed, NEW m \in Nodes, NEW list \in Seq(Jobs), NEW j \in Jobs,
         lists' = [lists EXCEPT ![m] = list]
  PROVE  /\ (j \in ToSet(list) <=> j \in ToSet(lists[m])) => Places(j)' = Places(j)
         /\ j \in ToSet(list) => Places(j)' = Places(j) \cup {m}
         /\ j \notin ToSet(list) => Places(j)' = Places(j) \ {m}
         /\ LinkedTo(j) /\ IsOnce(list, j) => \A n \in Nodes : IsOnce(lists'[n], j)
<1>1. /\ lists'[m] = list /\ \A n \in Nodes : n # m => lists'[n] = lists[n]
  BY DEF Typed, ValuesTyped, ForestTyped, CallsTyped, CountsTyped
<1> QED BY <1>1 DEF Places, LinkedTo

\* A call returns after it changed a list.
LEMMA LinkedChanges ==
  ASSUME Typed, Linked, NEW t \in Threads, Added(t) \/ Dropped(t) \/ Unroots(t)
  PROVE  Linked'
<1>0. PlaceTyped(t) /\ clean \in [Jobs -> BOOLEAN] /\ parent \in [Jobs -> Jobs \cup {None}]
      /\ at \in [Threads -> Points] /\ node \in [Threads -> Nodes \cup {None}]
      /\ job \in [Threads -> Jobs \cup {None}] /\ lists \in [Nodes -> Seq(Jobs)]
  BY DEF Typed, ValuesTyped, ForestTyped, CallsTyped, CountsTyped
<1>1. Alone(t)
  BY ActsAlone DEF Acts, Continues
<1>2. UNCHANGED <<parent, clean>> /\ job'[t] = None
  BY <1>0 DEF Added, Dropped, Unroots, Returns
<1> DEFINE k == job[t]
<1>3. k \in Jobs
  BY <1>0, Names DEF Added, Dropped, Unroots, PlaceTyped, Changing
<1>4. PICK m \in Nodes, list \in Seq(Jobs) :
        /\ lists' = [lists EXCEPT ![m] = list]
        /\ \A j \in Jobs : IsOnce(lists[m], j) /\ (Added(t) /\ j = k => k \notin ToSet(lists[m]))
                             => IsOnce(list, j)
        /\ \A j \in Jobs : j # k => (j \in ToSet(list) <=> j \in ToSet(lists[m]))
        /\ \/ Added(t) /\ m = node[t] /\ k \in ToSet(list)
           \/ Dropped(t) /\ m = node[t] /\ k \notin ToSet(list)
           \/ Unroots(t) /\ m = Top /\ (IsOnce(lists[m], k) => k \notin ToSet(list))
  <2>1. CASE Added(t)
    <3> DEFINE old  == lists[node[t]]
               list == Append(old, k)
    <3>1. node[t] \in Nodes /\ lists' = [lists EXCEPT ![node[t]] = list]
      BY <1>0, <2>1 DEF Added, PlaceTyped
    <3>2. old \in Seq(Jobs)
      BY <1>0, <3>1
    <3>3. /\ list \in Seq(Jobs) /\ ToSet(list) = ToSet(old) \cup {k}
          /\ \A j \in Jobs : IsOnce(old, j) /\ (j # k \/ j \notin ToSet(old)) => IsOnce(list, j)
      <4> HIDE DEF old, k
      <4> QED BY <1>3, <3>2, AppendEffect
    <3> HIDE DEF list, k
    <3> QED BY <2>1, <3>1, <3>3
  <2>2. CASE Dropped(t)
    <3> DEFINE old  == lists[node[t]]
               list == Without(old, k)
    <3>1. node[t] \in Nodes /\ lists' = [lists EXCEPT ![node[t]] = list]
      BY <1>0, <2>2, Names DEF Dropped, PlaceTyped
    <3>2. old \in Seq(Jobs)
      BY <1>0, <3>1
    <3>3. /\ list \in Seq(Jobs) /\ ToSet(list) = ToSet(old) \ {k}
          /\ \A j \in Jobs : IsOnce(old, j) => IsOnce(list, j)
      <4> HIDE DEF old, k
      <4> QED BY <1>3, <3>2, WithoutEffect
    <3> HIDE DEF list, k
    <3> QED BY <2>2, <3>1, <3>3
  <2>3. CASE Unroots(t)
    <3> DEFINE old  == lists[Top]
               list == RemoveFirst(old, k)
    <3>1. Top \in Nodes /\ lists' = [lists EXCEPT ![Top] = list] /\ k \in ToSet(old)
      BY <2>3, Names DEF Unroots
    <3>2. old \in Seq(Jobs)
      BY <1>0, <3>1
    <3>3. /\ list \in Seq(Jobs) /\ ToSet(list) \subseteq ToSet(old)
          /\ ToSet(old) \ {k} \subseteq ToSet(list)
          /\ \A j \in Jobs : IsOnce(old, j) => IsOnce(list, j)
          /\ IsOnce(old, k) => k \notin ToSet(list)
      <4> HIDE DEF old, k
      <4> QED BY <3>1, <3>2, RemoveFirstEffect
    <3> HIDE DEF list, k
    <3> QED BY <2>3, <3>1, <3>3
  <2> QED BY <2>1, <2>2, <2>3
<1> SUFFICES ASSUME NEW j \in Jobs, clean'[j]
             PROVE  LinkedTo(j)'
  BY DEF Linked
<1>5. LinkedTo(j) /\ IsOnce(lists[m], j)
  BY <1>2 DEF Linked, LinkedTo
<1>6. CASE j # k
  <2>1. Places(j)' = Places(j) /\ \A n \in Nodes : IsOnce(lists'[n], j)
    BY <1>4, <1>5, <1>6, OneListChanges
  <2> QED BY <1>1, <1>2, <1>5, <1>6, <2>1, Names, LinksKept
<1>7. CASE j = k
  <2>1. Placed(t, j)
    BY <1>5, <1>7 DEF LinkedTo
  <2>2. CASE Added(t)
    <3>1. Places(j) = {} /\ parent[j] = (IF node[t] = Top THEN None ELSE node[t]) /\ m = node[t]
      BY <1>4, <2>1, <2>2 DEF Placed, Added, Dropped, Unroots
    <3>2. j \notin ToSet(lists[m]) /\ j \in ToSet(list)
      BY <1>4, <1>7, <2>2, <3>1 DEF Places, Added, Dropped, Unroots
    <3>3. Places(j)' = {m} /\ \A n \in Nodes : IsOnce(lists'[n], j)
      <4>1. IsOnce(list, j)
        <5> HIDE DEF k
        <5> QED BY <1>4, <1>5, <1>7, <3>2
      <4>2. lists' = [lists EXCEPT ![m] = list]
        <5> HIDE DEF k
        <5> QED BY <1>4
      <4>3. Places(j)' = Places(j) \cup {m} /\ \A n \in Nodes : IsOnce(lists'[n], j)
        BY <1>5, <3>2, <4>1, <4>2, OneListChanges
      <4> QED BY <3>1, <4>3
    <3>4. Settled(j)'
      BY <1>2, <3>1, <3>3, Names DEF Settled
    <3> QED BY <1>1, <1>2, <1>5, <1>7, <3>3, <3>4, Names, LinksEnd
  <2>3. CASE Dropped(t) \/ Unroots(t)
    <3>1. Places(j) = {m} /\ parent[j] = None /\ j \notin ToSet(list)
      BY <1>4, <1>5, <1>7, <2>1, <2>3 DEF Placed, Added, Dropped, Unroots
    <3>2. IsOnce(list, j)
      BY <1>4, <1>5, <2>3 DEF Added, Dropped, Unroots
    <3>3. Places(j)' = {} /\ \A n \in Nodes : IsOnce(lists'[n], j)
      BY <1>4, <1>5, <3>1, <3>2, OneListChanges
    <3>4. Settled(j)'
      BY <1>2, <3>1, <3>3 DEF Settled
    <3> QED BY <1>1, <1>2, <1>5, <1>7, <3>3, <3>4, Names, LinksEnd
  <2> QED BY <2>2, <2>3
<1> QED BY <1>6, <1>7

\* An exception is never about a job that is linked, and a count is about none.
LEMMA LinkedElse ==
  ASSUME Typed, Linked, NEW t \in Threads,
         \/ FindsNot(t) \/ Counts(t) \/ Expands(t) \/ Reads(t) \/ ReadAll(t)
         \/ Counted(t) \/ Crashes(t)
  PROVE  Linked'
<1>0. PlaceTyped(t) /\ job \in [Threads -> Jobs \cup {None}]
  BY DEF Typed, ValuesTyped, ForestTyped, CallsTyped, CountsTyped
<1>1. Alone(t)
  BY ActsAlone DEF Acts, Continues
<1>2. UNCHANGED <<lists, parent, clean>>
  BY DEF FindsNot, Counts, Begins, Expands, Reads, ReadAll, Goes, Counted, Crashes, graph
<1> SUFFICES ASSUME NEW j \in Jobs, clean'[j]
             PROVE  LinkedTo(j)'
  BY DEF Linked
<1>3. LinkedTo(j) /\ \A n \in Nodes : IsOnce(lists'[n], j)
  BY <1>2 DEF Linked, LinkedTo
<1>4. CASE Crashes(t)
  BY <1>3, <1>4
     DEF Crashes, graph, LinkedTo, InCall, Placed, Settled, Places
<1>5. CASE ~Crashes(t)
  <2>1. job[t] # j
    <3>1. CASE FindsNot(t)
      <4>1. at[t] = "unroot" /\ job[t] \notin ToSet(lists[Top])
        BY <3>1 DEF FindsNot
      <4> QED BY <1>3, <4>1 DEF LinkedTo, Placed, Places
    <3>2. CASE ~FindsNot(t)
      <4>1. at[t] \in {"idle", "expand", "read", "counted"}
        BY <1>5, <3>2 DEF Counts, Begins, Expands, Reads, ReadAll, Goes, Counted
      <4>2. job[t] = None
        BY <1>0, <4>1 DEF PlaceTyped, Changing
      <4> QED BY <4>2, Names
    <3> QED BY <3>1, <3>2
  <2>2. job'[t] # j
    <3>1. job'[t] \in {None, job[t]}
      BY <1>0, <1>5
         DEF FindsNot, Returns, Counts, Begins, Expands, Reads, ReadAll, Goes, Counted
    <3> QED BY <2>1, <3>1, Names
  <2>3. Places(j)' = Places(j) /\ parent'[j] = parent[j]
    BY <1>2, PlacesStay
  <2> QED BY <1>1, <1>3, <2>1, <2>2, <2>3, LinksKept
<1> QED BY <1>4, <1>5

LEMMA LinkedStep == Typed /\ Linked /\ [Next]_vars => Linked'
<1>1. ASSUME Typed, Linked, NEW t \in Threads, Acts(t)
      PROVE  Linked'
  BY <1>1, LinkedBegins, LinkedGoes, LinkedChanges, LinkedElse DEF Acts, Continues, Nodes
<1>2. ASSUME Linked, UNCHANGED vars
      PROVE  Linked'
  BY <1>2 DEF Linked, LinkedTo, InCall, Placed, Settled, Places, vars, graph
<1>3. Next => \E t \in Threads : Acts(t)
  BY DEF Next, Acts
<1> QED BY <1>1, <1>2, <1>3

LEMMA LinkedHolds == Spec => [](Typed /\ Linked)
BY TypedStart, TypedStep, LinkedStart, LinkedStep, PTL DEF Spec

\* How often a job is in a list.
LEMMA OnceIsCounted ==
  ASSUME NEW list \in Seq(Jobs), NEW j \in Jobs, IsOnce(list, j)
  PROVE  /\ Cardinality({i \in DOMAIN list : list[i] = j}) <= 1
         /\ j \in ToSet(list) => Cardinality({i \in DOMAIN list : list[i] = j}) = 1
<1> DEFINE I == {i \in DOMAIN list : list[i] = j}
<1>1. DOMAIN list = 1 .. Len(list)
  OBVIOUS
<1>2. CASE j \in ToSet(list)
  <2>1. PICK p \in 1 .. Len(list) : list[p] = j
    BY <1>1, <1>2 DEF ToSet
  <2>2. I = {p}
    BY <1>1, <2>1 DEF IsOnce
  <2>3. Cardinality(I) = 1
    <3> HIDE DEF I
    <3> QED BY <2>2, FS_Singleton
  <2> QED BY <2>3
<1>3. CASE j \notin ToSet(list)
  <2>1. I = {}
    BY <1>1, <1>3 DEF ToSet
  <2>2. Cardinality(I) = 0
    <3> HIDE DEF I
    <3> QED BY <2>1, FS_EmptySet
  <2> QED BY <1>3, <2>2
<1> QED BY <1>2, <1>3

\* However many threads schedule, erase and count, in whatever order: a job that was
\* never shared is in one list at most, once, and points to the owner of that list
\* whenever no call is about it (job.cpp:8-14, 18-24, runner.cpp:274-303).
THEOREM ParentsAndListsAgree == Spec => []ParentsAgree
<1>1. Typed /\ Linked => ParentsAgree
  <2> SUFFICES ASSUME Typed, Linked, NEW j \in Jobs, clean[j], ~InCall(j)
               PROVE  IF \A n \in Jobs : j \notin ToSet(lists[n])
                      THEN /\ parent[j] = None
                           /\ Cardinality({i \in DOMAIN lists[Top] : lists[Top][i] = j}) <= 1
                      ELSE \E n \in Jobs :
                             /\ Places(j) = {n} /\ parent[j] = n
                             /\ Cardinality({i \in DOMAIN lists[n] : lists[n][i] = j}) = 1
    BY DEF ParentsAgree
  <2>1. Settled(j) /\ \A n \in Nodes : IsOnce(lists[n], j)
    BY DEF Linked, LinkedTo
  <2>2. \A n \in Nodes : lists[n] \in Seq(Jobs)
    BY DEF Typed, ValuesTyped, ForestTyped, CallsTyped, CountsTyped
  <2>3. CASE Places(j) \subseteq {Top} /\ parent[j] = None
    <3>1. \A n \in Jobs : j \notin ToSet(lists[n])
      BY <2>3, Names DEF Places
    <3>2. Cardinality({i \in DOMAIN lists[Top] : lists[Top][i] = j}) <= 1
      BY <2>1, <2>2, Names, OnceIsCounted
    <3> QED BY <2>3, <3>1, <3>2
  <2>4. CASE parent[j] \in Jobs /\ Places(j) = {parent[j]}
    <3>1. parent[j] \in Nodes /\ j \in ToSet(lists[parent[j]])
      BY <2>4 DEF Places, Nodes
    <3>2. Cardinality({i \in DOMAIN lists[parent[j]] : lists[parent[j]][i] = j}) = 1
      BY <2>1, <2>2, <3>1, OnceIsCounted
    <3> QED BY <2>4, <3>1, <3>2
  <2> QED BY <2>1, <2>3, <2>4 DEF Settled
<1> QED BY <1>1, LinkedHolds, PTL

-------------------------------------------------------------------------------
(* Counts *)

\* A count that nobody disturbed has only in hand what the roots still lead to, so
\* that it does not need to hold it.
InHand(t) ==
  /\ at[t] \notin {"expand", "read"} => sub[t] = <<>> /\ todo[t] = <<>>
  /\ at[t] \in {"expand", "read"} /\ ~shrunk[t] =>
       {node[t]} \cup ToSet(sub[t]) \cup ToSet(todo[t]) \subseteq Reach({Top})

Held == \A t \in Threads : InHand(t)

\* What a step does to a count: a job that leaves a list marks all counts.
LEMMA ReachKept ==
  ASSUME Typed, NEW t \in Threads, Acts(t), NEW u \in Threads,
         at[u] \in Counting, at'[u] \in Counting, ~shrunk'[u]
  PROVE  ~shrunk[u] /\ Reach({Top}) \subseteq Reach({Top})'
<1>0. /\ lists \in [Nodes -> Seq(Jobs)] /\ shrunk \in [Threads -> BOOLEAN]
      /\ at \in [Threads -> Points] /\ PlaceTyped(t)
      /\ job \in [Threads -> Jobs \cup {None}]
  BY DEF Typed, ValuesTyped, ForestTyped, CallsTyped, CountsTyped
<1>1. CASE Counts(t)
  <2>1. u # t
    BY <1>0, <1>1 DEF Counts, Begins, Counting
  <2>2. UNCHANGED lists /\ shrunk'[u] = shrunk[u]
    BY <1>0, <1>1, <2>1 DEF Counts, Begins, graph
  <2> QED BY <2>2, ReachStays
<1>2. CASE Dropped(t) \/ Unroots(t)
  BY <1>0, <1>2 DEF Dropped, Unroots, Shrinks
<1>3. CASE Added(t)
  <2> DEFINE old  == lists[node[t]]
             list == Append(old, job[t])
  <2>1. /\ node[t] \in Nodes /\ job[t] \in Jobs
        /\ lists' = [lists EXCEPT ![node[t]] = list] /\ UNCHANGED shrunk
    BY <1>0, <1>3, Names DEF Added, PlaceTyped, Changing
  <2>2. old \in Seq(Jobs)
    BY <1>0, <2>1
  <2>3. ToSet(list) = ToSet(old) \cup {job[t]}
    <3> HIDE DEF old
    <3> QED BY <2>1, <2>2, AppendEffect
  <2>4. \A n \in Nodes : ToSet(lists[n]) \subseteq ToSet(lists'[n])
    <3> HIDE DEF list
    <3> QED BY <1>0, <2>1, <2>3
  <2> QED BY <1>0, <2>1, <2>4, ReachGrows
<1>4. CASE ~(Counts(t) \/ Dropped(t) \/ Unroots(t) \/ Added(t))
  <2>1. UNCHANGED <<lists, shrunk>>
    BY <1>4 DEF Acts, Continues, Schedules, ErasesFrom, Erases, Begins, Adopts, Adds,
                Rereads, Orphans, Drops, FindsNot, Expands, Reads, ReadAll, Counted,
                Crashes, graph, tally
  <2> QED BY <2>1, ReachStays
<1> QED BY <1>1, <1>2, <1>3, <1>4

\* The same for the thread itself.
LEMMA OwnInHand ==
  ASSUME Typed, NEW t \in Threads, Acts(t), InHand(t)
  PROVE  InHand(t)'
<1>0. /\ PlaceTyped(t) /\ lists \in [Nodes -> Seq(Jobs)]
      /\ at \in [Threads -> Points] /\ node \in [Threads -> Nodes \cup {None}]
      /\ sub \in [Threads -> Seq(Jobs)] /\ todo \in [Threads -> Seq(Jobs)]
  BY DEF Typed, ValuesTyped, ForestTyped, CallsTyped, CountsTyped
<1>1. CASE Counts(t)
  <2>1. /\ at[t] = "idle" /\ at'[t] = "expand" /\ node'[t] = Top
        /\ sub'[t] = sub[t] /\ todo'[t] = todo[t] /\ UNCHANGED lists
    BY <1>0, <1>1 DEF Counts, Begins, graph
  <2>2. sub'[t] = <<>> /\ todo'[t] = <<>> /\ ToSet(<<>>) = {}
    BY <2>1 DEF InHand, ToSet
  <2>3. Top \in Reach({Top})'
    <3>1. Top \in Reach({Top})
      BY Names, ReachStarts
    <3> QED BY <2>1, <3>1, ReachStays
  <2>4. {Top} \cup ToSet(sub'[t]) \cup ToSet(todo'[t]) \subseteq Reach({Top})'
    BY <2>2, <2>3
  <2> QED BY <2>1, <2>4 DEF InHand
<1>2. CASE Expands(t)
  <2>1. /\ at[t] = "expand" /\ at'[t] = "read" /\ node'[t] = node[t] /\ sub'[t] = sub[t]
        /\ todo'[t] = lists[node[t]] /\ UNCHANGED <<lists, shrunk>>
    BY <1>0, <1>2 DEF Expands, Goes, tally
  <2>2. ASSUME ~shrunk[t]
        PROVE  {node[t]} \cup ToSet(sub[t]) \cup ToSet(lists[node[t]]) \subseteq Reach({Top})
    <3>1. {node[t]} \cup ToSet(sub[t]) \subseteq Reach({Top})
      BY <2>1, <2>2 DEF InHand
    <3> QED BY <1>0, <3>1, ReachIsClosed
  <2>3. Reach({Top})' = Reach({Top})
    BY <2>1, ReachStays
  <2> QED BY <2>1, <2>2, <2>3 DEF InHand
<1>3. CASE Reads(t)
  <2>1. /\ at[t] = "read" /\ at'[t] = "read" /\ node'[t] = node[t] /\ todo[t] # <<>>
        /\ sub'[t] = Append(sub[t], Head(todo[t])) /\ todo'[t] = Tail(todo[t])
        /\ UNCHANGED <<lists, shrunk>>
    BY <1>0, <1>3 DEF Reads, Goes, graph
  <2>2. sub[t] \in Seq(Jobs) /\ todo[t] \in Seq(Jobs)
    BY <1>0
  <2>3. /\ Head(todo[t]) \in ToSet(todo[t]) /\ Head(todo[t]) \in Jobs
        /\ ToSet(Tail(todo[t])) \subseteq ToSet(todo[t])
    BY <2>1, <2>2, EndsEffect
  <2>4. ToSet(Append(sub[t], Head(todo[t]))) = ToSet(sub[t]) \cup {Head(todo[t])}
    BY <2>2, <2>3, AppendEffect
  <2>5. ToSet(sub'[t]) \cup ToSet(todo'[t]) \subseteq ToSet(sub[t]) \cup ToSet(todo[t])
    BY <2>1, <2>3, <2>4
  <2>6. Reach({Top})' = Reach({Top})
    BY <2>1, ReachStays
  <2> QED BY <2>1, <2>5, <2>6 DEF InHand
<1>4. CASE ReadAll(t)
  <2>1. /\ at[t] = "read" /\ todo[t] = <<>> /\ todo'[t] = todo[t]
        /\ UNCHANGED <<lists, shrunk>>
    BY <1>4 DEF ReadAll, Goes, tally
  <2>2. CASE sub[t] = <<>>
    <3>1. at'[t] = "counted" /\ sub'[t] = <<>>
      BY <1>0, <1>4, <2>2 DEF ReadAll, Goes
    <3> QED BY <2>1, <3>1 DEF InHand
  <2>3. CASE sub[t] # <<>>
    <3>1. at'[t] = "expand" /\ node'[t] = Last(sub[t]) /\ sub'[t] = Front(sub[t])
      BY <1>0, <1>4, <2>3 DEF ReadAll, Goes
    <3>2. Last(sub[t]) \in ToSet(sub[t]) /\ ToSet(Front(sub[t])) \subseteq ToSet(sub[t])
      BY <1>0, <2>3, EndsEffect
    <3>3. {node'[t]} \cup ToSet(sub'[t]) \subseteq ToSet(sub[t])
      BY <3>1, <3>2
    <3>4. Reach({Top})' = Reach({Top})
      BY <2>1, ReachStays
    <3> QED BY <2>1, <3>1, <3>3, <3>4 DEF InHand
  <2> QED BY <2>2, <2>3
<1>5. CASE Crashes(t)
  BY <1>5, ReachStays DEF Crashes, InHand, graph, counter, tally
<1>6. CASE ~(Counts(t) \/ Expands(t) \/ Reads(t) \/ ReadAll(t) \/ Crashes(t))
  <2>1. /\ at[t] \notin {"expand", "read"} /\ at'[t] \notin {"expand", "read"}
        /\ sub'[t] = sub[t] /\ todo'[t] = todo[t]
    BY <1>0, <1>6
       DEF Acts, Continues, Schedules, ErasesFrom, Erases, Begins, Adopts, Adds, Added,
           Rereads, Orphans, Drops, Dropped, Unroots, FindsNot, Counted, Goes, Returns,
           counter
  <2> QED BY <2>1 DEF InHand
<1> QED BY <1>1, <1>2, <1>3, <1>4, <1>5, <1>6

LEMMA HeldStart == Init => Held
BY DEF Init, Held, InHand

LEMMA HeldStep == Typed /\ Held /\ [Next]_vars => Held'
<1>1. ASSUME Typed, Held, NEW t \in Threads, Acts(t)
      PROVE  Held'
  <2>1. InHand(t)'
    BY <1>1, OwnInHand DEF Held
  <2>2. ASSUME NEW u \in Threads \ {t}
        PROVE  InHand(u)'
    <3>1. /\ at'[u] = at[u] /\ node'[u] = node[u]
          /\ sub'[u] = sub[u] /\ todo'[u] = todo[u] /\ InHand(u)
      BY <1>1, <2>2, ActsAlone DEF Alone, Held
    <3>2. at[u] \in {"expand", "read"} /\ ~shrunk'[u] =>
            ~shrunk[u] /\ Reach({Top}) \subseteq Reach({Top})'
      BY <1>1, <3>1, ReachKept DEF Counting
    <3> QED BY <3>1, <3>2 DEF InHand
  <2> QED BY <2>1, <2>2 DEF Held
<1>2. ASSUME Held, UNCHANGED vars
      PROVE  Held'
  BY <1>2, ReachStays DEF Held, InHand, vars, graph, counter, tally
<1>3. Next => \E t \in Threads : Acts(t)
  BY DEF Next, Acts
<1> QED BY <1>1, <1>2, <1>3

\* The process ends only for one of the reasons the property names: the calls of jobs
\* that are linked find what they expect, an undisturbed count has nothing in hand
\* that is destroyed, and after the end nothing happens.
LEMMA SafeStep == Typed /\ Linked /\ Held /\ ForestIsSafe /\ [Next]_vars => ForestIsSafe'
<1>1. ASSUME Typed, Linked, Held, proc = "runs", NEW t \in Threads, Acts(t)
      PROVE  ForestIsSafe'
  <2>0. /\ PlaceTyped(t) /\ job \in [Threads -> Jobs \cup {None}]
        /\ clean \in [Jobs -> BOOLEAN] /\ lists \in [Nodes -> Seq(Jobs)]
    BY <1>1 DEF Typed, ValuesTyped, ForestTyped, CallsTyped, CountsTyped
  <2> SUFFICES ASSUME proc' # "runs"
               PROVE  \/ ~AllClean'
                      \/ \E u \in Threads : shrunk'[u]
                      \/ \E n \in Jobs \ Alive' : lists'[n] # <<>>
    BY DEF ForestIsSafe
  <2>1. \/ FindsNot(t) \/ Crashes(t)
        \/ Rereads(t) /\ None \in {node[t], parent[job[t]]}
    BY <1>1 DEF Acts, Continues, Schedules, ErasesFrom, Erases, Begins, Counts, Adopts,
                Adds, Added, Rereads, Orphans, Drops, Dropped, Unroots, Expands, Reads,
                ReadAll, Counted, Goes
  <2>2. at[t] \in Changing => job[t] \in Jobs /\ (clean[job[t]] => Placed(t, job[t]))
    BY <1>1, <2>0 DEF PlaceTyped, Linked, LinkedTo
  <2>3. CASE FindsNot(t)
    <3>1. at[t] = "unroot" /\ job[t] \notin ToSet(lists[Top]) /\ UNCHANGED clean
      BY <2>3 DEF FindsNot
    <3>2. job[t] \in Jobs /\ ~clean[job[t]]
      BY <2>2, <3>1 DEF Changing, Placed, Places
    <3> QED BY <3>1, <3>2 DEF AllClean
  <2>4. CASE Rereads(t) /\ None \in {node[t], parent[job[t]]}
    <3>1. at[t] = "reread" /\ UNCHANGED clean
      BY <2>4 DEF Rereads, Goes
    <3>2. job[t] \in Jobs /\ ~clean[job[t]]
      BY <2>0, <2>2, <2>4, <3>1, Names DEF Changing, Placed, PlaceTyped
    <3> QED BY <3>1, <3>2 DEF AllClean
  <2>5. CASE Crashes(t)
    <3>1. /\ UNCHANGED <<lists, args, sub, clean, shrunk>>
          /\ at[t] \in {"drop", "dropping", "expand", "read"} /\ node[t] \notin Alive
      BY <2>5 DEF Crashes, graph, counter, tally
    <3>2. Alive' = Alive
      BY <3>1 DEF Alive, Reach
    <3>3. CASE at[t] \in {"drop", "dropping"}
      <4>1. job[t] \in Jobs /\ node[t] \in Jobs
        BY <2>0, <2>2, <3>3 DEF PlaceTyped, Changing
      <4>2. CASE clean[job[t]]
        <5>1. job[t] \in ToSet(lists[node[t]])
          BY <2>2, <3>3, <4>2 DEF Changing, Placed, Places
        <5>2. lists[node[t]] # <<>>
          BY <5>1 DEF ToSet
        <5> QED BY <3>1, <3>2, <4>1, <5>2
      <4>3. CASE ~clean[job[t]]
        BY <3>1, <4>1, <4>3 DEF AllClean
      <4> QED BY <4>2, <4>3
    <3>4. CASE at[t] \in {"expand", "read"}
      <4>1. node[t] \notin Reach({Top})
        BY <3>1, ReachedIsAlive
      <4>2. shrunk[t]
        BY <1>1, <3>4, <4>1 DEF Held, InHand
      <4> QED BY <3>1, <4>2
    <3> QED BY <3>1, <3>3, <3>4
  <2> QED BY <2>1, <2>3, <2>4, <2>5
<1>2. ASSUME proc # "runs", NEW t \in Threads
      PROVE  ~Acts(t)
  BY <1>2 DEF Acts, Continues, Schedules, ErasesFrom, Erases, Begins, Counts, Adopts, Adds,
              Added, Rereads, Orphans, Drops, Dropped, Unroots, FindsNot, Expands, Reads,
              ReadAll, Counted, Crashes, Goes
<1>3. ASSUME ForestIsSafe, UNCHANGED vars
      PROVE  ForestIsSafe'
  BY <1>3 DEF ForestIsSafe, AllClean, Alive, Reach, vars, graph, counter, tally
<1>4. Next => \E t \in Threads : Acts(t)
  BY DEF Next, Acts
<1> QED BY <1>1, <1>2, <1>3, <1>4

\* Neither the exception of erase nor a destroyed job ends the process, unless a job
\* was shared or was in two calls at once, a job was erased under a count, or a
\* parent was destroyed before its child (runner.cpp:280-303, 319-328).
THEOREM ForestSafety == Spec => []ForestIsSafe
<1>1. Init => ForestIsSafe
  BY DEF Init, ForestIsSafe
<1> QED BY <1>1, TypedStart, TypedStep, LinkedStart, LinkedStep, HeldStart, HeldStep,
           SafeStep, PTL DEF Spec

-------------------------------------------------------------------------------
(* What a count adds up *)

\* What the lists of L lead to from the roots, where L gives each node a set of jobs.
Led(L) ==
  {n \in Nodes : \A S \in SUBSET Nodes :
                   Top \in S /\ (\A m \in S : L[m] \subseteq S) => n \in S}

\* Each job is in one of the lists at most.
Sheds(L) == \A m, n \in Nodes : L[m] \cap L[n] # {} => m = n

Sets == [n \in Nodes |-> ToSet(lists[n])]

\* A count has added the lists of the nodes D, of which it has locked and read those
\* of X; what it has read of the last one is without what is left.  All lists meanwhile
\* were between lo and hi, and the jobs it has counted are K.
Swept(lo, hi, X, D, K, rest) ==
  /\ Top \in X /\ X \subseteq D
  /\ \A n \in D : lo[n] \subseteq K
  /\ \A n \in X : lo[n] \subseteq D \cup rest
  /\ \A k \in K : \E n \in D : k \in hi[n]
  /\ D \subseteq Led(hi)
  /\ \A j \in D \ {Top} : \E n \in X : j \in hi[n]
  /\ rest \cap D = {}

LEMMA LedIsClosed ==
  ASSUME NEW L \in [Nodes -> SUBSET Jobs]
  PROVE  /\ Top \in Led(L) /\ Led(L) \subseteq Nodes
         /\ \A n \in Led(L) : L[n] \subseteq Led(L)
<1>1. Top \in Led(L) /\ Led(L) \subseteq Nodes
  BY Names DEF Led
<1>2. ASSUME NEW n \in Led(L), NEW j \in L[n]
      PROVE  j \in Led(L)
  <2>1. n \in Nodes /\ j \in Nodes
    BY <1>1, <1>2, Names
  <2>2. ASSUME NEW S \in SUBSET Nodes, Top \in S, \A m \in S : L[m] \subseteq S
        PROVE  j \in S
    BY <1>2, <2>2 DEF Led
  <2> QED BY <2>1, <2>2 DEF Led
<1> QED BY <1>1, <1>2

LEMMA LedIsLeast ==
  ASSUME NEW L \in [Nodes -> SUBSET Jobs], NEW S \in SUBSET Nodes, Top \in S,
         \A m \in S : L[m] \subseteq S
  PROVE  Led(L) \subseteq S
BY DEF Led

LEMMA LedGrows ==
  ASSUME NEW lo \in [Nodes -> SUBSET Jobs], NEW hi \in [Nodes -> SUBSET Jobs],
         \A n \in Nodes : lo[n] \subseteq hi[n]
  PROVE  Led(lo) \subseteq Led(hi)
<1>1. /\ Led(hi) \in SUBSET Nodes /\ Top \in Led(hi)
      /\ \A n \in Led(hi) : lo[n] \subseteq Led(hi)
  BY LedIsClosed
<1> QED BY <1>1, LedIsLeast

\* The lists lead to what Led says.
LEMMA AttachedIsLed ==
  ASSUME lists \in [Nodes -> Seq(Jobs)]
  PROVE  /\ Sets \in [Nodes -> SUBSET Jobs] /\ Attached = Led(Sets) \ {Top}
<1>1. \A n \in Nodes : ToSet(lists[n]) \subseteq Jobs /\ Sets[n] = ToSet(lists[n])
  BY DEF ToSet, Sets
<1>2. Sets \in [Nodes -> SUBSET Jobs]
  BY <1>1 DEF Sets
<1>3. Reach({Top}) = Led(Sets)
  <2>1. ASSUME NEW S \in SUBSET Nodes
        PROVE  (Top \in S /\ \A m \in S : Sets[m] \subseteq S) <=>
               ({Top} \subseteq S /\ \A n \in S : ToSet(lists[n]) \subseteq S)
    BY <1>1
  <2> HIDE DEF Sets
  <2> QED BY <2>1 DEF Reach, Led
<1> QED BY <1>2, <1>3 DEF Attached

\* The first list.
LEMMA SweptStarts ==
  ASSUME NEW lo \in [Nodes -> SUBSET Jobs], NEW hi \in [Nodes -> SUBSET Jobs],
         NEW R \in SUBSET Jobs, lo[Top] \subseteq R, R \subseteq hi[Top]
  PROVE  Swept(lo, hi, {Top}, {Top}, R, R)
BY LedIsClosed, Names DEF Swept

\* The list of a node that was added before is locked: none of its jobs has been read,
\* because each of those was in the list of another node.
LEMMA SweptExpands ==
  ASSUME NEW lo \in [Nodes -> SUBSET Jobs], NEW hi \in [Nodes -> SUBSET Jobs],
         NEW X, NEW D, NEW K, Swept(lo, hi, X, D, K, {}), Sheds(hi), D \subseteq Nodes,
         NEW n \in D \ X, NEW R \in SUBSET Jobs, lo[n] \subseteq R, R \subseteq hi[n]
  PROVE  Swept(lo, hi, X \cup {n}, D, K, R)
<1>1. R \cap D = {}
  <2> SUFFICES ASSUME NEW j \in R, j \in D
               PROVE  FALSE
    OBVIOUS
  <2>1. j # Top
    BY Names
  <2>2. PICK q \in X : j \in hi[q]
    BY <2>1 DEF Swept
  <2>3. q \in Nodes /\ n \in Nodes /\ j \in hi[q] \cap hi[n] /\ q # n
    BY <2>2 DEF Swept
  <2> QED BY <2>3 DEF Sheds
<1>2. /\ Top \in X \cup {n} /\ X \cup {n} \subseteq D
      /\ \A m \in D : lo[m] \subseteq K
      /\ \A k \in K : \E m \in D : k \in hi[m]
      /\ D \subseteq Led(hi)
  BY DEF Swept
<1>3. \A m \in X \cup {n} : lo[m] \subseteq D \cup R
  BY DEF Swept
<1>4. \A j \in D \ {Top} : \E m \in X \cup {n} : j \in hi[m]
  BY DEF Swept
<1> QED BY <1>1, <1>2, <1>3, <1>4 DEF Swept

\* A job is read: its list is added, of which nothing was counted before.
LEMMA SweptAnew ==
  ASSUME NEW lo, NEW hi, NEW X, NEW D \in SUBSET Nodes, NEW K, NEW rest,
         Swept(lo, hi, X, D, K, rest), Sheds(hi), NEW j \in Nodes \ D
  PROVE  K \cap hi[j] = {}
<1> SUFFICES ASSUME NEW k \in K, k \in hi[j]
             PROVE  FALSE
  OBVIOUS
<1>1. PICK n \in D : k \in hi[n]
  BY DEF Swept
<1>2. n \in Nodes /\ k \in hi[n] \cap hi[j] /\ n # j
  BY <1>1
<1> QED BY <1>2 DEF Sheds

LEMMA SweptReads ==
  ASSUME NEW lo \in [Nodes -> SUBSET Jobs], NEW hi \in [Nodes -> SUBSET Jobs],
         NEW X, NEW D \in SUBSET Nodes, NEW K, NEW rest, Swept(lo, hi, X, D, K, rest),
         NEW p \in X, NEW j \in rest, j \in hi[p],
         NEW R, lo[j] \subseteq R, R \subseteq hi[j]
  PROVE  Swept(lo, hi, X, D \cup {j}, K \cup R, rest \ {j})
<1>1. p \in D /\ p \in Led(hi)
  BY DEF Swept
<1>2. j \in Led(hi)
  BY <1>1, LedIsClosed
<1>3. /\ Top \in X /\ X \subseteq D \cup {j} /\ D \cup {j} \subseteq Led(hi)
      /\ (rest \ {j}) \cap (D \cup {j}) = {}
  BY <1>2 DEF Swept
<1>4. /\ \A n \in D \cup {j} : lo[n] \subseteq K \cup R
      /\ \A n \in X : lo[n] \subseteq (D \cup {j}) \cup (rest \ {j})
  BY DEF Swept
<1>5. \A k \in K \cup R : \E n \in D \cup {j} : k \in hi[n]
  BY DEF Swept
<1>6. \A i \in (D \cup {j}) \ {Top} : \E n \in X : i \in hi[n]
  BY DEF Swept
<1> QED BY <1>3, <1>4, <1>5, <1>6 DEF Swept

\* Wider bounds bound as well.
LEMMA SweptStays ==
  ASSUME NEW lo \in [Nodes -> SUBSET Jobs], NEW hi \in [Nodes -> SUBSET Jobs],
         NEW lo2 \in [Nodes -> SUBSET Jobs], NEW hi2 \in [Nodes -> SUBSET Jobs],
         \A n \in Nodes : lo2[n] \subseteq lo[n] /\ hi[n] \subseteq hi2[n],
         NEW X, NEW D \in SUBSET Nodes, NEW K, NEW rest, Swept(lo, hi, X, D, K, rest)
  PROVE  Swept(lo2, hi2, X, D, K, rest)
<1>1. D \subseteq Led(hi2)
  BY LedGrows DEF Swept
<1>2. Top \in X /\ X \subseteq D /\ rest \cap D = {}
  BY DEF Swept
<1>3. /\ \A n \in D : lo2[n] \subseteq K
      /\ \A n \in X : lo2[n] \subseteq D \cup rest
  BY <1>2 DEF Swept
<1>4. \A k \in K : \E n \in D : k \in hi2[n]
  BY DEF Swept
<1>5. \A j \in D \ {Top} : \E n \in X : j \in hi2[n]
  BY <1>2 DEF Swept
<1> QED BY <1>1, <1>2, <1>3, <1>4, <1>5 DEF Swept

\* At the end everything was counted that was attached all the time, and nothing that
\* was not.
LEMMA SweptEnds ==
  ASSUME NEW lo \in [Nodes -> SUBSET Jobs], NEW hi \in [Nodes -> SUBSET Jobs],
         NEW X \in SUBSET Nodes, NEW K \in SUBSET Jobs, Swept(lo, hi, X, X, K, {})
  PROVE  Led(lo) \ {Top} \subseteq K /\ K \subseteq Led(hi) \ {Top}
<1>1. Led(lo) \subseteq X
  BY LedIsLeast DEF Swept
<1>2. Led(lo) \ {Top} \subseteq K
  <2> DEFINE S == {Top} \cup {j \in X : j \in K}
  <2>1. S \in SUBSET Nodes /\ Top \in S /\ \A m \in S : lo[m] \subseteq S
    BY Names DEF Swept
  <2>2. Led(lo) \subseteq S
    <3> HIDE DEF S
    <3> QED BY <2>1, LedIsLeast
  <2> QED BY <2>2
<1>3. K \subseteq Led(hi) \ {Top}
  <2>1. \A n \in Led(hi) : hi[n] \subseteq Led(hi)
    BY LedIsClosed
  <2> QED BY <2>1, Names DEF Swept
<1> QED BY <1>2, <1>3

\* A list that holds no job twice ...
Distinct(list) == \A j \in Jobs : IsOnce(list, j)

LEMMA DistinctEnds ==
  ASSUME NEW list \in Seq(Jobs), list # <<>>, Distinct(list)
  PROVE  /\ ToSet(Tail(list)) = ToSet(list) \ {Head(list)} /\ Distinct(Tail(list))
         /\ ToSet(list) = ToSet(Front(list)) \cup {Last(list)}
         /\ Last(list) \notin ToSet(Front(list)) /\ Distinct(Front(list))
<1>1. /\ Len(list) \in Nat /\ Len(list) # 0 /\ Head(list) = list[1]
      /\ Last(list) = list[Len(list)]
      /\ \A i \in 1 .. Len(list) : list[i] \in Jobs
      /\ \A l \in Seq(Jobs) : ToSet(l) = {l[i] : i \in 1 .. Len(l)}
  BY DEF ToSet, Last
<1>2. \A i, k \in 1 .. Len(list) : list[i] = list[k] => i = k
  BY <1>1 DEF Distinct, IsOnce
<1> DEFINE tail == Tail(list)  front == Front(list)
<1>3. /\ tail \in Seq(Jobs) /\ Len(tail) = Len(list) - 1
      /\ \A i \in 1 .. Len(list) - 1 : tail[i] = list[i + 1]
  BY <1>1
<1>4. /\ front \in Seq(Jobs) /\ Len(front) = Len(list) - 1
      /\ \A i \in 1 .. Len(list) - 1 : front[i] = list[i]
  BY FrontEffect
<1> HIDE DEF tail, front
<1>5. /\ ToSet(list) = {list[i] : i \in 1 .. Len(list)}
      /\ ToSet(tail) = {tail[i] : i \in 1 .. Len(list) - 1}
      /\ ToSet(front) = {front[i] : i \in 1 .. Len(list) - 1}
  BY <1>1, <1>3, <1>4
<1>6. ToSet(tail) = ToSet(list) \ {list[1]}
  <2>1. ASSUME NEW i \in 1 .. Len(list) - 1
        PROVE  tail[i] \in ToSet(list) \ {list[1]}
    <3>1. i + 1 \in 1 .. Len(list) /\ 1 \in 1 .. Len(list) /\ i + 1 # 1
      BY <1>1
    <3> QED BY <1>2, <1>3, <1>5, <3>1
  <2>2. ASSUME NEW i \in 1 .. Len(list), list[i] # list[1]
        PROVE  list[i] \in ToSet(tail)
    <3>1. i - 1 \in 1 .. Len(list) - 1 /\ (i - 1) + 1 = i
      BY <1>1, <2>2
    <3>2. tail[i - 1] = list[i]
      BY <1>3, <3>1
    <3> QED BY <1>5, <3>1, <3>2
  <2> QED BY <1>5, <2>1, <2>2
<1>7. Distinct(tail)
  <2>1. \A i, k \in 1 .. Len(list) - 1 : tail[i] = tail[k] => i = k
    <3> SUFFICES ASSUME NEW i \in 1 .. Len(list) - 1, NEW k \in 1 .. Len(list) - 1,
                        tail[i] = tail[k]
                 PROVE  i = k
      OBVIOUS
    <3>1. i + 1 \in 1 .. Len(list) /\ k + 1 \in 1 .. Len(list)
      BY <1>1
    <3>2. list[i + 1] = list[k + 1]
      BY <1>3
    <3>3. i + 1 = k + 1
      BY <1>2, <3>1, <3>2
    <3> QED BY <3>3
  <2> QED BY <1>3, <2>1 DEF Distinct, IsOnce
<1>8. ToSet(list) = ToSet(front) \cup {list[Len(list)]} /\ list[Len(list)] \notin ToSet(front)
  <2>1. \A i \in 1 .. Len(list) - 1 : i \in 1 .. Len(list) /\ i # Len(list)
    BY <1>1
  <2>2. \A i \in 1 .. Len(list) : i = Len(list) \/ i \in 1 .. Len(list) - 1
    BY <1>1
  <2>3. Len(list) \in 1 .. Len(list)
    BY <1>1
  <2>4. /\ \A i \in 1 .. Len(list) - 1 : list[i] # list[Len(list)]
        /\ \A i \in 1 .. Len(list) - 1 : front[i] = list[i]
    BY <1>2, <1>4, <2>1, <2>3
  <2>5. list[Len(list)] \notin ToSet(front)
    BY <1>5, <2>4
  <2>6. ToSet(list) \subseteq ToSet(front) \cup {list[Len(list)]}
    BY <1>5, <2>2, <2>4
  <2>7. ToSet(front) \cup {list[Len(list)]} \subseteq ToSet(list)
    BY <1>5, <2>1, <2>3, <2>4
  <2> QED BY <2>5, <2>6, <2>7
<1>9. Distinct(front)
  <2>1. \A i \in 1 .. Len(list) - 1 : i \in 1 .. Len(list)
    BY <1>1
  <2> QED BY <1>2, <1>4, <2>1 DEF Distinct, IsOnce
<1> QED BY <1>1, <1>6, <1>7, <1>8, <1>9 DEF tail, front

\* ... has as many jobs as it is long.
LEMMA DistinctLength ==
  ASSUME NEW list \in Seq(Jobs), Distinct(list)
  PROVE  IsFiniteSet(ToSet(list)) /\ Cardinality(ToSet(list)) = Len(list)
<1>1. /\ Len(list) \in Nat /\ list \in [1 .. Len(list) -> Jobs]
      /\ ToSet(list) = {list[i] : i \in 1 .. Len(list)}
  BY DEF ToSet
<1>2. \A i, k \in 1 .. Len(list) : list[i] = list[k] => i = k
  BY <1>1 DEF Distinct, IsOnce
<1>3. list \in Bijection(1 .. Len(list), ToSet(list))
  <2>1. list \in [1 .. Len(list) -> ToSet(list)]
    BY <1>1
  <2>2. \A j \in ToSet(list) : \E i \in 1 .. Len(list) : list[i] = j
    BY <1>1
  <2> QED BY <1>2, <2>1, <2>2 DEF Bijection, Injection, Surjection, IsInjective
<1>4. ExistsBijection(1 .. Len(list), ToSet(list))
  BY <1>3 DEF ExistsBijection
<1> QED BY <1>1, <1>4, FS_CountingElements, FS_NatBijection


\* A thread that is at p with the list of n adds up: what it has in hand are the nodes
\* of D, and those of X are behind it.
InTurn(p, n, s, r, hi, X, D) ==
  /\ Distinct(s) /\ Distinct(r)
  /\ D = X \cup ToSet(s) \cup (IF p = "expand" THEN {n} ELSE {})
  /\ ToSet(s) \cap X = {}
  /\ p = "expand" => n \notin X \cup ToSet(s)
  /\ p = "read" => n \in X /\ ToSet(r) \subseteq hi[n]
  /\ p # "read" => r = <<>>
  /\ p = "counted" => s = <<>>

\* Before the first list is locked it has added nothing, and later the sum is that of
\* the jobs it has swept.
Sums(p, n, s, r, sum, lo, hi) ==
  \/ p = "expand" /\ n = Top /\ s = <<>> /\ r = <<>>
  \/ /\ ~(p = "expand" /\ n = Top)
     /\ \E X, D \in SUBSET Nodes, K \in SUBSET Jobs :
          /\ Swept(lo, hi, X, D, K, ToSet(r))
          /\ InTurn(p, n, s, r, hi, X, D)
          /\ sum = Cardinality(K)

LEMMA NothingInHand == ToSet(<<>>) = {} /\ Distinct(<<>>) /\ <<>> \in Seq(Jobs)
BY DEF ToSet, Distinct, IsOnce

LEMMA SumsExpand ==
  ASSUME NEW lo \in [Nodes -> SUBSET Jobs], NEW hi \in [Nodes -> SUBSET Jobs], Sheds(hi),
         NEW n \in Nodes, NEW s \in Seq(Jobs), NEW r, NEW sum,
         Sums("expand", n, s, r, sum, lo, hi),
         NEW list \in Seq(Jobs), Distinct(list),
         lo[n] \subseteq ToSet(list), ToSet(list) \subseteq hi[n]
  PROVE  Sums("read", n, s, list, IF n = Top THEN Len(list) ELSE sum, lo, hi)
<1>0. ToSet(list) \in SUBSET Jobs
  BY DEF ToSet
<1>1. CASE n = Top
  <2>1. s = <<>>
    BY <1>1 DEF Sums
  <2>2. Swept(lo, hi, {Top}, {Top}, ToSet(list), ToSet(list))
    BY <1>0, <1>1, SweptStarts
  <2>3. InTurn("read", n, s, list, hi, {Top}, {Top})
    BY <1>1, <2>1, NothingInHand DEF InTurn
  <2>4. Len(list) = Cardinality(ToSet(list))
    BY DistinctLength
  <2>5. {Top} \in SUBSET Nodes
    BY Names
  <2> QED BY <1>0, <1>1, <2>2, <2>3, <2>4, <2>5 DEF Sums
<1>2. CASE n # Top
  <2>1. PICK X \in SUBSET Nodes, D \in SUBSET Nodes, K \in SUBSET Jobs :
          /\ Swept(lo, hi, X, D, K, ToSet(r))
          /\ InTurn("expand", n, s, r, hi, X, D)
          /\ sum = Cardinality(K)
    BY <1>2 DEF Sums
  <2>2. r = <<>> /\ n \in D \ X
    BY <2>1 DEF InTurn
  <2>3. Swept(lo, hi, X, D, K, {})
    BY <2>1, <2>2, NothingInHand
  <2>4. Swept(lo, hi, X \cup {n}, D, K, ToSet(list))
    BY <1>0, <2>2, <2>3, SweptExpands
  <2>5. InTurn("read", n, s, list, hi, X \cup {n}, D)
    BY <2>1 DEF InTurn
  <2>6. X \cup {n} \in SUBSET Nodes
    OBVIOUS
  <2> QED BY <1>2, <2>1, <2>4, <2>5, <2>6 DEF Sums
<1> QED BY <1>1, <1>2

LEMMA SumsRead ==
  ASSUME NEW lo \in [Nodes -> SUBSET Jobs], NEW hi \in [Nodes -> SUBSET Jobs], Sheds(hi),
         NEW n \in Nodes, NEW s \in Seq(Jobs), NEW r \in Seq(Jobs), NEW sum,
         Sums("read", n, s, r, sum, lo, hi), r # <<>>,
         NEW list \in Seq(Jobs), Distinct(list),
         lo[Head(r)] \subseteq ToSet(list), ToSet(list) \subseteq hi[Head(r)]
  PROVE  Sums("read", n, Append(s, Head(r)), Tail(r), sum + Len(list), lo, hi)
<1> DEFINE j == Head(r)
<1>1. PICK X \in SUBSET Nodes, D \in SUBSET Nodes, K \in SUBSET Jobs :
        /\ Swept(lo, hi, X, D, K, ToSet(r))
        /\ InTurn("read", n, s, r, hi, X, D)
        /\ sum = Cardinality(K)
  BY DEF Sums
<1>2. j \in ToSet(r) /\ j \in Jobs
  BY EndsEffect
<1>3. /\ ToSet(Tail(r)) = ToSet(r) \ {j} /\ Distinct(Tail(r))
  BY <1>1, DistinctEnds DEF InTurn
<1>4. ToSet(list) \in SUBSET Jobs /\ j \notin D
  BY <1>1, <1>2 DEF ToSet, Swept
<1> HIDE DEF j
<1>5. /\ Swept(lo, hi, X, D \cup {j}, K \cup ToSet(list), ToSet(Tail(r)))
      /\ K \cap ToSet(list) = {}
  <2> DEFINE rest == ToSet(r)
             R    == ToSet(list)
  <2>1. n \in X /\ j \in hi[n] /\ j \in rest
    BY <1>1, <1>2 DEF InTurn
  <2>2. lo[j] \subseteq R /\ R \subseteq hi[j]
    BY DEF j
  <2>3. Swept(lo, hi, X, D, K, rest) /\ j \in Nodes \ D
    BY <1>1, <1>2, <1>4, Names
  <2> HIDE DEF rest, R
  <2>4. Swept(lo, hi, X, D \cup {j}, K \cup R, rest \ {j})
    BY <2>1, <2>2, <2>3, SweptReads
  <2>5. K \cap R = {}
    BY <2>2, <2>3, SweptAnew
  <2> QED BY <1>3, <2>4, <2>5 DEF rest, R
<1>6. InTurn("read", n, Append(s, j), Tail(r), hi, X, D \cup {j})
  <2>1. D = X \cup ToSet(s)
    BY <1>1 DEF InTurn
  <2>2. /\ ToSet(Append(s, j)) = ToSet(s) \cup {j}
        /\ \A k \in Jobs : IsOnce(s, k) /\ (k # j \/ k \notin ToSet(s))
                             => IsOnce(Append(s, j), k)
    BY <1>2, AppendEffect
  <2>3. Distinct(Append(s, j))
    BY <1>1, <1>4, <2>1, <2>2 DEF Distinct, InTurn
  <2>4. D \cup {j} = X \cup ToSet(Append(s, j)) /\ ToSet(Append(s, j)) \cap X = {}
    BY <1>1, <1>4, <2>1, <2>2 DEF InTurn
  <2>5. n \in X /\ ToSet(Tail(r)) \subseteq hi[n]
    BY <1>1, <1>3 DEF InTurn
  <2> QED BY <1>3, <2>3, <2>4, <2>5 DEF InTurn
<1>7. sum + Len(list) = Cardinality(K \cup ToSet(list))
  <2>1. IsFiniteSet(ToSet(list)) /\ Cardinality(ToSet(list)) = Len(list) /\ IsFiniteSet(K)
    BY JobGraphAssumption, DistinctLength, FS_Subset DEF JobGraphAssumption
  <2>2. /\ Cardinality(K \cup ToSet(list))
             = Cardinality(K) + Cardinality(ToSet(list)) - Cardinality(K \cap ToSet(list))
        /\ Cardinality(K \cap ToSet(list)) = 0
        /\ Cardinality(K) \in Nat
    BY <1>5, <2>1, FS_Union, FS_EmptySet, FS_CardinalityType
  <2> QED BY <1>1, <2>1, <2>2
<1>8. D \cup {j} \in SUBSET Nodes /\ K \cup ToSet(list) \in SUBSET Jobs
  BY <1>2, <1>4, Names
<1> QED BY <1>5, <1>6, <1>7, <1>8 DEF Sums, j

LEMMA SumsReadAll ==
  ASSUME NEW lo \in [Nodes -> SUBSET Jobs], NEW hi \in [Nodes -> SUBSET Jobs],
         NEW n \in Nodes, NEW s \in Seq(Jobs), NEW sum,
         Sums("read", n, s, <<>>, sum, lo, hi)
  PROVE  IF s = <<>> THEN Sums("counted", n, s, <<>>, sum, lo, hi)
         ELSE Sums("expand", Last(s), Front(s), <<>>, sum, lo, hi)
<1>1. PICK X \in SUBSET Nodes, D \in SUBSET Nodes, K \in SUBSET Jobs :
        /\ Swept(lo, hi, X, D, K, ToSet(<<>>))
        /\ InTurn("read", n, s, <<>>, hi, X, D)
        /\ sum = Cardinality(K)
  BY DEF Sums
<1>2. CASE s = <<>>
  <2>1. InTurn("counted", n, s, <<>>, hi, X, D)
    BY <1>1, <1>2 DEF InTurn
  <2> QED BY <1>1, <1>2, <2>1 DEF Sums
<1>3. CASE s # <<>>
  <2>1. /\ ToSet(s) = ToSet(Front(s)) \cup {Last(s)} /\ Last(s) \notin ToSet(Front(s))
        /\ Distinct(Front(s)) /\ Last(s) \in Jobs
    BY <1>1, <1>3, DistinctEnds, EndsEffect DEF InTurn
  <2>2. InTurn("expand", Last(s), Front(s), <<>>, hi, X, D)
    BY <1>1, <2>1 DEF InTurn
  <2>3. Last(s) # Top
    BY <2>1, Names
  <2> QED BY <1>1, <1>3, <2>2, <2>3 DEF Sums
<1> QED BY <1>2, <1>3

LEMMA SumsStay ==
  ASSUME NEW lo \in [Nodes -> SUBSET Jobs], NEW hi \in [Nodes -> SUBSET Jobs],
         NEW lo2 \in [Nodes -> SUBSET Jobs], NEW hi2 \in [Nodes -> SUBSET Jobs],
         \A n \in Nodes : lo2[n] \subseteq lo[n] /\ hi[n] \subseteq hi2[n],
         NEW p, NEW n, NEW s, NEW r, NEW sum, Sums(p, n, s, r, sum, lo, hi)
  PROVE  Sums(p, n, s, r, sum, lo2, hi2)
<1>1. CASE p = "expand" /\ n = Top
  BY <1>1 DEF Sums
<1>2. CASE ~(p = "expand" /\ n = Top)
  <2>1. PICK X \in SUBSET Nodes, D \in SUBSET Nodes, K \in SUBSET Jobs :
          /\ Swept(lo, hi, X, D, K, ToSet(r))
          /\ InTurn(p, n, s, r, hi, X, D)
          /\ sum = Cardinality(K)
    BY <1>2 DEF Sums
  <2>2. Swept(lo2, hi2, X, D, K, ToSet(r))
    BY <2>1, SweptStays
  <2>3. InTurn(p, n, s, r, hi2, X, D)
    BY <2>1 DEF InTurn
  <2> QED BY <1>2, <2>1, <2>2, <2>3 DEF Sums
<1> QED BY <1>1, <1>2

LEMMA SumsEnd ==
  ASSUME NEW lo \in [Nodes -> SUBSET Jobs], NEW hi \in [Nodes -> SUBSET Jobs],
         NEW n, NEW s, NEW r, NEW sum, Sums("counted", n, s, r, sum, lo, hi)
  PROVE  Cardinality(Led(lo) \ {Top}) <= sum /\ sum <= Cardinality(Led(hi) \ {Top})
<1>1. PICK X \in SUBSET Nodes, D \in SUBSET Nodes, K \in SUBSET Jobs :
        /\ Swept(lo, hi, X, D, K, ToSet(r))
        /\ InTurn("counted", n, s, r, hi, X, D)
        /\ sum = Cardinality(K)
  BY DEF Sums
<1>2. X = D /\ ToSet(r) = {}
  BY <1>1, NothingInHand DEF InTurn
<1>3. Led(lo) \ {Top} \subseteq K /\ K \subseteq Led(hi) \ {Top}
  BY <1>1, <1>2, SweptEnds
<1>4. IsFiniteSet(K) /\ IsFiniteSet(Led(hi) \ {Top})
  <2>1. Led(hi) \ {Top} \subseteq Jobs
    BY LedIsClosed, Names
  <2> QED BY <2>1, JobGraphAssumption, FS_Subset DEF JobGraphAssumption
<1> QED BY <1>1, <1>3, <1>4, FS_Subset

\* While no job was shared, the lists hold no job twice.
Shedding == AllClean => Sheds(Sets) /\ \A n \in Nodes : Distinct(lists[n])

LEMMA LinkedShed == Typed /\ Linked => Shedding
<1> SUFFICES ASSUME Typed, Linked, AllClean
             PROVE  Sheds(Sets) /\ \A n \in Nodes : Distinct(lists[n])
  BY DEF Shedding
<1>1. \A j \in Jobs : LinkedTo(j)
  BY DEF Linked, AllClean
<1>2. ASSUME NEW m \in Nodes, NEW n \in Nodes, NEW j \in Sets[m] \cap Sets[n]
      PROVE  m = n
  <2>1. j \in Jobs /\ m \in Places(j) /\ n \in Places(j)
    BY <1>2 DEF Typed, ValuesTyped, ForestTyped, Sets, ToSet, Places
  <2>2. LinkedTo(j)
    BY <1>1, <2>1
  <2>3. CASE ~InCall(j)
    BY <2>1, <2>2, <2>3 DEF LinkedTo, Settled
  <2>4. CASE InCall(j)
    <3>1. PICK t \in Threads : job[t] = j
      BY <2>4 DEF InCall
    <3>2. at[t] \in Changing /\ Placed(t, j)
      BY <2>1, <2>2, <3>1, Names DEF Typed, PlaceTyped, LinkedTo
    <3> QED BY <2>1, <3>2 DEF Placed, Changing
  <2> QED BY <2>3, <2>4
<1>3. Sheds(Sets)
  BY <1>2 DEF Sheds
<1>4. \A n \in Nodes : Distinct(lists[n])
  BY <1>1 DEF LinkedTo, Distinct
<1> QED BY <1>3, <1>4

\* All lists since the count began were between lo and hi; from[t] was counted when one
\* of them was what the lists were.
Spans(t, lo, hi) ==
  /\ \A n \in Nodes : lo[n] \subseteq Sets[n] /\ Sets[n] \subseteq hi[n]
  /\ Sheds(hi)
  /\ ~shrunk[t] => hi = Sets /\ from[t] = Cardinality(Led(lo) \ {Top})
  /\ ~grown[t] => lo = Sets /\ from[t] = Cardinality(Led(hi) \ {Top})

Tracked(t) ==
  at[t] \in Counting /\ AllClean /\ ~torn[t] /\ (~shrunk[t] \/ ~grown[t]) =>
    \E lo, hi \in [Nodes -> SUBSET Jobs] :
      Spans(t, lo, hi) /\ Sums(at[t], node[t], sub[t], todo[t], total[t], lo, hi)

Tracking == \A t \in Threads : Tracked(t)

LEMMA SpansStay ==
  ASSUME NEW t, NEW lo, NEW hi, UNCHANGED lists, shrunk'[t] = shrunk[t],
         grown'[t] = grown[t], from'[t] = from[t], Spans(t, lo, hi)
  PROVE  Spans(t, lo, hi)'
<1>1. Sets' = Sets
  BY DEF Sets
<1> QED BY <1>1 DEF Spans

LEMMA OwnTracked ==
  ASSUME Typed, Held, Shedding, NEW t \in Threads, Acts(t), Tracked(t)
  PROVE  Tracked(t)'
<1>0. /\ PlaceTyped(t) /\ lists \in [Nodes -> Seq(Jobs)]
      /\ at \in [Threads -> Points] /\ node \in [Threads -> Nodes \cup {None}]
      /\ sub \in [Threads -> Seq(Jobs)] /\ todo \in [Threads -> Seq(Jobs)]
      /\ total \in [Threads -> 0 .. MaxCount]
      /\ from \in [Threads -> 0 .. Cardinality(Jobs)]
      /\ grown \in [Threads -> BOOLEAN] /\ shrunk \in [Threads -> BOOLEAN]
      /\ torn \in [Threads -> BOOLEAN]
  BY DEF Typed, ValuesTyped, ForestTyped, CallsTyped, CountsTyped
<1> SUFFICES ASSUME at'[t] \in Counting, AllClean', ~torn'[t], ~shrunk'[t] \/ ~grown'[t]
             PROVE  \E lo, hi \in [Nodes -> SUBSET Jobs] :
                      /\ Spans(t, lo, hi)'
                      /\ Sums(at'[t], node'[t], sub'[t], todo'[t], total'[t], lo, hi)
  BY DEF Tracked
<1>1. CASE Counts(t)
  <2>1. /\ at[t] = "idle" /\ at'[t] = "expand" /\ node'[t] = Top
        /\ sub'[t] = sub[t] /\ todo'[t] = todo[t] /\ UNCHANGED <<lists, clean>>
        /\ from'[t] = Cardinality(Attached)
    BY <1>0, <1>1 DEF Counts, Begins, graph
  <2>2. sub'[t] = <<>> /\ todo'[t] = <<>>
    BY <2>1 DEF Held, InHand
  <2>3. PICK L \in [Nodes -> SUBSET Jobs] : L = Sets /\ Attached = Led(L) \ {Top}
    BY <1>0, AttachedIsLed
  <2>4. Sheds(L) /\ Sets' = L
    BY <2>1, <2>3 DEF Shedding, AllClean, Sets
  <2>5. Spans(t, L, L)'
    BY <2>1, <2>3, <2>4 DEF Spans
  <2>6. Sums(at'[t], node'[t], sub'[t], todo'[t], total'[t], L, L)
    BY <2>1, <2>2 DEF Sums
  <2> QED BY <2>3, <2>5, <2>6
<1>2. CASE Expands(t) \/ Reads(t) \/ ReadAll(t)
  <2>1. /\ UNCHANGED <<lists, from, grown, shrunk, clean>>
        /\ at[t] \in Counting /\ (torn[t] => torn'[t])
    BY <1>0, <1>2 DEF Expands, Reads, ReadAll, Goes, graph, tally, Counting
  <2>2. AllClean /\ ~torn[t] /\ (~shrunk[t] \/ ~grown[t])
    BY <2>1 DEF AllClean
  <2>3. PICK lo \in [Nodes -> SUBSET Jobs], hi \in [Nodes -> SUBSET Jobs] :
          Spans(t, lo, hi) /\ Sums(at[t], node[t], sub[t], todo[t], total[t], lo, hi)
    BY <2>1, <2>2 DEF Tracked
  <2>4. Spans(t, lo, hi)'
    BY <2>1, <2>3, SpansStay
  <2>5. /\ Sheds(hi) /\ \A n \in Nodes : Distinct(lists[n])
        /\ \A n \in Nodes : lo[n] \subseteq ToSet(lists[n]) /\ ToSet(lists[n]) \subseteq hi[n]
    BY <2>2, <2>3 DEF Spans, Shedding, Sets
  <2>6. Sums(at'[t], node'[t], sub'[t], todo'[t], total'[t], lo, hi)
    <3>1. CASE Expands(t)
      <4>1. /\ at[t] = "expand" /\ at'[t] = "read" /\ node'[t] = node[t]
            /\ sub'[t] = sub[t] /\ todo'[t] = lists[node[t]]
            /\ total'[t] = IF node[t] = Top THEN Len(lists[Top]) ELSE total[t]
        BY <1>0, <3>1 DEF Expands, Goes
      <4>2. node[t] \in Nodes /\ sub[t] \in Seq(Jobs) /\ lists[node[t]] \in Seq(Jobs)
        BY <1>0, <4>1 DEF PlaceTyped
      <4>3. Sums("read", node[t], sub[t], lists[node[t]],
                 IF node[t] = Top THEN Len(lists[node[t]]) ELSE total[t], lo, hi)
        BY <2>3, <2>5, <4>1, <4>2, SumsExpand
      <4> QED BY <4>1, <4>3
    <3>2. CASE Reads(t)
      <4> DEFINE j == Head(todo[t])
      <4>1. /\ at[t] = "read" /\ at'[t] = "read" /\ node'[t] = node[t] /\ todo[t] # <<>>
            /\ sub'[t] = Append(sub[t], j) /\ todo'[t] = Tail(todo[t])
            /\ total'[t] = total[t] + Len(lists[j])
        BY <1>0, <3>2 DEF Reads, Goes, graph
      <4>2. /\ node[t] \in Nodes /\ sub[t] \in Seq(Jobs) /\ todo[t] \in Seq(Jobs)
        BY <1>0, <4>1 DEF PlaceTyped
      <4>3. j \in Nodes /\ lists[j] \in Seq(Jobs)
        BY <1>0, <4>1, <4>2, EndsEffect, Names
      <4>4. Sums("read", node[t], Append(sub[t], j), Tail(todo[t]),
                 total[t] + Len(lists[j]), lo, hi)
        BY <2>3, <2>5, <4>1, <4>2, <4>3, SumsRead
      <4> QED BY <4>1, <4>4
    <3>3. CASE ReadAll(t)
      <4>1. /\ at[t] = "read" /\ todo[t] = <<>> /\ todo'[t] = todo[t]
            /\ total'[t] = total[t]
            /\ IF sub[t] = <<>>
               THEN at'[t] = "counted" /\ node'[t] = node[t] /\ sub'[t] = sub[t]
               ELSE /\ at'[t] = "expand" /\ node'[t] = Last(sub[t])
                    /\ sub'[t] = Front(sub[t])
        BY <1>0, <3>3 DEF ReadAll, Goes
      <4>2. node[t] \in Nodes /\ sub[t] \in Seq(Jobs)
        BY <1>0, <4>1 DEF PlaceTyped
      <4>3. IF sub[t] = <<>>
            THEN Sums("counted", node[t], sub[t], <<>>, total[t], lo, hi)
            ELSE Sums("expand", Last(sub[t]), Front(sub[t]), <<>>, total[t], lo, hi)
        BY <2>3, <4>1, <4>2, SumsReadAll
      <4> QED BY <4>1, <4>3
    <3> QED BY <1>2, <3>1, <3>2, <3>3
  <2> QED BY <2>3, <2>4, <2>6
<1>3. CASE Crashes(t)
  <2>1. UNCHANGED <<lists, at, node, sub, todo, total, clean, from, grown, shrunk, torn>>
    BY <1>3 DEF Crashes, graph, counter, tally
  <2>2. PICK lo \in [Nodes -> SUBSET Jobs], hi \in [Nodes -> SUBSET Jobs] :
          Spans(t, lo, hi) /\ Sums(at[t], node[t], sub[t], todo[t], total[t], lo, hi)
    BY <2>1 DEF Tracked, AllClean
  <2> QED BY <2>1, <2>2, SpansStay
<1>4. CASE ~(Counts(t) \/ Expands(t) \/ Reads(t) \/ ReadAll(t) \/ Crashes(t))
  <2>1. at'[t] \notin Counting
    BY <1>0, <1>4
       DEF Acts, Continues, Schedules, ErasesFrom, Erases, Begins, Adopts, Adds, Added,
           Rereads, Orphans, Drops, Dropped, Unroots, FindsNot, Counted, Goes, Returns,
           Counting
  <2> QED BY <2>1
<1> QED BY <1>1, <1>2, <1>3, <1>4

\* What a change of the lists makes of them.
LEMMA AddedGrows ==
  ASSUME lists \in [Nodes -> Seq(Jobs)], job \in [Threads -> Jobs \cup {None}],
         NEW t \in Threads, PlaceTyped(t), Added(t)
  PROVE  \A n \in Nodes : ToSet(lists[n]) \subseteq ToSet(lists'[n])
<1> DEFINE old  == lists[node[t]]
           list == Append(old, job[t])
<1>1. /\ node[t] \in Nodes /\ job[t] \in Jobs
      /\ lists' = [lists EXCEPT ![node[t]] = list]
  BY Names DEF Added, PlaceTyped, Changing
<1>2. old \in Seq(Jobs)
  BY <1>1
<1>3. ToSet(list) = ToSet(old) \cup {job[t]}
  <2> HIDE DEF old
  <2> QED BY <1>1, <1>2, AppendEffect
<1> HIDE DEF list
<1> QED BY <1>1, <1>3

LEMMA ErasedShrinks ==
  ASSUME lists \in [Nodes -> Seq(Jobs)], job \in [Threads -> Jobs \cup {None}],
         NEW t \in Threads, PlaceTyped(t), Dropped(t) \/ Unroots(t)
  PROVE  \A n \in Nodes : ToSet(lists'[n]) \subseteq ToSet(lists[n])
<1>1. CASE Dropped(t)
  <2> DEFINE old  == lists[node[t]]
             list == Without(old, job[t])
  <2>1. /\ node[t] \in Nodes /\ job[t] \in Jobs
        /\ lists' = [lists EXCEPT ![node[t]] = list]
    BY <1>1, Names DEF Dropped, PlaceTyped, Changing
  <2>2. old \in Seq(Jobs)
    BY <2>1
  <2>3. ToSet(list) \subseteq ToSet(old)
    <3> HIDE DEF old
    <3> QED BY <2>1, <2>2, WithoutEffect
  <2> HIDE DEF list
  <2> QED BY <2>1, <2>3
<1>2. CASE Unroots(t)
  <2> DEFINE old  == lists[Top]
             list == RemoveFirst(old, job[t])
  <2>1. job[t] \in ToSet(old) /\ lists' = [lists EXCEPT ![Top] = list]
    BY <1>2 DEF Unroots
  <2>2. old \in Seq(Jobs)
    BY Names
  <2>3. ToSet(list) \subseteq ToSet(old)
    <3> HIDE DEF old
    <3> QED BY <2>1, <2>2, RemoveFirstEffect
  <2> HIDE DEF list
  <2> QED BY <2>1, <2>3
<1> QED BY <1>1, <1>2

\* A list that another thread changes widens the bounds of the count.
LEMMA OtherTracked ==
  ASSUME Typed, Shedding, Shedding', lists' \in [Nodes -> Seq(Jobs)],
         NEW t \in Threads, Acts(t), NEW u \in Threads \ {t}, Tracked(u)
  PROVE  Tracked(u)'
<1>0. /\ PlaceTyped(t) /\ lists \in [Nodes -> Seq(Jobs)]
      /\ job \in [Threads -> Jobs \cup {None}] /\ clean \in [Jobs -> BOOLEAN]
      /\ total \in [Threads -> 0 .. MaxCount]
      /\ from \in [Threads -> 0 .. Cardinality(Jobs)]
      /\ grown \in [Threads -> BOOLEAN] /\ shrunk \in [Threads -> BOOLEAN]
      /\ torn \in [Threads -> BOOLEAN]
  BY DEF Typed, ValuesTyped, ForestTyped, CallsTyped, CountsTyped
<1>1. /\ at'[u] = at[u] /\ node'[u] = node[u] /\ sub'[u] = sub[u] /\ todo'[u] = todo[u]
  BY ActsAlone DEF Alone
<1>2. total'[u] = total[u] /\ from'[u] = from[u] /\ torn'[u] = torn[u]
  BY <1>0 DEF Acts, Continues, Schedules, ErasesFrom, Erases, Begins, Counts, Adopts, Adds,
              Added, Rereads, Orphans, Drops, Dropped, Unroots, FindsNot, Expands, Reads,
              ReadAll, Counted, Crashes, counter, tally
<1>3. AllClean' => AllClean
  <2>1. \A j \in Jobs : clean'[j] => clean[j]
    BY <1>0 DEF Acts, Continues, Schedules, ErasesFrom, Erases, Counts, Adopts, Adds,
                Added, Rereads, Orphans, Drops, Dropped, Unroots, FindsNot, Expands,
                Reads, ReadAll, Counted, Crashes
  <2> QED BY <2>1 DEF AllClean
<1> SUFFICES ASSUME at[u] \in Counting, AllClean', ~torn[u], ~shrunk'[u] \/ ~grown'[u]
             PROVE  \E lo, hi \in [Nodes -> SUBSET Jobs] :
                      /\ Spans(u, lo, hi)'
                      /\ Sums(at[u], node[u], sub[u], todo[u], total[u], lo, hi)
  BY <1>1, <1>2 DEF Tracked
<1>4. ASSUME ~shrunk[u] \/ ~grown[u]
      PROVE  \E lo, hi \in [Nodes -> SUBSET Jobs] :
               Spans(u, lo, hi) /\ Sums(at[u], node[u], sub[u], todo[u], total[u], lo, hi)
  BY <1>3, <1>4 DEF Tracked
<1>5. PICK new \in [Nodes -> SUBSET Jobs] : new = Sets' /\ Sheds(new)
  <2>1. Sheds(Sets')
    BY DEF Shedding
  <2>2. Sets' \in [Nodes -> SUBSET Jobs]
    <3>1. \A n \in Nodes : ToSet(lists'[n]) \subseteq Jobs
      BY DEF ToSet
    <3> QED BY <3>1 DEF Sets
  <2> QED BY <2>1, <2>2
<1>6. CASE Added(t)
  <2>1. grown'[u] /\ shrunk'[u] = shrunk[u] /\ ~shrunk[u]
    BY <1>0, <1>6 DEF Added
  <2>2. PICK lo \in [Nodes -> SUBSET Jobs], hi \in [Nodes -> SUBSET Jobs] :
          Spans(u, lo, hi) /\ Sums(at[u], node[u], sub[u], todo[u], total[u], lo, hi)
    BY <1>4, <2>1
  <2>3. \A n \in Nodes : Sets[n] \subseteq new[n]
    BY <1>0, <1>5, <1>6, AddedGrows DEF Sets
  <2>4. \A n \in Nodes : lo[n] \subseteq Sets[n] /\ Sets[n] \subseteq hi[n]
    BY <2>2 DEF Spans
  <2>5. hi = Sets /\ from[u] = Cardinality(Led(lo) \ {Top})
    BY <2>1, <2>2 DEF Spans
  <2>6. Spans(u, lo, new)'
    BY <1>2, <1>5, <2>1, <2>3, <2>4, <2>5 DEF Spans
  <2>7. Sums(at[u], node[u], sub[u], todo[u], total[u], lo, new)
    BY <2>2, <2>3, <2>5, SumsStay
  <2> QED BY <2>6, <2>7
<1>7. CASE Dropped(t) \/ Unroots(t)
  <2>1. shrunk'[u] /\ grown'[u] = grown[u] /\ ~grown[u]
    BY <1>0, <1>7 DEF Dropped, Unroots, Shrinks
  <2>2. PICK lo \in [Nodes -> SUBSET Jobs], hi \in [Nodes -> SUBSET Jobs] :
          Spans(u, lo, hi) /\ Sums(at[u], node[u], sub[u], todo[u], total[u], lo, hi)
    BY <1>4, <2>1
  <2>3. \A n \in Nodes : new[n] \subseteq Sets[n]
    BY <1>0, <1>5, <1>7, ErasedShrinks DEF Sets
  <2>4. \A n \in Nodes : lo[n] \subseteq Sets[n] /\ Sets[n] \subseteq hi[n]
    BY <2>2 DEF Spans
  <2>5. lo = Sets /\ from[u] = Cardinality(Led(hi) \ {Top}) /\ Sheds(hi)
    BY <2>1, <2>2 DEF Spans
  <2>6. Spans(u, new, hi)'
    BY <1>2, <1>5, <2>1, <2>3, <2>4, <2>5 DEF Spans
  <2>7. Sums(at[u], node[u], sub[u], todo[u], total[u], new, hi)
    BY <2>2, <2>3, <2>5, SumsStay
  <2> QED BY <2>6, <2>7
<1>8. CASE ~(Added(t) \/ Dropped(t) \/ Unroots(t))
  <2>1. UNCHANGED lists /\ grown'[u] = grown[u] /\ shrunk'[u] = shrunk[u]
    BY <1>0, <1>8 DEF Acts, Continues, Schedules, ErasesFrom, Erases, Begins, Counts,
                      Adopts, Adds, Rereads, Orphans, Drops, FindsNot, Expands, Reads,
                      ReadAll, Counted, Crashes, graph, tally
  <2>2. PICK lo \in [Nodes -> SUBSET Jobs], hi \in [Nodes -> SUBSET Jobs] :
          Spans(u, lo, hi) /\ Sums(at[u], node[u], sub[u], todo[u], total[u], lo, hi)
    BY <1>4, <2>1
  <2>3. Spans(u, lo, hi)'
    BY <1>2, <2>1, <2>2, SpansStay
  <2> QED BY <2>2, <2>3
<1> QED BY <1>6, <1>7, <1>8

LEMMA TrackingStart == Init => Tracking
BY DEF Init, Tracking, Tracked, Counting

LEMMA TrackingStep ==
  Typed /\ Typed' /\ Held /\ Shedding /\ Shedding' /\ Tracking /\ [Next]_vars => Tracking'
<1>1. ASSUME Typed, Typed', Held, Shedding, Shedding', Tracking, NEW t \in Threads, Acts(t)
      PROVE  Tracking'
  <2>1. lists' \in [Nodes -> Seq(Jobs)]
    BY <1>1 DEF Typed, ValuesTyped, ForestTyped
  <2>2. Tracked(t)'
    BY <1>1, OwnTracked DEF Tracking
  <2>3. \A u \in Threads \ {t} : Tracked(u)'
    BY <1>1, <2>1, OtherTracked DEF Tracking
  <2> QED BY <2>2, <2>3 DEF Tracking
<1>2. ASSUME Tracking, UNCHANGED vars
      PROVE  Tracking'
  <2>1. UNCHANGED <<lists, at, node, sub, todo, total, clean, from, grown, shrunk, torn>>
    BY <1>2 DEF vars, graph, counter, tally
  <2> SUFFICES ASSUME NEW t \in Threads, at[t] \in Counting, AllClean, ~torn[t],
                      ~shrunk[t] \/ ~grown[t]
               PROVE  \E lo, hi \in [Nodes -> SUBSET Jobs] :
                        /\ Spans(t, lo, hi)'
                        /\ Sums(at[t], node[t], sub[t], todo[t], total[t], lo, hi)
    BY <2>1 DEF Tracking, Tracked, AllClean
  <2>2. PICK lo \in [Nodes -> SUBSET Jobs], hi \in [Nodes -> SUBSET Jobs] :
          Spans(t, lo, hi) /\ Sums(at[t], node[t], sub[t], todo[t], total[t], lo, hi)
    BY <1>2 DEF Tracking, Tracked
  <2> QED BY <2>1, <2>2, SpansStay
<1>3. Next => \E t \in Threads : Acts(t)
  BY DEF Next, Acts
<1> QED BY <1>1, <1>2, <1>3

\* Nobody holds the mutexes of all lists while job_count runs, and yet, with any number
\* of threads that schedule and erase meanwhile: it is exact when nothing changes, and
\* between what there was and what there is when jobs only come or only go, unless it
\* reads a list in the middle of a change (runner.cpp:305-331).
THEOREM CountsAreBounded == Spec => []CountInBounds
<1>1. Typed /\ Tracking => CountInBounds
  <2> SUFFICES ASSUME Typed, Tracking, NEW t \in Threads, at[t] = "counted", AllClean,
                      ~torn[t]
               PROVE  /\ ~shrunk[t] => /\ from[t] <= total[t]
                                       /\ total[t] <= Cardinality(Attached)
                      /\ ~grown[t]  => /\ Cardinality(Attached) <= total[t]
                                       /\ total[t] <= from[t]
    BY DEF CountInBounds
  <2>1. CASE shrunk[t] /\ grown[t]
    BY <2>1
  <2>2. CASE ~shrunk[t] \/ ~grown[t]
    <3>1. PICK lo \in [Nodes -> SUBSET Jobs], hi \in [Nodes -> SUBSET Jobs] :
            Spans(t, lo, hi) /\ Sums("counted", node[t], sub[t], todo[t], total[t], lo, hi)
      BY <2>2 DEF Tracking, Tracked, Counting
    <3>2. /\ Cardinality(Led(lo) \ {Top}) <= total[t]
          /\ total[t] <= Cardinality(Led(hi) \ {Top})
      BY <3>1, SumsEnd
    <3>3. Attached = Led(Sets) \ {Top}
      BY AttachedIsLed DEF Typed, ValuesTyped, ForestTyped
    <3> QED BY <3>1, <3>2, <3>3 DEF Spans
  <2> QED BY <2>1, <2>2
<1> QED BY <1>1, LinkedHolds, LinkedShed, HeldStart, HeldStep, TrackingStart, TrackingStep,
           PTL DEF Spec

===============================================================================
