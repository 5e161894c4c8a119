---------------------------- MODULE ServerProofs ----------------------------
(***************************************************************************)
(* Proofs about ixp_serverloop and its timers, for any number of timers    *)
(* and connections and any times.                                          *)
(***************************************************************************)
EXTENDS Server, SequenceTheorems, FiniteSetTheorems, FunctionTheorems, WellFoundedInduction, TLAPS

-----------------------------------------------------------------------------
(* Lists.                                                                  *)

\* A search through positions that must stop has a first place where it does.
LEMMA LeastPosition ==
    ASSUME NEW S, S \subseteq Nat, S # {}
    PROVE  \E x \in S : \A y \in S : x <= y
<1> DEFINE R == OpToRel(<, Nat)
<1>1. \E x \in S : \A y \in S : ~ (<<y, x>> \in R)
  <2>1. IsWellFoundedOn(R, Nat)
    BY NatLessThanWellFounded
  <2> HIDE DEF R
  <2> QED BY <2>1, WFMin
<1>2. PICK x \in S : \A y \in S : ~ (<<y, x>> \in R)
  BY <1>1
<1>3. \A y \in S : x <= y
  <2> TAKE y \in S
  <2>1. x \in Nat /\ y \in Nat
    OBVIOUS
  <2>2. y < x => <<y, x>> \in R
    BY <2>1 DEF OpToRel
  <2> HIDE DEF R
  <2>3. ~(y < x)
    BY <1>2, <2>2
  <2> QED BY <2>1, <2>3
<1> QED BY <1>3

\* A list and its positions.
LEMMA ListFacts ==
    ASSUME NEW T, NEW list \in Seq(T)
    PROVE  /\ Len(list) \in Nat /\ DOMAIN list = 1 .. Len(list)
           /\ \A i \in 1 .. Len(list) : list[i] \in T /\ list[i] \in Members(list)
           /\ \A x \in Members(list) : x \in T /\ \E i \in 1 .. Len(list) : list[i] = x
<1>1. Len(list) \in Nat /\ DOMAIN list = 1 .. Len(list)
  OBVIOUS
<1>2. \A i \in 1 .. Len(list) : list[i] \in T
  BY ElementOfSeq
<1> QED BY <1>1, <1>2 DEF Members

\* The part of a list in front of a position, and the part from one on.
LEMMA Parts ==
    ASSUME NEW T, NEW list \in Seq(T), NEW i \in 1 .. Len(list) + 1
    PROVE  /\ SubSeq(list, 1, i - 1) \in Seq(T) /\ Len(SubSeq(list, 1, i - 1)) = i - 1
           /\ \A j \in 1 .. i - 1 : SubSeq(list, 1, i - 1)[j] = list[j]
           /\ SubSeq(list, i, Len(list)) \in Seq(T)
           /\ Len(SubSeq(list, i, Len(list))) = Len(list) + 1 - i
           /\ \A j \in 1 .. Len(list) + 1 - i : SubSeq(list, i, Len(list))[j] = list[i + j - 1]
<1>1. Len(list) \in Nat /\ i \in Nat /\ \A j \in 1 .. Len(list) : list[j] \in T
  BY ListFacts
<1> DEFINE a == SubSeq(list, 1, i - 1)
           b == SubSeq(list, i, Len(list))
<1>2. a \in Seq(T) /\ Len(a) = i - 1 /\ \A j \in 1 .. i - 1 : a[j] = list[j]
  <2>1. \A j \in 1 .. i - 1 : list[j] \in T
    BY <1>1
  <2>2. /\ a \in Seq(T)
        /\ Len(a) = IF 1 <= i - 1 THEN i - 1 - 1 + 1 ELSE 0
        /\ \A j \in 1 .. i - 1 - 1 + 1 : a[j] = list[1 + j - 1]
    BY <1>1, <2>1, SubSeqProperties
  <2> HIDE DEF a
  <2>3. i - 1 - 1 + 1 = i - 1 /\ \A j \in 1 .. i - 1 : 1 + j - 1 = j
    BY <1>1
  <2>4. Len(a) = i - 1
    BY <1>1, <2>2
  <2> QED BY <2>2, <2>3, <2>4
<1>3. /\ b \in Seq(T) /\ Len(b) = Len(list) + 1 - i
      /\ \A j \in 1 .. Len(list) + 1 - i : b[j] = list[i + j - 1]
  <2>1. \A j \in i .. Len(list) : list[j] \in T
    BY <1>1
  <2>2. /\ b \in Seq(T)
        /\ Len(b) = IF i <= Len(list) THEN Len(list) - i + 1 ELSE 0
        /\ \A j \in 1 .. Len(list) - i + 1 : b[j] = list[i + j - 1]
    BY <1>1, <2>1, SubSeqProperties
  <2> HIDE DEF b
  <2>3. Len(list) - i + 1 = Len(list) + 1 - i
    BY <1>1
  <2>4. Len(b) = Len(list) + 1 - i
    BY <1>1, <2>2
  <2> QED BY <2>2, <2>3, <2>4
<1> QED BY <1>2, <1>3

\* Unlinking entry k: the others keep their order.
LEMMA WithoutFact ==
    ASSUME NEW T, NEW list \in Seq(T), NEW k \in 1 .. Len(list)
    PROVE  /\ Without(list, k) \in Seq(T) /\ Len(Without(list, k)) = Len(list) - 1
           /\ \A j \in 1 .. Len(list) - 1 :
                Without(list, k)[j] = list[IF j < k THEN j ELSE j + 1]
<1> DEFINE a == SubSeq(list, 1, k - 1)
           b == SubSeq(list, k + 1, Len(list))
           d == a \o b
<1>1. Len(list) \in Nat /\ k \in Nat /\ k + 1 \in 1 .. Len(list) + 1 /\ k \in 1 .. Len(list) + 1
  BY ListFacts
<1>2. /\ a \in Seq(T) /\ Len(a) = k - 1 /\ \A j \in 1 .. k - 1 : a[j] = list[j]
      /\ b \in Seq(T) /\ Len(b) = Len(list) + 1 - (k + 1)
      /\ \A j \in 1 .. Len(list) + 1 - (k + 1) : b[j] = list[k + 1 + j - 1]
  BY <1>1, Parts
<1> HIDE DEF a, b
<1>3. /\ d \in Seq(T) /\ Len(d) = Len(list) - 1
      /\ \A j \in 1 .. Len(list) - 1 : d[j] = IF j <= k - 1 THEN a[j] ELSE b[j - (k - 1)]
  <2>1. /\ d \in Seq(T) /\ Len(d) = Len(a) + Len(b)
        /\ \A j \in 1 .. Len(a) + Len(b) : d[j] = IF j <= Len(a) THEN a[j] ELSE b[j - Len(a)]
    BY <1>2, ConcatProperties
  <2> HIDE DEF d
  <2>2. Len(a) + Len(b) = Len(list) - 1 /\ Len(a) = k - 1
    BY <1>1, <1>2
  <2> QED BY <2>1, <2>2
<1>4. Without(list, k) = d
  BY DEF Without, a, b
<1> HIDE DEF d
<1>5. ASSUME NEW j \in 1 .. Len(list) - 1 PROVE d[j] = list[IF j < k THEN j ELSE j + 1]
  <2>1. CASE j < k
    BY <1>1, <1>2, <1>3, <2>1
  <2>2. CASE ~(j < k)
    <3>1. /\ j - (k - 1) \in 1 .. Len(list) + 1 - (k + 1)
          /\ k + 1 + (j - (k - 1)) - 1 = j + 1 /\ ~(j <= k - 1)
      BY <1>1, <2>2
    <3> QED BY <1>2, <1>3, <2>2, <3>1
  <2> QED BY <2>1, <2>2
<1> QED BY <1>3, <1>4, <1>5

\* Linking x in front of entry k.
LEMMA LinkedFact ==
    ASSUME NEW T, NEW list \in Seq(T), NEW k \in 1 .. Len(list) + 1, NEW x \in T
    PROVE  /\ LinkedAt(list, k, x) \in Seq(T) /\ Len(LinkedAt(list, k, x)) = Len(list) + 1
           /\ LinkedAt(list, k, x)[k] = x
           /\ \A j \in 1 .. Len(list) : LinkedAt(list, k, x)[IF j < k THEN j ELSE j + 1] = list[j]
<1> DEFINE a == SubSeq(list, 1, k - 1)
           b == SubSeq(list, k, Len(list))
           ax == a \o <<x>>
           d == ax \o b
<1>1. Len(list) \in Nat /\ k \in Nat /\ 1 <= k /\ k <= Len(list) + 1
  BY ListFacts
<1>2. /\ a \in Seq(T) /\ Len(a) = k - 1 /\ \A j \in 1 .. k - 1 : a[j] = list[j]
      /\ b \in Seq(T) /\ Len(b) = Len(list) + 1 - k
      /\ \A j \in 1 .. Len(list) + 1 - k : b[j] = list[k + j - 1]
  BY Parts
<1> HIDE DEF a, b
<1>3. ax \in Seq(T) /\ Len(ax) = k /\ ax[k] = x /\ \A j \in 1 .. k - 1 : ax[j] = list[j]
  BY <1>1, <1>2
<1> HIDE DEF ax
<1>4. /\ d \in Seq(T) /\ Len(d) = Len(list) + 1
      /\ \A j \in 1 .. Len(list) + 1 : d[j] = IF j <= k THEN ax[j] ELSE b[j - k]
  <2>1. /\ d \in Seq(T) /\ Len(d) = Len(ax) + Len(b)
        /\ \A j \in 1 .. Len(ax) + Len(b) : d[j] = IF j <= Len(ax) THEN ax[j] ELSE b[j - Len(ax)]
    BY <1>2, <1>3, ConcatProperties
  <2> HIDE DEF d
  <2>2. Len(ax) + Len(b) = Len(list) + 1 /\ Len(ax) = k
    BY <1>1, <1>2, <1>3
  <2> QED BY <2>1, <2>2
<1> HIDE DEF d
<1>5. d[k] = x
  BY <1>1, <1>3, <1>4
<1>6. ASSUME NEW j \in 1 .. Len(list) PROVE d[IF j < k THEN j ELSE j + 1] = list[j]
  <2>1. CASE j < k
    BY <1>1, <1>3, <1>4, <2>1
  <2>2. CASE ~(j < k)
    <3>1. /\ j + 1 \in 1 .. Len(list) + 1 /\ ~(j + 1 <= k) /\ j + 1 - k \in 1 .. Len(list) + 1 - k
          /\ k + (j + 1 - k) - 1 = j
      BY <1>1, <2>2
    <3>2. PICK n \in 1 .. Len(list) + 1 : n = j + 1
      BY <3>1
    <3>4. d[n] = b[n - k]
      BY <1>4, <3>1, <3>2
    <3>3. b[j + 1 - k] = list[k + (j + 1 - k) - 1]
      BY <1>2, <3>1
    <3> QED BY <2>2, <3>1, <3>2, <3>3, <3>4
  <2> QED BY <2>1, <2>2
<1> QED BY <1>4, <1>5, <1>6 DEF LinkedAt, d, ax, a, b

\* A list without repetitions is as long as the set of its members.
LEMMA DistinctCount ==
    ASSUME NEW T, NEW list \in Seq(T), Distinct(list)
    PROVE  IsFiniteSet(Members(list)) /\ Cardinality(Members(list)) = Len(list)
<1> DEFINE D == 1 .. Len(list)
           M == Members(list)
<1>1. Len(list) \in Nat /\ DOMAIN list = D /\ IsFiniteSet(D) /\ Cardinality(D) = Len(list)
  <2>1. Len(list) \in Nat /\ DOMAIN list = D
    BY ListFacts
  <2>2. 1 \in Int /\ Len(list) \in Int
    BY <2>1
  <2>3. IsFiniteSet(1 .. Len(list))
    BY <2>2, FS_Interval
  <2>4. Cardinality(1 .. Len(list)) = IF 1 > Len(list) THEN 0 ELSE Len(list) - 1 + 1
    BY <2>2, FS_Interval
  <2> QED BY <2>1, <2>3, <2>4
<1>2. list \in [D -> M]
  BY <1>1 DEF Members
<1>3. list \in Surjection(D, M)
  BY <1>1, <1>2 DEF Members, Surjection
<1>4. list \in Injection(D, M)
  BY <1>1, <1>2, Fun_IsInj DEF Distinct
<1> HIDE DEF D, M
<1>5. IsFiniteSet(M) /\ Cardinality(M) = Cardinality(D)
  BY <1>1, <1>3, <1>4, FS_Surjection
<1> QED BY <1>1, <1>5 DEF M

\* A list loses its first member.
LEMMA TailMembers ==
    ASSUME NEW T, NEW list \in Seq(T), list # <<>>
    PROVE  /\ Tail(list) \in Seq(T) /\ Head(list) \in T /\ Len(Tail(list)) = Len(list) - 1
           /\ Head(list) = list[1] /\ 1 \in 1 .. Len(list)
           /\ Members(list) = Members(Tail(list)) \cup {Head(list)}
           /\ Distinct(list) => Distinct(Tail(list)) /\ Head(list) \notin Members(Tail(list))
<1> DEFINE d == Tail(list)
<1>1. /\ d \in Seq(T) /\ Head(list) \in T /\ Len(d) = Len(list) - 1
      /\ \A i \in 1 .. Len(d) : d[i] = list[i + 1]
  BY HeadTailProperties
<1>2. Head(list) = list[1] /\ Len(list) \in Nat /\ Len(list) # 0
  OBVIOUS
<1> HIDE DEF d
<1>3. /\ DOMAIN list = 1 .. Len(list) /\ DOMAIN d = 1 .. Len(list) - 1
      /\ \A i \in 1 .. Len(list) - 1 : i + 1 \in 1 .. Len(list) /\ i + 1 # 1
      /\ \A i \in 1 .. Len(list) : i = 1 \/ (i - 1 \in 1 .. Len(list) - 1 /\ i - 1 + 1 = i)
      /\ 1 \in 1 .. Len(list)
      /\ \A i, j \in 1 .. Len(list) - 1 : i + 1 = j + 1 => i = j
  BY <1>1, <1>2
<1>4. Members(list) = Members(d) \cup {Head(list)}
  <2>1. ASSUME NEW x \in Members(list) PROVE x \in Members(d) \cup {Head(list)}
    <3>1. PICK i \in 1 .. Len(list) : x = list[i]
      BY <1>3 DEF Members
    <3>2. CASE i # 1
      <4>1. i - 1 \in DOMAIN d /\ d[i - 1] = x
        BY <1>1, <1>3, <3>1, <3>2
      <4> QED BY <4>1 DEF Members
    <3> QED BY <1>2, <3>1, <3>2
  <2>2. ASSUME NEW x \in Members(d) PROVE x \in Members(list)
    <3>1. PICK i \in 1 .. Len(list) - 1 : x = d[i]
      BY <1>3 DEF Members
    <3>2. x = list[i + 1] /\ i + 1 \in DOMAIN list
      BY <1>1, <1>3, <3>1
    <3> QED BY <3>2 DEF Members
  <2>3. Head(list) \in Members(list)
    BY <1>2, <1>3 DEF Members
  <2> QED BY <2>1, <2>2, <2>3
<1>5. ASSUME Distinct(list) PROVE Distinct(d) /\ Head(list) \notin Members(d)
  <2>1. \A i \in 1 .. Len(list) - 1 : d[i] = list[i + 1] /\ i + 1 \in DOMAIN list
    BY <1>1, <1>3
  <2>2. ASSUME NEW i \in DOMAIN d, NEW j \in DOMAIN d, d[i] = d[j] PROVE i = j
    <3>1. i + 1 = j + 1
      BY <1>3, <1>5, <2>1, <2>2 DEF Distinct
    <3> QED BY <1>3, <3>1
  <2>3. ASSUME NEW i \in DOMAIN d, d[i] = Head(list) PROVE FALSE
    <3>1. i + 1 = 1
      BY <1>2, <1>3, <1>5, <2>1, <2>3 DEF Distinct
    <3> QED BY <1>3, <3>1
  <2> QED BY <2>2, <2>3 DEF Distinct, Members
<1> QED BY <1>1, <1>2, <1>3, <1>4, <1>5 DEF d

-----------------------------------------------------------------------------

\* The ids on a list of timers or of connections, each found once.
Ids(list) == {list[i].id : i \in 1 .. Len(list)}
Once(list) == \A i, j \in 1 .. Len(list) : list[i].id = list[j].id => i = j

\* Unlinking takes one id off a list.
LEMMA WithoutIds ==
    ASSUME NEW T, NEW list \in Seq(T), NEW k \in 1 .. Len(list), Once(list)
    PROVE  Once(Without(list, k)) /\ Ids(Without(list, k)) = Ids(list) \ {list[k].id}
<1> DEFINE d == Without(list, k)
           up(j) == IF j < k THEN j ELSE j + 1
<1>1. /\ d \in Seq(T) /\ Len(d) = Len(list) - 1
      /\ \A j \in 1 .. Len(list) - 1 : d[j] = list[IF j < k THEN j ELSE j + 1]
  BY WithoutFact
<1> HIDE DEF d
<1>2. Len(list) \in Nat /\ k \in Nat
  BY ListFacts
<1>3. \A j \in 1 .. Len(d) : up(j) \in 1 .. Len(list) /\ up(j) # k /\ d[j] = list[up(j)]
  BY <1>1, <1>2
<1>4. \A i \in 1 .. Len(list) : i # k => \E j \in 1 .. Len(d) : up(j) = i
  <2> TAKE i \in 1 .. Len(list)
  <2>1. CASE i < k
    <3>1. i \in 1 .. Len(d) /\ up(i) = i
      BY <1>1, <1>2, <2>1
    <3> QED BY <3>1
  <2>2. CASE k < i
    <3>1. i - 1 \in 1 .. Len(d) /\ up(i - 1) = i
      BY <1>1, <1>2, <2>2
    <3> QED BY <3>1
  <2> QED BY <1>2, <2>1, <2>2
<1>5. \A i, j \in 1 .. Len(d) : up(i) = up(j) => i = j
  BY <1>1, <1>2
<1> HIDE DEF up
<1>6. Once(d)
  BY <1>3, <1>5 DEF Once
<1>7. Ids(d) = Ids(list) \ {list[k].id}
  BY <1>3, <1>4 DEF Ids, Once
<1> QED BY <1>6, <1>7 DEF d

\* Linking adds one id to a list.
LEMMA LinkedIds ==
    ASSUME NEW T, NEW list \in Seq(T), NEW k \in 1 .. Len(list) + 1, NEW x \in T,
           Once(list), x.id \notin Ids(list)
    PROVE  /\ Once(LinkedAt(list, k, x))
           /\ Ids(LinkedAt(list, k, x)) = Ids(list) \cup {x.id}
<1> DEFINE d == LinkedAt(list, k, x)
           up(j) == IF j < k THEN j ELSE j + 1
<1>1. /\ d \in Seq(T) /\ Len(d) = Len(list) + 1 /\ d[k] = x
      /\ \A j \in 1 .. Len(list) : d[IF j < k THEN j ELSE j + 1] = list[j]
  BY LinkedFact
<1> HIDE DEF d
<1>2. Len(list) \in Nat /\ k \in Nat
  BY ListFacts
<1>3. /\ k \in 1 .. Len(d)
      /\ \A j \in 1 .. Len(list) : up(j) \in 1 .. Len(d) /\ up(j) # k /\ d[up(j)] = list[j]
  BY <1>1, <1>2
<1>4. \A n \in 1 .. Len(d) : n # k => \E j \in 1 .. Len(list) : up(j) = n
  <2> TAKE n \in 1 .. Len(d)
  <2>1. CASE n < k
    <3>1. n \in 1 .. Len(list) /\ up(n) = n
      BY <1>1, <1>2, <2>1
    <3> QED BY <3>1
  <2>2. CASE k < n
    <3>1. n - 1 \in 1 .. Len(list) /\ up(n - 1) = n
      BY <1>1, <1>2, <2>2
    <3> QED BY <3>1
  <2> QED BY <1>1, <1>2, <2>1, <2>2
<1> HIDE DEF up
<1>5. Once(d)
  <2> SUFFICES ASSUME NEW m \in 1 .. Len(d), NEW n \in 1 .. Len(d), d[m].id = d[n].id
               PROVE  m = n
    BY DEF Once
  <2>1. CASE m = k /\ n # k
    <3>1. PICK j \in 1 .. Len(list) : up(j) = n
      BY <1>4, <2>1
    <3> QED BY <1>1, <1>3, <2>1, <3>1 DEF Ids
  <2>2. CASE m # k /\ n = k
    <3>1. PICK j \in 1 .. Len(list) : up(j) = m
      BY <1>4, <2>2
    <3> QED BY <1>1, <1>3, <2>2, <3>1 DEF Ids
  <2>3. CASE m # k /\ n # k
    <3>1. PICK i \in 1 .. Len(list), j \in 1 .. Len(list) : up(i) = m /\ up(j) = n
      BY <1>4, <2>3
    <3>2. i = j
      BY <1>3, <3>1 DEF Once
    <3> QED BY <3>1, <3>2
  <2> QED BY <2>1, <2>2, <2>3
<1>6. Ids(d) = Ids(list) \cup {x.id}
  <2>1. ASSUME NEW v \in Ids(d) PROVE v \in Ids(list) \cup {x.id}
    <3>1. PICK n \in 1 .. Len(d) : v = d[n].id
      BY DEF Ids
    <3>2. CASE n # k
      <4>1. PICK j \in 1 .. Len(list) : up(j) = n
        BY <1>4, <3>2
      <4> QED BY <1>3, <3>1, <4>1 DEF Ids
    <3> QED BY <1>1, <3>1, <3>2
  <2>2. ASSUME NEW v \in Ids(list) PROVE v \in Ids(d)
    <3>1. PICK j \in 1 .. Len(list) : v = list[j].id
      BY DEF Ids
    <3>2. up(j) \in 1 .. Len(d) /\ d[up(j)].id = v
      BY <1>3, <3>1
    <3> QED BY <3>2 DEF Ids
  <2>3. x.id \in Ids(d)
    BY <1>1, <1>3 DEF Ids
  <2> QED BY <2>1, <2>2, <2>3
<1> QED BY <1>5, <1>6 DEF d

\* The rest of a list is the list without its head.
LEMMA TailUnlinks ==
    ASSUME NEW T, NEW list \in Seq(T), list # <<>>
    PROVE  Tail(list) = Without(list, 1)
<1>1. Len(list) \in Nat /\ Len(list) # 0
  BY ListFacts
<1>2. /\ Tail(list) \in Seq(T) /\ Len(Tail(list)) = Len(list) - 1
      /\ \A i \in 1 .. Len(Tail(list)) : Tail(list)[i] = list[i + 1]
  BY HeadTailProperties
<1>3. /\ Without(list, 1) \in Seq(T) /\ Len(Without(list, 1)) = Len(list) - 1
      /\ \A j \in 1 .. Len(list) - 1 : Without(list, 1)[j] = list[IF j < 1 THEN j ELSE j + 1]
  <2>1. 1 \in 1 .. Len(list)
    BY <1>1
  <2> QED BY <2>1, WithoutFact
<1>4. \A j \in 1 .. Len(list) - 1 : Without(list, 1)[j] = list[j + 1]
  BY <1>3
<1> QED BY <1>2, <1>3, <1>4, SeqEqual

-----------------------------------------------------------------------------
(* The timers.                                                             *)

Timers == [id : 1 .. MaxTimers, msec : 0 .. MaxTime]

\* The inductive invariant behind TimersAccounted: the counting of the listed
\* ids is replaced by what insertion and removal keep, that each is found once.
TimerInv ==
    /\ TimerTypeOK
    /\ Once(timers)
    /\ Ids(timers) \cup fired \cup voided = 1 .. lastid - 1
    /\ fired \cap voided = {} /\ Ids(timers) \cap (fired \cup voided) = {}

\* TimerInv says what TimersAccounted says.
LEMMA TimerInvMeaning == TimerInv => TimersAccounted
<1> SUFFICES ASSUME TimerInv PROVE TimersAccounted
  OBVIOUS
<1>1. timers \in Seq(Timers) /\ Once(timers)
  BY DEF TimerInv, TimerTypeOK, Timers
<1>2. /\ Len(timers) \in Nat /\ DOMAIN timers = 1 .. Len(timers)
      /\ \A i \in 1 .. Len(timers) : timers[i] \in Timers
  BY <1>1, ListFacts
<1> DEFINE ids == [i \in 1 .. Len(timers) |-> timers[i].id]
<1>3. ids \in Seq(Nat) /\ Len(ids) = Len(timers) /\ DOMAIN ids = 1 .. Len(timers)
  <2>1. ids \in [1 .. Len(timers) -> Nat]
    BY <1>2 DEF Timers
  <2> QED BY <1>2, <2>1
<1>4. Distinct(ids) /\ Members(ids) = {timers[i].id : i \in DOMAIN timers}
  BY <1>1, <1>2, <1>3 DEF Distinct, Members, Once
<1> HIDE DEF ids
<1>5. Cardinality({timers[i].id : i \in DOMAIN timers}) = Len(timers)
  BY <1>3, <1>4, DistinctCount
<1>6. Ids(timers) = {timers[i].id : i \in DOMAIN timers}
  BY <1>2 DEF Ids
<1> QED BY <1>5, <1>6 DEF TimerInv, TimersAccounted

\* ixp_settimer finds a place for the timer.
LEMMA PlaceFact ==
    ASSUME NEW list \in Seq(Timers), NEW time \in 0 .. MaxTime
    PROVE  Place(list, time) \in 1 .. Len(list) + 1
<1> DEFINE S == {i \in 1 .. Len(list) + 1 : i <= Len(list) => list[i].msec < time}
<1>1. Len(list) \in Nat /\ \A i \in 1 .. Len(list) : list[i] \in Timers
  BY ListFacts
<1>2. S \subseteq Nat /\ Len(list) + 1 \in S
  BY <1>1
<1>3. PICK x \in S : \A y \in S : x <= y
  <2>1. S # {}
    BY <1>2
  <2> HIDE DEF S
  <2> QED BY <1>2, <2>1, LeastPosition
<1>4. ASSUME NEW j \in 1 .. x - 1 PROVE list[j].msec >= time
  <2>1. x \in 1 .. Len(list) + 1
    OBVIOUS
  <2>2. j \in 1 .. Len(list) /\ j < x
    BY <1>1, <2>1
  <2>3. j \notin S
    <3>1. j \in Int /\ x \in Int
      BY <2>1
    <3> HIDE DEF S
    <3> QED BY <1>3, <2>2, <3>1
  <2>4. ~(list[j].msec < time)
    BY <1>1, <2>2, <2>3
  <2>5. list[j].msec \in Int /\ time \in Int
    BY <1>1, <2>2, TimerAssumption DEF Timers
  <2> QED BY <2>4, <2>5
<1>5. \E i \in 1 .. Len(list) + 1 :
        /\ \A j \in 1 .. i - 1 : list[j].msec >= time
        /\ i <= Len(list) => list[i].msec < time
  BY <1>4
<1> QED BY <1>5 DEF Place

\* A timer is set: its id is new.
LEMMA SetTimerInv ==
    ASSUME TimerInv, NEW msec \in 0 .. MaxTime, SetTimer(msec)
    PROVE  TimerInv'
<1> DEFINE t == [id |-> lastid, msec |-> now + msec]
           k == Place(timers, t.msec)
<1>1. /\ timers \in Seq(Timers) /\ lastid \in Nat /\ t \in Timers /\ t.id = lastid
      /\ t.msec \in 0 .. MaxTime
  BY TimerAssumption DEF SetTimer, TimerInv, TimerTypeOK, Timers
<1>2. k \in 1 .. Len(timers) + 1
  <2> HIDE DEF t
  <2> QED BY <1>1, PlaceFact
<1>3. timers' = LinkedAt(timers, k, t)
  BY DEF SetTimer, Insert
<1>4. lastid \notin Ids(timers)
  <2>1. Ids(timers) \subseteq 1 .. lastid - 1
    BY DEF TimerInv
  <2> QED BY <1>1, <2>1
<1>5. Once(timers)
  BY DEF TimerInv
<1> HIDE DEF k, t
<1>6. timers' \in Seq(Timers)
  BY <1>1, <1>2, <1>3, LinkedFact
<1>7. Once(timers') /\ Ids(timers') = Ids(timers) \cup {lastid}
  BY <1>1, <1>2, <1>3, <1>4, <1>5, LinkedIds
<1>8. lastid' = lastid + 1 /\ UNCHANGED <<now, fired, voided, backs>> /\ lastid <= MaxTimers
  BY DEF SetTimer
<1>9. TimerTypeOK'
  BY <1>1, <1>6, <1>8, TimerAssumption DEF TimerInv, TimerTypeOK, Timers
<1>10. lastid \notin fired /\ lastid \notin voided
  <2>1. fired \subseteq 1 .. lastid - 1 /\ voided \subseteq 1 .. lastid - 1
    BY DEF TimerInv
  <2> QED BY <1>1, <2>1
<1>11. 1 .. lastid' - 1 = (1 .. lastid - 1) \cup {lastid}
  BY <1>1, <1>8, TimerAssumption DEF TimerInv, TimerTypeOK
<1>12. /\ (Ids(timers) \cup fired \cup voided)' = 1 .. lastid' - 1
       /\ (fired \cap voided)' = {} /\ (Ids(timers) \cap (fired \cup voided))' = {}
  <2>1. /\ Ids(timers) \cup fired \cup voided = 1 .. lastid - 1
        /\ fired \cap voided = {} /\ Ids(timers) \cap (fired \cup voided) = {}
    BY DEF TimerInv
  <2> QED BY <1>7, <1>8, <1>10, <1>11, <2>1
<1> QED BY <1>7, <1>9, <1>12 DEF TimerInv

\* A timer is voided, or triggered: it leaves the list for one of the two.
LEMMA LeaveList ==
    ASSUME TimerInv, NEW k \in 1 .. Len(timers), timers' = Without(timers, k),
           \/ fired' = fired \cup {timers[k].id} /\ voided' = voided
           \/ voided' = voided \cup {timers[k].id} /\ fired' = fired,
           UNCHANGED <<now, lastid, backs>>
    PROVE  TimerInv'
<1>1. timers \in Seq(Timers) /\ Once(timers)
  BY DEF TimerInv, TimerTypeOK, Timers
<1>2. timers' \in Seq(Timers)
  BY <1>1, WithoutFact
<1>3. Once(timers') /\ Ids(timers') = Ids(timers) \ {timers[k].id}
  BY <1>1, WithoutIds
<1>4. timers[k].id \in 1 .. MaxTimers /\ timers[k].id \in Ids(timers)
  <2>1. timers[k] \in Timers
    BY <1>1, ListFacts
  <2> QED BY <2>1 DEF Ids, Timers
<1>5. TimerTypeOK'
  BY <1>2, <1>4 DEF TimerInv, TimerTypeOK, Timers
<1>6. /\ (Ids(timers) \cup fired \cup voided)' = 1 .. lastid' - 1
      /\ (fired \cap voided)' = {} /\ (Ids(timers) \cap (fired \cup voided))' = {}
  <2>1. /\ Ids(timers) \cup fired \cup voided = 1 .. lastid - 1
        /\ fired \cap voided = {} /\ Ids(timers) \cap (fired \cup voided) = {}
    BY DEF TimerInv
  <2> QED BY <1>3, <1>4, <2>1
<1> QED BY <1>3, <1>5, <1>6 DEF TimerInv

LEMMA UnsetTimerInv ==
    ASSUME TimerInv, NEW id, UnsetTimer(id)
    PROVE  TimerInv'
<1>1. timers \in Seq(Timers) /\ DOMAIN timers = 1 .. Len(timers)
  BY DEF TimerInv, TimerTypeOK, Timers
<1> DEFINE k == CHOOSE i \in DOMAIN timers : timers[i].id = id
<1>2. k \in 1 .. Len(timers) /\ timers[k].id = id
  BY <1>1 DEF UnsetTimer
<1>3. /\ timers' = Without(timers, k) /\ voided' = voided \cup {id}
      /\ UNCHANGED <<now, lastid, fired, backs>>
  BY DEF UnsetTimer, Unlink
<1> HIDE DEF k
<1> QED BY <1>2, <1>3, LeaveList

LEMMA TriggerInv ==
    ASSUME TimerInv, TriggerHead
    PROVE  TimerInv'
<1>1. timers \in Seq(Timers) /\ timers # <<>>
  BY DEF TimerInv, TimerTypeOK, Timers, TriggerHead, HeadDue
<1>2. Tail(timers) = Without(timers, 1) /\ Head(timers) = timers[1] /\ 1 \in 1 .. Len(timers)
  BY <1>1, TailUnlinks, TailMembers
<1>3. /\ timers' = Without(timers, 1) /\ fired' = fired \cup {timers[1].id}
      /\ UNCHANGED <<now, lastid, voided, backs>>
  BY <1>2 DEF TriggerHead
<1> QED BY <1>2, <1>3, LeaveList

\* The clock moves.
LEMMA ClockInv ==
    ASSUME TimerInv, Tick \/ StepBack
    PROVE  TimerInv'
<1>1. UNCHANGED <<timers, lastid, fired, voided>>
  BY DEF Tick, StepBack, timerVars
<1>2. now' \in 0 .. MaxTime /\ backs' \in 0 .. MaxBack
  BY TimerAssumption DEF Tick, StepBack, timerVars, TimerInv, TimerTypeOK
<1> QED BY <1>1, <1>2 DEF TimerInv, TimerTypeOK

\* Every step of the server is one of these, or leaves the timers alone.
LEMMA NextTimers ==
    ASSUME TimerInv, [Next]_vars
    PROVE  TimerInv'
<1>1. CASE UNCHANGED <<now, timerVars>>
  BY <1>1 DEF timerVars, TimerInv, TimerTypeOK
<1>2. CASE Loop \/ SelectReady \/ SelectFails \/ ServerClose \/ Stop
  BY <1>1, <1>2, TriggerInv
     DEF Loop, BeginPass, Trigger, TimersDone, CallbackReturns, SelectTimeout, Select, Visit,
         VisitFreed, EndPass, SelectReady, SelectFails, ServerClose, Stop
<1>3. CASE Passes \/ ClockSetBack
  BY <1>3, ClockInv DEF Passes, ClockSetBack
<1>4. ASSUME NEW msec \in 0 .. MaxTime, SetsTimer(msec) PROVE TimerInv'
  BY <1>4, SetTimerInv DEF SetsTimer
<1>5. ASSUME NEW id \in 1 .. MaxTimers, VoidsTimer(id) PROVE TimerInv'
  BY <1>5, UnsetTimerInv DEF VoidsTimer
<1>6. ASSUME NEW fd \in Fds, Listen(fd) PROVE TimerInv'
  BY <1>1, <1>6 DEF Listen
<1>7. ASSUME NEW c \in Listening, HangupConn(c) PROVE TimerInv'
  BY <1>1, <1>7 DEF HangupConn
<1>8. CASE UNCHANGED vars
  BY <1>1, <1>8 DEF vars
<1> QED BY <1>2, <1>3, <1>4, <1>5, <1>6, <1>7, <1>8 DEF Next, Callback

-----------------------------------------------------------------------------
(* The loop and the connections.                                           *)

\* From the saved pointer of handle_conns on, the list holds the connections
\* select was called with: a later one is linked in front, out of its way.
FromNext ==
    \A i, j \in 1 .. Len(conns) :
        conns[i] = next /\ i <= j /\ conns[j].fd \in rd => conns[j].id \in chosen

\* handle_conns is walking the list.
Walking == {"handle", "readcb", "crashed"}

\* The connection being read and the saved pointer are different connections,
\* so the callback that hangs up the one leaves the other.
ReadingApart ==
    pc = "readcb" => /\ reading \in Conns /\ reading.id \in chosen
                     /\ next # Nil => reading.id # next.id

\* The inductive invariant behind NextKept and ReadsReported.  The saved pointer may
\* be to a connection hung up since; its id keeps it apart from every later one.
LoopInv ==
    /\ TypeOK
    /\ Once(conns) /\ \A i \in 1 .. Len(conns) : conns[i].id <= nconn
    /\ next # Nil => next \in Conns /\ next.id <= nconn
    /\ pc \notin Walking => next = Nil
    /\ ReadingApart
    /\ FromNext

\* The connections as a list.
LEMMA ConnFacts ==
    ASSUME conns \in Seq(Conns)
    PROVE  /\ Len(conns) \in Nat /\ DOMAIN conns = 1 .. Len(conns)
           /\ \A i \in 1 .. Len(conns) : /\ conns[i] \in Conns /\ conns[i] # Nil
                                         /\ conns[i] \in Listening
                                         /\ conns[i].id \in 1 .. MaxConns /\ conns[i].fd \in Fds
           /\ \A c \in Listening : c \in Conns /\ \E i \in 1 .. Len(conns) : conns[i] = c
<1>1. /\ Len(conns) \in Nat /\ DOMAIN conns = 1 .. Len(conns)
      /\ \A i \in 1 .. Len(conns) : conns[i] \in Conns /\ conns[i] \in Members(conns)
      /\ \A x \in Members(conns) : x \in Conns /\ \E i \in 1 .. Len(conns) : conns[i] = x
  BY ListFacts
<1> QED BY <1>1, ServerAssumption DEF Listening, Conns

\* The steps that touch neither the connections nor what handle_conns uses.
LEMMA QuietInv ==
    ASSUME LoopInv, TimerInv', UNCHANGED <<conns, nconn, rd, chosen, next>>,
           reading' \in {reading, Nil}, running' \in BOOLEAN,
           wait' \in 0 .. MaxTime \cup {Nil},
           pc' \in {"top", "timers", "timercb", "preselect", "select", "handle", "readcb", "done",
                    "crashed"},
           pc' \notin Walking => next = Nil,
           pc' = "readcb" => pc = "readcb" /\ reading' = reading
    PROVE  LoopInv'
<1>1. TypeOK'
  BY DEF LoopInv, TypeOK, TimerInv
<1>2. ReadingApart' /\ FromNext'
  BY DEF LoopInv, ReadingApart, FromNext
<1> QED BY <1>1, <1>2 DEF LoopInv

LEMMA LoopSteps ==
    ASSUME LoopInv, TimerInv',
           \/ BeginPass \/ Trigger \/ TimersDone \/ CallbackReturns \/ EndPass \/ SelectFails
           \/ VisitFreed \/ Stop \/ Passes \/ ClockSetBack \/ UNCHANGED vars
           \/ \E msec \in 0 .. MaxTime : SetsTimer(msec)
           \/ \E id \in 1 .. MaxTimers : VoidsTimer(id)
    PROVE  LoopInv'
<1>1. /\ wait \in 0 .. MaxTime \cup {Nil} /\ running \in BOOLEAN
      /\ pc \in {"top", "timers", "timercb", "preselect", "select", "handle", "readcb", "done",
                "crashed"}
      /\ pc \notin Walking => next = Nil
  BY DEF LoopInv, TypeOK
<1>2. CASE BeginPass \/ Trigger \/ EndPass \/ VisitFreed \/ SelectFails \/ Stop
  BY <1>1, <1>2, QuietInv
     DEF BeginPass, Trigger, EndPass, VisitFreed, SelectFails, Stop, InCallback, Walking, connVars
<1>3. CASE CallbackReturns
  BY <1>1, <1>3, QuietInv DEF CallbackReturns, InCallback, Walking, connVars
<1>4. CASE TimersDone
  <2>1. wait' \in 0 .. MaxTime \cup {Nil}
    <3>1. CASE timers = <<>>
      BY <1>4, <3>1 DEF TimersDone, Remaining
    <3>2. CASE timers # <<>>
      <4>1. timers \in Seq(Timers) /\ now \in 0 .. MaxTime
        BY DEF LoopInv, TypeOK, TimerTypeOK, Timers
      <4>2. Head(timers) \in Timers
        BY <3>2, <4>1, TailMembers
      <4>3. Head(timers).msec \in 0 .. MaxTime
        BY <4>2 DEF Timers
      <4> QED BY <1>4, <3>2, <4>1, <4>3, TimerAssumption DEF TimersDone, Remaining
    <3> QED BY <3>1, <3>2
  <2> QED BY <1>1, <1>4, <2>1, QuietInv DEF TimersDone, Walking, connVars
<1>5. CASE Passes
  <2>1. wait' \in 0 .. MaxTime \cup {Nil}
    BY <1>1, <1>5, TimerAssumption DEF Passes
  <2> QED BY <1>1, <1>5, <2>1, QuietInv DEF Passes, connVars
<1>6. CASE \/ ClockSetBack \/ UNCHANGED vars
           \/ \E msec \in 0 .. MaxTime : SetsTimer(msec)
           \/ \E id \in 1 .. MaxTimers : VoidsTimer(id)
  <2>1. UNCHANGED <<loopVars, connVars>>
    BY <1>6 DEF ClockSetBack, vars, SetsTimer, VoidsTimer
  <2> QED BY <1>1, <2>1, QuietInv DEF loopVars, connVars
<1> QED BY <1>2, <1>3, <1>4, <1>5, <1>6

\* A connection is linked in front, where handle_conns does not come any more.
LEMMA ListenInv ==
    ASSUME LoopInv, TimerInv', NEW fd \in Fds, Listen(fd)
    PROVE  LoopInv'
<1> DEFINE c == [id |-> nconn + 1, fd |-> fd]
<1>1. /\ nconn \in 1 .. MaxConns /\ nconn < MaxConns /\ nconn' = nconn + 1
      /\ conns' = <<c>> \o conns /\ conns \in Seq(Conns)
      /\ UNCHANGED <<pc, running, rd, chosen, reading, next, wait>>
  BY DEF Listen, Linked, LoopInv, TypeOK, loopVars
<1>2. c \in Conns /\ c.id = nconn + 1
  BY <1>1, ServerAssumption DEF Conns
<1> HIDE DEF c
<1>3. /\ conns' \in Seq(Conns) /\ Len(conns') = Len(conns) + 1 /\ conns'[1] = c
      /\ \A i \in 1 .. Len(conns) : conns'[i + 1] = conns[i]
  BY <1>1, <1>2
<1>4. \A i \in 1 .. Len(conns') : i = 1 \/ (i - 1 \in 1 .. Len(conns) /\ conns'[i] = conns[i - 1])
  BY <1>1, <1>3
<1>5. Len(conns) \in Nat /\ \A i \in 1 .. Len(conns) : conns[i].id \in Nat /\ conns[i].id <= nconn
  BY <1>1, ConnFacts DEF LoopInv
<1>6. TypeOK'
  BY <1>1, <1>3, ServerAssumption DEF LoopInv, TypeOK, TimerInv
<1>7. \A i \in 1 .. Len(conns') : conns'[i].id <= nconn'
  <2> TAKE i \in 1 .. Len(conns')
  <2>1. CASE i = 1
    BY <1>1, <1>2, <1>3, <2>1
  <2>2. CASE i # 1
    BY <1>1, <1>4, <1>5, <2>2
  <2> QED BY <2>1, <2>2
<1>8. Once(conns')
  <2> SUFFICES ASSUME NEW i \in 1 .. Len(conns'), NEW j \in 1 .. Len(conns'),
                      conns'[i].id = conns'[j].id
               PROVE  i = j
    BY DEF Once
  <2>1. CASE i = 1 \/ j = 1
    <3>1. \A n \in 1 .. Len(conns') : n # 1 => conns'[n].id <= nconn
      BY <1>4, <1>5
    <3>2. c.id # nconn /\ ~(c.id <= nconn)
      BY <1>1, <1>2
    <3> QED BY <1>3, <2>1, <3>1, <3>2
  <2>2. CASE i # 1 /\ j # 1
    <3>1. i - 1 = j - 1
      BY <1>4, <2>2 DEF LoopInv, Once
    <3> QED BY <3>1
  <2> QED BY <2>1, <2>2
<1>9. next # Nil => next \in Conns /\ next.id <= nconn'
  BY <1>1 DEF LoopInv, Conns
<1>10. FromNext'
  <2> SUFFICES ASSUME NEW i \in 1 .. Len(conns'), NEW j \in 1 .. Len(conns'),
                      conns'[i] = next, i <= j, conns'[j].fd \in rd
               PROVE  conns'[j].id \in chosen
    BY <1>1 DEF FromNext
  <2>1. i # 1
    <3>1. CASE next = Nil
      BY <1>2, <1>3, <3>1, ServerAssumption
    <3>2. CASE next # Nil
      BY <1>1, <1>2, <1>3, <3>2 DEF LoopInv
    <3> QED BY <3>1, <3>2
  <2>2. j # 1
    BY <2>1
  <2>3. /\ i - 1 \in 1 .. Len(conns) /\ conns[i - 1] = next /\ i - 1 <= j - 1
        /\ j - 1 \in 1 .. Len(conns) /\ conns'[j] = conns[j - 1]
    BY <1>4, <2>1, <2>2
  <2> QED BY <2>3 DEF LoopInv, FromNext
<1>11. ReadingApart'
  BY <1>1 DEF LoopInv, ReadingApart
<1> QED BY <1>1, <1>6, <1>7, <1>8, <1>9, <1>10, <1>11 DEF LoopInv

\* A connection is unlinked, be it the one the saved pointer is to.
LEMMA HangupInv ==
    ASSUME LoopInv, TimerInv', NEW c \in Listening, HangupConn(c)
    PROVE  LoopInv'
<1> DEFINE k == CHOOSE i \in DOMAIN conns : conns[i] = c
           d == Without(conns, k)
           up(j) == IF j < k THEN j ELSE j + 1
<1>1. /\ conns \in Seq(Conns) /\ conns' = d
      /\ UNCHANGED <<pc, running, rd, chosen, reading, next, wait, nconn>>
  BY DEF HangupConn, LoopInv, TypeOK, loopVars
<1>2. k \in 1 .. Len(conns) /\ conns[k] = c
  BY <1>1, ConnFacts
<1> HIDE DEF k
<1>3. /\ d \in Seq(Conns) /\ Len(d) = Len(conns) - 1
      /\ \A j \in 1 .. Len(conns) - 1 : d[j] = conns[IF j < k THEN j ELSE j + 1]
  BY <1>1, <1>2, WithoutFact
<1>4. Once(d)
  BY <1>1, <1>2, WithoutIds DEF LoopInv
<1> HIDE DEF d
<1>5. Len(conns) \in Nat /\ k \in Nat /\ DOMAIN d = 1 .. Len(d)
  BY <1>1, <1>2, <1>3, ConnFacts
<1>6. \A j \in 1 .. Len(d) : up(j) \in 1 .. Len(conns) /\ d[j] = conns[up(j)]
  BY <1>3, <1>5
<1>7. \A i, j \in 1 .. Len(d) : i <= j => up(i) <= up(j)
  BY <1>3, <1>5
<1> HIDE DEF up
<1>8. TypeOK'
  BY <1>1, <1>3 DEF LoopInv, TypeOK, TimerInv
<1>9. \A i \in 1 .. Len(d) : d[i].id <= nconn
  BY <1>6 DEF LoopInv
<1>10. FromNext'
  BY <1>1, <1>6, <1>7 DEF LoopInv, FromNext
<1>11. ReadingApart'
  BY <1>1 DEF LoopInv, ReadingApart
<1> QED BY <1>1, <1>4, <1>8, <1>9, <1>10, <1>11 DEF LoopInv

\* Every connection is hung up.
LEMMA CloseInv ==
    ASSUME LoopInv, TimerInv', ServerClose
    PROVE  LoopInv'
<1>1. /\ conns' = <<>>
      /\ UNCHANGED <<pc, running, rd, chosen, reading, next, wait, nconn>>
  BY DEF ServerClose, loopVars
<1>2. TypeOK'
  BY <1>1 DEF LoopInv, TypeOK, TimerInv
<1> QED BY <1>1, <1>2 DEF LoopInv, Once, FromNext, ReadingApart

\* select returns: the walk begins at the head of the list it was called with.
LEMMA SelectInv ==
    ASSUME LoopInv, TimerInv', NEW R \in SUBSET FdsInUse, Select(R)
    PROVE  LoopInv'
<1>1. /\ conns \in Seq(Conns) /\ rd' = R /\ pc' = "handle"
      /\ chosen' = {c.id : c \in {e \in Listening : e.fd \in R}}
      /\ next' = IF conns = <<>> THEN Nil ELSE Head(conns)
      /\ UNCHANGED <<conns, nconn, running, reading, wait>>
  BY DEF Select, connVars, LoopInv, TypeOK
<1>2. R \subseteq Fds /\ chosen' \subseteq 1 .. MaxConns
  BY <1>1, ConnFacts DEF FdsInUse, Conns
<1>3. next' # Nil => next' \in Conns /\ next'.id <= nconn
  BY <1>1, ConnFacts DEF LoopInv
<1>4. TypeOK'
  BY <1>1, <1>2, <1>3 DEF LoopInv, TypeOK, TimerInv
<1>5. FromNext'
  BY <1>1, ConnFacts DEF FromNext
<1>6. ReadingApart'
  BY <1>1 DEF ReadingApart
<1> QED BY <1>1, <1>3, <1>4, <1>5, <1>6 DEF LoopInv, Walking

\* One connection is visited and the pointer moves past it.
LEMMA VisitInv ==
    ASSUME LoopInv, TimerInv', Visit
    PROVE  LoopInv'
<1>1. /\ conns \in Seq(Conns) /\ pc = "handle" /\ next \in Listening
      /\ next' = Successor(next)
      /\ IF next.fd \in rd THEN pc' = "readcb" /\ reading' = next ELSE UNCHANGED <<pc, reading>>
      /\ UNCHANGED <<conns, nconn, running, rd, chosen, wait>>
  BY DEF Visit, connVars, LoopInv, TypeOK
<1>2. PICK k \in 1 .. Len(conns) :
           conns[k] = next /\ next' = IF k = Len(conns) THEN Nil ELSE conns[k + 1]
  BY <1>1, ConnFacts DEF Successor
<1>3. Len(conns) \in Nat
  BY <1>1
<1>4. k \in Nat /\ (k # Len(conns) => k + 1 \in 1 .. Len(conns))
  BY <1>2, <1>3
<1>5. next' # Nil => /\ k + 1 \in 1 .. Len(conns) /\ next' = conns[k + 1]
                     /\ next' \in Conns /\ next'.id <= nconn
  BY <1>1, <1>2, <1>4, ConnFacts DEF LoopInv
<1>6. next \in Conns
  BY <1>1, ConnFacts
<1>7. TypeOK'
  BY <1>1, <1>5, <1>6 DEF LoopInv, TypeOK, TimerInv
<1>8. FromNext'
  <2> SUFFICES ASSUME NEW i \in 1 .. Len(conns), NEW j \in 1 .. Len(conns),
                      conns[i] = next', i <= j, conns[j].fd \in rd
               PROVE  conns[j].id \in chosen
    BY <1>1 DEF FromNext
  <2>1. next' # Nil
    BY <1>1, ConnFacts
  <2>2. i = k + 1
    BY <1>5, <2>1 DEF LoopInv, Once
  <2>3. k <= j
    BY <1>4, <2>2
  <2> QED BY <1>2, <2>3 DEF LoopInv, FromNext
<1>9. ReadingApart'
  <2> SUFFICES ASSUME pc' = "readcb"
               PROVE  /\ reading' \in Conns /\ reading'.id \in chosen
                      /\ next' # Nil => reading'.id # next'.id
    BY <1>1 DEF ReadingApart
  <2>1. reading' = next /\ next.fd \in rd
    BY <1>1
  <2>2. next.id \in chosen
    BY <1>2, <1>4, <2>1 DEF LoopInv, FromNext
  <2>3. ASSUME next' # Nil PROVE next.id # next'.id
    <3>1. k + 1 # k
      BY <1>4
    <3> QED BY <1>2, <1>5, <2>3, <3>1 DEF LoopInv, Once
  <2> QED BY <1>6, <2>1, <2>2, <2>3
<1>10. pc' \in Walking
  BY <1>1 DEF Walking
<1> QED BY <1>1, <1>5, <1>7, <1>8, <1>9, <1>10 DEF LoopInv

\* Every step keeps the loop's invariant.
LEMMA NextLoop ==
    ASSUME LoopInv, TimerInv', [Next]_vars
    PROVE  LoopInv'
<1>1. CASE SelectReady \/ SelectTimeout
  <2>1. PICK R \in SUBSET FdsInUse : Select(R)
    BY <1>1 DEF SelectReady, SelectTimeout
  <2> QED BY <2>1, SelectInv
<1>2. CASE Visit \/ ServerClose
  BY <1>2, VisitInv, CloseInv
<1>3. ASSUME NEW fd \in Fds, Listen(fd) PROVE LoopInv'
  BY <1>3, ListenInv
<1>4. ASSUME NEW c \in Listening, HangupConn(c) PROVE LoopInv'
  BY <1>4, HangupInv
<1> QED BY <1>1, <1>2, <1>3, <1>4, LoopSteps DEF Next, Loop, Callback

LEMMA InitLoop == Init => LoopInv
<1> SUFFICES ASSUME Init PROVE LoopInv
  OBVIOUS
<1>1. PICK f \in Fds : conns = <<[id |-> 1, fd |-> f]>>
  BY DEF Init
<1>2. /\ nconn = 1 /\ rd = {} /\ chosen = {} /\ reading = Nil /\ next = Nil /\ wait = Nil
      /\ pc = "top" /\ running = TRUE
  BY DEF Init
<1>3. TimerTypeOK
  BY TimerAssumption DEF Init, TimerInit, TimerTypeOK
<1>4. [id |-> 1, fd |-> f] \in Conns
  BY ServerAssumption DEF Conns
<1>5. conns \in Seq(Conns) /\ Len(conns) = 1 /\ conns[1].id = 1
  BY <1>1, <1>4
<1>6. TypeOK
  BY <1>2, <1>3, <1>5, ServerAssumption DEF TypeOK
<1> QED BY <1>2, <1>5, <1>6 DEF LoopInv, Once, ReadingApart, FromNext

\* The timers' invariant holds of every behaviour.
LEMMA TimerInvariance == Spec => []TimerInv
<1>1. Init => TimerInv
  <2> SUFFICES ASSUME Init PROVE TimerInv
    OBVIOUS
  <2>1. timers = <<>> /\ now = 0 /\ lastid = 1 /\ fired = {} /\ voided = {} /\ backs = 0
    BY DEF Init, TimerInit
  <2>2. Ids(timers) = {} /\ Once(timers)
    BY <2>1 DEF Ids, Once
  <2>3. TimerTypeOK
    BY <2>1, TimerAssumption DEF TimerTypeOK
  <2> QED BY <2>1, <2>2, <2>3 DEF TimerInv
<1>2. TimerInv /\ [Next]_vars => TimerInv'
  BY NextTimers
<1> QED BY <1>1, <1>2, PTL DEF Spec

\* The loop's invariant holds of every behaviour.
LEMMA LoopInvariance == Spec => []LoopInv
<1>1. LoopInv /\ TimerInv' /\ [Next]_vars => LoopInv'
  BY NextLoop
<1> QED BY <1>1, InitLoop, TimerInvariance, PTL DEF Spec

-----------------------------------------------------------------------------
(* The theorems.                                                           *)

\* No timer is lost, none fires twice and none fires once ixp_unsettimer has
\* reported it stopped, for every number of timers and every clock, although
\* callbacks set and void timers while ixp_nexttimer is in its loop.
THEOREM TimersAccountedCorrect == Spec => []TimersAccounted
BY TimerInvariance, TimerInvMeaning, PTL

\* Whatever a callback hangs up, handle_conns' saved pointer comes to dangle only
\* in a read callback that hangs up a connection other than its own: new
\* connections, timers, preselect and the walk itself never lose it.
THEOREM NextKeptCorrect == Spec => NextKept
<1>1. ASSUME LoopInv, [Next]_vars, ~NextLost, NextLost'
      PROVE  pc = "readcb" /\ next # reading
  <2>1. conns \in Seq(Conns)
    BY <1>1 DEF LoopInv, TypeOK
  <2>2. CASE UNCHANGED <<conns, next>>
    BY <1>1, <2>2 DEF NextLost, Listening
  <2>3. CASE SelectReady \/ SelectTimeout
    BY <1>1, <2>1, <2>3, ConnFacts
       DEF SelectReady, SelectTimeout, Select, connVars, NextLost, Listening
  <2>4. CASE Visit
    <3>1. /\ next \in Listening /\ conns' = conns
          /\ next' = Successor(next)
      BY <2>4 DEF Visit, connVars
    <3>2. PICK k \in 1 .. Len(conns) : next' = IF k = Len(conns) THEN Nil ELSE conns[k + 1]
      BY <2>1, <3>1, ConnFacts DEF Successor
    <3>3. k # Len(conns) => k + 1 \in 1 .. Len(conns)
      BY <2>1, <3>2
    <3>4. next' # Nil => next' \in Listening
      BY <2>1, <3>2, <3>3, ConnFacts
    <3> QED BY <1>1, <3>1, <3>4 DEF NextLost, Listening
  <2>5. ASSUME NEW fd \in Fds, Listen(fd) PROVE FALSE
    <3>1. next' = next /\ conns' = <<[id |-> nconn + 1, fd |-> fd]>> \o conns
      BY <2>5 DEF Listen, Linked, loopVars
    <3>2. next # Nil /\ next \in Listening /\ next \notin Listening'
      BY <1>1, <3>1 DEF NextLost
    <3>3. PICK m \in 1 .. Len(conns) : conns[m] = next
      BY <2>1, <3>2, ConnFacts
    <3>4. nconn + 1 \in 1 .. MaxConns
      BY <1>1, <2>5, ServerAssumption DEF Listen, LoopInv, TypeOK
    <3>5. [id |-> nconn + 1, fd |-> fd] \in Conns
      BY <3>4 DEF Conns
    <3>6. m + 1 \in DOMAIN conns' /\ conns'[m + 1] = next
      BY <2>1, <3>1, <3>3, <3>5
    <3> QED BY <3>2, <3>6 DEF Listening, Members
  <2>6. CASE ServerClose \/ \E c \in Listening : HangupConn(c)
    <3>1. InCallback /\ next' = next /\ next # Nil
      BY <1>1, <2>6 DEF ServerClose, HangupConn, loopVars, NextLost
    <3>2. pc = "readcb"
      BY <1>1, <3>1 DEF LoopInv, Walking, InCallback
    <3> QED BY <1>1, <3>1, <3>2 DEF LoopInv, ReadingApart
  <2>7. CASE \/ BeginPass \/ Trigger \/ TimersDone \/ CallbackReturns \/ VisitFreed \/ EndPass
             \/ SelectFails \/ Stop \/ Passes \/ ClockSetBack \/ UNCHANGED vars
             \/ \E msec \in 0 .. MaxTime : SetsTimer(msec)
             \/ \E id \in 1 .. MaxTimers : VoidsTimer(id)
    <3>1. UNCHANGED <<conns, next>>
      BY <2>7 DEF BeginPass, Trigger, TimersDone, CallbackReturns, VisitFreed, EndPass,
                  SelectFails, Stop, Passes, ClockSetBack, SetsTimer, VoidsTimer, vars,
                  loopVars, connVars
    <3> QED BY <2>2, <3>1
  <2> QED BY <1>1, <2>3, <2>4, <2>5, <2>6, <2>7 DEF Next, Loop, Callback
<1>2. LoopInv /\ [Next]_vars => [~NextLost /\ NextLost' => pc = "readcb" /\ next # reading]_vars
  BY <1>1
<1> QED BY <1>2, LoopInvariance, PTL DEF Spec, NextKept

\* A descriptor number that is closed and handed out again during a pass leads
\* to no read on the new connection, which select was not asked about, whichever
\* connections the callbacks hang up.
THEOREM ReadsReportedCorrect == Spec => []ReadsReported
<1>1. LoopInv => ReadsReported
  BY DEF LoopInv, ReadingApart, ReadsReported
<1> QED BY <1>1, LoopInvariance, PTL
=============================================================================
