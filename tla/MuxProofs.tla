----------------------------- MODULE MuxProofs -----------------------------
(***************************************************************************)
(* Proofs about the multiplexer, for any number of threads, tags, calls,   *)
(* any values of the uninitialised async flags and with failing sends.     *)
(***************************************************************************)
EXTENDS Mux, FiniteSetTheorems, SequenceTheorems, WellFoundedInduction, TLAPS

Members(q) == {q[i] : i \in DOMAIN q}
Distinct(q) == \A i, j \in DOMAIN q : q[i] = q[j] => i = j

\* The scans of gettag and electmuxer stop: a nonempty set of indices has a
\* least element.
LEMMA LeastInSet ==
    ASSUME NEW S, S \subseteq Nat, S # {}
    PROVE  Least(S) \in S
<1> DEFINE R == OpToRel(<, Nat)
<1>1. \E x \in S : \A y \in S : ~ (<<y, x>> \in R)
  <2>1. IsWellFoundedOn(R, Nat)
    BY NatLessThanWellFounded
  <2> HIDE DEF R
  <2> QED BY <2>1, WFMin
<1>2. PICK x \in S : \A y \in S : ~ (<<y, x>> \in R)
  BY <1>1
<1>3. \A y \in S : x <= y
  <2> TAKE y \in S
  <2>1. x \in Nat /\ y \in Nat
    OBVIOUS
  <2>2. y < x => <<y, x>> \in R
    BY <2>1 DEF OpToRel
  <2> HIDE DEF R
  <2>3. ~(y < x)
    BY <1>2, <2>2
  <2> QED BY <2>1, <2>3
<1> QED BY <1>3 DEF Least

\* electmuxer elects a member of the list it walks, or nobody.
LEMMA ElectedFact ==
    ASSUME NEW q \in Seq(Threads)
    PROVE  Elected(q) \in Members(q) \cup {Nil} /\ Elected(q) \in Threads \cup {Nil}
<1> DEFINE E == {i \in DOMAIN q : ~async[q[i]]}
<1>1. CASE E = {}
  BY <1>1 DEF Elected
<1>2. CASE E # {}
  <2>1. E \subseteq Nat
    OBVIOUS
  <2>2. Least(E) \in E
    BY <1>2, <2>1, LeastInSet
  <2>3. Elected(q) = q[Least(E)]
    BY <1>2 DEF Elected
  <2>4. Least(E) \in 1 .. Len(q) /\ Least(E) \in DOMAIN q
    BY <2>2
  <2> HIDE DEF E
  <2>5. q[Least(E)] \in Threads
    BY <2>4, ElementOfSeq
  <2> QED BY <2>3, <2>4, <2>5 DEF Members
<1> QED BY <1>1, <1>2

\* The scan of gettag returns a free slot when there is one.
LEMMA FirstFreeFact ==
    ASSUME NEW n \in Nat, NEW table, DOMAIN table = 0 .. n - 1, NEW start,
           \E i \in DOMAIN table : table[i] = Nil
    PROVE  FirstFree(table, start) \in DOMAIN table
        /\ table[FirstFree(table, start)] = Nil
<1> DEFINE free == {i \in DOMAIN table : table[i] = Nil}
           high == {i \in free : i >= start}
           cand == IF high # {} THEN high ELSE free
<1>1. cand # {} /\ cand \subseteq free /\ cand \subseteq Nat
  OBVIOUS
<1>2. FirstFree(table, start) = Least(cand)
  BY DEF FirstFree
<1> HIDE DEF cand
<1>3. Least(cand) \in cand
  BY <1>1, LeastInSet
<1> QED BY <1>1, <1>2, <1>3

\* enqueue adds one member to the list.
LEMMA EnqueueFact ==
    ASSUME NEW q \in Seq(Threads), NEW r \in Threads, r \notin Members(q), Distinct(q)
    PROVE  /\ Enqueue(q, r) \in Seq(Threads)
           /\ Members(Enqueue(q, r)) = Members(q) \cup {r}
           /\ Distinct(Enqueue(q, r))
<1> DEFINE e == Enqueue(q, r)
<1>1. e \in Seq(Threads) /\ Len(e) = Len(q) + 1 /\ e[1] = r
  BY DEF Enqueue
<1>2. \A i \in 1 .. Len(q) : e[i + 1] = q[i]
  BY DEF Enqueue
<1>3. \A i \in 1 .. Len(e) : i = 1 \/ (i - 1 \in 1 .. Len(q) /\ e[i] = q[i - 1])
  BY <1>1, <1>2
<1> HIDE DEF e
<1>4. DOMAIN e = 1 .. Len(e) /\ DOMAIN q = 1 .. Len(q) /\ Len(q) \in Nat
  BY <1>1
<1>5. Members(e) = Members(q) \cup {r}
  <2>1. ASSUME NEW x \in Members(e) PROVE x \in Members(q) \cup {r}
    BY <1>1, <1>3, <1>4, <2>1 DEF Members
  <2>2. ASSUME NEW x \in Members(q) PROVE x \in Members(e)
    <3>1. PICK i \in 1 .. Len(q) : x = q[i]
      BY <1>4 DEF Members
    <3>2. i + 1 \in DOMAIN e /\ e[i + 1] = x
      BY <1>1, <1>2, <1>4, <3>1
    <3> QED BY <3>2 DEF Members
  <2>3. r \in Members(e)
    <3>1. 1 \in DOMAIN e
      BY <1>1, <1>4
    <3> QED BY <1>1, <3>1 DEF Members
  <2> QED BY <2>1, <2>2, <2>3
<1>6. Distinct(e)
  <2> SUFFICES ASSUME NEW i \in DOMAIN e, NEW j \in DOMAIN e, e[i] = e[j]
               PROVE  i = j
    BY DEF Distinct
  <2>1. \A k \in 1 .. Len(q) : q[k] # r
    BY <1>4 DEF Members
  <2>2. CASE i = 1 \/ j = 1
    BY <1>1, <1>3, <1>4, <2>1, <2>2
  <2>3. CASE i # 1 /\ j # 1
    <3>1. i - 1 \in DOMAIN q /\ j - 1 \in DOMAIN q /\ q[i - 1] = q[j - 1]
      BY <1>3, <1>4, <2>3
    <3>2. i - 1 = j - 1
      BY <3>1 DEF Distinct
    <3> QED BY <1>4, <3>2
  <2> QED BY <2>2, <2>3
<1> QED BY <1>1, <1>5, <1>6 DEF e

\* dequeue takes exactly one member off the list.
LEMMA DequeueFact ==
    ASSUME NEW q \in Seq(Threads), NEW r \in Members(q), Distinct(q)
    PROVE  /\ Dequeue(q, r) \in Seq(Threads)
           /\ Members(Dequeue(q, r)) = Members(q) \ {r}
           /\ Distinct(Dequeue(q, r))
<1> DEFINE k == CHOOSE i \in DOMAIN q : q[i] = r
           d == Dequeue(q, r)
           a == SubSeq(q, 1, k - 1)
           b == SubSeq(q, k + 1, Len(q))
<1>1. k \in 1 .. Len(q) /\ q[k] = r /\ Len(q) \in Nat /\ DOMAIN q = 1 .. Len(q)
  <2>1. \E i \in DOMAIN q : q[i] = r
    BY DEF Members
  <2>2. k \in DOMAIN q /\ q[k] = r
    BY <2>1
  <2> QED BY <2>2
<1>2. d = a \o b
  BY DEF Dequeue
<1> HIDE DEF k
<1>3. /\ a \in Seq(Threads) /\ Len(a) = k - 1
      /\ b \in Seq(Threads) /\ Len(b) = Len(q) - k
      /\ \A i \in 1 .. k - 1 : a[i] = q[i]
      /\ \A i \in 1 .. Len(q) - k : b[i] = q[k + i]
  <2>1. \A i \in 1 .. Len(q) : q[i] \in Threads
    BY ElementOfSeq
  <2>2. /\ a \in Seq(Threads) /\ Len(a) = k - 1
        /\ \A i \in 1 .. k - 1 : a[i] = q[1 + i - 1]
    <3>1. \A i \in 1 .. k - 1 : q[i] \in Threads
      BY <1>1, <2>1
    <3>2. k - 1 \in Int
      BY <1>1
    <3> QED BY <1>1, <3>1, <3>2, SubSeqProperties
  <2>3. /\ b \in Seq(Threads) /\ Len(b) = Len(q) - k
        /\ \A i \in 1 .. Len(q) - k : b[i] = q[k + 1 + i - 1]
    <3>1. \A i \in k + 1 .. Len(q) : q[i] \in Threads
      BY <1>1, <2>1
    <3>2. k + 1 \in Int /\ Len(q) \in Int
      BY <1>1
    <3>3. /\ b \in Seq(Threads)
          /\ Len(b) = IF k + 1 <= Len(q) THEN Len(q) - (k + 1) + 1 ELSE 0
          /\ \A i \in 1 .. Len(q) - (k + 1) + 1 : b[i] = q[k + 1 + i - 1]
      BY <3>1, <3>2, SubSeqProperties
    <3> HIDE DEF b
    <3>4. Len(q) - (k + 1) + 1 = Len(q) - k
      BY <1>1
    <3>5. k \in Int /\ Len(q) \in Int /\ k <= Len(q)
      BY <1>1
    <3> HIDE DEF a, d
    <3>6. Len(b) = Len(q) - k
      <4>1. CASE k + 1 <= Len(q)
        BY <3>3, <3>4, <4>1
      <4>2. CASE ~(k + 1 <= Len(q))
        BY <3>3, <3>5, <4>2
      <4> QED BY <4>1, <4>2
    <3>7. \A i \in 1 .. Len(q) - k : b[i] = q[k + 1 + i - 1]
      BY <3>3, <3>4, Zenon
    <3> QED BY <3>3, <3>6, <3>7, Zenon
  <2> HIDE DEF a, b
  <2>4. \A i \in 1 .. k - 1 : 1 + i - 1 = i
    OBVIOUS
  <2>5. \A i \in 1 .. Len(q) - k : k + 1 + i - 1 = k + i
    BY <1>1
  <2> QED BY <2>2, <2>3, <2>4, <2>5
<1> HIDE DEF a, b, d
<1>4. d \in Seq(Threads) /\ Len(d) = Len(q) - 1
  <2>1. d \in Seq(Threads) /\ Len(d) = Len(a) + Len(b)
    BY <1>2, <1>3, ConcatProperties
  <2> QED BY <1>1, <1>3, <2>1
<1>5. \A i \in 1 .. Len(d) : d[i] = IF i < k THEN q[i] ELSE q[i + 1]
  <2> TAKE i \in 1 .. Len(d)
  <2>1. CASE i < k
    BY <1>1, <1>2, <1>3, <1>4, <2>1
  <2>2. CASE ~(i < k)
    <3>1. d[i] = b[i - Len(a)]
      BY <1>1, <1>2, <1>3, <1>4, <2>2
    <3>2. i - Len(a) \in 1 .. Len(q) - k /\ k + (i - Len(a)) = i + 1
      BY <1>1, <1>3, <1>4, <2>2
    <3> QED BY <1>3, <2>2, <3>1, <3>2
  <2> QED BY <2>1, <2>2
<1>6. DOMAIN d = 1 .. Len(d)
  BY <1>4
<1>7. Members(d) = Members(q) \ {r}
  <2>1. ASSUME NEW x \in Members(d) PROVE x \in Members(q) \ {r}
    <3>1. PICK i \in 1 .. Len(d) : x = d[i]
      BY <1>6 DEF Members
    <3>2. CASE i < k
      <4>1. i \in DOMAIN q /\ x = q[i] /\ i # k
        BY <1>1, <1>4, <1>5, <3>1, <3>2
      <4> QED BY <1>1, <4>1 DEF Members, Distinct
    <3>3. CASE ~(i < k)
      <4>1. i + 1 \in DOMAIN q /\ x = q[i + 1] /\ i + 1 # k
        BY <1>1, <1>4, <1>5, <3>1, <3>3
      <4> QED BY <1>1, <4>1 DEF Members, Distinct
    <3> QED BY <3>2, <3>3
  <2>2. ASSUME NEW x \in Members(q) \ {r} PROVE x \in Members(d)
    <3>1. PICK i \in 1 .. Len(q) : x = q[i]
      BY <1>1 DEF Members
    <3>2. i # k
      BY <1>1, <3>1
    <3>3. CASE i < k
      <4>1. i \in DOMAIN d /\ d[i] = x
        BY <1>1, <1>4, <1>5, <1>6, <3>1, <3>3
      <4> QED BY <4>1 DEF Members
    <3>4. CASE i > k
      <4>1. i - 1 \in DOMAIN d /\ d[i - 1] = x
        BY <1>1, <1>4, <1>5, <1>6, <3>1, <3>4
      <4> QED BY <4>1 DEF Members
    <3> QED BY <1>1, <3>2, <3>3, <3>4
  <2> QED BY <2>1, <2>2
<1>8. Distinct(d)
  <2> SUFFICES ASSUME NEW i \in 1 .. Len(d), NEW j \in 1 .. Len(d), d[i] = d[j]
               PROVE  i = j
    BY <1>6 DEF Distinct
  <2> DEFINE up(n) == IF n < k THEN n ELSE n + 1
  <2>1. up(i) \in DOMAIN q /\ up(j) \in DOMAIN q /\ q[up(i)] = q[up(j)]
    BY <1>1, <1>4, <1>5
  <2>2. up(i) = up(j)
    BY <2>1 DEF Distinct
  <2> QED BY <1>1, <2>2
<1> QED BY <1>4, <1>7, <1>8 DEF d

\* Waking a sleeper moves it to its test, and nobody else anywhere.
LEMMA WakeFact ==
    ASSUME NEW at \in [Threads -> Locations], NEW r \in Threads \cup {Nil}
    PROVE  /\ Wake(at, r) \in [Threads -> Locations]
           /\ \A t \in Threads : \/ Wake(at, r)[t] = at[t]
                                 \/ at[t] = "asleep" /\ Wake(at, r)[t] = "check"
BY DEF Wake, Locations

\* The signal on tagrend moves at most one thread, and only one without a tag.
LEMMA TagWokenFact ==
    ASSUME NEW at \in [Threads -> Locations], NEW woken \in TagWoken(at)
    PROVE  /\ woken \in [Threads -> Locations]
           /\ \A t \in Threads : \/ woken[t] = at[t]
                                 \/ at[t] = "tagsleep" /\ woken[t] = "gettag"
BY DEF TagWoken, Locations

-----------------------------------------------------------------------------
(* The inductive invariant.                                                *)

\* Only a call past its send can have a reply, the muxer never has one, and a
\* muxer gives up only when the connection is exhausted.
Phases ==
    /\ \A t \in Threads :
        pc[t] \in {"gettag", "tagsleep", "send"} \/ Receiving(t) => p[t] = Nil
    /\ \A t \in Threads : pc[t] = "giveup" => eof /\ pending = {}

IInv ==
    /\ TypeOK /\ TagTable /\ SleepList /\ OneMuxer
    /\ ReplyAwake /\ ReplyToCaller /\ ReplyAwaited /\ Phases

\* How a critical section of one thread may move another: by a wakeup.
Nudged(u) ==
    \/ pc'[u] = pc[u]
    \/ pc[u] = "asleep" /\ pc'[u] = "check"
    \/ pc[u] = "tagsleep" /\ pc'[u] = "gettag"

\* puttag keeps the table a table and the counter exact.
LEMMA PutTagFact ==
    ASSUME TypeOK, TagTable, NEW t \in Threads, HasTag(t), PutTag(t)
    PROVE  /\ tag[t] \in 0 .. mwait - 1 /\ mwait' = mwait
           /\ wait' \in [0 .. mwait' - 1 -> Threads \cup {Nil}]
           /\ wait'[tag[t]] = Nil
           /\ \A i \in 0 .. mwait - 1 : i # tag[t] => wait'[i] = wait[i]
           /\ nwait' \in Nat /\ freetag' \in Nat
           /\ nwait' = Cardinality(Occupied')
<1>1. /\ tag[t] \in 0 .. mwait - 1 /\ wait[tag[t]] = t
      /\ wait \in [0 .. mwait - 1 -> Threads \cup {Nil}]
      /\ mwait \in Nat /\ nwait \in Nat
  BY DEF TypeOK, TagTable, TagSlots
<1>2. /\ mwait' = mwait /\ freetag' = tag[t] /\ nwait' = nwait - 1
      /\ wait' = [wait EXCEPT ![tag[t]] = Nil]
  BY DEF PutTag
<1>3. /\ wait' \in [0 .. mwait' - 1 -> Threads \cup {Nil}]
      /\ wait'[tag[t]] = Nil
      /\ \A i \in 0 .. mwait - 1 : i # tag[t] => wait'[i] = wait[i]
  BY <1>1, <1>2
<1>4. Occupied' = Occupied \ {tag[t]} /\ tag[t] \in Occupied
  BY <1>1, <1>2, <1>3, MuxAssumption DEF Occupied
<1>5. IsFiniteSet(Occupied)
  <2>1. IsFiniteSet(0 .. mwait - 1)
    BY <1>1, FS_Interval
  <2>2. Occupied \in SUBSET (0 .. mwait - 1)
    BY <1>1 DEF Occupied
  <2> QED BY <2>1, <2>2, FS_Subset
<1>6. Cardinality(Occupied') = Cardinality(Occupied) - 1
  BY <1>4, <1>5, FS_RemoveElement
<1>7. Cardinality(Occupied) \in Nat /\ Cardinality(Occupied) # 0
  BY <1>4, <1>5, FS_CardinalityType, FS_EmptySet
<1> QED BY <1>1, <1>2, <1>3, <1>6, <1>7 DEF TagTable

\* gettag hands out a slot that was free, growing the table when it is full.
LEMMA TakeTagFact ==
    ASSUME TypeOK, TagTable, NEW t \in Threads, TakeTag(t)
    PROVE  /\ \E i \in 0 .. mwait' - 1 :
                /\ tag' = [tag EXCEPT ![t] = i]
                /\ i < mwait => wait[i] = Nil
                /\ wait'[i] = t
                /\ \A j \in 0 .. mwait' - 1 :
                     j # i => wait'[j] = IF j < mwait THEN wait[j] ELSE Nil
           /\ mwait' \in Nat /\ mwait <= mwait'
           /\ wait' \in [0 .. mwait' - 1 -> Threads \cup {Nil}]
           /\ nwait' \in Nat /\ freetag' \in Nat
           /\ nwait' = Cardinality(Occupied')
<1> DEFINE table == IF TableFull THEN GrownTable ELSE wait
           start == IF TableFull THEN mwait ELSE freetag
           size == IF TableFull THEN GrownSize ELSE mwait
           i == FirstFree(table, start)
<1>1. /\ wait \in [0 .. mwait - 1 -> Threads \cup {Nil}]
      /\ mwait \in Nat /\ nwait \in Nat /\ freetag \in Nat
      /\ nwait = Cardinality(Occupied)
  BY DEF TypeOK, TagTable
<1>2. /\ size \in Nat /\ mwait <= size /\ (TableFull => mwait < size)
      /\ table \in [0 .. size - 1 -> Threads \cup {Nil}]
      /\ \A j \in 0 .. size - 1 : table[j] = IF j < mwait THEN wait[j] ELSE Nil
  <2>1. GrownSize \in Nat /\ mwait < GrownSize
    BY <1>1 DEF GrownSize
  <2>2. CASE TableFull
    <3>1. GrownTable \in [0 .. GrownSize - 1 -> Threads \cup {Nil}]
      BY <1>1, <2>1 DEF GrownTable
    <3>2. \A j \in 0 .. GrownSize - 1 :
            GrownTable[j] = IF j < mwait THEN wait[j] ELSE Nil
      BY DEF GrownTable
    <3> QED BY <1>1, <2>1, <2>2, <3>1, <3>2
  <2>3. CASE ~TableFull
    BY <1>1, <2>3
  <2> QED BY <2>2, <2>3
<1>3. IsFiniteSet(Occupied)
  <2>1. IsFiniteSet(0 .. mwait - 1)
    BY <1>1, FS_Interval
  <2>2. Occupied \in SUBSET (0 .. mwait - 1)
    BY <1>1 DEF Occupied
  <2> QED BY <2>1, <2>2, FS_Subset
<1>4. \E j \in DOMAIN table : table[j] = Nil
  <2>1. CASE TableFull
    <3>1. mwait \in 0 .. size - 1
      BY <1>1, <1>2, <2>1
    <3>2. table[mwait] = Nil
      BY <1>1, <1>2, <3>1
    <3> QED BY <1>2, <3>1, <3>2
  <2>2. CASE ~TableFull
    <3>1. Cardinality(0 .. mwait - 1) = mwait
      BY <1>1, FS_Interval
    <3>2. Occupied # 0 .. mwait - 1
      BY <1>1, <2>2, <3>1 DEF TableFull
    <3>3. PICK j \in 0 .. mwait - 1 : wait[j] = Nil
      BY <1>1, <3>2 DEF Occupied
    <3> QED BY <1>1, <2>2, <3>3
  <2> QED BY <2>1, <2>2
<1>5. /\ wait' = [table EXCEPT ![i] = t] /\ mwait' = size /\ freetag' = start
      /\ tag' = [tag EXCEPT ![t] = i] /\ nwait' = nwait + 1
  BY DEF TakeTag
<1>6. i \in 0 .. size - 1 /\ table[i] = Nil
  <2>1. DOMAIN table = 0 .. size - 1 /\ size \in Nat
    BY <1>2
  <2> HIDE DEF table, size, start
  <2> QED BY <1>4, <2>1, FirstFreeFact
<1>7. start \in Nat
  BY <1>1
<1> HIDE DEF table, start, size, i
<1>8. /\ wait' \in [0 .. size - 1 -> Threads \cup {Nil}]
      /\ wait'[i] = t
      /\ \A j \in 0 .. size - 1 : j # i => wait'[j] = table[j]
  BY <1>2, <1>5, <1>6
<1>9. /\ i < mwait => wait[i] = Nil
      /\ \A j \in 0 .. size - 1 : j # i => wait'[j] = IF j < mwait THEN wait[j] ELSE Nil
  BY <1>2, <1>6, <1>8
<1>10. Occupied' = Occupied \cup {i} /\ i \notin Occupied
  <2>1. ASSUME NEW j \in Occupied' PROVE j \in Occupied \cup {i}
    BY <1>1, <1>8, <1>9, <2>1 DEF Occupied
  <2>2. ASSUME NEW j \in Occupied PROVE j \in Occupied' /\ j # i
    <3>1. j \in 0 .. mwait - 1 /\ wait[j] # Nil /\ j < mwait
      BY <1>1, <2>2 DEF Occupied
    <3>2. j \in 0 .. size - 1
      BY <1>1, <1>2, <3>1
    <3>3. j # i
      BY <1>9, <3>1
    <3> QED BY <1>8, <1>9, <3>1, <3>2, <3>3 DEF Occupied
  <2>3. i \in Occupied'
    BY <1>6, <1>8, MuxAssumption DEF Occupied
  <2> QED BY <2>1, <2>2, <2>3
<1>11. Cardinality(Occupied') = Cardinality(Occupied) + 1
  BY <1>3, <1>10, FS_AddElement
<1>12. mwait' \in Nat /\ mwait <= mwait' /\ freetag' \in Nat
  BY <1>2, <1>5, <1>7
<1>13. nwait' \in Nat /\ nwait' = Cardinality(Occupied')
  BY <1>1, <1>5, <1>11
<1>14. i \in 0 .. mwait' - 1 /\ tag' = [tag EXCEPT ![t] = i]
  BY <1>5, <1>6
<1> QED BY <1>5, <1>8, <1>9, <1>12, <1>13, <1>14

\* A call that returns takes its slot, and nobody else's, out of the table.
LEMMA FreedSlots ==
    ASSUME TypeOK, TagTable, NEW t \in Threads, HasTag(t), PutTag(t), tag' = tag,
           pc' \in [Threads -> Locations], pc'[t] = "idle",
           \A u \in Threads \ {t} : Nudged(u)
    PROVE  TagTable'
<1>1. /\ tag[t] \in 0 .. mwait - 1 /\ mwait' = mwait
      /\ wait' \in [0 .. mwait' - 1 -> Threads \cup {Nil}]
      /\ wait'[tag[t]] = Nil
      /\ \A i \in 0 .. mwait - 1 : i # tag[t] => wait'[i] = wait[i]
      /\ nwait' = Cardinality(Occupied')
  BY PutTagFact
<1>2. /\ \A u \in Threads \ {t} : HasTag(u)' <=> HasTag(u)
      /\ ~HasTag(t)'
  BY DEF Nudged, HasTag
<1>3. /\ \A u \in Threads : HasTag(u) => tag[u] \in 0 .. mwait - 1 /\ wait[tag[u]] = u
      /\ \A i \in 0 .. mwait - 1 : wait[i] # Nil => HasTag(wait[i]) /\ tag[wait[i]] = i
      /\ wait \in [0 .. mwait - 1 -> Threads \cup {Nil}]
      /\ tag \in [Threads -> Nat] /\ mwait \in Nat
  BY DEF TypeOK, TagTable, TagSlots, Occupied
<1>4. ASSUME NEW u \in Threads, HasTag(u)'
      PROVE  tag'[u] < mwait' /\ wait'[tag'[u]] = u
  <2>1. u # t /\ HasTag(u) /\ tag[u] # tag[t]
    BY <1>2, <1>3, <1>4
  <2> QED BY <1>1, <1>3, <2>1
<1>5. ASSUME NEW i \in Occupied' PROVE (HasTag(wait[i]) /\ tag[wait[i]] = i)'
  <2>1. i \in 0 .. mwait - 1 /\ wait'[i] # Nil /\ i # tag[t] /\ wait'[i] = wait[i]
    BY <1>1, <1>5 DEF Occupied
  <2>2. wait[i] \in Threads /\ HasTag(wait[i]) /\ tag[wait[i]] = i
    BY <1>3, <2>1
  <2>3. wait[i] # t
    BY <2>1, <2>2
  <2> DEFINE u == wait[i]
  <2>4. u \in Threads \ {t} /\ wait'[i] = u
    BY <2>1, <2>2, <2>3
  <2> HIDE DEF u
  <2>5. pc'[u] = pc[u] \/ (pc[u] = "asleep" /\ pc'[u] = "check")
                      \/ (pc[u] = "tagsleep" /\ pc'[u] = "gettag")
    BY <2>4 DEF Nudged
  <2>6. HasTag(u) /\ tag[u] = i
    BY <2>2 DEF u
  <2> QED BY <2>4, <2>5, <2>6 DEF HasTag
<1>6. TagSlots'
  BY <1>4, <1>5 DEF TagSlots
<1> QED BY <1>1, <1>6 DEF TagTable

\* Two outstanding messages with one tag are one message.
LEMMA OneMessagePerCall ==
    ASSUME NEW m1 \in Messages, NEW m2 \in Messages,
           Awaited(m1), Awaited(m2), m1.thr = m2.thr
    PROVE  m1 = m2
BY DEF Messages, Awaited, Answers

\* The message a muxer holds is handed to the call it answers: it is neither
\* dropped nor given to another rpc.
LEMMA TargetFact ==
    ASSUME IInv, NEW t \in Threads, pc[t] = "dispatch"
    PROVE  /\ got[t] \in Messages /\ Awaited(got[t]) /\ got[t] \notin pending
           /\ Target(got[t]) = got[t].thr
           /\ got[t].thr \in Members(sleepq)
<1>1. got[t] \in Messages /\ Awaited(got[t]) /\ got[t] \notin pending
  BY DEF IInv, TypeOK, ReplyAwaited
<1>2. got[t].thr \in Threads /\ got[t].tag \in Nat
  BY <1>1 DEF Messages
<1> DEFINE r == got[t].thr
<1>3. HasTag(r) /\ p[r] = Nil /\ tag[r] = got[t].tag
  BY <1>1 DEF Awaited
<1>4. r \in Sleepers
  BY <1>2, <1>3 DEF IInv, SleepList
<1>5. got[t].tag \in DOMAIN wait /\ wait[got[t].tag] = r
  BY <1>2, <1>3 DEF IInv, TypeOK, TagTable, TagSlots
<1> QED BY <1>1, <1>4, <1>5 DEF Target, Members, Sleepers

\* The initial state satisfies the invariant.
LEMMA InitInv == Init => IInv
<1> SUFFICES ASSUME Init PROVE IInv
  OBVIOUS
<1>1. TypeOK
  <2>1. sleepq \in Seq(Threads)
    BY DEF Init
  <2>2. wait \in [0 .. mwait - 1 -> Threads \cup {Nil}]
    BY DEF Init
  <2> QED BY <2>1, <2>2 DEF Init, TypeOK, Locations
<1>2. TagTable
  <2>1. Occupied = {}
    BY DEF Init, Occupied
  <2> QED BY <2>1, FS_EmptySet DEF Init, TagTable, TagSlots, HasTag
<1>3. SleepList
  BY DEF Init, SleepList, Sleepers, HasTag
<1>4. OneMuxer /\ ReplyAwake /\ ReplyToCaller /\ ReplyAwaited /\ Phases
  BY DEF Init, OneMuxer, Receiving, ReplyAwake, ReplyToCaller, ReplyAwaited, Phases
<1> QED BY <1>1, <1>2, <1>3, <1>4 DEF IInv

\* A step that leaves the table alone and moves no thread into or out of the
\* part of muxrpc where it owns a tag keeps the table and the list.
LEMMA SameTable ==
    ASSUME IInv, UNCHANGED <<tag, tagVars>>,
           \A u \in Threads : HasTag(u)' <=> HasTag(u)
    PROVE  TagTable'
<1>1. Occupied' = Occupied /\ nwait' = nwait
  BY DEF Occupied, tagVars
<1>2. \A u \in Threads : HasTag(u)' => (tag[u] < mwait /\ wait[tag[u]] = u)'
  BY DEF IInv, TagTable, TagSlots, tagVars
<1>3. ASSUME NEW i \in Occupied' PROVE (HasTag(wait[i]) /\ tag[wait[i]] = i)'
  <2>1. PICK u \in Threads : u = wait[i] /\ HasTag(u) /\ tag[u] = i
    BY <1>1, <1>3 DEF IInv, TypeOK, TagTable, TagSlots, Occupied
  <2>2. wait'[i] = u /\ tag' = tag
    BY <2>1 DEF tagVars
  <2>3. HasTag(u)'
    BY <2>1
  <2> QED BY <2>1, <2>2, <2>3 DEF HasTag
<1> QED BY <1>1, <1>2, <1>3 DEF IInv, TagTable, TagSlots

\* muxrpc begins.
LEMMA CallInv ==
    ASSUME IInv, NEW t \in Threads, Call(t)
    PROVE  IInv'
<1> USE DEF Call, tagVars, netVars
<1>1. TypeOK'
  BY MuxAssumption DEF IInv, TypeOK, Locations
<1>2. \A u \in Threads : /\ HasTag(u)' <=> HasTag(u)
                         /\ u # t => pc'[u] = pc[u] /\ p'[u] = p[u] /\ calls'[u] = calls[u]
  BY DEF IInv, TypeOK, HasTag
<1>3. TagTable'
  BY <1>2, SameTable
<1>4. SleepList'
  BY <1>2 DEF IInv, TypeOK, SleepList, Sleepers, HasTag
<1>5. OneMuxer'
  BY MuxAssumption DEF IInv, TypeOK, OneMuxer, Receiving
<1>6. ReplyAwake' /\ ReplyToCaller' /\ Phases'
  BY DEF IInv, TypeOK, ReplyAwake, ReplyToCaller, Phases, Answers, Receiving
<1>7. \A m \in Messages : Awaited(m) => Awaited(m)'
  BY <1>2 DEF Messages, Awaited, Answers, HasTag
<1>8. ReplyAwaited'
  BY <1>7 DEF IInv, TypeOK, ReplyAwaited
<1> QED BY <1>1, <1>3, <1>4, <1>5, <1>6, <1>8 DEF IInv

\* sendrpc takes a tag and enqueues.
LEMMA TakeTagInv ==
    ASSUME IInv, NEW t \in Threads, TakeTag(t)
    PROVE  IInv'
<1>1. PICK i \in 0 .. mwait' - 1 :
        /\ tag' = [tag EXCEPT ![t] = i]
        /\ i < mwait => wait[i] = Nil
        /\ wait'[i] = t
        /\ \A j \in 0 .. mwait' - 1 : j # i => wait'[j] = IF j < mwait THEN wait[j] ELSE Nil
  BY TakeTagFact DEF IInv
<1>2. /\ mwait' \in Nat /\ mwait <= mwait'
      /\ wait' \in [0 .. mwait' - 1 -> Threads \cup {Nil}]
      /\ nwait' \in Nat /\ freetag' \in Nat /\ nwait' = Cardinality(Occupied')
  BY TakeTagFact DEF IInv
<1>3. /\ pc[t] = "gettag" /\ pc' = [pc EXCEPT ![t] = "send"]
      /\ sleepq' = Enqueue(sleepq, t) /\ p[t] = Nil
      /\ UNCHANGED <<calls, async, p, got, muxer, pending, eof, garbled>>
  BY DEF TakeTag, IInv, Phases, netVars
<1>4. /\ sleepq' \in Seq(Threads) /\ Members(sleepq') = Members(sleepq) \cup {t}
      /\ Distinct(sleepq')
  <2>1. t \notin Members(sleepq) /\ Distinct(sleepq) /\ sleepq \in Seq(Threads)
    BY <1>3 DEF IInv, SleepList, Members, Distinct, Sleepers, HasTag, TypeOK
  <2> QED BY <1>3, <2>1, EnqueueFact
<1>5. TypeOK'
  <2>1. tag' \in [Threads -> Nat]
    BY <1>1, <1>2 DEF IInv, TypeOK
  <2>2. pc' \in [Threads -> Locations]
    BY <1>3 DEF IInv, TypeOK, Locations
  <2> QED BY <1>2, <1>3, <1>4, <2>1, <2>2 DEF IInv, TypeOK
<1>6. \A u \in Threads : u # t => (HasTag(u)' <=> HasTag(u)) /\ tag'[u] = tag[u]
  BY <1>1, <1>3 DEF IInv, TypeOK, HasTag
<1>7. TagTable'
  <2>1. \A u \in Threads : HasTag(u)' => (tag[u] < mwait /\ wait[tag[u]] = u)'
    <3> SUFFICES ASSUME NEW u \in Threads, HasTag(u)'
                 PROVE  tag'[u] < mwait' /\ wait'[tag'[u]] = u
      OBVIOUS
    <3>1. CASE u = t
      <4>1. tag'[t] = i
        BY <1>1 DEF IInv, TypeOK
      <4>2. i < mwait'
        <5>1. mwait' \in Nat
          BY <1>2
        <5>2. \A n \in Nat : \A k \in 0 .. n - 1 : k < n
          OBVIOUS
        <5> QED BY <5>1, <5>2
      <4> QED BY <1>1, <3>1, <4>1, <4>2
    <3>2. CASE u # t
      <4>1. tag[u] < mwait /\ wait[tag[u]] = u /\ tag'[u] = tag[u] /\ tag[u] \in Nat
        BY <1>6, <3>2 DEF IInv, TagTable, TagSlots, TypeOK
      <4>2. tag[u] # i
        BY <1>1, <4>1, MuxAssumption
      <4>3. mwait \in Nat
        BY DEF IInv, TypeOK
      <4>4. tag[u] \in 0 .. mwait' - 1 /\ tag[u] < mwait'
        BY <1>2, <4>1, <4>3
      <4>5. wait'[tag[u]] = wait[tag[u]]
        BY <1>1, <4>1, <4>2, <4>4
      <4> QED BY <4>1, <4>4, <4>5
    <3> QED BY <3>1, <3>2
  <2>2. ASSUME NEW j \in Occupied' PROVE (HasTag(wait[j]) /\ tag[wait[j]] = j)'
    <3>1. j \in 0 .. mwait' - 1 /\ wait'[j] # Nil
      BY <1>2, <2>2 DEF Occupied
    <3>2. CASE j = i
      BY <1>1, <1>3, <3>2 DEF IInv, TypeOK, HasTag
    <3>3. CASE j # i
      <4>1. wait'[j] = wait[j] /\ j \in Occupied
        BY <1>1, <3>1, <3>3 DEF IInv, TypeOK, Occupied
      <4>2. PICK u \in Threads : u = wait[j] /\ HasTag(u) /\ tag[u] = j
        BY <4>1 DEF IInv, TypeOK, TagTable, TagSlots, Occupied
      <4>3. u # t
        BY <1>3, <4>2 DEF HasTag
      <4>4. HasTag(u)' /\ tag'[u] = j
        BY <1>6, <4>2, <4>3
      <4> QED BY <4>1, <4>2, <4>4 DEF HasTag
    <3> QED BY <3>2, <3>3
  <2> QED BY <1>2, <2>1, <2>2 DEF TagTable, TagSlots
<1>8. SleepList'
  <2>1. Sleepers' = Sleepers \cup {t}
    BY <1>4 DEF Sleepers, Members
  <2>2. HasTag(t)' /\ p'[t] = Nil
    BY <1>3 DEF IInv, TypeOK, HasTag
  <2>3. Sleepers' = {u \in Threads : HasTag(u)' /\ p'[u] = Nil}
    BY <1>3, <1>6, <2>1, <2>2 DEF IInv, SleepList
  <2> QED BY <1>4, <2>3 DEF SleepList, Distinct
<1>9. OneMuxer' /\ ReplyAwake' /\ ReplyToCaller' /\ Phases'
  BY <1>3 DEF IInv, TypeOK, OneMuxer, Receiving, ReplyAwake, ReplyToCaller, Answers, Phases
<1>10. \A m \in Messages : Awaited(m) => Awaited(m)'
  <2> SUFFICES ASSUME NEW m \in Messages, Awaited(m) PROVE Awaited(m)'
    OBVIOUS
  <2>1. m.thr \in Threads /\ m.thr # t
    BY <1>3 DEF Messages, Awaited, HasTag
  <2> QED BY <1>3, <1>6, <2>1 DEF IInv, TypeOK, Awaited, Answers
<1>11. ReplyAwaited'
  BY <1>3, <1>10 DEF IInv, TypeOK, ReplyAwaited
<1> QED BY <1>5, <1>7, <1>8, <1>9, <1>11 DEF IInv

\* The steps that only move the thread: falling asleep on either rendezvous,
\* waking up for no reason, and finding end of file.
LEMMA MoveInv ==
    ASSUME IInv, NEW t \in Threads,
           SleepForTag(t) \/ Sleep(t) \/ RecvEof(t) \/ SpuriousWakeup(t)
    PROVE  IInv'
<1>1. /\ UNCHANGED <<callVars, tagVars, sleepq, muxer, netVars>>
      /\ \E l \in Locations : pc' = [pc EXCEPT ![t] = l]
  BY DEF SleepForTag, Sleep, RecvEof, SpuriousWakeup, Locations
<1>2. /\ UNCHANGED <<calls, tag, async, p, got, wait, nwait, mwait, freetag, sleepq,
                     muxer, pending, eof, garbled>>
      /\ pc' \in [Threads -> Locations]
      /\ \A u \in Threads : u # t => pc'[u] = pc[u]
  BY <1>1 DEF callVars, tagVars, netVars, IInv, TypeOK
<1>3. TypeOK'
  BY <1>2 DEF IInv, TypeOK
<1>4. /\ HasTag(t)' <=> HasTag(t)
      /\ Receiving(t)' <=> Receiving(t)
      /\ pc[t] # "send" /\ pc'[t] # "send" /\ pc'[t] # "dispatch"
      /\ pc'[t] = "asleep" => p[t] = Nil
      /\ pc'[t] \in {"gettag", "tagsleep"} => pc[t] \in {"gettag", "tagsleep"}
      /\ pc'[t] = "giveup" => eof /\ pending = {}
  BY DEF IInv, TypeOK, SleepForTag, Sleep, RecvEof, SpuriousWakeup, MustSleep,
         HasTag, Receiving
<1>5. \A u \in Threads : HasTag(u)' <=> HasTag(u)
  BY <1>2, <1>4 DEF HasTag
<1>6. TagTable'
  BY <1>2, <1>5, SameTable DEF tagVars
<1>7. SleepList'
  BY <1>2, <1>5 DEF IInv, SleepList, Sleepers
<1>8. OneMuxer'
  BY <1>2, <1>4 DEF IInv, OneMuxer, Receiving
<1>9. ReplyAwake'
  BY <1>2, <1>4 DEF IInv, ReplyAwake
<1>10. ReplyToCaller'
  BY <1>2 DEF IInv, ReplyToCaller, Answers
<1>11. Phases'
  <2>1. ASSUME NEW u \in Threads,
               pc'[u] \in {"gettag", "tagsleep", "send"} \/ Receiving(u)'
        PROVE  p'[u] = Nil
    BY <1>2, <1>4, <2>1 DEF IInv, Phases, Receiving
  <2>2. ASSUME NEW u \in Threads, pc'[u] = "giveup" PROVE eof' /\ pending' = {}
    BY <1>2, <1>4, <2>2 DEF IInv, Phases
  <2> QED BY <2>1, <2>2 DEF Phases
<1>12. \A m \in Messages : Awaited(m) => Awaited(m)'
  BY <1>2, <1>4, <1>5 DEF Messages, Awaited, Answers
<1>13. ReplyAwaited'
  BY <1>2, <1>4, <1>12 DEF IInv, TypeOK, ReplyAwaited
<1> QED BY <1>3, <1>6, <1>7, <1>8, <1>9, <1>10, <1>11, <1>13 DEF IInv

\* The request is written.
LEMMA SendOkInv ==
    ASSUME IInv, NEW t \in Threads, SendOk(t)
    PROVE  IInv'
<1>1. /\ UNCHANGED <<calls, tag, async, p, got, wait, nwait, mwait, freetag, sleepq,
                     muxer, eof, garbled>>
      /\ pc[t] = "send" /\ pc' = [pc EXCEPT ![t] = "check"]
      /\ pc' \in [Threads -> Locations]
      /\ \A u \in Threads : u # t => pc'[u] = pc[u]
      /\ pc'[t] = "check" /\ p[t] = Nil
  BY DEF SendOk, callVars, tagVars, IInv, TypeOK, Locations, Phases
<1>2. /\ Request(t) \in Messages
      /\ pending' \subseteq pending \cup {Request(t)}
      /\ eof => pending' = pending
  BY DEF SendOk, Request, Messages, IInv, TypeOK
<1>3. TypeOK'
  BY <1>1, <1>2 DEF IInv, TypeOK
<1>4. \A u \in Threads : HasTag(u)' <=> HasTag(u)
  BY <1>1 DEF HasTag
<1>5. TagTable'
  BY <1>1, <1>4, SameTable DEF tagVars
<1>6. SleepList'
  BY <1>1, <1>4 DEF IInv, SleepList, Sleepers
<1>7. OneMuxer' /\ ReplyAwake' /\ ReplyToCaller'
  BY <1>1 DEF IInv, OneMuxer, Receiving, ReplyAwake, ReplyToCaller, Answers
<1>8. Phases'
  BY <1>1, <1>2 DEF IInv, Phases, Receiving
<1>9. \A m \in Messages : Awaited(m) => Awaited(m)' /\ m # Request(t)
  BY <1>1, <1>4 DEF Messages, Awaited, Answers, Request
<1>10. Awaited(Request(t))'
  <2>1. /\ Request(t)' = Request(t) /\ Request(t).thr = t
        /\ Request(t).n = calls[t] /\ Request(t).tag = tag[t]
    BY <1>1 DEF Request
  <2>2. HasTag(t)'
    BY <1>1, <1>4 DEF HasTag
  <2> QED BY <1>1, <2>1, <2>2 DEF Awaited, Answers
<1>11. ReplyAwaited'
  <2>1. ASSUME NEW m \in pending' PROVE Awaited(m)'
    <3>1. CASE m \in pending
      BY <1>9, <3>1 DEF IInv, TypeOK, ReplyAwaited
    <3>2. CASE m = Request(t)
      <4>1. m = Request(t)'
        BY <1>1, <3>2 DEF Request
      <4> QED BY <1>10, <4>1
    <3> QED BY <1>2, <2>1, <3>1, <3>2
  <2>2. ASSUME NEW u \in Threads, pc'[u] = "dispatch"
        PROVE  got'[u] # Nil /\ Awaited(got[u])' /\ got'[u] \notin pending'
    <3>1. pc[u] = "dispatch" /\ got'[u] = got[u]
      BY <1>1, <2>2
    <3>2. PICK m \in Messages : m = got[u] /\ Awaited(m) /\ m \notin pending /\ m # Nil
      BY <3>1 DEF IInv, TypeOK, ReplyAwaited
    <3>3. Awaited(m)' /\ m # Request(t)
      BY <1>9, <3>2
    <3>4. m = got'[u] /\ m \notin pending'
      BY <1>2, <3>1, <3>2, <3>3
    <3> QED BY <3>2, <3>3, <3>4
  <2> QED BY <2>1, <2>2 DEF ReplyAwaited
<1> QED BY <1>3, <1>5, <1>6, <1>7, <1>8, <1>11 DEF IInv

\* What every way of returning from muxrpc has in common.
LEMMA ReturnInv ==
    ASSUME IInv, NEW t \in Threads, HasTag(t), PutTag(t),
           UNCHANGED <<calls, tag, async, pending, eof, garbled>>,
           \E at \in [Threads -> Locations] :
                /\ at[t] = "idle" /\ pc' \in TagWoken(at)
                /\ \A u \in Threads \ {t} : at[u] = pc[u] \/ (pc[u] = "asleep" /\ at[u] = "check"),
           sleepq' \in Seq(Threads), Distinct(sleepq'),
           Members(sleepq') = Members(sleepq) \ {t},
           p' \in [Threads -> Messages \cup {Nil}],
           \A u \in Threads \ {t} : p'[u] = p[u],
           p'[t] # Nil => Answers(p'[t], t),
           got' \in [Threads -> Messages \cup {Nil}],
           \A u \in Threads \ {t} : got'[u] = got[u],
           muxer' \in Threads \cup {Nil, Dangling},
           \A u \in Threads \ {t} : Receiving(u) => muxer' = u,
           \A m \in pending : m.thr # t,
           \A u \in Threads \ {t} : pc[u] = "dispatch" => got[u].thr # t
    PROVE  IInv'
<1>1. /\ pc' \in [Threads -> Locations] /\ pc'[t] = "idle"
      /\ \A u \in Threads \ {t} : Nudged(u)
  <2>1. PICK at \in [Threads -> Locations] :
            /\ at[t] = "idle" /\ pc' \in TagWoken(at)
            /\ \A u \in Threads \ {t} : at[u] = pc[u] \/ (pc[u] = "asleep" /\ at[u] = "check")
    OBVIOUS
  <2>2. /\ pc' \in [Threads -> Locations]
        /\ \A u \in Threads : pc'[u] = at[u] \/ (at[u] = "tagsleep" /\ pc'[u] = "gettag")
    BY <2>1, TagWokenFact
  <2> QED BY <2>1, <2>2 DEF Nudged
<1>2. TagTable'
  BY <1>1, FreedSlots DEF IInv
<1>3. TypeOK'
  <2>1. /\ mwait' \in Nat /\ nwait' \in Nat /\ freetag' \in Nat
        /\ wait' \in [0 .. mwait' - 1 -> Threads \cup {Nil}]
    BY PutTagFact DEF IInv, TypeOK
  <2> QED BY <1>1, <2>1 DEF IInv, TypeOK
<1>4. \A u \in Threads \ {t} : /\ HasTag(u)' <=> HasTag(u)
                               /\ Receiving(u)' <=> Receiving(u)
                               /\ pc'[u] = "send" <=> pc[u] = "send"
                               /\ pc'[u] = "dispatch" <=> pc[u] = "dispatch"
                               /\ pc'[u] = "giveup" <=> pc[u] = "giveup"
                               /\ pc'[u] \in {"gettag", "tagsleep"} <=>
                                        pc[u] \in {"gettag", "tagsleep"}
                               /\ pc'[u] = "asleep" => pc[u] = "asleep"
  BY <1>1 DEF Nudged, HasTag, Receiving
<1>5. ~HasTag(t)' /\ ~Receiving(t)'
  BY <1>1 DEF HasTag, Receiving
<1>6. SleepList'
  <2>0. Sleepers = Members(sleepq) /\ Sleepers' = Members(sleepq')
    BY DEF Sleepers, Members
  <2>1. Sleepers' = Sleepers \ {t}
    BY <2>0
  <2>2. Sleepers = {u \in Threads : HasTag(u) /\ p[u] = Nil}
    BY DEF IInv, SleepList
  <2>3. Sleepers' = {u \in Threads : HasTag(u)' /\ p'[u] = Nil}
    BY <1>4, <1>5, <2>1, <2>2
  <2> QED BY <2>3 DEF SleepList, Distinct
<1>7. OneMuxer'
  BY <1>4, <1>5 DEF OneMuxer
<1>8. ReplyAwake'
  BY <1>1, <1>4 DEF IInv, ReplyAwake
<1>9. ReplyToCaller'
  BY DEF IInv, ReplyToCaller, Answers
<1>10. Phases'
  BY <1>1, <1>4, <1>5 DEF IInv, Phases
<1>11. \A m \in Messages : Awaited(m) /\ m.thr # t => Awaited(m)'
  BY <1>4 DEF Messages, Awaited, Answers
<1>12. ReplyAwaited'
  <2>1. \A m \in pending' : Awaited(m)'
    BY <1>11 DEF IInv, TypeOK, ReplyAwaited
  <2>2. ASSUME NEW u \in Threads, pc'[u] = "dispatch"
        PROVE  got'[u] # Nil /\ Awaited(got[u])' /\ got'[u] \notin pending'
    <3>1. u # t /\ pc[u] = "dispatch" /\ got'[u] = got[u] /\ got[u].thr # t
      BY <1>1, <1>4, <2>2
    <3>2. PICK m \in Messages : m = got[u] /\ Awaited(m) /\ m \notin pending /\ m # Nil
      BY <3>1 DEF IInv, TypeOK, ReplyAwaited
    <3>3. Awaited(m)' /\ m = got'[u]
      BY <1>11, <3>1, <3>2
    <3> QED BY <3>2, <3>3
  <2> QED BY <2>1, <2>2 DEF ReplyAwaited
<1> QED BY <1>2, <1>3, <1>6, <1>7, <1>8, <1>9, <1>10, <1>12 DEF IInv

\* A call whose reply is not outstanding has no message under its name.
LEMMA NoMessage ==
    ASSUME IInv, NEW t \in Threads, p[t] # Nil \/ pc[t] = "send"
    PROVE  /\ \A m \in pending : m.thr # t
           /\ \A u \in Threads : pc[u] = "dispatch" => got[u].thr # t
BY DEF IInv, ReplyAwaited, Awaited

\* Sending failed.
LEMMA SendFailInv ==
    ASSUME IInv, NEW t \in Threads, SendFail(t)
    PROVE  IInv'
<1>1. /\ pc[t] = "send" /\ sleepq' = Dequeue(sleepq, t) /\ PutTag(t)
      /\ pc' \in TagWoken([pc EXCEPT ![t] = "idle"])
      /\ muxer' = IF muxer = t THEN Dangling ELSE muxer
      /\ UNCHANGED <<calls, tag, async, p, got, pending, eof, garbled>>
  BY DEF SendFail, callVars, netVars
<1>2. HasTag(t) /\ p[t] = Nil
  BY <1>1 DEF HasTag, IInv, Phases
<1>3. /\ sleepq' \in Seq(Threads) /\ Distinct(sleepq')
      /\ Members(sleepq') = Members(sleepq) \ {t}
  <2>1. t \in Members(sleepq) /\ Distinct(sleepq) /\ sleepq \in Seq(Threads)
    BY <1>2 DEF IInv, TypeOK, SleepList, Sleepers, Members, Distinct
  <2> QED BY <1>1, <2>1, DequeueFact
<1>4. \E at \in [Threads -> Locations] :
        /\ at[t] = "idle" /\ pc' \in TagWoken(at)
        /\ \A u \in Threads \ {t} : at[u] = pc[u] \/ (pc[u] = "asleep" /\ at[u] = "check")
  <2> DEFINE at == [pc EXCEPT ![t] = "idle"]
  <2>1. at \in [Threads -> Locations] /\ at[t] = "idle"
    BY DEF IInv, TypeOK, Locations
  <2>2. \A u \in Threads \ {t} : at[u] = pc[u]
    BY DEF IInv, TypeOK
  <2>3. pc' \in TagWoken(at)
    BY <1>1
  <2> HIDE DEF at
  <2> QED BY <2>1, <2>2, <2>3
<1>5. \A u \in Threads \ {t} : Receiving(u) => muxer' = u
  BY <1>1 DEF IInv, OneMuxer
<1>6. muxer' \in Threads \cup {Nil, Dangling}
  BY <1>1 DEF IInv, TypeOK
<1> QED
  BY <1>1, <1>2, <1>3, <1>4, <1>5, <1>6, NoMessage, ReturnInv DEF IInv, TypeOK

\* The reply was there.
LEMMA TakeReplyInv ==
    ASSUME IInv, NEW t \in Threads, TakeReply(t)
    PROVE  IInv'
<1>1. /\ pc[t] = "check" /\ p[t] # Nil /\ PutTag(t)
      /\ pc' \in TagWoken([pc EXCEPT ![t] = "idle"])
      /\ UNCHANGED <<calls, tag, async, p, got, sleepq, muxer, pending, eof, garbled>>
  BY DEF TakeReply, callVars, netVars
<1>2. HasTag(t)
  BY <1>1 DEF HasTag
<1>3. /\ sleepq' \in Seq(Threads) /\ Distinct(sleepq')
      /\ Members(sleepq') = Members(sleepq) \ {t}
  BY <1>1 DEF IInv, TypeOK, SleepList, Sleepers, Members, Distinct
<1>4. \E at \in [Threads -> Locations] :
        /\ at[t] = "idle" /\ pc' \in TagWoken(at)
        /\ \A u \in Threads \ {t} : at[u] = pc[u] \/ (pc[u] = "asleep" /\ at[u] = "check")
  <2> DEFINE at == [pc EXCEPT ![t] = "idle"]
  <2>1. at \in [Threads -> Locations] /\ at[t] = "idle"
    BY DEF IInv, TypeOK, Locations
  <2>2. \A u \in Threads \ {t} : at[u] = pc[u]
    BY DEF IInv, TypeOK
  <2>3. pc' \in TagWoken(at)
    BY <1>1
  <2> HIDE DEF at
  <2> QED BY <2>1, <2>2, <2>3
<1>5. /\ \A u \in Threads \ {t} : Receiving(u) => muxer' = u
      /\ muxer' \in Threads \cup {Nil, Dangling}
  BY <1>1 DEF IInv, OneMuxer, TypeOK
<1>6. Answers(p[t], t)
  BY <1>1 DEF IInv, ReplyToCaller
<1> QED
  BY <1>1, <1>2, <1>3, <1>4, <1>5, <1>6, NoMessage, ReturnInv DEF IInv, TypeOK

\* Leaving the receive loop: what the elected successor and the list are.
LEMMA LeaveFact ==
    ASSUME IInv, NEW t \in Threads, Receiving(t), sleepq' = Dequeue(sleepq, t),
           Leave(t, Dequeue(sleepq, t), pc)
    PROVE  /\ HasTag(t) /\ PutTag(t)
           /\ sleepq' \in Seq(Threads) /\ Distinct(sleepq')
           /\ Members(sleepq') = Members(sleepq) \ {t}
           /\ muxer' \in Threads \cup {Nil, Dangling}
           /\ \A u \in Threads \ {t} : ~Receiving(u)
           /\ \E at \in [Threads -> Locations] :
                /\ at[t] = "idle" /\ pc' \in TagWoken(at)
                /\ \A u \in Threads \ {t} : at[u] = pc[u] \/ (pc[u] = "asleep" /\ at[u] = "check")
<1> DEFINE q == Dequeue(sleepq, t)
<1>1. HasTag(t) /\ p[t] = Nil /\ muxer = t
  BY DEF IInv, Phases, OneMuxer, HasTag, Receiving
<1>2. q \in Seq(Threads) /\ Distinct(q) /\ Members(q) = Members(sleepq) \ {t}
  <2>1. t \in Members(sleepq) /\ Distinct(sleepq) /\ sleepq \in Seq(Threads)
    BY <1>1 DEF IInv, TypeOK, SleepList, Sleepers, Members, Distinct
  <2> QED BY <2>1, DequeueFact
<1>3. /\ muxer' = Elected(q) /\ PutTag(t)
      /\ pc' \in TagWoken(Wake([pc EXCEPT ![t] = "idle"], Elected(q)))
  BY DEF Leave
<1>4. \A u \in Threads \ {t} : ~Receiving(u)
  BY <1>1 DEF IInv, OneMuxer
<1> HIDE DEF q
<1>5. Elected(q) \in Threads \cup {Nil}
  BY <1>2, ElectedFact
<1>6. \E at \in [Threads -> Locations] :
        /\ at[t] = "idle" /\ pc' \in TagWoken(at)
        /\ \A u \in Threads \ {t} : at[u] = pc[u] \/ (pc[u] = "asleep" /\ at[u] = "check")
  <2> DEFINE pt == [pc EXCEPT ![t] = "idle"]
             at == Wake(pt, Elected(q))
  <2>1. pt \in [Threads -> Locations] /\ pt[t] = "idle"
    BY DEF IInv, TypeOK, Locations
  <2>2. \A u \in Threads \ {t} : pt[u] = pc[u]
    BY DEF IInv, TypeOK
  <2>3. pc' \in TagWoken(at)
    BY <1>3
  <2> HIDE DEF pt
  <2>4. /\ at \in [Threads -> Locations]
        /\ \A u \in Threads : at[u] = pt[u] \/ (pt[u] = "asleep" /\ at[u] = "check")
    BY <1>5, <2>1, WakeFact
  <2> HIDE DEF at
  <2>5. at[t] = "idle"
    BY <2>1, <2>4
  <2> QED BY <2>2, <2>3, <2>4, <2>5
<1> QED BY <1>1, <1>2, <1>3, <1>4, <1>5, <1>6 DEF q

\* The muxer hands itself its reply and passes the role on.
LEMMA DispatchSelfInv ==
    ASSUME IInv, NEW t \in Threads, DispatchSelf(t)
    PROVE  IInv'
<1>1. /\ pc[t] = "dispatch" /\ Target(got[t]) = t
      /\ p' = [p EXCEPT ![t] = got[t]] /\ sleepq' = Dequeue(sleepq, t)
      /\ Leave(t, Dequeue(sleepq, t), pc) /\ got' = [got EXCEPT ![t] = Nil]
      /\ UNCHANGED <<calls, tag, async, pending, eof, garbled>>
  BY DEF DispatchSelf, netVars
<1>2. Receiving(t)
  BY <1>1 DEF Receiving
<1>3. /\ got[t] \in Messages /\ Awaited(got[t]) /\ got[t] \notin pending
      /\ got[t].thr = t
  BY <1>1, TargetFact
<1>4. \A m \in pending : m.thr # t
  BY <1>3, OneMessagePerCall DEF IInv, TypeOK, ReplyAwaited
<1>5. /\ p' \in [Threads -> Messages \cup {Nil}] /\ p'[t] = got[t]
      /\ got' \in [Threads -> Messages \cup {Nil}]
      /\ \A u \in Threads \ {t} : p'[u] = p[u] /\ got'[u] = got[u]
  BY <1>1, <1>3 DEF IInv, TypeOK
<1>6. Answers(p'[t], t)
  BY <1>3, <1>5 DEF Awaited, Answers
<1>7. \A u \in Threads \ {t} : ~Receiving(u) /\ pc[u] # "dispatch"
  BY <1>1, <1>2, LeaveFact DEF Receiving
<1> QED BY <1>1, <1>2, <1>4, <1>5, <1>6, <1>7, LeaveFact, ReturnInv

\* End of file: the muxer returns nothing and passes the role on.
LEMMA GiveUpInv ==
    ASSUME IInv, NEW t \in Threads, GiveUp(t)
    PROVE  IInv'
<1>1. /\ pc[t] = "giveup" /\ sleepq' = Dequeue(sleepq, t)
      /\ Leave(t, Dequeue(sleepq, t), pc)
      /\ UNCHANGED <<calls, tag, async, p, got, pending, eof, garbled>>
  BY DEF GiveUp, callVars, netVars
<1>2. Receiving(t) /\ pending = {} /\ p[t] = Nil
  BY <1>1 DEF Receiving, IInv, Phases
<1>3. \A u \in Threads \ {t} : ~Receiving(u) /\ pc[u] # "dispatch"
  BY <1>1, <1>2, LeaveFact DEF Receiving
<1>4. p \in [Threads -> Messages \cup {Nil}] /\ got \in [Threads -> Messages \cup {Nil}]
  BY DEF IInv, TypeOK
<1> QED BY <1>1, <1>2, <1>3, <1>4, LeaveFact, ReturnInv

\* A thread takes the role of muxer, which nobody plays.
LEMMA BecomeMuxerInv ==
    ASSUME IInv, NEW t \in Threads, BecomeMuxer(t)
    PROVE  IInv'
<1>1. /\ UNCHANGED <<calls, tag, async, p, got, wait, nwait, mwait, freetag, sleepq,
                     pending, eof, garbled>>
      /\ pc[t] = "check" /\ pc' = [pc EXCEPT ![t] = "recv"] /\ muxer' = t
      /\ p[t] = Nil /\ (muxer = Nil \/ muxer = t)
  BY DEF BecomeMuxer, MustSleep, callVars, tagVars, netVars
<1>2. /\ pc' \in [Threads -> Locations] /\ pc'[t] = "recv"
      /\ \A u \in Threads : u # t => pc'[u] = pc[u] /\ ~Receiving(u)
  BY <1>1, MuxAssumption DEF IInv, TypeOK, Locations, OneMuxer
<1>3. TypeOK'
  BY <1>1, <1>2 DEF IInv, TypeOK
<1>4. \A u \in Threads : HasTag(u)' <=> HasTag(u)
  BY <1>1, <1>2 DEF HasTag
<1>5. TagTable'
  BY <1>1, <1>4, SameTable DEF tagVars
<1>6. SleepList'
  BY <1>1, <1>4 DEF IInv, SleepList, Sleepers
<1>7. OneMuxer'
  BY <1>1, <1>2 DEF OneMuxer, Receiving
<1>8. ReplyAwake' /\ ReplyToCaller' /\ Phases'
  BY <1>1, <1>2 DEF IInv, ReplyAwake, ReplyToCaller, Answers, Phases, Receiving
<1>9. \A m \in Messages : Awaited(m) => Awaited(m)'
  BY <1>1, <1>2, <1>4 DEF Messages, Awaited, Answers
<1>10. ReplyAwaited'
  BY <1>1, <1>2, <1>9 DEF IInv, TypeOK, ReplyAwaited
<1> QED BY <1>3, <1>5, <1>6, <1>7, <1>8, <1>10 DEF IInv

\* The muxer reads a message.
LEMMA RecvInv ==
    ASSUME IInv, NEW t \in Threads, Recv(t)
    PROVE  IInv'
<1>1. PICK m \in pending : got' = [got EXCEPT ![t] = m] /\ pending' = pending \ {m}
  BY DEF Recv
<1>2. /\ UNCHANGED <<calls, tag, async, p, wait, nwait, mwait, freetag, sleepq,
                     muxer, eof, garbled>>
      /\ pc[t] = "recv" /\ pc' = [pc EXCEPT ![t] = "dispatch"]
  BY DEF Recv, tagVars
<1>3. /\ pc' \in [Threads -> Locations] /\ pc'[t] = "dispatch"
      /\ \A u \in Threads : u # t => pc'[u] = pc[u] /\ ~Receiving(u)
  <2>1. muxer = t
    BY <1>2 DEF IInv, OneMuxer, Receiving
  <2> QED BY <1>2, <2>1 DEF IInv, TypeOK, Locations, OneMuxer
<1>4. m \in Messages /\ m # Nil /\ Awaited(m)
  <2>1. m \in Messages /\ Awaited(m)
    BY DEF IInv, TypeOK, ReplyAwaited
  <2> QED BY <2>1, MuxAssumption
<1>5. TypeOK'
  BY <1>1, <1>2, <1>3, <1>4 DEF IInv, TypeOK
<1>6. \A u \in Threads : HasTag(u)' <=> HasTag(u)
  BY <1>2, <1>3 DEF HasTag
<1>7. TagTable'
  BY <1>2, <1>6, SameTable DEF tagVars
<1>8. SleepList'
  BY <1>2, <1>6 DEF IInv, SleepList, Sleepers
<1>9. OneMuxer' /\ ReplyAwake' /\ ReplyToCaller' /\ Phases'
  BY <1>1, <1>2, <1>3
     DEF IInv, OneMuxer, ReplyAwake, ReplyToCaller, Answers, Phases, Receiving
<1>10. \A k \in Messages : Awaited(k) => Awaited(k)'
  BY <1>2, <1>3, <1>6 DEF Messages, Awaited, Answers
<1>11. ReplyAwaited'
  <2>1. \A k \in pending' : Awaited(k)'
    BY <1>1, <1>10 DEF IInv, TypeOK, ReplyAwaited
  <2>2. ASSUME NEW u \in Threads, pc'[u] = "dispatch"
        PROVE  got'[u] # Nil /\ Awaited(got[u])' /\ got'[u] \notin pending'
    <3>1. u = t
      BY <1>3, <2>2 DEF Receiving
    <3>2. got'[u] = m
      BY <1>1, <3>1 DEF IInv, TypeOK
    <3>3. Awaited(m)'
      BY <1>4, <1>10
    <3> QED BY <1>1, <1>4, <3>2, <3>3
  <2> QED BY <2>1, <2>2 DEF ReplyAwaited
<1> QED BY <1>5, <1>7, <1>8, <1>9, <1>11 DEF IInv

\* The muxer hands another rpc its reply.
LEMMA DispatchOtherInv ==
    ASSUME IInv, NEW t \in Threads, DispatchOther(t)
    PROVE  IInv'
<1>1. pc[t] = "dispatch"
  BY DEF DispatchOther
<1>2. PICK m \in Messages : m = got[t] /\ Awaited(m) /\ m \notin pending
  BY <1>1, TargetFact
<1>3. PICK r \in Threads : r = m.thr
  BY DEF Messages
<1>4. Target(got[t]) = r /\ r \in Members(sleepq) /\ r # Nil
  BY <1>1, <1>2, <1>3, TargetFact, MuxAssumption
<1>5. /\ r # t /\ p' = [p EXCEPT ![r] = m] /\ sleepq' = Dequeue(sleepq, r)
      /\ pc' = Wake([pc EXCEPT ![t] = "recv"], r)
      /\ got' = [got EXCEPT ![t] = Nil]
      /\ UNCHANGED <<calls, tag, async, wait, nwait, mwait, freetag, muxer, pending, eof, garbled>>
  BY <1>2, <1>4 DEF DispatchOther, tagVars, netVars
<1>6. muxer = t /\ \A u \in Threads : u # t => ~Receiving(u)
  BY <1>1 DEF IInv, OneMuxer, Receiving
<1>7. /\ pc' \in [Threads -> Locations] /\ pc'[t] = "recv"
      /\ pc'[r] # "asleep"
      /\ \A u \in Threads : u # t => Nudged(u)
      /\ \A u \in Threads : pc'[u] = "asleep" => pc[u] = "asleep"
  BY <1>1, <1>4, <1>5 DEF IInv, TypeOK, Locations, Wake, Nudged
<1>8. /\ sleepq' \in Seq(Threads) /\ Distinct(sleepq')
      /\ Members(sleepq') = Members(sleepq) \ {r}
  <2>1. Distinct(sleepq) /\ sleepq \in Seq(Threads)
    BY DEF IInv, TypeOK, SleepList, Distinct
  <2> QED BY <1>4, <1>5, <2>1, DequeueFact
<1>9. /\ p' \in [Threads -> Messages \cup {Nil}] /\ p'[r] = m
      /\ \A u \in Threads : u # r => p'[u] = p[u]
      /\ got' \in [Threads -> Messages \cup {Nil}]
  BY <1>5 DEF IInv, TypeOK
<1>10. TypeOK'
  BY <1>5, <1>7, <1>8, <1>9 DEF IInv, TypeOK
<1>11. \A u \in Threads : /\ HasTag(u)' <=> HasTag(u)
                          /\ pc'[u] = "send" <=> pc[u] = "send"
                          /\ u # t => (Receiving(u)' <=> Receiving(u))
                          /\ pc'[u] # "dispatch" /\ pc'[u] # "giveup"
                          /\ pc'[u] \in {"gettag", "tagsleep"} =>
                                  pc[u] \in {"gettag", "tagsleep"}
  <2>1. ASSUME NEW u \in Threads, u # t
        PROVE  /\ HasTag(u)' <=> HasTag(u)
               /\ pc'[u] = "send" <=> pc[u] = "send"
               /\ Receiving(u)' <=> Receiving(u)
               /\ pc'[u] # "dispatch" /\ pc'[u] # "giveup"
               /\ pc'[u] \in {"gettag", "tagsleep"} => pc[u] \in {"gettag", "tagsleep"}
    BY <1>6, <1>7, <2>1 DEF Nudged, HasTag, Receiving
  <2>2. /\ HasTag(t)' <=> HasTag(t)
        /\ pc'[t] = "send" <=> pc[t] = "send"
        /\ pc'[t] # "dispatch" /\ pc'[t] # "giveup"
        /\ pc'[t] \notin {"gettag", "tagsleep"}
    BY <1>1, <1>7 DEF HasTag
  <2> QED BY <2>1, <2>2
<1>12. TagTable'
  BY <1>5, <1>11, SameTable DEF tagVars
<1>13. SleepList'
  <2>1. Sleepers = Members(sleepq) /\ Sleepers' = Members(sleepq')
    BY DEF Sleepers, Members
  <2>2. Sleepers = {u \in Threads : HasTag(u) /\ p[u] = Nil}
    BY DEF IInv, SleepList
  <2>3. m # Nil
    BY <1>1, <1>2 DEF IInv, ReplyAwaited
  <2>4. Sleepers' = {u \in Threads : HasTag(u)' /\ p'[u] = Nil}
    BY <1>8, <1>9, <1>11, <2>1, <2>2, <2>3
  <2> QED BY <1>8, <2>4 DEF SleepList, Distinct
<1>14. OneMuxer'
  BY <1>5, <1>6, <1>11 DEF OneMuxer
<1>15. ReplyAwake'
  BY <1>7, <1>9 DEF IInv, ReplyAwake
<1>16. ReplyToCaller'
  <2>1. Answers(m, r)'
    BY <1>2, <1>3, <1>5 DEF Awaited, Answers
  <2> QED BY <1>5, <1>9, <2>1 DEF IInv, ReplyToCaller, Answers
<1>17. Phases'
  <2>1. HasTag(r) /\ pc[r] # "send" /\ ~Receiving(r)
    BY <1>2, <1>3, <1>5, <1>6 DEF Awaited
  <2>2. p[t] = Nil
    BY <1>1 DEF IInv, Phases, Receiving
  <2>3. ASSUME NEW u \in Threads,
               pc'[u] \in {"gettag", "tagsleep", "send"} \/ Receiving(u)'
        PROVE  p'[u] = Nil
    <3>1. CASE u = t
      BY <1>5, <1>9, <2>2, <3>1
    <3>2. CASE u # t
      <4>1. u # r
        BY <1>11, <2>1, <2>3, <3>2 DEF HasTag
      <4>2. p[u] = Nil
        BY <1>11, <2>3, <3>2 DEF IInv, Phases
      <4> QED BY <1>9, <4>1, <4>2
    <3> QED BY <3>1, <3>2
  <2> QED BY <1>11, <2>3 DEF Phases
<1>18. ReplyAwaited'
  <2>1. ASSUME NEW k \in pending' PROVE Awaited(k)'
    <3>1. k \in pending /\ k \in Messages /\ Awaited(k) /\ k # m
      BY <1>2, <1>5, <2>1 DEF IInv, TypeOK, ReplyAwaited
    <3>2. k.thr # r /\ k.thr \in Threads
      BY <1>2, <1>3, <3>1, OneMessagePerCall DEF Messages
    <3> QED BY <1>5, <1>9, <1>11, <3>1, <3>2 DEF Awaited, Answers
  <2> QED BY <1>11, <2>1 DEF ReplyAwaited
<1> QED BY <1>10, <1>12, <1>13, <1>14, <1>15, <1>16, <1>17, <1>18 DEF IInv

\* The server hangs up.
LEMMA HangupInv ==
    ASSUME IInv, Hangup
    PROVE  IInv'
<1>1. /\ UNCHANGED <<pc, calls, tag, async, p, got, wait, nwait, mwait, freetag, sleepq,
                     muxer, garbled>>
      /\ eof' = TRUE /\ pending' \subseteq pending /\ ~eof
  BY DEF Hangup, callVars, tagVars
<1>2. TypeOK'
  BY <1>1 DEF IInv, TypeOK
<1>3. TagTable'
  BY <1>1, SameTable DEF tagVars, HasTag
<1>4. SleepList' /\ OneMuxer' /\ ReplyAwake' /\ ReplyToCaller'
  BY <1>1 DEF IInv, SleepList, Sleepers, HasTag, OneMuxer, Receiving, ReplyAwake,
              ReplyToCaller, Answers
<1>5. Phases' /\ ReplyAwaited'
  BY <1>1 DEF IInv, Phases, Receiving, ReplyAwaited, Awaited, Answers, HasTag
<1> QED BY <1>2, <1>3, <1>4, <1>5 DEF IInv

\* A call that has not sent its request is linked: dequeue finds it.
LEMMA NoCrash ==
    ASSUME IInv, NEW t \in Threads
    PROVE  ~SendCrash(t)
BY DEF SendCrash, IInv, Phases, SleepList, HasTag

\* Every step keeps the invariant when no reply is malformed.
LEMMA NextInv ==
    ASSUME IInv, [Next]_vars, MaxGarbled = 0
    PROVE  IInv'
<1>1. ASSUME NEW t \in Threads, Step(t) PROVE IInv'
  <2>1. ~RecvGarbled(t)
    BY DEF RecvGarbled, IInv, TypeOK
  <2> QED
    BY <1>1, <2>1, NoCrash, TakeTagInv, MoveInv, SendOkInv, SendFailInv, TakeReplyInv,
       BecomeMuxerInv, RecvInv, DispatchOtherInv, DispatchSelfInv, GiveUpInv
       DEF Step
<1>2. CASE UNCHANGED vars
  <2>1. UNCHANGED <<pc, calls, tag, async, p, got, wait, nwait, mwait, freetag, sleepq,
                    muxer, pending, eof, garbled>>
    BY <1>2 DEF vars, callVars, tagVars, netVars
  <2>2. TypeOK' /\ SleepList' /\ OneMuxer' /\ ReplyAwake' /\ ReplyToCaller'
    BY <2>1 DEF IInv, TypeOK, SleepList, Sleepers, HasTag, OneMuxer, Receiving,
                ReplyAwake, ReplyToCaller, Answers
  <2>3. TagTable'
    BY <2>1, SameTable DEF tagVars, HasTag
  <2>4. Phases' /\ ReplyAwaited'
    BY <2>1 DEF IInv, Phases, Receiving, ReplyAwaited, Awaited, Answers, HasTag
  <2> QED BY <2>2, <2>3, <2>4 DEF IInv
<1> QED BY <1>1, <1>2, CallInv, MoveInv, HangupInv DEF Next

-----------------------------------------------------------------------------
(* The theorems.                                                           *)

\* The invariant holds for every number of threads, tags and calls, whatever
\* the uninitialised async flags contain and whichever sends fail.
THEOREM Invariance == MaxGarbled = 0 => (Spec => []IInv)
<1> SUFFICES ASSUME MaxGarbled = 0 PROVE Spec => []IInv
  OBVIOUS
<1>1. IInv /\ [Next]_vars => IInv'
  BY NextInv
<1> QED BY <1>1, InitInv, PTL DEF Spec

\* muxrpc never returns a reply to another call, although tags are reused and
\* replies are read and handed over by whichever thread is the muxer.
THEOREM ReplyToCallerCorrect == MaxGarbled = 0 => (Spec => []ReplyToCaller)
<1>1. IInv => ReplyToCaller
  BY DEF IInv
<1> QED BY <1>1, Invariance, PTL

\* The type invariant and the consistency of the tag table: gettag does not
\* abort and the assertion of puttag holds.
THEOREM TablesCorrect == MaxGarbled = 0 => (Spec => [](TypeOK /\ TagTable))
<1>1. IInv => TypeOK /\ TagTable
  BY DEF IInv
<1> QED BY <1>1, Invariance, PTL

\* mux->sleep links exactly the rpcs that wait for a reply, each once, so
\* dequeue takes out what enqueue put in and dereferences no null pointer.
THEOREM SleepListCorrect == MaxGarbled = 0 => (Spec => []SleepList)
<1>1. IInv => SleepList
  BY DEF IInv
<1> QED BY <1>1, Invariance, PTL

\* At most one thread reads the connection, and it is mux->muxer: the assertion
\* of muxrpc holds.
THEOREM OneMuxerCorrect == MaxGarbled = 0 => (Spec => []OneMuxer)
<1>1. IInv => OneMuxer
  BY DEF IInv
<1> QED BY <1>1, Invariance, PTL

\* No request is outstanding under a tag that now belongs to another call.
THEOREM ReplyAwaitedCorrect == MaxGarbled = 0 => (Spec => []ReplyAwaited)
<1>1. IInv => ReplyAwaited
  BY DEF IInv
<1> QED BY <1>1, Invariance, PTL

\* dispatchandqlock wakes the thread it hands a reply to: nobody sleeps on a
\* reply it already has.
THEOREM ReplyAwakeCorrect == MaxGarbled = 0 => (Spec => []ReplyAwake)
<1>1. IInv => ReplyAwake
  BY DEF IInv
<1> QED BY <1>1, Invariance, PTL

-----------------------------------------------------------------------------
(* The refinement of Rpc.                                                  *)

\* A wakeup does not show to the caller, nor does a call of another thread.
LEMMA SameView ==
    ASSUME TypeOK, NEW u \in Threads
    PROVE  /\ Nudged(u) => CallState'[u] = CallState[u]
           /\ UNCHANGED <<p[u], calls[u]>> => CallAnswer'[u] = CallAnswer[u]
BY DEF Nudged, CallState, CallAnswer, Answers, TypeOK, Locations

\* The steps a caller does not see.
LEMMA InternalStutters ==
    ASSUME IInv, NEW t \in Threads,
           \/ TakeTag(t) \/ SleepForTag(t) \/ Sleep(t) \/ BecomeMuxer(t)
           \/ Recv(t) \/ RecvEof(t) \/ SpuriousWakeup(t)
    PROVE  UNCHANGED Abstract!vars
<1>1. UNCHANGED <<calls, p, eof>>
  BY DEF TakeTag, SleepForTag, Sleep, BecomeMuxer, Recv, RecvEof, SpuriousWakeup, callVars,
         netVars
<1>2. /\ \A u \in Threads \ {t} : pc'[u] = pc[u]
      /\ CallState'[t] = CallState[t]
  BY DEF TakeTag, SleepForTag, Sleep, BecomeMuxer, Recv, RecvEof, SpuriousWakeup, CallState,
         IInv, TypeOK, Locations
<1>3. \A u \in Threads : CallState'[u] = CallState[u] /\ CallAnswer'[u] = CallAnswer[u]
  BY <1>1, <1>2, SameView DEF IInv, Nudged
<1>4. CallState' = CallState /\ CallAnswer' = CallAnswer
  BY <1>3 DEF CallState, CallAnswer
<1> QED BY <1>1, <1>4 DEF Abstract!vars

\* muxrpc begins.
LEMMA CallBegins ==
    ASSUME IInv, NEW t \in Threads, Call(t)
    PROVE  Abstract!Begin(t)
<1>1. /\ pc[t] = "idle" /\ calls[t] < MaxCalls /\ pc' = [pc EXCEPT ![t] = "gettag"]
      /\ calls' = [calls EXCEPT ![t] = @ + 1] /\ p' = [p EXCEPT ![t] = Nil] /\ UNCHANGED eof
  BY DEF Call, netVars
<1>2. \A u \in Threads \ {t} : CallState'[u] = CallState[u] /\ CallAnswer'[u] = CallAnswer[u]
  BY <1>1, SameView DEF IInv, TypeOK, Nudged
<1>3. CallState[t] = "idle" /\ CallState'[t] = "begun" /\ CallAnswer'[t] = "none"
  BY <1>1 DEF CallState, CallAnswer, IInv, TypeOK
<1>4. CallState' = [CallState EXCEPT ![t] = "begun"]
  BY <1>2, <1>3 DEF CallState
<1>5. CallAnswer' = [CallAnswer EXCEPT ![t] = "none"]
  BY <1>2, <1>3 DEF CallAnswer
<1> QED BY <1>1, <1>3, <1>4, <1>5 DEF Abstract!Begin

\* sendrpc succeeds or fails.
LEMMA SendSends ==
    ASSUME IInv, NEW t \in Threads, SendOk(t) \/ SendFail(t)
    PROVE  Abstract!Send(t)
<1>1. pc[t] = "send" /\ UNCHANGED <<calls, p, eof>>
  BY DEF SendOk, SendFail, callVars, netVars
<1>2. CallState[t] = "begun"
  BY <1>1 DEF CallState
<1>3. CallAnswer' = CallAnswer
  BY <1>1 DEF CallAnswer, Answers
<1>4. CASE SendOk(t)
  <2>1. pc' = [pc EXCEPT ![t] = "check"]
    BY <1>4 DEF SendOk
  <2>2. CallState' = [CallState EXCEPT ![t] = "sent"]
    BY <2>1 DEF CallState, IInv, TypeOK
  <2> QED BY <1>1, <1>2, <1>3, <2>2 DEF Abstract!Send
<1>5. CASE SendFail(t)
  <2> DEFINE at == [pc EXCEPT ![t] = "idle"]
  <2>1. pc' \in TagWoken(at) /\ at \in [Threads -> Locations]
    BY <1>5 DEF SendFail, IInv, TypeOK, Locations
  <2>2. /\ pc' \in [Threads -> Locations]
        /\ \A u \in Threads : pc'[u] = at[u] \/ (at[u] = "tagsleep" /\ pc'[u] = "gettag")
    <3> HIDE DEF at
    <3> QED BY <2>1, TagWokenFact
  <2>3. CallState' = [CallState EXCEPT ![t] = "idle"]
    BY <2>2 DEF CallState, IInv, TypeOK
  <2> QED BY <1>1, <1>2, <1>3, <2>3 DEF Abstract!Send
<1> QED BY <1>4, <1>5

\* The muxer hands a reply to the call it answers.
LEMMA DispatchArrives ==
    ASSUME IInv, NEW t \in Threads, DispatchOther(t)
    PROVE  \E r \in Threads : Abstract!Arrive(r)
<1>1. pc[t] = "dispatch"
  BY DEF DispatchOther
<1>2. PICK m \in Messages : m = got[t] /\ Awaited(m)
  BY <1>1, TargetFact
<1>3. PICK r \in Threads : r = m.thr
  BY DEF Messages
<1>4. Target(got[t]) = r /\ r # Nil /\ m # Nil
  BY <1>1, <1>2, <1>3, TargetFact, MuxAssumption
<1>5. /\ r # t /\ p' = [p EXCEPT ![r] = m]
      /\ pc' = Wake([pc EXCEPT ![t] = "recv"], r)
      /\ UNCHANGED <<calls, eof>>
  BY <1>2, <1>4 DEF DispatchOther, netVars
<1>6. Answers(m, r) /\ p[r] = Nil /\ HasTag(r) /\ pc[r] # "send"
  BY <1>2, <1>3 DEF Awaited
<1>7. CallState' = CallState
  BY <1>1, <1>5 DEF CallState, Wake, IInv, TypeOK
<1>8. CallState[r] = "sent" /\ CallAnswer[r] = "none"
  BY <1>6 DEF CallState, CallAnswer, HasTag
<1>9. CallAnswer' = [CallAnswer EXCEPT ![r] = "own"]
  BY <1>4, <1>5, <1>6 DEF CallAnswer, Answers, IInv, TypeOK
<1> QED BY <1>5, <1>7, <1>8, <1>9 DEF Abstract!Arrive

\* muxrpc returns: with the reply another thread handed over, with the one it
\* read itself, or with nothing at the end of the connection.
LEMMA LeavingReturns ==
    ASSUME IInv, NEW t \in Threads, TakeReply(t) \/ DispatchSelf(t) \/ GiveUp(t)
    PROVE  Abstract!Return(t)
<1>1. /\ UNCHANGED <<calls, eof>> /\ pc[t] \in {"check", "dispatch", "giveup"}
  BY DEF TakeReply, DispatchSelf, GiveUp, callVars, netVars
<1>2. PICK at \in [Threads -> Locations] :
        /\ at[t] = "idle" /\ pc' \in TagWoken(at)
        /\ \A u \in Threads \ {t} : at[u] = pc[u] \/ (pc[u] = "asleep" /\ at[u] = "check")
  <2>1. CASE TakeReply(t)
    <3> DEFINE back == [pc EXCEPT ![t] = "idle"]
    <3>1. pc' \in TagWoken(back)
      BY <2>1 DEF TakeReply
    <3>2. /\ back \in [Threads -> Locations] /\ back[t] = "idle"
          /\ \A u \in Threads \ {t} : back[u] = pc[u]
      BY DEF IInv, TypeOK, Locations
    <3> HIDE DEF back
    <3> QED BY <3>1, <3>2
  <2>2. CASE DispatchSelf(t) \/ GiveUp(t)
    <3>1. /\ Receiving(t) /\ sleepq' = Dequeue(sleepq, t)
          /\ Leave(t, Dequeue(sleepq, t), pc)
      BY <2>2 DEF DispatchSelf, GiveUp, Receiving
    <3> QED BY <3>1, LeaveFact
  <2> QED BY <2>1, <2>2
<1>3. CallState[t] = "sent" /\ CallState' = [CallState EXCEPT ![t] = "idle"]
  <2>1. /\ pc' \in [Threads -> Locations]
        /\ \A u \in Threads : pc'[u] = at[u] \/ (at[u] = "tagsleep" /\ pc'[u] = "gettag")
    BY <1>2, TagWokenFact
  <2>2. pc'[t] = "idle" /\ \A u \in Threads \ {t} : Nudged(u)
    BY <1>2, <2>1 DEF Nudged
  <2>3. \A u \in Threads \ {t} : CallState'[u] = CallState[u]
    BY <2>2, SameView DEF IInv
  <2>4. CallState[t] = "sent" /\ CallState'[t] = "idle"
    BY <1>1, <2>2 DEF CallState
  <2> QED BY <2>3, <2>4 DEF CallState
<1>4. /\ CallAnswer' \in {CallAnswer, [CallAnswer EXCEPT ![t] = "own"]}
      /\ CallAnswer'[t] = "none" => eof
  <2>1. CASE TakeReply(t)
    <3>1. p[t] # Nil /\ p' = p
      BY <2>1 DEF TakeReply, callVars
    <3>2. CallAnswer' = CallAnswer /\ CallAnswer[t] = "own"
      BY <1>1, <3>1 DEF CallAnswer, Answers, IInv, ReplyToCaller
    <3> QED BY <3>2
  <2>2. CASE DispatchSelf(t)
    <3>1. /\ pc[t] = "dispatch" /\ p' = [p EXCEPT ![t] = got[t]] /\ Target(got[t]) = t
      BY <2>2 DEF DispatchSelf
    <3>2. got[t] \in Messages /\ Awaited(got[t]) /\ got[t].thr = t
      BY <3>1, TargetFact
    <3>3. CallAnswer' = [CallAnswer EXCEPT ![t] = "own"]
      BY <1>1, <3>1, <3>2, MuxAssumption DEF CallAnswer, Answers, Awaited, IInv, TypeOK
    <3>4. CallAnswer'[t] = "own"
      BY <3>3 DEF CallAnswer
    <3> QED BY <3>3, <3>4
  <2>3. CASE GiveUp(t)
    BY <1>1, <2>3 DEF GiveUp, CallAnswer, Answers, callVars, IInv, Phases
  <2> QED BY <2>1, <2>2, <2>3
<1> QED BY <1>1, <1>3, <1>4 DEF Abstract!Return

\* muxrpc, called by any number of threads over one connection, is the
\* specification of a remote call: each call gets the answer to its own request,
\* or none once the connection is down.
THEOREM RpcImplemented == MaxGarbled = 0 => (Spec => ImplementsRpc)
<1> SUFFICES ASSUME MaxGarbled = 0 PROVE Spec => ImplementsRpc
  OBVIOUS
<1>1. Init => Abstract!Init
  BY DEF Init, Abstract!Init, CallState, CallAnswer
<1>2. IInv /\ [Next]_vars => [Abstract!Next]_(Abstract!vars)
  <2> SUFFICES ASSUME IInv, [Next]_vars PROVE [Abstract!Next]_(Abstract!vars)
    OBVIOUS
  <2>1. ASSUME NEW t \in Threads, Step(t) PROVE [Abstract!Next]_(Abstract!vars)
    <3>1. ~RecvGarbled(t)
      BY DEF RecvGarbled, IInv, TypeOK
    <3>2. \/ UNCHANGED Abstract!vars
          \/ \E r \in Threads : Abstract!Send(r) \/ Abstract!Arrive(r) \/ Abstract!Return(r)
      BY <2>1, <3>1, NoCrash, InternalStutters, SendSends, DispatchArrives, LeavingReturns
         DEF Step
    <3> QED BY <3>2 DEF Abstract!Next
  <2>2. ASSUME NEW t \in Threads, Call(t) \/ SpuriousWakeup(t)
        PROVE  [Abstract!Next]_(Abstract!vars)
    BY <2>2, CallBegins, InternalStutters DEF Abstract!Next
  <2>3. CASE Hangup
    BY <2>3 DEF Hangup, callVars, Abstract!Next, Abstract!GoDown, CallState, CallAnswer, Answers
  <2>4. CASE UNCHANGED vars
    BY <2>4 DEF vars, callVars, netVars, Abstract!vars, CallState, CallAnswer, Answers
  <2> QED BY <2>1, <2>2, <2>3, <2>4 DEF Next
<1> QED BY <1>1, <1>2, Invariance, PTL DEF Spec, ImplementsRpc, Abstract!Spec

-----------------------------------------------------------------------------
(* Nobody sleeps without a muxer.                                          *)

\* What SleeperHasMuxer needs to be inductive: the muxer, when it is a call, is
\* awake and still without its reply, and while there is none only rpcs whose
\* async field is set sleep.
MuxerAwake ==
    /\ \A t \in Threads : muxer = t => pc[t] \notin {"idle", "asleep"} /\ p[t] = Nil
    /\ muxer = Nil => \A t \in Threads : pc[t] = "asleep" => async[t]

\* electmuxer finds a successor unless every rpc of the list is async.
LEMMA ElectedSomebody ==
    ASSUME NEW q \in Seq(Threads), Elected(q) = Nil
    PROVE  \A t \in Members(q) : async[t]
<1> DEFINE E == {i \in DOMAIN q : ~async[q[i]]}
<1>1. E \subseteq DOMAIN q /\ DOMAIN q = 1 .. Len(q) /\ \A i \in DOMAIN q : q[i] \in Threads
  <2>1. DOMAIN q = 1 .. Len(q)
    OBVIOUS
  <2>2. \A i \in DOMAIN q : q[i] \in Threads
    BY <2>1, ElementOfSeq
  <2> QED BY <2>1, <2>2
<1>2. CASE E # {}
  <2>1. E \subseteq Nat
    BY <1>1
  <2>2. Least(E) \in E
    <3> HIDE DEF E
    <3> QED BY <1>2, <2>1, LeastInSet
  <2>3. Elected(q) = q[Least(E)]
    BY <1>2 DEF Elected
  <2>4. Elected(q) \in Threads
    <3> HIDE DEF E
    <3> QED BY <1>1, <2>2, <2>3
  <2> QED BY <2>4, MuxAssumption
<1>3. CASE E = {}
  BY <1>1, <1>3 DEF Members
<1> QED BY <1>2, <1>3

\* Leaving the receive loop leaves the role to an awake call, or to nobody.
LEMMA LeaveElects ==
    ASSUME IInv, MuxerAwake, NEW t \in Threads, DispatchSelf(t) \/ GiveUp(t)
    PROVE  MuxerAwake'
<1> DEFINE q == Dequeue(sleepq, t)
           at == [pc EXCEPT ![t] = "idle"]
<1>1. /\ Receiving(t) /\ sleepq' = q /\ Leave(t, q, pc) /\ UNCHANGED async
      /\ \A u \in Threads \ {t} : p'[u] = p[u]
  BY DEF DispatchSelf, GiveUp, Receiving, callVars, IInv, TypeOK
<1>2. q \in Seq(Threads) /\ Members(q) = Members(sleepq) \ {t}
  BY <1>1, LeaveFact
<1>3. Members(q) = {u \in Threads \ {t} : HasTag(u) /\ p[u] = Nil}
  BY <1>2 DEF IInv, SleepList, Sleepers, Members
<1> HIDE DEF q
<1>4. muxer' = Elected(q) /\ pc' \in TagWoken(Wake(at, Elected(q)))
  BY <1>1 DEF Leave
<1>5. Elected(q) \in Members(q) \cup {Nil}
  BY <1>2, ElectedFact
<1>6. at \in [Threads -> Locations] /\ at[t] = "idle" /\ \A u \in Threads \ {t} : at[u] = pc[u]
  BY DEF IInv, TypeOK, Locations
<1> HIDE DEF at
<1>7. CASE Elected(q) = Nil
  <2>1. \A u \in Members(q) : async[u]
    BY <1>2, <1>7, ElectedSomebody
  <2>2. Wake(at, Elected(q)) = at
    BY <1>7 DEF Wake
  <2>3. /\ pc' \in [Threads -> Locations]
        /\ \A u \in Threads : pc'[u] = at[u] \/ (at[u] = "tagsleep" /\ pc'[u] = "gettag")
    BY <1>4, <1>6, <2>2, TagWokenFact
  <2>4. ASSUME NEW u \in Threads, pc'[u] = "asleep" PROVE async'[u]
    <3>1. u # t /\ pc[u] = "asleep"
      BY <1>6, <2>3, <2>4
    <3>2. HasTag(u) /\ p[u] = Nil
      BY <3>1 DEF HasTag, IInv, ReplyAwake
    <3> QED BY <1>1, <1>3, <2>1, <3>1, <3>2
  <2>5. muxer' \notin Threads
    BY <1>4, <1>7, MuxAssumption
  <2> QED BY <2>4, <2>5 DEF MuxerAwake
<1>8. CASE Elected(q) \in Members(q)
  <2>0. PICK e \in Threads : e = Elected(q)
    BY <1>3, <1>8
  <2>1. e \in Threads \ {t} /\ HasTag(e) /\ p[e] = Nil /\ e # Nil
    BY <1>3, <1>8, <2>0, MuxAssumption
  <2>2. /\ Wake(at, e) \in [Threads -> Locations]
        /\ Wake(at, e)[e] = IF pc[e] = "asleep" THEN "check" ELSE pc[e]
    BY <1>6, <2>1 DEF Wake, Locations
  <2>3. /\ pc' \in [Threads -> Locations]
        /\ \A u \in Threads : \/ pc'[u] = Wake(at, e)[u]
                              \/ (Wake(at, e)[u] = "tagsleep" /\ pc'[u] = "gettag")
    <3> DEFINE w == Wake(at, e)
    <3>1. pc' \in TagWoken(w) /\ w \in [Threads -> Locations]
      BY <1>4, <2>0, <2>2
    <3> HIDE DEF w
    <3>2. /\ pc' \in [Threads -> Locations]
          /\ \A u \in Threads : pc'[u] = w[u] \/ (w[u] = "tagsleep" /\ pc'[u] = "gettag")
      BY <3>1, TagWokenFact
    <3> QED BY <3>2 DEF w
  <2>4. pc'[e] \notin {"idle", "asleep"} /\ p'[e] = Nil
    BY <1>1, <2>1, <2>2, <2>3 DEF HasTag
  <2>5. muxer' = e
    BY <1>4, <2>0
  <2> QED BY <2>1, <2>4, <2>5 DEF MuxerAwake
<1> QED BY <1>5, <1>7, <1>8

\* The steps that leave the role with whoever has it, or take it when it is free.
LEMMA OthersAwake ==
    ASSUME IInv, MuxerAwake, NEW t \in Threads,
           \/ TakeTag(t) \/ SleepForTag(t) \/ SendOk(t) \/ Sleep(t) \/ BecomeMuxer(t)
           \/ Recv(t) \/ RecvEof(t) \/ SpuriousWakeup(t)
    PROVE  MuxerAwake'
<1>1. UNCHANGED <<async, p>>
  BY DEF TakeTag, SleepForTag, SendOk, Sleep, BecomeMuxer, Recv, RecvEof, SpuriousWakeup,
         callVars
<1>2. pc \in [Threads -> Locations]
  BY DEF IInv, TypeOK
<1>3. CASE TakeTag(t) \/ SleepForTag(t) \/ SendOk(t) \/ SpuriousWakeup(t) \/ Recv(t) \/ RecvEof(t)
  <2>1. /\ UNCHANGED muxer /\ pc' \in [Threads -> Locations]
        /\ \A u \in Threads \ {t} : pc'[u] = pc[u]
        /\ pc'[t] \notin {"idle", "asleep"}
    BY <1>2, <1>3 DEF TakeTag, SleepForTag, SendOk, SpuriousWakeup, Recv, RecvEof, HasTag,
                      Locations
  <2> QED BY <1>1, <2>1 DEF MuxerAwake
<1>4. CASE Sleep(t)
  BY <1>1, <1>2, <1>4 DEF Sleep, MustSleep, MuxerAwake
<1>5. CASE BecomeMuxer(t)
  BY <1>1, <1>2, <1>5, MuxAssumption DEF BecomeMuxer, MuxerAwake
<1> QED BY <1>3, <1>4, <1>5

\* A reply handed over goes to another call than the muxer's.
LEMMA HandedAwake ==
    ASSUME IInv, MuxerAwake, NEW t \in Threads, TakeReply(t) \/ DispatchOther(t)
    PROVE  MuxerAwake'
<1>1. UNCHANGED <<async, muxer>>
  BY DEF TakeReply, DispatchOther, callVars
<1>2. CASE TakeReply(t)
  <2> DEFINE at == [pc EXCEPT ![t] = "idle"]
  <2>1. at \in [Threads -> Locations] /\ at[t] = "idle" /\ \A u \in Threads \ {t} : at[u] = pc[u]
    BY DEF IInv, TypeOK, Locations
  <2>2. p[t] # Nil /\ p' = p /\ pc' \in TagWoken(at)
    BY <1>2 DEF TakeReply, callVars
  <2> HIDE DEF at
  <2>3. /\ pc' \in [Threads -> Locations]
        /\ \A u \in Threads : pc'[u] = at[u] \/ (at[u] = "tagsleep" /\ pc'[u] = "gettag")
    BY <2>1, <2>2, TagWokenFact
  <2> QED BY <1>1, <2>1, <2>2, <2>3 DEF MuxerAwake
<1>3. CASE DispatchOther(t)
  <2> DEFINE r == Target(got[t])
  <2>1. pc[t] = "dispatch" /\ muxer = t
    BY <1>3 DEF DispatchOther, IInv, OneMuxer, Receiving
  <2>2. /\ r # t /\ p' = IF r = Nil THEN p ELSE [p EXCEPT ![r] = got[t]]
        /\ pc' = Wake([pc EXCEPT ![t] = "recv"], r)
    BY <1>3 DEF DispatchOther
  <2> HIDE DEF r
  <2>3. p'[t] = p[t] /\ pc'[t] = "recv"
    BY <2>2 DEF Wake, IInv, TypeOK, Locations
  <2>4. muxer # Nil
    BY <2>1, MuxAssumption
  <2> QED BY <1>1, <2>1, <2>3, <2>4 DEF MuxerAwake
<1> QED BY <1>2, <1>3

\* A send that fails takes the role with it when it was elected, and leaves it
\* alone otherwise.
LEMMA SendFailAwake ==
    ASSUME IInv, MuxerAwake, NEW t \in Threads, SendFail(t)
    PROVE  MuxerAwake'
<1> DEFINE at == [pc EXCEPT ![t] = "idle"]
<1>1. at \in [Threads -> Locations] /\ at[t] = "idle" /\ \A u \in Threads \ {t} : at[u] = pc[u]
  BY DEF IInv, TypeOK, Locations
<1>2. /\ UNCHANGED <<p, async>> /\ pc' \in TagWoken(at)
      /\ muxer' = IF muxer = t THEN Dangling ELSE muxer
  BY DEF SendFail, callVars
<1> HIDE DEF at
<1>3. \A u \in Threads : pc'[u] = at[u] \/ (at[u] = "tagsleep" /\ pc'[u] = "gettag")
  BY <1>1, <1>2, TagWokenFact
<1> QED BY <1>1, <1>2, <1>3, MuxAssumption DEF MuxerAwake

\* For every number of threads, whichever sends fail and whatever the async
\* fields hold: an rpc sleeps with a muxer that is awake, unless the muxer's send
\* failed after its election or every sleeper's async field is set.
THEOREM SleeperHasMuxerCorrect == MaxGarbled = 0 => (Spec => []SleeperHasMuxer)
<1> SUFFICES ASSUME MaxGarbled = 0 PROVE Spec => []SleeperHasMuxer
  OBVIOUS
<1>1. Init => MuxerAwake
  BY MuxAssumption DEF Init, MuxerAwake
<1>2. IInv /\ MuxerAwake /\ [Next]_vars => MuxerAwake'
  <2> SUFFICES ASSUME IInv, MuxerAwake, [Next]_vars PROVE MuxerAwake'
    OBVIOUS
  <2>1. ASSUME NEW t \in Threads, Step(t) PROVE MuxerAwake'
    <3>1. ~RecvGarbled(t)
      BY DEF RecvGarbled, IInv, TypeOK
    <3> QED
      BY <2>1, <3>1, NoCrash, LeaveElects, OthersAwake, HandedAwake, SendFailAwake DEF Step
  <2>2. ASSUME NEW t \in Threads, Call(t) PROVE MuxerAwake'
    <3>1. /\ pc[t] = "idle" /\ pc' = [pc EXCEPT ![t] = "gettag"] /\ p' = [p EXCEPT ![t] = Nil]
          /\ \E a \in AsyncValues : async' = [async EXCEPT ![t] = a]
          /\ muxer' \in IF muxer = Dangling THEN {Dangling, t} ELSE {muxer}
      BY <2>2 DEF Call
    <3>2. /\ \A u \in Threads \ {t} : pc'[u] = pc[u] /\ p'[u] = p[u] /\ async'[u] = async[u]
          /\ pc'[t] = "gettag" /\ p'[t] = Nil
      BY <3>1 DEF IInv, TypeOK
    <3>3. muxer' = muxer \/ muxer' \in {Dangling, t}
      BY <3>1
    <3> QED BY <3>1, <3>2, <3>3, MuxAssumption DEF MuxerAwake
  <2>3. ASSUME NEW t \in Threads, SpuriousWakeup(t) PROVE MuxerAwake'
    BY <2>3, OthersAwake
  <2>4. CASE Hangup \/ UNCHANGED vars
    BY <2>4 DEF Hangup, vars, callVars, MuxerAwake
  <2> QED BY <2>1, <2>2, <2>3, <2>4 DEF Next
<1>3. IInv /\ MuxerAwake => SleeperHasMuxer
  BY DEF MuxerAwake, SleeperHasMuxer, Waits, IInv, TypeOK
<1> QED BY <1>1, <1>2, <1>3, Invariance, PTL DEF Spec
=============================================================================
