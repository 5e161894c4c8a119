-------------------------- MODULE MapPendingProofs --------------------------
(***************************************************************************)
(* Two of the data structures that a server is built from.                 *)
(*                                                                         *)
(* Broadcast files, for every number of fids, reads and writes: nothing    *)
(* written is lost, and no request is lost or linked twice.                *)
(*                                                                         *)
(* The hash table of map.c implements a partial function, for every set of *)
(* keys and values and every number of buckets.                            *)
(***************************************************************************)
EXTENDS Pending, Map, SequenceTheorems, FiniteSetTheorems, FunctionTheorems,
        WellFoundedInduction, TLAPS

-----------------------------------------------------------------------------
(* Lists.                                                                  *)

\* A list and its positions.
LEMMA ListFacts ==
    ASSUME NEW T, NEW list \in Seq(T)
    PROVE  /\ Len(list) \in Nat /\ DOMAIN list = 1 .. Len(list)
           /\ \A i \in 1 .. Len(list) : list[i] \in T /\ list[i] \in Members(list)
           /\ \A x \in Members(list) : x \in T /\ \E i \in 1 .. Len(list) : list[i] = x
<1>1. Len(list) \in Nat /\ DOMAIN list = 1 .. Len(list)
  OBVIOUS
<1>2. \A i \in 1 .. Len(list) : list[i] \in T
  BY ElementOfSeq
<1> QED BY <1>1, <1>2 DEF Members

\* A list without repetitions is as long as the set of its members.
LEMMA DistinctCount ==
    ASSUME NEW T, NEW list \in Seq(T), Distinct(list)
    PROVE  IsFiniteSet(Members(list)) /\ Cardinality(Members(list)) = Len(list)
<1> DEFINE D == 1 .. Len(list)
           M == Members(list)
<1>1. Len(list) \in Nat /\ DOMAIN list = D /\ IsFiniteSet(D) /\ Cardinality(D) = Len(list)
  <2>1. Len(list) \in Nat /\ DOMAIN list = D
    BY ListFacts
  <2>2. 1 \in Int /\ Len(list) \in Int
    BY <2>1
  <2>3. IsFiniteSet(1 .. Len(list))
    BY <2>2, FS_Interval
  <2>4. Cardinality(1 .. Len(list)) = IF 1 > Len(list) THEN 0 ELSE Len(list) - 1 + 1
    BY <2>2, FS_Interval
  <2> QED BY <2>1, <2>3, <2>4
<1>2. list \in [D -> M]
  BY <1>1 DEF Members
<1>3. list \in Surjection(D, M)
  BY <1>1, <1>2 DEF Members, Surjection
<1>4. list \in Injection(D, M)
  BY <1>1, <1>2, Fun_IsInj DEF Distinct
<1> HIDE DEF D, M
<1>5. IsFiniteSet(M) /\ Cardinality(M) = Cardinality(D)
  BY <1>1, <1>3, <1>4, FS_Surjection
<1> QED BY <1>1, <1>5 DEF M

\* Unlinking every entry of S: what stays keeps its order and nothing else goes.
LEMMA DroppedFact ==
    ASSUME NEW T, NEW list \in Seq(T), NEW S
    PROVE  /\ Dropped(list, S) \in Seq(T)
           /\ \E pos \in [1 .. Len(Dropped(list, S)) -> 1 .. Len(list)] :
                /\ \A n \in 1 .. Len(Dropped(list, S)) :
                     Dropped(list, S)[n] = list[pos[n]] /\ list[pos[n]] \notin S
                /\ \A m, n \in 1 .. Len(Dropped(list, S)) : m < n => pos[m] < pos[n]
                /\ \A i \in 1 .. Len(list) :
                     list[i] \notin S => \E n \in 1 .. Len(Dropped(list, S)) : pos[n] = i
<1> DEFINE kept == {i \in DOMAIN list : list[i] \notin S}
           upto(i) == {j \in kept : j <= i}
           rank(i) == Cardinality(upto(i))
           K == Cardinality(kept)
           pos == [n \in 1 .. K |-> CHOOSE i \in kept : rank(i) = n]
           d == Dropped(list, S)
<1>1. /\ Len(list) \in Nat /\ DOMAIN list = 1 .. Len(list)
      /\ \A i \in 1 .. Len(list) : list[i] \in T
  BY ListFacts
<1>2. IsFiniteSet(kept) /\ K \in Nat
  <2>1. IsFiniteSet(1 .. Len(list))
    BY <1>1, FS_Interval
  <2>2. kept \in SUBSET (1 .. Len(list))
    BY <1>1
  <2> QED BY <2>1, <2>2, FS_Subset, FS_CardinalityType
<1>3. d = [n \in 1 .. K |-> list[pos[n]]]
  BY DEF Dropped
<1>4. kept \subseteq Int /\ kept \subseteq 1 .. Len(list) /\ \A i \in kept : list[i] \notin S
  BY <1>1
<1>5. \A i \in 1 .. Len(list) : list[i] \notin S => i \in kept
  BY <1>1
<1> HIDE DEF kept
<1>6. ASSUME NEW i \in kept PROVE rank(i) \in 1 .. K /\ IsFiniteSet(upto(i)) /\ i \in upto(i)
  <2>1. upto(i) \in SUBSET kept /\ i \in upto(i)
    BY <1>4
  <2> HIDE DEF upto
  <2>2. IsFiniteSet(upto(i)) /\ rank(i) \in Nat /\ rank(i) <= K
    BY <1>2, <2>1, FS_Subset, FS_CardinalityType
  <2>3. rank(i) # 0
    BY <2>1, <2>2, FS_EmptySet
  <2> QED BY <1>2, <2>1, <2>2, <2>3
<1>7. ASSUME NEW i \in kept, NEW j \in kept, i < j PROVE rank(i) < rank(j)
  <2>1. upto(i) \in SUBSET (upto(j) \ {j})
    <3> SUFFICES ASSUME NEW x \in kept, x <= i PROVE x <= j /\ x # j
      OBVIOUS
    <3> QED BY <1>4, <1>7
  <2>2. /\ IsFiniteSet(upto(j)) /\ j \in upto(j) /\ rank(j) \in Nat /\ rank(i) \in Nat
    BY <1>2, <1>6
  <2> HIDE DEF upto
  <2>3. IsFiniteSet(upto(j) \ {j}) /\ Cardinality(upto(j) \ {j}) = rank(j) - 1
    BY <2>2, FS_RemoveElement
  <2>4. rank(i) <= rank(j) - 1
    BY <2>1, <2>3, FS_Subset
  <2> QED BY <2>2, <2>4
<1> DEFINE r == [i \in kept |-> rank(i)]
<1>7a. ASSUME NEW i \in kept PROVE rank(i) \in Int
  <2>1. rank(i) \in 1 .. K
    BY <1>6
  <2> HIDE DEF rank, K, upto
  <2> QED BY <2>1
<1> HIDE DEF rank
<1>8. \A i, j \in kept : rank(i) = rank(j) => i = j
  <2> SUFFICES ASSUME NEW i \in kept, NEW j \in kept, rank(i) = rank(j) PROVE i = j
    OBVIOUS
  <2>1. i \in Int /\ j \in Int /\ rank(i) \in Int /\ rank(j) \in Int
    BY <1>4, <1>7a
  <2>2. ~(i < j) /\ ~(j < i)
    BY <1>7, <2>1
  <2> QED BY <2>1, <2>2
<1>9. ASSUME NEW n \in 1 .. K PROVE \E i \in kept : rank(i) = n
  <2>1. r \in [kept -> 1 .. K] /\ \A i, j \in kept : r[i] = r[j] => i = j
    BY <1>6, <1>8
  <2>2. IsFiniteSet(1 .. K) /\ Cardinality(1 .. K) = K
    BY <1>2, FS_Interval
  <2> HIDE DEF r, K
  <2>3. r \in Injection(kept, 1 .. K)
    BY <2>1, Fun_IsInj
  <2>4. r \in Surjection(kept, 1 .. K)
    BY <2>2, <2>3, FS_Injection DEF K
  <2>5. \E i \in kept : r[i] = n
    BY <1>9, <2>4 DEF Surjection
  <2> QED BY <2>5 DEF r
<1>10. \A n \in 1 .. K : pos[n] \in kept /\ rank(pos[n]) = n
  BY <1>9
<1> HIDE DEF pos, K
<1>11. d \in Seq(T) /\ Len(d) = K /\ \A n \in 1 .. K : d[n] = list[pos[n]]
  <2>1. d \in [1 .. K -> T]
    BY <1>1, <1>3, <1>4, <1>10
  <2> QED BY <1>2, <1>3, <2>1
<1>12. pos \in [1 .. K -> 1 .. Len(list)] /\ \A n \in 1 .. K : list[pos[n]] \notin S
  <2>1. DOMAIN pos = 1 .. K /\ pos = [n \in 1 .. K |-> pos[n]]
    BY DEF pos
  <2> QED BY <1>4, <1>10, <2>1
<1>13. ASSUME NEW m \in 1 .. K, NEW n \in 1 .. K, m < n PROVE pos[m] < pos[n]
  <2>1. pos[m] \in Int /\ pos[n] \in Int /\ pos[m] \in kept /\ pos[n] \in kept
    BY <1>4, <1>10
  <2>2. pos[m] # pos[n]
    BY <1>2, <1>10, <1>13
  <2>3. ~(pos[n] < pos[m])
    <3>1. pos[n] < pos[m] => rank(pos[n]) < rank(pos[m])
      BY <1>7, <2>1
    <3> QED BY <1>2, <1>10, <1>13, <3>1
  <2> QED BY <2>1, <2>2, <2>3
<1>14. ASSUME NEW i \in 1 .. Len(list), list[i] \notin S PROVE \E n \in 1 .. K : pos[n] = i
  <2>1. i \in kept
    BY <1>5, <1>14
  <2>2. rank(i) \in 1 .. K
    BY <1>6, <2>1
  <2> QED BY <1>8, <1>10, <2>1, <2>2
<1> HIDE DEF d
<1>15. /\ pos \in [1 .. Len(d) -> 1 .. Len(list)]
       /\ \A n \in 1 .. Len(d) : d[n] = list[pos[n]] /\ list[pos[n]] \notin S
       /\ \A m, n \in 1 .. Len(d) : m < n => pos[m] < pos[n]
       /\ \A i \in 1 .. Len(list) : list[i] \notin S => \E n \in 1 .. Len(d) : pos[n] = i
  BY <1>11, <1>12, <1>13, <1>14
<1> QED BY <1>11, <1>15 DEF d

\* As sets: exactly the members of S go, and no repetition comes up.
LEMMA DroppedMembers ==
    ASSUME NEW T, NEW list \in Seq(T), NEW S
    PROVE  /\ Dropped(list, S) \in Seq(T)
           /\ Members(Dropped(list, S)) = Members(list) \ S
           /\ Distinct(list) => Distinct(Dropped(list, S))
<1> DEFINE d == Dropped(list, S)
<1>1. d \in Seq(T)
  BY DroppedFact
<1>2. PICK pos \in [1 .. Len(d) -> 1 .. Len(list)] :
        /\ \A n \in 1 .. Len(d) : d[n] = list[pos[n]] /\ list[pos[n]] \notin S
        /\ \A m, n \in 1 .. Len(d) : m < n => pos[m] < pos[n]
        /\ \A i \in 1 .. Len(list) : list[i] \notin S => \E n \in 1 .. Len(d) : pos[n] = i
  BY DroppedFact
<1> HIDE DEF d
<1>3. /\ Len(d) \in Nat /\ DOMAIN d = 1 .. Len(d) /\ Len(list) \in Nat
      /\ DOMAIN list = 1 .. Len(list)
  BY <1>1, ListFacts
<1>4. Members(d) = Members(list) \ S
  <2>1. ASSUME NEW x \in Members(d) PROVE x \in Members(list) \ S
    BY <1>2, <1>3 DEF Members
  <2>2. ASSUME NEW x \in Members(list) \ S PROVE x \in Members(d)
    <3>1. PICK i \in 1 .. Len(list) : x = list[i]
      BY <1>3 DEF Members
    <3>2. PICK n \in 1 .. Len(d) : pos[n] = i
      BY <1>2, <2>2, <3>1
    <3> QED BY <1>2, <1>3, <3>1, <3>2 DEF Members
  <2> QED BY <2>1, <2>2
<1>5. ASSUME Distinct(list), NEW m \in 1 .. Len(d), NEW n \in 1 .. Len(d), d[m] = d[n]
      PROVE  m = n
  <2>1. pos[m] \in 1 .. Len(list) /\ pos[n] \in 1 .. Len(list) /\ list[pos[m]] = list[pos[n]]
    BY <1>2, <1>5
  <2>2. pos[m] = pos[n]
    BY <1>3, <1>5, <2>1 DEF Distinct
  <2>3. ~(m < n) /\ ~(n < m)
    BY <1>2, <2>1, <2>2
  <2> QED BY <1>3, <2>3
<1> QED BY <1>1, <1>3, <1>4, <1>5 DEF d, Distinct

\* A list grows by one member at its end.
LEMMA AppendMembers ==
    ASSUME NEW T, NEW list \in Seq(T), NEW x \in T
    PROVE  /\ Append(list, x) \in Seq(T) /\ Members(Append(list, x)) = Members(list) \cup {x}
           /\ Distinct(list) /\ x \notin Members(list) => Distinct(Append(list, x))
<1> DEFINE d == Append(list, x)
<1>1. /\ d \in Seq(T) /\ Len(d) = Len(list) + 1
      /\ \A i \in 1 .. Len(list) : d[i] = list[i]
      /\ d[Len(list) + 1] = x
  BY AppendProperties
<1> HIDE DEF d
<1>2. /\ Len(list) \in Nat /\ DOMAIN list = 1 .. Len(list) /\ DOMAIN d = 1 .. Len(list) + 1
      /\ \A i \in 1 .. Len(list) + 1 : i \in 1 .. Len(list) \/ i = Len(list) + 1
      /\ \A i \in 1 .. Len(list) : i \in 1 .. Len(list) + 1
      /\ Len(list) + 1 \in 1 .. Len(list) + 1
  BY <1>1, ListFacts
<1>3. Members(d) = Members(list) \cup {x}
  BY <1>1, <1>2 DEF Members
<1>4. ASSUME Distinct(list), x \notin Members(list) PROVE Distinct(d)
  BY <1>1, <1>2, <1>4 DEF Members, Distinct
<1> QED BY <1>1, <1>3, <1>4 DEF d

\* A list loses its first member.
LEMMA TailMembers ==
    ASSUME NEW T, NEW list \in Seq(T), list # <<>>
    PROVE  /\ Tail(list) \in Seq(T) /\ Head(list) \in T /\ Len(Tail(list)) = Len(list) - 1
           /\ Head(list) = list[1] /\ 1 \in 1 .. Len(list)
           /\ Members(list) = Members(Tail(list)) \cup {Head(list)}
           /\ Distinct(list) => Distinct(Tail(list)) /\ Head(list) \notin Members(Tail(list))
<1> DEFINE d == Tail(list)
<1>1. /\ d \in Seq(T) /\ Head(list) \in T /\ Len(d) = Len(list) - 1
      /\ \A i \in 1 .. Len(d) : d[i] = list[i + 1]
  BY HeadTailProperties
<1>2. Head(list) = list[1] /\ Len(list) \in Nat /\ Len(list) # 0
  OBVIOUS
<1> HIDE DEF d
<1>3. /\ DOMAIN list = 1 .. Len(list) /\ DOMAIN d = 1 .. Len(list) - 1
      /\ \A i \in 1 .. Len(list) - 1 : i + 1 \in 1 .. Len(list) /\ i + 1 # 1
      /\ \A i \in 1 .. Len(list) : i = 1 \/ (i - 1 \in 1 .. Len(list) - 1 /\ i - 1 + 1 = i)
      /\ 1 \in 1 .. Len(list)
      /\ \A i, j \in 1 .. Len(list) - 1 : i + 1 = j + 1 => i = j
  BY <1>1, <1>2
<1>4. Members(list) = Members(d) \cup {Head(list)}
  <2>1. ASSUME NEW x \in Members(list) PROVE x \in Members(d) \cup {Head(list)}
    <3>1. PICK i \in 1 .. Len(list) : x = list[i]
      BY <1>3 DEF Members
    <3>2. CASE i # 1
      <4>1. i - 1 \in DOMAIN d /\ d[i - 1] = x
        BY <1>1, <1>3, <3>1, <3>2
      <4> QED BY <4>1 DEF Members
    <3> QED BY <1>2, <3>1, <3>2
  <2>2. ASSUME NEW x \in Members(d) PROVE x \in Members(list)
    <3>1. PICK i \in 1 .. Len(list) - 1 : x = d[i]
      BY <1>3 DEF Members
    <3>2. x = list[i + 1] /\ i + 1 \in DOMAIN list
      BY <1>1, <1>3, <3>1
    <3> QED BY <3>2 DEF Members
  <2>3. Head(list) \in Members(list)
    BY <1>2, <1>3 DEF Members
  <2> QED BY <2>1, <2>2, <2>3
<1>5. ASSUME Distinct(list) PROVE Distinct(d) /\ Head(list) \notin Members(d)
  <2>1. \A i \in 1 .. Len(list) - 1 : d[i] = list[i + 1] /\ i + 1 \in DOMAIN list
    BY <1>1, <1>3
  <2>2. ASSUME NEW i \in DOMAIN d, NEW j \in DOMAIN d, d[i] = d[j] PROVE i = j
    <3>1. i + 1 = j + 1
      BY <1>3, <1>5, <2>1, <2>2 DEF Distinct
    <3> QED BY <1>3, <3>1
  <2>3. ASSUME NEW i \in DOMAIN d, d[i] = Head(list) PROVE FALSE
    <3>1. i + 1 = 1
      BY <1>2, <1>3, <1>5, <2>1, <2>3 DEF Distinct
    <3> QED BY <1>3, <3>1
  <2> QED BY <2>2, <2>3 DEF Distinct, Members
<1> QED BY <1>1, <1>2, <1>3, <1>4, <1>5 DEF d

-----------------------------------------------------------------------------

\* A fid that was never opened has seen nothing.
Untouched ==
    \A f \in Fids \ (open \cup closed) : queue[f] = <<>> /\ due[f] = <<>> /\ got[f] = <<>>

\* Between calls every unanswered read is on pending->req.  During a write it is
\* on the list the write took over; pending->req stays empty until the loop
\* meets a request without data, which it then never gets past: so it is empty
\* whenever ixp_cleanupconn unlinks requests inside the loop.
ReadsLinked ==
    IF writing
    THEN /\ Distinct(local) /\ Members(local) = waiting
         /\ Members(reqs) \subseteq waiting
         /\ local = <<>> \/ queue[rfid[Head(local)]] # <<>> \/ Nested => reqs = <<>>
    ELSE /\ local = <<>>
         /\ Distinct(reqs) /\ Members(reqs) = waiting

\* The inductive invariant.
PendingInv ==
    /\ TypeOK
    /\ nwrite \in 0 .. MaxWrites
    /\ Len(rfid) <= MaxReads /\ waiting \subseteq 1 .. Len(rfid)
    /\ \A r \in waiting : rfid[r] \in open
    /\ Untouched
    /\ EveryEventOnce
    /\ NoReadKeptWaiting
    /\ ReadsLinked

-----------------------------------------------------------------------------
(* Data moves from the queue to the reader, or is queued behind the rest.  *)

LEMMA TakenJoins ==
    ASSUME NEW T, NEW g \in Seq(T), NEW q \in Seq(T), q # <<>>
    PROVE  /\ Append(g, Head(q)) \in Seq(T) /\ Tail(q) \in Seq(T)
           /\ Append(g, Head(q)) \o Tail(q) = g \o q
OBVIOUS

-----------------------------------------------------------------------------
(* The steps.                                                              *)

LEMMA InitInv == Init => PendingInv
<1> SUFFICES ASSUME Init PROVE PendingInv
  OBVIOUS
<1>1. None \in [Fids -> Seq(1 .. MaxWrites)] /\ \A f \in Fids : None[f] = <<>>
  BY DEF None
<1>2. TypeOK
  <2>1. /\ open = {} /\ closed = {} /\ queue = None /\ due = None /\ got = None
        /\ reqs = <<>> /\ local = <<>> /\ rfid = <<>> /\ waiting = {}
        /\ writing = FALSE /\ parity = 0 /\ hung = {}
    BY DEF Init
  <2>2. \A T : <<>> \in Seq(T)
    OBVIOUS
  <2> HIDE DEF None
  <2> QED BY <1>1, <2>1, <2>2 DEF TypeOK
<1>3. Distinct(<<>>) /\ Members(<<>>) = {}
  BY DEF Distinct, Members
<1>4. nwrite \in 0 .. MaxWrites /\ Len(rfid) <= MaxReads /\ waiting \subseteq 1 .. Len(rfid)
  BY PendingAssumption DEF Init
<1> QED BY <1>1, <1>2, <1>3, <1>4
        DEF Init, PendingInv, Untouched, EveryEventOnce, NoReadKeptWaiting, ReadsLinked

\* The types, one fact each.
LEMMA Types ==
    ASSUME PendingInv
    PROVE  /\ open \subseteq Fids /\ closed \subseteq Fids
           /\ queue \in [Fids -> Seq(1 .. MaxWrites)]
           /\ due \in [Fids -> Seq(1 .. MaxWrites)]
           /\ got \in [Fids -> Seq(1 .. MaxWrites)]
           /\ reqs \in Seq(1 .. MaxReads) /\ local \in Seq(1 .. MaxReads)
           /\ rfid \in Seq(Fids) /\ waiting \subseteq 1 .. MaxReads
           /\ writing \in BOOLEAN /\ parity \in {0, 1} /\ hung \subseteq Fids
           /\ nwrite \in Nat /\ Len(rfid) \in Nat
           /\ \A r \in waiting : r \in 1 .. Len(rfid) /\ rfid[r] \in Fids
BY ElementOfSeq DEF PendingInv, TypeOK

LEMMA PushFidInv ==
    ASSUME PendingInv, NEW f \in Fids, PushFid(f)
    PROVE  PendingInv'
<1>1. TypeOK'
  BY DEF PendingInv, TypeOK, PushFid
<1>2. EveryEventOnce'
  <2>1. <<>> \o <<>> = <<>>
    OBVIOUS
  <2> QED BY <2>1 DEF PendingInv, EveryEventOnce, Untouched, PushFid
<1> QED BY <1>1, <1>2 DEF PendingInv, PushFid, Untouched, NoReadKeptWaiting, ReadsLinked

\* Answering read r of an open fid leaves what the fid gets as it is due.
LEMMA AnswerKeeps ==
    ASSUME PendingInv, NEW f \in open, queue[f] # <<>>, NEW r, Answer(f, r),
           UNCHANGED <<open, closed, due>>
    PROVE  /\ queue' \in [Fids -> Seq(1 .. MaxWrites)] /\ got' \in [Fids -> Seq(1 .. MaxWrites)]
           /\ Untouched' /\ EveryEventOnce'
           /\ \A g \in Fids : g # f => queue'[g] = queue[g]
<1>1. /\ queue' = [queue EXCEPT ![f] = Tail(@)]
      /\ got' = [got EXCEPT ![f] = Append(@, Head(queue[f]))]
  BY Types DEF Answer, Taken
<1>2. f \in Fids /\ queue[f] \in Seq(1 .. MaxWrites) /\ got[f] \in Seq(1 .. MaxWrites)
  BY Types
<1>3. /\ Append(got[f], Head(queue[f])) \in Seq(1 .. MaxWrites)
      /\ Tail(queue[f]) \in Seq(1 .. MaxWrites)
      /\ Append(got[f], Head(queue[f])) \o Tail(queue[f]) = got[f] \o queue[f]
  BY <1>2, TakenJoins
<1>4. /\ queue' \in [Fids -> Seq(1 .. MaxWrites)] /\ got' \in [Fids -> Seq(1 .. MaxWrites)]
      /\ queue'[f] = Tail(queue[f]) /\ got'[f] = Append(got[f], Head(queue[f]))
      /\ \A g \in Fids : g # f => queue'[g] = queue[g] /\ got'[g] = got[g]
  BY <1>1, <1>2, <1>3, Types
<1>5. Untouched'
  BY <1>4 DEF PendingInv, Untouched
<1>6. EveryEventOnce'
  <2> SUFFICES ASSUME NEW g \in open PROVE got'[g] \o queue'[g] = due[g]
    BY DEF EveryEventOnce
  <2>1. got[g] \o queue[g] = due[g] /\ g \in Fids
    BY Types DEF PendingInv, EveryEventOnce
  <2> QED BY <1>3, <1>4, <2>1
<1> QED BY <1>4, <1>5, <1>6

LEMMA ReadInv ==
    ASSUME PendingInv, NEW f \in Fids, Read(f)
    PROVE  PendingInv'
<1> DEFINE n == Len(rfid) + 1
<1>1. /\ ~writing /\ f \in open /\ Len(rfid) < MaxReads /\ rfid' = Append(rfid, f)
      /\ UNCHANGED <<open, closed, local, writing, nwrite, due, hung, parity>>
  BY DEF Read
<1>2. /\ rfid' \in Seq(Fids) /\ Len(rfid') = n /\ n \in 1 .. MaxReads /\ n \notin waiting
      /\ rfid'[n] = f /\ \A r \in 1 .. Len(rfid) : rfid'[r] = rfid[r] /\ r \in 1 .. n
  BY <1>1, Types, PendingAssumption
<1> HIDE DEF n
<1>3. CASE queue[f] # <<>>
  <2>1. Answer(f, n) /\ UNCHANGED reqs
    BY <1>2, <1>3 DEF Read
  <2>2. /\ queue' \in [Fids -> Seq(1 .. MaxWrites)] /\ got' \in [Fids -> Seq(1 .. MaxWrites)]
        /\ Untouched' /\ EveryEventOnce' /\ \A g \in Fids : g # f => queue'[g] = queue[g]
    BY <1>1, <1>3, <2>1, AnswerKeeps
  <2>3. waiting' = waiting
    BY <1>2, <2>1 DEF Answer
  <2>4. \A r \in waiting : rfid'[r] = rfid[r] /\ rfid[r] # f
    BY <1>1, <1>2, <1>3 DEF PendingInv, NoReadKeptWaiting
  <2>5. TypeOK'
    BY <1>1, <1>2, <2>1, <2>2, <2>3, Types DEF TypeOK
  <2>6. NoReadKeptWaiting'
    BY <1>1, <2>2, <2>3, <2>4, Types DEF PendingInv, NoReadKeptWaiting
  <2>7. Len(rfid') <= MaxReads /\ waiting' \subseteq 1 .. Len(rfid')
    BY <1>2, <2>3, PendingAssumption DEF PendingInv
  <2> QED BY <1>1, <2>1, <2>2, <2>3, <2>4, <2>5, <2>6, <2>7 DEF PendingInv, ReadsLinked
<1>4. CASE queue[f] = <<>>
  <2>1. reqs' = Append(reqs, n) /\ waiting' = waiting \cup {n} /\ UNCHANGED <<queue, got>>
    BY <1>2, <1>4 DEF Read
  <2>2. reqs \in Seq(1 .. MaxReads) /\ Distinct(reqs) /\ Members(reqs) = waiting /\ local = <<>>
    BY <1>1, Types DEF PendingInv, ReadsLinked
  <2>3. reqs' \in Seq(1 .. MaxReads) /\ Distinct(reqs') /\ Members(reqs') = waiting'
    <3>1. /\ Append(reqs, n) \in Seq(1 .. MaxReads)
          /\ Members(Append(reqs, n)) = Members(reqs) \cup {n}
          /\ Distinct(Append(reqs, n))
      <4>1. n \in 1 .. MaxReads /\ n \notin Members(reqs)
        BY <1>2, <2>2
      <4> DEFINE T == 1 .. MaxReads
      <4>2. reqs \in Seq(T) /\ n \in T /\ Distinct(reqs)
        BY <2>2, <4>1
      <4> HIDE DEF T
      <4>3. /\ Append(reqs, n) \in Seq(T)
            /\ Members(Append(reqs, n)) = Members(reqs) \cup {n}
            /\ Distinct(Append(reqs, n))
        BY <4>1, <4>2, AppendMembers
      <4> QED BY <4>3 DEF T
    <3> QED BY <2>1, <2>2, <3>1
  <2>4. \A r \in waiting : rfid'[r] = rfid[r]
    BY <1>2, Types
  <2>5. TypeOK'
    BY <1>1, <1>2, <2>1, <2>3, Types DEF TypeOK
  <2>6. Len(rfid') <= MaxReads /\ waiting' \subseteq 1 .. Len(rfid')
    BY <1>2, <2>1, PendingAssumption DEF PendingInv
  <2>7. NoReadKeptWaiting' /\ \A r \in waiting' : rfid'[r] \in open'
    BY <1>1, <1>2, <1>4, <2>1, <2>4 DEF PendingInv, NoReadKeptWaiting
  <2>8. Untouched' /\ EveryEventOnce'
    BY <1>1, <2>1 DEF PendingInv, Untouched, EveryEventOnce
  <2> QED BY <1>1, <2>2, <2>3, <2>5, <2>6, <2>7, <2>8 DEF PendingInv, ReadsLinked
<1> QED BY <1>3, <1>4

LEMMA WriteInv ==
    ASSUME PendingInv, Write
    PROVE  PendingInv'
<1>1. /\ ~writing /\ nwrite < MaxWrites /\ nwrite' = nwrite + 1
      /\ queue' = [f \in Fids |-> IF f \in open THEN Append(queue[f], nwrite') ELSE queue[f]]
      /\ due' = [f \in Fids |-> IF f \in open THEN Append(due[f], nwrite') ELSE due[f]]
      /\ local' = reqs /\ reqs' = <<>> /\ writing' = TRUE
      /\ UNCHANGED <<open, closed, rfid, waiting, got, hung, parity>>
  BY DEF Write
<1>2. nwrite' \in 1 .. MaxWrites /\ nwrite' \in 0 .. MaxWrites
  BY <1>1, Types, PendingAssumption
<1>3. \A f \in Fids : /\ Append(queue[f], nwrite') \in Seq(1 .. MaxWrites)
                      /\ Append(due[f], nwrite') \in Seq(1 .. MaxWrites)
  BY <1>2, Types, AppendProperties
<1>4. queue' \in [Fids -> Seq(1 .. MaxWrites)] /\ due' \in [Fids -> Seq(1 .. MaxWrites)]
  BY <1>1, <1>3, Types
<1>5. TypeOK'
  BY <1>1, <1>4, Types DEF TypeOK
<1>6. EveryEventOnce'
  <2> SUFFICES ASSUME NEW f \in open PROVE got[f] \o queue'[f] = due'[f]
    BY <1>1 DEF EveryEventOnce
  <2>1. got[f] \o queue[f] = due[f] /\ f \in Fids
    BY Types DEF PendingInv, EveryEventOnce
  <2>2. got[f] \o Append(queue[f], nwrite') = Append(got[f] \o queue[f], nwrite')
    <3> DEFINE T == 1 .. MaxWrites
               g == got[f]
               q == queue[f]
               n == nwrite'
    <3>1. g \in Seq(T) /\ q \in Seq(T) /\ n \in T
      BY <1>2, <2>1, Types
    <3> HIDE DEF T, g, q, n
    <3>2. g \o Append(q, n) = Append(g \o q, n)
      BY <3>1
    <3> QED BY <3>2 DEF g, q, n
  <2> QED BY <1>1, <2>1, <2>2
<1>7. Untouched'
  BY <1>1 DEF PendingInv, Untouched
<1>8. Members(<<>>) = {}
  BY DEF Members
<1> QED BY <1>1, <1>2, <1>5, <1>6, <1>7, <1>8 DEF PendingInv, NoReadKeptWaiting, ReadsLinked

LEMMA LoopAnswerInv ==
    ASSUME PendingInv, LoopAnswer
    PROVE  PendingInv'
<1> DEFINE r == Head(local)
<1>1. /\ writing /\ local # <<>> /\ queue[rfid[r]] # <<>> /\ Answer(rfid[r], r)
      /\ local' = Tail(local) /\ parity' = 1 - parity
      /\ Replied(rfid[r])
      /\ UNCHANGED <<open, closed, reqs, writing, nwrite, rfid, due>>
  BY DEF LoopAnswer
<1>2. /\ local \in Seq(1 .. MaxReads) /\ Distinct(local) /\ Members(local) = waiting
      /\ reqs = <<>>
  BY <1>1, Types DEF PendingInv, ReadsLinked
<1>3. /\ Tail(local) \in Seq(1 .. MaxReads) /\ Distinct(Tail(local))
      /\ Members(Tail(local)) = waiting \ {r} /\ r \in waiting
  BY <1>1, <1>2, TailMembers
<1> HIDE DEF r
<1>4. rfid[r] \in open
  BY <1>3 DEF PendingInv
<1>5. /\ queue' \in [Fids -> Seq(1 .. MaxWrites)] /\ got' \in [Fids -> Seq(1 .. MaxWrites)]
      /\ Untouched' /\ EveryEventOnce'
  BY <1>1, <1>4, AnswerKeeps
<1>6. waiting' = waiting \ {r}
  BY <1>1 DEF Answer
<1>7. parity' \in {0, 1} /\ hung' \subseteq Fids
  BY <1>1, Types DEF Replied
<1>8. TypeOK'
  BY <1>1, <1>3, <1>5, <1>6, <1>7, Types DEF TypeOK
<1>9. Members(<<>>) = {}
  BY DEF Members
<1> QED BY <1>1, <1>2, <1>3, <1>5, <1>6, <1>8, <1>9 DEF PendingInv, NoReadKeptWaiting, ReadsLinked

LEMMA LoopLinkInv ==
    ASSUME PendingInv, LoopLink
    PROVE  PendingInv'
<1>1. /\ writing /\ local # <<>> /\ queue[rfid[Head(local)]] = <<>> /\ ~Nested
      /\ reqs' = IF Len(reqs) < MaxLinks THEN Append(reqs, Head(local)) ELSE reqs
      /\ parity' = 1 - parity
      /\ UNCHANGED <<open, closed, queue, local, writing, nwrite, rfid, waiting, due, got, hung>>
  BY DEF LoopLink
<1>2. Head(local) \in 1 .. MaxReads /\ Head(local) \in waiting
  <2>1. local \in Seq(1 .. MaxReads) /\ Members(local) = waiting
    BY <1>1, Types DEF PendingInv, ReadsLinked
  <2>2. waiting \subseteq 1 .. MaxReads
    BY Types
  <2> DEFINE T == 1 .. MaxReads
  <2>3. local \in Seq(T) /\ local # <<>>
    BY <1>1, <2>1
  <2> HIDE DEF T
  <2>4. Head(local) \in Members(local)
    BY <2>3, TailMembers
  <2> QED BY <2>1, <2>2, <2>4
<1>3. reqs' \in Seq(1 .. MaxReads) /\ Members(reqs') \subseteq waiting
  <2> DEFINE T == 1 .. MaxReads
  <2>1. reqs \in Seq(T) /\ Head(local) \in T /\ Members(reqs) \subseteq waiting
    BY <1>1, <1>2, Types DEF PendingInv, ReadsLinked
  <2> HIDE DEF T
  <2>2. /\ Append(reqs, Head(local)) \in Seq(T)
        /\ Members(Append(reqs, Head(local))) = Members(reqs) \cup {Head(local)}
    BY <2>1, AppendMembers
  <2>3. reqs' \in Seq(T) /\ Members(reqs') \subseteq waiting
    BY <1>1, <1>2, <2>1, <2>2
  <2> QED BY <2>3 DEF T
<1>4. parity' \in {0, 1}
  BY <1>1, Types
<1>5. TypeOK'
  BY <1>1, <1>3, <1>4, Types DEF TypeOK
<1>6. ~Nested'
  BY <1>1 DEF Nested
<1> QED BY <1>1, <1>3, <1>5, <1>6
        DEF PendingInv, Untouched, EveryEventOnce, NoReadKeptWaiting, ReadsLinked

\* The loop ends with nothing waiting.
LEMMA LoopEndInv ==
    ASSUME PendingInv, LoopEnd
    PROVE  PendingInv'
<1>1. /\ writing /\ local = <<>> /\ writing' = FALSE
      /\ UNCHANGED <<open, closed, queue, reqs, local, nwrite, rfid, waiting, due, got, hung,
                     parity>>
  BY DEF LoopEnd
<1>2. reqs = <<>> /\ waiting = Members(local)
  BY <1>1 DEF PendingInv, ReadsLinked
<1>3. Distinct(reqs) /\ Members(reqs) = waiting /\ waiting = {}
  BY <1>1, <1>2 DEF Distinct, Members
<1>4. TypeOK'
  BY <1>1, Types DEF TypeOK
<1> QED BY <1>1, <1>3, <1>4
        DEF PendingInv, Untouched, EveryEventOnce, NoReadKeptWaiting, ReadsLinked

\* Unlinking requests from both lists, between calls or in the loop, where only
\* the list it took over has any.
LEMMA UnlinkInv ==
    ASSUME PendingInv, writing => reqs = <<>>, NEW S
    PROVE  LET q == Dropped(reqs, S)
               l == Dropped(local, S)
           IN  /\ q \in Seq(1 .. MaxReads) /\ l \in Seq(1 .. MaxReads)
               /\ writing => q = <<>> /\ Distinct(l) /\ Members(l) = waiting \ S
               /\ ~writing => l = <<>> /\ Distinct(q) /\ Members(q) = waiting \ S
<1>1. reqs \in Seq(1 .. MaxReads) /\ local \in Seq(1 .. MaxReads)
  BY Types
<1>2. /\ Dropped(reqs, S) \in Seq(1 .. MaxReads)
      /\ Members(Dropped(reqs, S)) = Members(reqs) \ S
      /\ Distinct(reqs) => Distinct(Dropped(reqs, S))
  BY <1>1, DroppedMembers
<1>3. /\ Dropped(local, S) \in Seq(1 .. MaxReads)
      /\ Members(Dropped(local, S)) = Members(local) \ S
      /\ Distinct(local) => Distinct(Dropped(local, S))
  BY <1>1, DroppedMembers
<1>4. \A T : \A list \in Seq(T) : Members(list) = {} => list = <<>>
  <2> SUFFICES ASSUME NEW T, NEW list \in Seq(T), Members(list) = {} PROVE list = <<>>
    OBVIOUS
  <2>1. Len(list) \in Nat /\ DOMAIN list = 1 .. Len(list)
    OBVIOUS
  <2>2. ~(1 \in DOMAIN list)
    BY DEF Members
  <2>3. Len(list) = 0
    BY <2>1, <2>2
  <2> QED BY <2>3, EmptySeq
<1>5. Members(<<>>) = {}
  BY DEF Members
<1>6. reqs = <<>> => Dropped(reqs, S) = <<>>
  BY <1>2, <1>4, <1>5
<1>7. local = <<>> => Dropped(local, S) = <<>>
  BY <1>3, <1>4, <1>5
<1> QED BY <1>2, <1>3, <1>6, <1>7 DEF PendingInv, ReadsLinked

\* In the loop only a connection being cleaned up has requests flushed.
LEMMA FlushInv ==
    ASSUME PendingInv, NEW r \in waiting, Flush(r)
    PROVE  PendingInv'
<1>1. /\ reqs' = Dropped(reqs, {r}) /\ local' = Dropped(local, {r})
      /\ waiting' = waiting \ {r} /\ (writing => rfid[r] \in hung)
      /\ UNCHANGED <<open, closed, queue, writing, nwrite, rfid, due, got, hung, parity>>
  BY DEF Flush
<1>2. writing => reqs = <<>>
  BY <1>1 DEF Nested, PendingInv, ReadsLinked
<1>3. /\ reqs' \in Seq(1 .. MaxReads) /\ local' \in Seq(1 .. MaxReads)
      /\ writing => reqs' = <<>> /\ Distinct(local') /\ Members(local') = waiting'
      /\ ~writing => local' = <<>> /\ Distinct(reqs') /\ Members(reqs') = waiting'
  BY <1>1, <1>2, UnlinkInv
<1>4. TypeOK'
  BY <1>1, <1>3, Types DEF TypeOK
<1>5. Members(<<>>) = {}
  BY DEF Members
<1>6. ReadsLinked'
  BY <1>1, <1>3, <1>5 DEF ReadsLinked
<1> QED BY <1>1, <1>4, <1>6
        DEF PendingInv, Untouched, EveryEventOnce, NoReadKeptWaiting

\* In the loop a fid is clunked when none of its reads waits any more.
LEMMA ClunkInv ==
    ASSUME PendingInv, NEW f \in Fids, Clunk(f)
    PROVE  PendingInv'
<1>1. /\ f \in open /\ (writing => f \in hung /\ Reading(f) = {})
      /\ reqs' = Dropped(reqs, Reading(f))
      /\ waiting' = waiting \ (Reading(f) \cap Members(reqs))
      /\ open' = open \ {f} /\ closed' = closed \cup {f}
      /\ queue' = [queue EXCEPT ![f] = <<>>]
      /\ UNCHANGED <<local, writing, nwrite, rfid, due, got, hung, parity>>
  BY DEF Clunk
<1>2. writing => reqs = <<>>
  BY <1>1 DEF Nested, PendingInv, ReadsLinked
<1>3. waiting' = waiting \ Reading(f)
  BY <1>1 DEF Reading, PendingInv, ReadsLinked
<1>4. /\ reqs' \in Seq(1 .. MaxReads)
      /\ writing => reqs' = <<>> /\ Distinct(local) /\ Members(local) = waiting'
      /\ ~writing => local = <<>> /\ Distinct(reqs') /\ Members(reqs') = waiting'
  BY <1>1, <1>2, <1>3, UnlinkInv DEF PendingInv, ReadsLinked
<1>5. /\ queue' \in [Fids -> Seq(1 .. MaxWrites)] /\ queue'[f] = <<>>
      /\ \A g \in Fids : g # f => queue'[g] = queue[g]
  BY <1>1, Types
<1>6. TypeOK'
  BY <1>1, <1>3, <1>4, <1>5, Types DEF TypeOK
<1>7. \A r \in waiting' : r \in waiting /\ rfid[r] \in open /\ rfid[r] # f
  BY <1>3 DEF Reading, PendingInv
<1>8. NoReadKeptWaiting' /\ \A r \in waiting' : rfid[r] \in open'
  BY <1>1, <1>5, <1>7, Types DEF PendingInv, NoReadKeptWaiting
<1>9. EveryEventOnce' /\ Untouched'
  BY <1>1, <1>5, Types DEF PendingInv, EveryEventOnce, Untouched
<1>10. Members(<<>>) = {}
  BY DEF Members
<1>11. ReadsLinked'
  BY <1>1, <1>4, <1>10 DEF ReadsLinked
<1> QED BY <1>1, <1>3, <1>6, <1>8, <1>9, <1>11 DEF PendingInv

LEMMA NextInv ==
    ASSUME PendingInv, [Next]_vars
    PROVE  PendingInv'
<1>1. CASE UNCHANGED vars
  BY <1>1 DEF vars, PendingInv, TypeOK, Untouched, EveryEventOnce, NoReadKeptWaiting, ReadsLinked,
                 Nested
<1>2. ASSUME NEW f \in Fids, PushFid(f) \/ Read(f) \/ Clunk(f) PROVE PendingInv'
  BY <1>2, PushFidInv, ReadInv, ClunkInv
<1>3. ASSUME NEW r \in waiting, Flush(r) PROVE PendingInv'
  BY <1>3, FlushInv
<1>4. CASE Write \/ LoopAnswer \/ LoopLink \/ LoopEnd
  BY <1>4, WriteInv, LoopAnswerInv, LoopLinkInv, LoopEndInv
<1> QED BY <1>1, <1>2, <1>3, <1>4 DEF Next, Requests, Loop

LEMMA Invariance == Spec => []PendingInv
BY InitInv, NextInv, PTL DEF Spec

-----------------------------------------------------------------------------
(* The theorems.                                                           *)

\* Every open fid gets everything written since it was opened, once and in
\* order, whatever reads are flushed and whichever fids come and go.
THEOREM EveryEventOnceCorrect == Spec => []EveryEventOnce
<1>1. PendingInv => EveryEventOnce
  BY DEF PendingInv
<1> QED BY <1>1, Invariance, PTL

\* Between calls of the ixp_pending_* functions no read waits on a fid for which
\* data is queued.
THEOREM NoReadKeptWaitingCorrect == Spec => []NoReadKeptWaiting
<1>1. PendingInv => NoReadKeptWaiting
  BY DEF PendingInv
<1> QED BY <1>1, Invariance, PTL

\* Between calls pending->req holds every unanswered read exactly once, and inside
\* ixp_pending_write, too, nothing is linked but unanswered reads of open fids,
\* also when a reply fails there and ixp_cleanupconn flushes and clunks.
THEOREM LinkedOnceCorrect == Spec => []LinkedOnce
<1>1. PendingInv => LinkedOnce
  <2> SUFFICES ASSUME PendingInv PROVE LinkedOnce
    OBVIOUS
  <2>1. CASE ~writing
    <3>1. reqs \in Seq(1 .. MaxReads) /\ Distinct(reqs) /\ Members(reqs) = waiting
      BY <2>1, Types DEF PendingInv, ReadsLinked
    <3>2. Len(reqs) = Cardinality(waiting)
      BY <3>1, DistinctCount
    <3>3. Members(local) = {}
      BY <2>1 DEF PendingInv, ReadsLinked, Members
    <3> QED BY <3>1, <3>2, <3>3 DEF PendingInv, LinkedOnce
  <2>2. CASE writing
    BY <2>2 DEF PendingInv, ReadsLinked, LinkedOnce
  <2> QED BY <2>1, <2>2
<1> QED BY <1>1, Invariance, PTL

-----------------------------------------------------------------------------
(* The hash table.                                                         *)

Entries == [hash : Keys, val : Vals]

InChain(chain) == {chain[i] : i \in 1 .. Len(chain)}

\* The keys of a chain increase strictly, so each occurs once.
Ordered(chain) == \A i, j \in 1 .. Len(chain) : i < j => chain[i].hash < chain[j].hash

\* The inductive invariant: map_getp stops at the first key not below the one
\* it looks for, and looks in one bucket only, so it needs every chain ordered
\* and every entry in the bucket of its key.
ChainsOrdered ==
    /\ bucket \in [0 .. NHash - 1 -> Seq(Entries)]
    /\ \A b \in 0 .. NHash - 1 :
         Ordered(bucket[b]) /\ \A e \in InChain(bucket[b]) : e.hash % NHash = b

\* ValueOf as a function of the chain alone.
ValueIn(chain, k) ==
    LET i == Found(chain, k)
    IN  IF i <= Len(chain) /\ chain[i].hash = k THEN chain[i].val ELSE Nil

-----------------------------------------------------------------------------
(* The search.                                                             *)

\* A chain as a sequence: its length, positions and members.
LEMMA ChainFacts ==
    ASSUME NEW chain \in Seq(Entries)
    PROVE  /\ Len(chain) \in Nat /\ DOMAIN chain = 1 .. Len(chain)
           /\ \A i \in 1 .. Len(chain) : /\ chain[i] \in Entries /\ chain[i] \in InChain(chain)
                                         /\ chain[i].hash \in Nat /\ chain[i].hash \in Keys
                                         /\ chain[i].val \in Vals
<1>1. Len(chain) \in Nat /\ DOMAIN chain = 1 .. Len(chain)
  OBVIOUS
<1>2. \A i \in 1 .. Len(chain) : chain[i] \in Entries
  BY ElementOfSeq
<1> QED BY <1>1, <1>2, MapAssumption DEF Entries, InChain

\* map_getp stops, and where it says.
LEMMA FoundFact ==
    ASSUME NEW chain \in Seq(Entries), NEW k \in Keys
    PROVE  /\ Found(chain, k) \in 1 .. Len(chain) + 1
           /\ Found(chain, k) <= Len(chain) => chain[Found(chain, k)].hash >= k
           /\ \A j \in 1 .. Found(chain, k) - 1 : chain[j].hash < k
<1> DEFINE R == OpToRel(<, Nat)
           S == {i \in 1 .. Len(chain) + 1 : i <= Len(chain) => chain[i].hash >= k}
<1>1. S \subseteq Nat /\ Len(chain) + 1 \in S
  BY ChainFacts
<1>2. \E x \in S : \A y \in S : ~ (<<y, x>> \in R)
  <2>1. IsWellFoundedOn(R, Nat)
    BY NatLessThanWellFounded
  <2> HIDE DEF R, S
  <2> QED BY <1>1, <2>1, WFMin
<1>3. PICK x \in S : \A y \in S : ~ (<<y, x>> \in R)
  BY <1>2
<1>4. ASSUME NEW j \in 1 .. x - 1 PROVE chain[j].hash < k
  <2>1. x \in 1 .. Len(chain) + 1 /\ x \in Nat
    BY <1>1
  <2>2. j \in Nat /\ j < x /\ j \in 1 .. Len(chain)
    BY <2>1, ChainFacts
  <2>3. <<j, x>> \in R
    BY <2>1, <2>2 DEF OpToRel
  <2>4. j \notin S
    <3> HIDE DEF R, S
    <3> QED BY <1>3, <2>3
  <2>5. ~(chain[j].hash >= k)
    BY <2>2, <2>4, ChainFacts
  <2>6. chain[j].hash \in Nat /\ k \in Nat
    BY <2>2, ChainFacts, MapAssumption
  <2> QED BY <2>5, <2>6
<1>5. \E i \in 1 .. Len(chain) + 1 :
        /\ i <= Len(chain) => chain[i].hash >= k
        /\ \A j \in 1 .. i - 1 : chain[j].hash < k
  BY <1>4
<1> QED BY <1>5 DEF Found

\* In an ordered chain the search finds the entry of the key, if there is one.
LEMMA ValueInFact ==
    ASSUME NEW chain \in Seq(Entries), Ordered(chain), NEW k \in Keys
    PROVE  /\ \A e \in InChain(chain) : e.hash = k => ValueIn(chain, k) = e.val
           /\ (\A e \in InChain(chain) : e.hash # k) => ValueIn(chain, k) = Nil
<1> DEFINE f == Found(chain, k)
<1>1. /\ f \in 1 .. Len(chain) + 1
      /\ f <= Len(chain) => chain[f].hash >= k
      /\ \A j \in 1 .. f - 1 : chain[j].hash < k
  BY FoundFact
<1>2. ValueIn(chain, k) = IF f <= Len(chain) /\ chain[f].hash = k THEN chain[f].val ELSE Nil
  BY DEF ValueIn
<1>3. k \in Nat
  BY MapAssumption
<1> HIDE DEF f
<1>4. ASSUME NEW e \in InChain(chain), e.hash = k PROVE ValueIn(chain, k) = e.val
  <2>1. PICK j \in 1 .. Len(chain) : e = chain[j]
    BY DEF InChain
  <2>2. Len(chain) \in Nat /\ j \in Nat /\ f \in Nat /\ chain[j].hash = k
    BY <1>1, <1>4, <2>1, ChainFacts
  <2>3. ~(j < f)
    BY <1>1, <1>3, <2>2
  <2>4. f \in 1 .. Len(chain) /\ chain[f].hash \in Nat
    BY <1>1, <2>1, <2>2, <2>3, ChainFacts
  <2>5. ~(f < j)
    BY <1>1, <1>3, <2>2, <2>4 DEF Ordered
  <2>6. f = j
    BY <2>2, <2>3, <2>5
  <2> QED BY <1>2, <2>1, <2>2, <2>6
<1>5. ASSUME \A e \in InChain(chain) : e.hash # k PROVE ValueIn(chain, k) = Nil
  BY <1>1, <1>2, <1>5, ChainFacts
<1> QED BY <1>4, <1>5

\* What the table holds for a key: the value of its entry, or nothing.
LEMMA ValueOfFact ==
    ASSUME ChainsOrdered, NEW k \in Keys
    PROVE  /\ k % NHash \in 0 .. NHash - 1
           /\ ValueOf(k) = ValueIn(bucket[k % NHash], k)
           /\ Exists(k) <=> \E e \in InChain(bucket[k % NHash]) : e.hash = k
           /\ Exists(k) <=> ValueOf(k) # Nil
<1>1. k % NHash \in 0 .. NHash - 1
  BY MapAssumption
<1>2. ValueOf(k) = ValueIn(bucket[k % NHash], k)
  BY DEF ValueOf, ValueIn, Exists, Chain
<1> DEFINE c == bucket[k % NHash]
<1>3. c \in Seq(Entries) /\ Ordered(c)
  BY <1>1 DEF ChainsOrdered
<1>4. Exists(k) => \E e \in InChain(c) : e.hash = k /\ e.val = ValueOf(k) /\ e.val \in Vals
  <2>1. Found(c, k) \in 1 .. Len(c) + 1
    BY <1>3, FoundFact
  <2>2. ASSUME Exists(k) PROVE Found(c, k) \in 1 .. Len(c) /\ c[Found(c, k)].hash = k
                               /\ ValueOf(k) = c[Found(c, k)].val
    BY <1>3, <2>1, <2>2, ChainFacts DEF Exists, Chain, ValueOf
  <2> HIDE DEF c
  <2> QED BY <1>3, <2>2, ChainFacts
<1>5. ~Exists(k) => ValueOf(k) = Nil
  BY DEF ValueOf
<1>6. (\E e \in InChain(c) : e.hash = k) => ValueOf(k) # Nil
  <2> SUFFICES ASSUME NEW e \in InChain(c), e.hash = k PROVE ValueOf(k) # Nil
    OBVIOUS
  <2>1. ValueIn(c, k) = e.val
    BY <1>3, ValueInFact
  <2>2. e.val \in Vals
    BY <1>3, ChainFacts DEF InChain
  <2> QED BY <1>2, <2>1, <2>2, MapAssumption
<1> QED BY <1>1, <1>2, <1>4, <1>5, <1>6, MapAssumption

\* Chains with the same entries for a key give the same value for it.
LEMMA SameValue ==
    ASSUME NEW c \in Seq(Entries), NEW d \in Seq(Entries), Ordered(c), Ordered(d),
           NEW k \in Keys,
           \A e \in Entries : e.hash = k => (e \in InChain(c) <=> e \in InChain(d))
    PROVE  ValueIn(c, k) = ValueIn(d, k)
<1>1. InChain(c) \subseteq Entries /\ InChain(d) \subseteq Entries
  BY ChainFacts DEF InChain
<1>2. CASE \E e \in InChain(c) : e.hash = k
  BY <1>1, <1>2, ValueInFact
<1>3. CASE \A e \in InChain(c) : e.hash # k
  BY <1>1, <1>3, ValueInFact
<1> QED BY <1>2, <1>3

-----------------------------------------------------------------------------
(* The changes to a chain.                                                 *)

\* The part of a chain in front of a position, and the part from one on.
LEMMA Parts ==
    ASSUME NEW chain \in Seq(Entries), NEW i \in 1 .. Len(chain) + 1
    PROVE  /\ SubSeq(chain, 1, i - 1) \in Seq(Entries) /\ Len(SubSeq(chain, 1, i - 1)) = i - 1
           /\ \A j \in 1 .. i - 1 : SubSeq(chain, 1, i - 1)[j] = chain[j]
           /\ SubSeq(chain, i, Len(chain)) \in Seq(Entries)
           /\ Len(SubSeq(chain, i, Len(chain))) = Len(chain) + 1 - i
           /\ \A j \in 1 .. Len(chain) + 1 - i :
                SubSeq(chain, i, Len(chain))[j] = chain[i + j - 1]
<1>1. Len(chain) \in Nat /\ i \in Nat /\ \A j \in 1 .. Len(chain) : chain[j] \in Entries
  BY ChainFacts
<1> DEFINE a == SubSeq(chain, 1, i - 1)
           b == SubSeq(chain, i, Len(chain))
<1>2. a \in Seq(Entries) /\ Len(a) = i - 1 /\ \A j \in 1 .. i - 1 : a[j] = chain[j]
  <2>1. \A j \in 1 .. i - 1 : chain[j] \in Entries
    BY <1>1
  <2>2. /\ a \in Seq(Entries)
        /\ Len(a) = IF 1 <= i - 1 THEN i - 1 - 1 + 1 ELSE 0
        /\ \A j \in 1 .. i - 1 - 1 + 1 : a[j] = chain[1 + j - 1]
    BY <1>1, <2>1, SubSeqProperties
  <2> HIDE DEF a
  <2>3. i - 1 - 1 + 1 = i - 1 /\ \A j \in 1 .. i - 1 : 1 + j - 1 = j
    BY <1>1
  <2>4. Len(a) = i - 1
    BY <1>1, <2>2
  <2> QED BY <2>2, <2>3, <2>4
<1>3. /\ b \in Seq(Entries) /\ Len(b) = Len(chain) + 1 - i
      /\ \A j \in 1 .. Len(chain) + 1 - i : b[j] = chain[i + j - 1]
  <2>1. \A j \in i .. Len(chain) : chain[j] \in Entries
    BY <1>1
  <2>2. /\ b \in Seq(Entries)
        /\ Len(b) = IF i <= Len(chain) THEN Len(chain) - i + 1 ELSE 0
        /\ \A j \in 1 .. Len(chain) - i + 1 : b[j] = chain[i + j - 1]
    BY <1>1, <2>1, SubSeqProperties
  <2> HIDE DEF b
  <2>3. Len(chain) - i + 1 = Len(chain) + 1 - i
    BY <1>1
  <2>4. Len(b) = Len(chain) + 1 - i
    BY <1>1, <2>2
  <2> QED BY <2>2, <2>3, <2>4
<1> QED BY <1>2, <1>3

\* insert keeps the chain ordered and adds one entry.
LEMMA EnteredFact ==
    ASSUME NEW chain \in Seq(Entries), Ordered(chain), NEW e \in Entries,
           \A x \in InChain(chain) : x.hash # e.hash
    PROVE  LET d == Entered(chain, Found(chain, e.hash), e)
           IN  d \in Seq(Entries) /\ Ordered(d) /\ InChain(d) = InChain(chain) \cup {e}
<1>1. e.hash \in Keys /\ e.hash \in Nat /\ Len(chain) \in Nat
  BY ChainFacts, MapAssumption DEF Entries
<1> DEFINE i == Found(chain, e.hash)
           a == SubSeq(chain, 1, i - 1)
           b == SubSeq(chain, i, Len(chain))
           d == Entered(chain, i, e)
<1>2. /\ i \in 1 .. Len(chain) + 1
      /\ i <= Len(chain) => chain[i].hash >= e.hash
      /\ \A j \in 1 .. i - 1 : chain[j].hash < e.hash
  BY <1>1, FoundFact
<1>3. d = a \o <<e>> \o b
  BY DEF Entered
<1> HIDE DEF i
<1>4. /\ a \in Seq(Entries) /\ Len(a) = i - 1 /\ \A j \in 1 .. i - 1 : a[j] = chain[j]
      /\ b \in Seq(Entries) /\ Len(b) = Len(chain) + 1 - i
      /\ \A j \in 1 .. Len(chain) + 1 - i : b[j] = chain[i + j - 1]
  BY <1>2, Parts
<1> HIDE DEF a, b, d
<1>5. /\ d \in Seq(Entries) /\ Len(d) = Len(chain) + 1
      /\ \A j \in 1 .. i - 1 : d[j] = chain[j]
      /\ d[i] = e
      /\ \A j \in i + 1 .. Len(chain) + 1 : d[j] = chain[j - 1]
  <2> DEFINE ae == a \o <<e>>
  <2>1. /\ ae \in Seq(Entries) /\ Len(ae) = i /\ ae[i] = e
        /\ \A j \in 1 .. i - 1 : ae[j] = chain[j]
    BY <1>1, <1>2, <1>4
  <2>2. d = ae \o b
    BY <1>3
  <2> HIDE DEF ae
  <2>3. /\ d \in Seq(Entries) /\ Len(d) = Len(chain) + 1
        /\ \A j \in 1 .. i : d[j] = ae[j]
        /\ \A j \in i + 1 .. Len(chain) + 1 : d[j] = b[j - i]
    <3>1. /\ d \in Seq(Entries) /\ Len(d) = Len(ae) + Len(b)
          /\ \A j \in 1 .. Len(ae) + Len(b) :
               d[j] = IF j <= Len(ae) THEN ae[j] ELSE b[j - Len(ae)]
      BY <1>4, <2>1, <2>2, ConcatProperties
    <3>2. Len(ae) + Len(b) = Len(chain) + 1 /\ Len(ae) = i
      BY <1>1, <1>2, <1>4, <2>1
    <3>3. \A j \in 1 .. Len(chain) + 1 : d[j] = IF j <= i THEN ae[j] ELSE b[j - i]
      BY <3>1, <3>2
    <3>4. d \in Seq(Entries) /\ Len(d) = Len(chain) + 1
      BY <3>1, <3>2
    <3> QED BY <1>1, <1>2, <3>3, <3>4
  <2>4. ASSUME NEW j \in i + 1 .. Len(chain) + 1 PROVE d[j] = chain[j - 1]
    <3>1. j - i \in 1 .. Len(chain) + 1 - i /\ i + (j - i) - 1 = j - 1
      BY <1>1, <1>2
    <3> QED BY <1>4, <2>3, <3>1
  <2> QED BY <1>2, <2>1, <2>3, <2>4
<1>6. \A j \in 1 .. Len(chain) : chain[j].hash \in Nat /\ chain[j] \in InChain(chain)
                                 /\ chain[j].hash # e.hash
  BY ChainFacts
<1>7. \A j \in i .. Len(chain) : chain[j].hash > e.hash
  <2> TAKE j \in i .. Len(chain)
  <2>1. i \in 1 .. Len(chain) /\ j \in 1 .. Len(chain) /\ (i = j \/ i < j)
    BY <1>1, <1>2
  <2>2. chain[i].hash > e.hash
    BY <1>1, <1>2, <1>6, <2>1
  <2> QED BY <1>1, <1>6, <2>1, <2>2 DEF Ordered
<1>8. Ordered(d)
  <2> SUFFICES ASSUME NEW m \in 1 .. Len(chain) + 1, NEW n \in 1 .. Len(chain) + 1, m < n
               PROVE  d[m].hash < d[n].hash
    BY <1>5 DEF Ordered
  <2>1. CASE n < i
    <3>1. m \in 1 .. i - 1 /\ n \in 1 .. i - 1 /\ m \in 1 .. Len(chain) /\ n \in 1 .. Len(chain)
      BY <1>1, <1>2, <2>1
    <3> QED BY <1>5, <3>1 DEF Ordered
  <2>2. CASE n = i
    BY <1>1, <1>2, <1>5, <2>2
  <2>3. CASE m < i /\ i < n
    <3>1. m \in 1 .. i - 1 /\ n - 1 \in i .. Len(chain) /\ n \in i + 1 .. Len(chain) + 1
      BY <1>1, <1>2, <2>3
    <3>2. m \in 1 .. Len(chain) /\ n - 1 \in 1 .. Len(chain) /\ m < n - 1
      BY <1>1, <1>2, <3>1
    <3>3. chain[m].hash < chain[n - 1].hash
      BY <3>2 DEF Ordered
    <3> QED BY <1>5, <3>1, <3>3
  <2>4. CASE m = i
    <3>1. n - 1 \in i .. Len(chain) /\ n \in i + 1 .. Len(chain) + 1
      BY <1>1, <1>2, <2>4
    <3>2. n - 1 \in 1 .. Len(chain)
      BY <1>2, <3>1
    <3> QED BY <1>1, <1>5, <1>6, <1>7, <2>4, <3>1, <3>2
  <2>5. CASE i < m
    <3>1. /\ m \in i + 1 .. Len(chain) + 1 /\ n \in i + 1 .. Len(chain) + 1
          /\ m - 1 \in 1 .. Len(chain) /\ n - 1 \in 1 .. Len(chain) /\ m - 1 < n - 1
      BY <1>1, <1>2, <2>5
    <3>2. chain[m - 1].hash < chain[n - 1].hash
      BY <3>1 DEF Ordered
    <3> QED BY <1>5, <3>1, <3>2
  <2> QED BY <1>2, <2>1, <2>2, <2>3, <2>4, <2>5
<1>9. InChain(d) = InChain(chain) \cup {e}
  <2>1. ASSUME NEW x \in InChain(d) PROVE x \in InChain(chain) \cup {e}
    <3>1. PICK j \in 1 .. Len(chain) + 1 : x = d[j]
      BY <1>5 DEF InChain
    <3>2. \/ j = i
          \/ (j \in 1 .. i - 1 /\ j \in 1 .. Len(chain))
          \/ (j \in i + 1 .. Len(chain) + 1 /\ j - 1 \in 1 .. Len(chain))
      <4>1. Len(chain) \in Nat /\ i \in Nat /\ j \in Nat /\ i >= 1 /\ i <= Len(chain) + 1
            /\ j >= 1 /\ j <= Len(chain) + 1
        BY <1>1, <1>2
      <4> QED BY <4>1
    <3> QED BY <1>5, <1>6, <3>1, <3>2
  <2>2. ASSUME NEW x \in InChain(chain) PROVE x \in InChain(d)
    <3>1. PICK j \in 1 .. Len(chain) : x = chain[j]
      BY DEF InChain
    <3>2. CASE j < i
      BY <1>1, <1>2, <1>5, <3>1, <3>2 DEF InChain
    <3>3. CASE ~(j < i)
      <4>1. j + 1 \in i + 1 .. Len(chain) + 1 /\ j + 1 \in 1 .. Len(chain) + 1 /\ j + 1 - 1 = j
        BY <1>1, <1>2, <3>3
      <4> QED BY <1>5, <3>1, <4>1 DEF InChain
    <3> QED BY <3>2, <3>3
  <2>3. e \in InChain(d)
    BY <1>2, <1>5 DEF InChain
  <2> QED BY <2>1, <2>2, <2>3
<1> QED BY <1>5, <1>8, <1>9 DEF d, i

\* Overwriting keeps the chain ordered and replaces the entry of the key.
LEMMA ReplacedFact ==
    ASSUME NEW chain \in Seq(Entries), Ordered(chain), NEW e \in Entries,
           NEW i \in 1 .. Len(chain), chain[i].hash = e.hash
    PROVE  LET d == [chain EXCEPT ![i] = e]
           IN  /\ d \in Seq(Entries) /\ Ordered(d) /\ e \in InChain(d)
               /\ \A x \in Entries : x.hash # e.hash => (x \in InChain(d) <=> x \in InChain(chain))
<1> DEFINE d == [chain EXCEPT ![i] = e]
<1>1. /\ d \in Seq(Entries) /\ Len(d) = Len(chain) /\ d[i] = e
      /\ \A j \in 1 .. Len(chain) : j # i => d[j] = chain[j]
  BY ExceptSeq
<1> HIDE DEF d
<1>2. \A j \in 1 .. Len(chain) : d[j].hash = chain[j].hash
  BY <1>1
<1>3. Ordered(d)
  BY <1>1, <1>2 DEF Ordered
<1>4. e \in InChain(d)
  BY <1>1 DEF InChain
<1>5. ASSUME NEW x \in Entries, x.hash # e.hash PROVE x \in InChain(d) <=> x \in InChain(chain)
  BY <1>1, <1>5 DEF InChain
<1> QED BY <1>1, <1>3, <1>4, <1>5 DEF d

\* ixp_maprm takes out the entry of the key and no other.
LEMMA RemovedFact ==
    ASSUME NEW chain \in Seq(Entries), Ordered(chain), NEW i \in 1 .. Len(chain)
    PROVE  LET d == SubSeq(chain, 1, i - 1) \o SubSeq(chain, i + 1, Len(chain))
           IN  /\ d \in Seq(Entries) /\ Ordered(d)
               /\ \A x \in Entries :
                    x \in InChain(d) <=> x \in InChain(chain) /\ x.hash # chain[i].hash
<1> DEFINE a == SubSeq(chain, 1, i - 1)
           b == SubSeq(chain, i + 1, Len(chain))
           d == a \o b
           up(j) == IF j < i THEN j ELSE j + 1
<1>1. Len(chain) \in Nat /\ i \in Nat /\ i + 1 \in 1 .. Len(chain) + 1 /\ i \in 1 .. Len(chain) + 1
  BY ChainFacts
<1>2. /\ a \in Seq(Entries) /\ Len(a) = i - 1 /\ \A j \in 1 .. i - 1 : a[j] = chain[j]
      /\ b \in Seq(Entries) /\ Len(b) = Len(chain) + 1 - (i + 1)
      /\ \A j \in 1 .. Len(chain) + 1 - (i + 1) : b[j] = chain[i + 1 + j - 1]
  BY <1>1, Parts
<1> HIDE DEF a, b
<1>3. /\ d \in Seq(Entries) /\ Len(d) = Len(chain) - 1
      /\ \A j \in 1 .. i - 1 : d[j] = a[j]
      /\ \A j \in i .. Len(chain) - 1 : d[j] = b[j - (i - 1)]
  <2>1. /\ d \in Seq(Entries) /\ Len(d) = Len(a) + Len(b)
        /\ \A j \in 1 .. Len(a) + Len(b) : d[j] = IF j <= Len(a) THEN a[j] ELSE b[j - Len(a)]
    BY <1>2, ConcatProperties
  <2> HIDE DEF d
  <2>2. Len(a) + Len(b) = Len(chain) - 1 /\ Len(a) = i - 1
    BY <1>1, <1>2
  <2>3. \A j \in 1 .. Len(chain) - 1 : d[j] = IF j <= i - 1 THEN a[j] ELSE b[j - (i - 1)]
    BY <2>1, <2>2
  <2>4. d \in Seq(Entries) /\ Len(d) = Len(chain) - 1
    BY <2>1, <2>2
  <2>5. ASSUME NEW j \in 1 .. i - 1 PROVE d[j] = a[j]
    <3>1. j \in 1 .. Len(chain) - 1 /\ j <= i - 1
      BY <1>1
    <3> QED BY <2>3, <3>1
  <2>6. ASSUME NEW j \in i .. Len(chain) - 1 PROVE d[j] = b[j - (i - 1)]
    <3>1. j \in 1 .. Len(chain) - 1 /\ ~(j <= i - 1)
      BY <1>1
    <3> QED BY <2>3, <3>1
  <2> QED BY <2>4, <2>5, <2>6
<1>4. ASSUME NEW j \in 1 .. Len(chain) - 1
      PROVE  d[j] = chain[up(j)] /\ up(j) \in 1 .. Len(chain) /\ up(j) # i
  <2>1. CASE j < i
    BY <1>1, <1>2, <1>3, <2>1
  <2>2. CASE ~(j < i)
    <3>1. /\ j - (i - 1) \in 1 .. Len(chain) + 1 - (i + 1)
          /\ i + 1 + (j - (i - 1)) - 1 = j + 1
      BY <1>1, <2>2
    <3>2. j \in i .. Len(chain) - 1 /\ up(j) = j + 1 /\ j + 1 \in 1 .. Len(chain) /\ j + 1 # i
      BY <1>1, <2>2
    <3>3. d[j] = b[j - (i - 1)]
      BY <1>3, <3>2
    <3>4. b[j - (i - 1)] = chain[j + 1]
      BY <1>2, <3>1
    <3> QED BY <3>2, <3>3, <3>4
  <2> QED BY <2>1, <2>2
<1> HIDE DEF d
<1>5. Ordered(d)
  <2> SUFFICES ASSUME NEW m \in 1 .. Len(chain) - 1, NEW n \in 1 .. Len(chain) - 1, m < n
               PROVE  d[m].hash < d[n].hash
    BY <1>3 DEF Ordered
  <2>1. up(m) < up(n)
    BY <1>1
  <2> HIDE DEF up
  <2> QED BY <1>4, <2>1 DEF Ordered
<1>6. ASSUME NEW x \in Entries
      PROVE  x \in InChain(d) <=> x \in InChain(chain) /\ x.hash # chain[i].hash
  <2>1. ASSUME NEW m \in 1 .. Len(chain), NEW n \in 1 .. Len(chain), m # n
        PROVE  chain[m].hash # chain[n].hash
    <3>1. chain[m].hash \in Nat /\ chain[n].hash \in Nat /\ (m < n \/ n < m)
      BY <1>1, <2>1, ChainFacts
    <3> QED BY <3>1 DEF Ordered
  <2>2. ASSUME x \in InChain(d) PROVE x \in InChain(chain) /\ x.hash # chain[i].hash
    <3>1. PICK j \in 1 .. Len(chain) - 1 : x = d[j]
      BY <1>3, <2>2 DEF InChain
    <3> HIDE DEF up
    <3> QED BY <1>4, <2>1, <3>1 DEF InChain
  <2>3. ASSUME x \in InChain(chain), x.hash # chain[i].hash PROVE x \in InChain(d)
    <3>1. PICK j \in 1 .. Len(chain) : x = chain[j] /\ j # i
      BY <2>3 DEF InChain
    <3>2. CASE j < i
      <4>1. j \in 1 .. Len(chain) - 1 /\ up(j) = j
        BY <1>1, <3>2
      <4> HIDE DEF up
      <4> QED BY <1>3, <1>4, <3>1, <4>1 DEF InChain
    <3>3. CASE i < j
      <4>1. j - 1 \in 1 .. Len(chain) - 1 /\ up(j - 1) = j
        BY <1>1, <3>3
      <4> HIDE DEF up
      <4> QED BY <1>3, <1>4, <3>1, <4>1 DEF InChain
    <3> QED BY <1>1, <3>1, <3>2, <3>3
  <2> QED BY <2>2, <2>3
<1> QED BY <1>3, <1>5, <1>6 DEF d, a, b

-----------------------------------------------------------------------------
(* The operations.                                                         *)

\* An operation on one chain: the invariant is kept, and no other key changes,
\* those that collide with this one included.
LEMMA OneChain ==
    ASSUME ChainsOrdered, NEW k \in Keys, NEW d \in Seq(Entries), Ordered(d),
           bucket' = [bucket EXCEPT ![k % NHash] = d],
           \A e \in Entries : e.hash # k =>
                (e \in InChain(d) <=> e \in InChain(bucket[k % NHash]))
    PROVE  /\ ChainsOrdered'
           /\ ValueOf(k)' = ValueIn(d, k)
           /\ \A j \in Keys \ {k} : ValueOf(j)' = ValueOf(j)
<1> DEFINE h == k % NHash
<1>1. h \in 0 .. NHash - 1 /\ \A j \in Keys : j % NHash \in 0 .. NHash - 1
  BY MapAssumption
<1>2. /\ bucket' \in [0 .. NHash - 1 -> Seq(Entries)] /\ bucket'[h] = d
      /\ \A b \in 0 .. NHash - 1 : b # h => bucket'[b] = bucket[b]
  BY <1>1 DEF ChainsOrdered
<1>3. \A e \in InChain(d) : e \in Entries
  BY ChainFacts DEF InChain
<1> HIDE DEF h
<1>4. \A e \in InChain(d) : e.hash % NHash = h
  <2> TAKE e \in InChain(d)
  <2>1. CASE e.hash = k
    BY <2>1 DEF h
  <2>2. CASE e.hash # k
    <3>1. e \in InChain(bucket[h])
      BY <1>3, <2>2 DEF h
    <3> QED BY <1>1, <3>1 DEF ChainsOrdered
  <2> QED BY <2>1, <2>2
<1>5. ChainsOrdered'
  BY <1>1, <1>2, <1>4 DEF ChainsOrdered
<1>6. ValueOf(k)' = ValueIn(d, k)
  BY <1>2 DEF ValueOf, ValueIn, Exists, Chain, h
<1>7. ASSUME NEW j \in Keys \ {k} PROVE ValueOf(j)' = ValueOf(j)
  <2>1. /\ ValueOf(j)' = ValueIn(bucket'[j % NHash], j)
        /\ ValueOf(j) = ValueIn(bucket[j % NHash], j)
    BY DEF ValueOf, ValueIn, Exists, Chain
  <2>2. CASE j % NHash # h
    BY <1>1, <1>2, <2>1, <2>2
  <2>3. CASE j % NHash = h
    <3>1. bucket[h] \in Seq(Entries) /\ Ordered(bucket[h])
      BY <1>1 DEF ChainsOrdered
    <3>2. \A e \in Entries : e.hash = j => (e \in InChain(d) <=> e \in InChain(bucket[h]))
      BY <1>7 DEF h
    <3>3. ValueIn(d, j) = ValueIn(bucket[h], j)
      BY <1>7, <3>1, <3>2, SameValue
    <3> QED BY <1>2, <2>1, <2>3, <3>3
  <2> QED BY <2>2, <2>3
<1> QED BY <1>5, <1>6, <1>7

\* The abstract map of a table.
LEMMA AbstractVal ==
    ASSUME NEW k \in Keys, NEW v, ValueOf(k)' = v,
           \A j \in Keys \ {k} : ValueOf(j)' = ValueOf(j)
    PROVE  [j \in Keys |-> ValueOf(j)]' = [[j \in Keys |-> ValueOf(j)] EXCEPT ![k] = v]
OBVIOUS

\* ixp_mapinsert.
LEMMA InsertStep ==
    ASSUME ChainsOrdered, NEW k \in Keys, NEW v \in Vals, NEW overwrite \in BOOLEAN,
           MapInsert(k, v, overwrite)
    PROVE  ChainsOrdered' /\ Abstract!Insert(k, v, overwrite)
<1> DEFINE h == k % NHash
           c == bucket[h]
           i == Found(c, k)
           e == [hash |-> k, val |-> v]
<1>1. /\ h \in 0 .. NHash - 1
      /\ Exists(k) <=> \E x \in InChain(c) : x.hash = k
      /\ Exists(k) <=> ValueOf(k) # Nil
  BY ValueOfFact
<1>2. c \in Seq(Entries) /\ Ordered(c) /\ e \in Entries /\ e.hash = k /\ e.val = v
  BY <1>1 DEF ChainsOrdered, Entries
<1>3. CASE ~Exists(k)
  <2> DEFINE d == Entered(c, i, e)
  <2>1. bucket' = [bucket EXCEPT ![h] = d] /\ res' = <<"insert", TRUE>>
    BY <1>1, <1>3 DEF MapInsert, Chain, ChainsOrdered
  <2>2. d \in Seq(Entries) /\ Ordered(d) /\ InChain(d) = InChain(c) \cup {e}
    <3> HIDE DEF c, e
    <3> QED BY <1>1, <1>2, <1>3, EnteredFact
  <2> HIDE DEF c, d, i, e
  <2>3. \A x \in Entries : x.hash # k => (x \in InChain(d) <=> x \in InChain(bucket[k % NHash]))
    BY <1>2, <2>2 DEF c
  <2>4. ValueIn(d, k) = v
    BY <1>2, <2>2, ValueInFact
  <2>5. /\ ChainsOrdered' /\ ValueOf(k)' = v
        /\ \A j \in Keys \ {k} : ValueOf(j)' = ValueOf(j)
    BY <2>1, <2>2, <2>3, <2>4, OneChain
  <2>6. [j \in Keys |-> ValueOf(j)]' = [[j \in Keys |-> ValueOf(j)] EXCEPT ![k] = v]
    BY <2>5, AbstractVal
  <2> QED BY <1>1, <1>3, <2>1, <2>5, <2>6 DEF Abstract!Insert
<1>4. CASE Exists(k) /\ overwrite
  <2> DEFINE d == [c EXCEPT ![i] = e]
  <2>1. bucket' = [bucket EXCEPT ![h] = d] /\ res' = <<"insert", TRUE>>
    BY <1>1, <1>4 DEF MapInsert, Chain, ChainsOrdered
  <2>2. i \in 1 .. Len(c) /\ c[i].hash = k
    <3>1. i \in 1 .. Len(c) + 1
      BY <1>2, FoundFact
    <3> QED BY <1>2, <1>4, <3>1, ChainFacts DEF Exists, Chain
  <2>3. /\ d \in Seq(Entries) /\ Ordered(d) /\ e \in InChain(d)
        /\ \A x \in Entries : x.hash # e.hash => (x \in InChain(d) <=> x \in InChain(c))
    <3> HIDE DEF c, e, i
    <3> QED BY <1>2, <2>2, ReplacedFact
  <2> HIDE DEF c, d, i, e
  <2>4. ValueIn(d, k) = v
    BY <1>2, <2>3, ValueInFact
  <2>5. \A x \in Entries : x.hash # k => (x \in InChain(d) <=> x \in InChain(bucket[k % NHash]))
    BY <1>2, <2>3 DEF c
  <2>6. /\ ChainsOrdered' /\ ValueOf(k)' = v
        /\ \A j \in Keys \ {k} : ValueOf(j)' = ValueOf(j)
    BY <2>1, <2>3, <2>4, <2>5, OneChain
  <2>7. [j \in Keys |-> ValueOf(j)]' = [[j \in Keys |-> ValueOf(j)] EXCEPT ![k] = v]
    BY <2>6, AbstractVal
  <2> QED BY <1>1, <1>4, <2>1, <2>6, <2>7 DEF Abstract!Insert
<1>5. CASE Exists(k) /\ ~overwrite
  <2>1. UNCHANGED bucket /\ res' = <<"insert", FALSE>>
    BY <1>5 DEF MapInsert
  <2>2. [j \in Keys |-> ValueOf(j)]' = [j \in Keys |-> ValueOf(j)] /\ ChainsOrdered'
    BY <2>1 DEF ValueOf, Exists, Chain, ChainsOrdered
  <2> QED BY <1>1, <1>5, <2>1, <2>2 DEF Abstract!Insert
<1> QED BY <1>3, <1>4, <1>5

\* ixp_maprm.
LEMMA RmStep ==
    ASSUME ChainsOrdered, NEW k \in Keys, MapRm(k)
    PROVE  ChainsOrdered' /\ Abstract!Remove(k)
<1> DEFINE h == k % NHash
           c == bucket[h]
           i == Found(c, k)
<1>1. /\ h \in 0 .. NHash - 1
      /\ Exists(k) <=> ValueOf(k) # Nil
  BY ValueOfFact
<1>2. c \in Seq(Entries) /\ Ordered(c) /\ res' = <<"value", ValueOf(k)>>
  BY <1>1 DEF ChainsOrdered, MapRm
<1>3. CASE Exists(k)
  <2> DEFINE d == SubSeq(c, 1, i - 1) \o SubSeq(c, i + 1, Len(c))
  <2>1. bucket' = [bucket EXCEPT ![h] = d]
    BY <1>1, <1>3 DEF MapRm, Chain, ChainsOrdered
  <2>2. i \in 1 .. Len(c) /\ c[i].hash = k
    <3>1. i \in 1 .. Len(c) + 1
      BY <1>2, FoundFact
    <3> QED BY <1>2, <1>3, <3>1, ChainFacts DEF Exists, Chain
  <2>3. /\ d \in Seq(Entries) /\ Ordered(d)
        /\ \A x \in Entries : x \in InChain(d) <=> x \in InChain(c) /\ x.hash # c[i].hash
    <3> HIDE DEF c, i
    <3> QED BY <1>2, <2>2, RemovedFact
  <2> HIDE DEF c, d, i
  <2>4. ValueIn(d, k) = Nil
    <3>1. InChain(d) \subseteq Entries
      BY <2>3, ChainFacts DEF InChain
    <3> QED BY <2>2, <2>3, <3>1, ValueInFact
  <2>5. \A x \in Entries : x.hash # k => (x \in InChain(d) <=> x \in InChain(bucket[k % NHash]))
    BY <2>2, <2>3 DEF c
  <2>6. /\ ChainsOrdered' /\ ValueOf(k)' = Nil
        /\ \A j \in Keys \ {k} : ValueOf(j)' = ValueOf(j)
    BY <2>1, <2>3, <2>4, <2>5, OneChain
  <2>7. [j \in Keys |-> ValueOf(j)]' = [[j \in Keys |-> ValueOf(j)] EXCEPT ![k] = Nil]
    BY <2>6, AbstractVal
  <2> QED BY <1>2, <2>6, <2>7 DEF Abstract!Remove
<1>4. CASE ~Exists(k)
  <2>1. UNCHANGED bucket
    BY <1>4 DEF MapRm
  <2>2. [j \in Keys |-> ValueOf(j)]' = [j \in Keys |-> ValueOf(j)] /\ ChainsOrdered'
    BY <2>1 DEF ValueOf, Exists, Chain, ChainsOrdered
  <2>3. [j \in Keys |-> ValueOf(j)]' = [[j \in Keys |-> ValueOf(j)] EXCEPT ![k] = Nil]
    BY <1>1, <1>4, <2>2
  <2> QED BY <1>2, <2>2, <2>3 DEF Abstract!Remove
<1> QED BY <1>3, <1>4

\* ixp_mapexec.
LEMMA ExecStep ==
    ASSUME ChainsOrdered, MapExec
    PROVE  ChainsOrdered' /\ Abstract!Exec
<1> DEFINE pairs(chain) == {<<chain[j].hash, chain[j].val>> : j \in DOMAIN chain}
           all == UNION {pairs(bucket[i]) : i \in DOMAIN bucket}
           held == {<<k, ValueOf(k)>> : k \in {j \in Keys : ValueOf(j) # Nil}}
<1>1. UNCHANGED bucket /\ res' = <<"all", all>>
  BY DEF MapExec
<1>2. ASSUME NEW x \in all PROVE x \in held
  <2>1. PICK b \in 0 .. NHash - 1 : x \in pairs(bucket[b])
    BY DEF ChainsOrdered
  <2>2. bucket[b] \in Seq(Entries) /\ Ordered(bucket[b])
    BY DEF ChainsOrdered
  <2>3. PICK j \in 1 .. Len(bucket[b]) : x = <<bucket[b][j].hash, bucket[b][j].val>>
    BY <2>1, <2>2, ChainFacts
  <2> DEFINE e == bucket[b][j]
  <2>4. e \in InChain(bucket[b]) /\ e.hash \in Keys /\ e.val \in Vals
    BY <2>2, ChainFacts
  <2>5. e.hash % NHash = b
    BY <2>4 DEF ChainsOrdered
  <2>6. ValueOf(e.hash) = e.val
    <3> HIDE DEF e
    <3>1. ValueIn(bucket[b], e.hash) = e.val
      BY <2>2, <2>4, ValueInFact
    <3>2. ValueOf(e.hash) = ValueIn(bucket[e.hash % NHash], e.hash)
      BY <2>4, ValueOfFact
    <3> QED BY <2>5, <3>1, <3>2
  <2> HIDE DEF e
  <2>7. x = <<e.hash, ValueOf(e.hash)>> /\ ValueOf(e.hash) # Nil
    BY <2>3, <2>4, <2>6, MapAssumption DEF e
  <2> QED BY <2>4, <2>7
<1>3. ASSUME NEW x \in held PROVE x \in all
  <2>1. PICK k \in Keys : x = <<k, ValueOf(k)>> /\ ValueOf(k) # Nil
    OBVIOUS
  <2> DEFINE c == bucket[k % NHash]
  <2>2. /\ k % NHash \in 0 .. NHash - 1 /\ ValueOf(k) = ValueIn(c, k)
        /\ \E e \in InChain(c) : e.hash = k
    BY <2>1, ValueOfFact
  <2>3. c \in Seq(Entries) /\ Ordered(c)
    BY <2>2 DEF ChainsOrdered
  <2>4. PICK j \in 1 .. Len(c) : c[j].hash = k
    BY <2>2 DEF InChain
  <2>5. c[j] \in InChain(c)
    BY <2>3, ChainFacts
  <2>6. ValueOf(k) = c[j].val
    <3> HIDE DEF c
    <3> QED BY <2>2, <2>3, <2>4, <2>5, ValueInFact
  <2>7. x \in pairs(c)
    <3>1. j \in DOMAIN c
      BY <2>3
    <3> QED BY <2>1, <2>4, <2>6, <3>1
  <2>8. k % NHash \in DOMAIN bucket
    BY <2>2 DEF ChainsOrdered
  <2> QED BY <2>7, <2>8
<1>4. all = held
  BY <1>2, <1>3
<1>5. [j \in Keys |-> ValueOf(j)]' = [j \in Keys |-> ValueOf(j)] /\ ChainsOrdered'
  BY <1>1 DEF ValueOf, Exists, Chain, ChainsOrdered
<1>6. held = {<<k, [j \in Keys |-> ValueOf(j)][k]>> :
                k \in {j \in Keys : [i \in Keys |-> ValueOf(i)][j] # Nil}}
  OBVIOUS
<1> HIDE DEF all, held
<1> QED BY <1>1, <1>4, <1>5, <1>6 DEF Abstract!Exec

\* An empty table: ixp_mapinit, ixp_mapfree.
LEMMA EmptyTable ==
    ASSUME bucket = [i \in 0 .. NHash - 1 |-> <<>>]
    PROVE  ChainsOrdered /\ [k \in Keys |-> ValueOf(k)] = [k \in Keys |-> Nil]
<1>1. ChainsOrdered
  BY DEF ChainsOrdered, Ordered, InChain
<1>2. ASSUME NEW k \in Keys PROVE ValueOf(k) = Nil
  <2>1. k % NHash \in 0 .. NHash - 1
    BY MapAssumption
  <2>2. ~ \E e \in InChain(bucket[k % NHash]) : e.hash = k
    BY <2>1 DEF InChain
  <2> QED BY <1>1, <2>2, ValueOfFact
<1> QED BY <1>1, <1>2

-----------------------------------------------------------------------------
(* The theorems.                                                           *)

\* Chains stay ordered and entries in their buckets, whatever is inserted,
\* overwritten and removed.
THEOREM ChainsOrderedCorrect == MapSpec => []ChainsOrdered
<1>1. MapInit => ChainsOrdered
  BY EmptyTable DEF MapInit
<1>2. ChainsOrdered /\ [MapNext]_mapvars => ChainsOrdered'
  <2> SUFFICES ASSUME ChainsOrdered, [MapNext]_mapvars PROVE ChainsOrdered'
    OBVIOUS
  <2>1. CASE MapFree
    BY <2>1 DEF MapFree, ChainsOrdered, Ordered, InChain
  <2>2. CASE UNCHANGED mapvars \/ \E k \in Keys : MapGet(k)
    BY <2>2 DEF mapvars, MapGet, ChainsOrdered
  <2> QED BY <2>1, <2>2, InsertStep, RmStep, ExecStep DEF MapNext
<1> QED BY <1>1, <1>2, PTL DEF MapSpec

\* The hash table implements the partial function that request.c takes it for:
\* every operation returns and changes what KeyMap says, whichever keys share a
\* bucket and in whichever order they come and go.
THEOREM KeyMapImplemented == MapSpec => ImplementsKeyMap
<1>1. MapInit => Abstract!Init
  BY EmptyTable DEF MapInit, Abstract!Init
<1>2. ChainsOrdered /\ [MapNext]_mapvars => [Abstract!Next]_(Abstract!vars)
  <2> SUFFICES ASSUME ChainsOrdered, [MapNext]_mapvars PROVE [Abstract!Next]_(Abstract!vars)
    OBVIOUS
  <2>1. CASE UNCHANGED mapvars
    BY <2>1 DEF mapvars, Abstract!vars, ValueOf, Exists, Chain
  <2>2. CASE MapNext
    <3>1. res # <<"freed">>
      BY <2>2 DEF MapNext
    <3>2. ASSUME NEW k \in Keys, MapGet(k) PROVE Abstract!Get(k)
      BY <3>2 DEF MapGet, Abstract!Get, ValueOf, Exists, Chain
    <3>3. ASSUME MapFree PROVE Abstract!Clear
      <4>1. ASSUME NEW k \in Keys PROVE ValueOf(k)' = Nil
        <5>1. k % NHash \in 0 .. NHash - 1
          BY MapAssumption
        <5>2. bucket'[k % NHash] = <<>>
          BY <3>3, <5>1 DEF MapFree
        <5>3. ValueOf(k)' = ValueIn(<<>>, k)
          BY <5>2 DEF ValueOf, ValueIn, Exists, Chain
        <5>4. <<>> \in Seq(Entries) /\ Ordered(<<>>) /\ InChain(<<>>) = {}
          BY DEF Ordered, InChain
        <5> QED BY <5>3, <5>4, ValueInFact
      <4> QED BY <3>3, <4>1 DEF MapFree, Abstract!Clear
    <3> QED
      BY <2>2, <3>1, <3>2, <3>3, InsertStep, RmStep, ExecStep DEF MapNext, Abstract!Next
  <2> QED BY <2>1, <2>2
<1> QED BY <1>1, <1>2, ChainsOrderedCorrect, PTL DEF MapSpec, ImplementsKeyMap, Abstract!Spec
=============================================================================
