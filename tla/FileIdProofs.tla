---------------------------- MODULE FileIdProofs ----------------------------
(***************************************************************************)
(* Theorems about the IxpFileIds of lib/libixp/srv_util.c, for any number  *)
(* of fids, any tree of files and any walks.                               *)
(*                                                                         *)
(* FilesCounted is not inductive: in the middle of a handler a walk or a   *)
(* listing holds a chain too, and from the counts alone nothing says that  *)
(* next leads to an end.  The invariant, Fine, says that there is an H     *)
(* which gives every holder a chain: linked by next to its end, none of    *)
(* its elements met twice (Linked), counted once for every holder          *)
(* (Counted), and, for a fid, made of the directories on the way to its    *)
(* file (Along).  Each operation on the memory is a lemma about H: Push    *)
(* and Pop for ixp_srv_getfile and ixp_srv_freefile at the front of a      *)
(* chain, CountAllFacts for the counting of a shared end, Transfer for a   *)
(* chain that changes hands.  The loops over names, chains and children    *)
(* are followed by induction on the number of their iterations, for which  *)
(* a set of numbers does (Induction).                                      *)
(***************************************************************************)
EXTENDS FileId, SequenceTheorems, FiniteSetTheorems, FunctionTheorems, WellFoundedInduction, TLAPS

-----------------------------------------------------------------------------
(* Numbers.                                                                *)

\* A set of numbers has a least one.
LEMMA LeastNumber ==
    ASSUME NEW S, S \subseteq Nat, S # {}
    PROVE  \E x \in S : \A y \in S : x <= y
<1> DEFINE R == OpToRel(<, Nat)
<1>1. \E x \in S : \A y \in S : ~ (<<y, x>> \in R)
  <2>1. IsWellFoundedOn(R, Nat)
    BY NatLessThanWellFounded
  <2> HIDE DEF R
  <2> QED BY <2>1, WFMin
<1>2. PICK x \in S : \A y \in S : ~ (<<y, x>> \in R)
  BY <1>1
<1>3. \A y \in S : x <= y
  <2> TAKE y \in S
  <2>1. x \in Nat /\ y \in Nat
    OBVIOUS
  <2>2. y < x => <<y, x>> \in R
    BY <2>1 DEF OpToRel
  <2> HIDE DEF R
  <2>3. ~(y < x)
    BY <1>2, <2>2
  <2> QED BY <2>1, <2>3
<1> QED BY <1>3

\* Induction up to n, with a set for what holds of a number.
LEMMA Induction ==
    ASSUME NEW n \in Nat, NEW S, 0 \in S, \A k \in 0 .. n - 1 : k \in S => k + 1 \in S
    PROVE  n \in S
<1> DEFINE T == {k \in 0 .. n : k \notin S}
<1> SUFFICES T = {}
  OBVIOUS
<1> SUFFICES ASSUME T # {} PROVE FALSE
  OBVIOUS
<1>1. PICK x \in T : \A y \in T : x <= y
  <2>1. T \subseteq Nat
    OBVIOUS
  <2> HIDE DEF T
  <2> QED BY <2>1, LeastNumber
<1>2. x \in 0 .. n /\ x \notin S /\ x # 0
  OBVIOUS
<1>3. x - 1 \in 0 .. n - 1 /\ x - 1 \in 0 .. n /\ (x - 1) + 1 = x /\ ~(x <= x - 1)
  BY <1>2
<1>4. x - 1 \in S
  BY <1>1, <1>3
<1> QED BY <1>2, <1>3, <1>4

-----------------------------------------------------------------------------
(* The memory.                                                             *)

\* An IxpFileId; one that is not there is as good as an empty one.
Cell == [next : Nat \cup {Nil}, nref : Nat, file : Paths, p : 0 .. MaxP]

At(m, i) == IF i \in DOMAIN m.heap THEN m.heap[i] ELSE Empty

\* The memory between two operations: the free ones are those with no references.
Pool(m) ==
    /\ m \in [heap : Seq(Cell), free : SUBSET Nat, lost : SUBSET Nat]
    /\ m.lost \subseteq DOMAIN m.heap
    /\ \A i \in DOMAIN m.heap :
        /\ m.heap[i].next \in DOMAIN m.heap \cup {Nil}
        /\ m.heap[i].nref = 0 => m.heap[i] = Empty
    /\ m.free = {i \in DOMAIN m.heap : m.heap[i].nref = 0}

\* A free IxpFileId.
LEMMA EmptyFacts ==
    /\ Empty \in Cell /\ Empty.nref = 0 /\ Empty.next = Nil
    /\ Nil \notin Nat
BY FileIdAssumption DEF Empty, Cell

\* What the types say of every IxpFileId.
LEMMA PoolFacts ==
    ASSUME NEW m, Pool(m)
    PROVE  /\ Len(m.heap) \in Nat /\ DOMAIN m.heap = 1 .. Len(m.heap)
           /\ \A i \in DOMAIN m.heap : m.heap[i] \in Cell /\ i \in Nat /\ i \in 1 .. Len(m.heap)
           /\ \A i : At(m, i) \in Cell /\ (At(m, i).nref # 0 => i \in DOMAIN m.heap)
           /\ \A i : At(m, i).nref = 0 => At(m, i) = Empty
           /\ \A i \in DOMAIN m.heap : At(m, i) = m.heap[i]
<1>1. m.heap \in Seq(Cell)
  BY DEF Pool
<1>2. Len(m.heap) \in Nat /\ DOMAIN m.heap = 1 .. Len(m.heap)
  BY <1>1, LenProperties
<1>3. \A i \in DOMAIN m.heap : m.heap[i] \in Cell
  BY <1>1, <1>2, ElementOfSeq
<1> QED BY <1>2, <1>3, EmptyFacts DEF At, Pool

\* ixp_srv_getfile has one to hand out, and its chunk changes nothing else.
LEMMA SupplyFacts ==
    ASSUME NEW m, Pool(m)
    PROVE  /\ Pool(Supply(m)) /\ Supply(m).free # {} /\ Supply(m).lost = m.lost
           /\ DOMAIN m.heap \subseteq DOMAIN Supply(m).heap
           /\ \A i : At(Supply(m), i) = At(m, i)
<1>1. CASE m.free # {}
  BY <1>1 DEF Supply
<1>2. CASE m.free = {}
  <2> DEFINE chunk == [i \in 1 .. PoolChunk |-> Empty]
             h == m.heap \o chunk
             n == Len(m.heap)
             new == n + 1 .. n + PoolChunk
             s == Supply(m)
  <2>1. /\ PoolChunk \in Nat /\ PoolChunk >= 1 /\ n \in Nat /\ DOMAIN m.heap = 1 .. n
        /\ m.heap \in Seq(Cell)
    BY PoolFacts, FileIdAssumption DEF Pool
  <2>2. chunk \in Seq(Cell) /\ Len(chunk) = PoolChunk /\ \A i \in 1 .. PoolChunk : chunk[i] = Empty
    <3>1. chunk \in [1 .. PoolChunk -> Cell]
      BY EmptyFacts
    <3> QED BY <2>1, <3>1
  <2> HIDE DEF chunk
  <2>3. /\ h \in Seq(Cell) /\ DOMAIN h = 1 .. n + PoolChunk
        /\ \A i \in 1 .. n : h[i] = m.heap[i]
        /\ \A i \in new : h[i] = Empty
    <3>1. /\ h \in Seq(Cell) /\ Len(h) = n + PoolChunk
          /\ \A i \in 1 .. n + PoolChunk : h[i] = IF i <= n THEN m.heap[i] ELSE chunk[i - n]
      BY <2>1, <2>2, ConcatProperties
    <3>2. DOMAIN h = 1 .. n + PoolChunk
      BY <3>1, LenProperties
    <3> HIDE DEF h
    <3>3. ASSUME NEW i \in new PROVE h[i] = Empty
      <4>1. i \in 1 .. n + PoolChunk /\ ~(i <= n) /\ i - n \in 1 .. PoolChunk
        BY <2>1
      <4> QED BY <2>2, <3>1, <4>1
    <3> QED BY <2>1, <3>1, <3>2, <3>3
  <2>4. s = [heap |-> h, free |-> new, lost |-> m.lost]
    <3>1. m = [heap |-> m.heap, free |-> m.free, lost |-> m.lost]
      BY DEF Pool
    <3> QED BY <1>2, <3>1 DEF Supply, chunk
  <2> HIDE DEF h, s
  <2>5. DOMAIN m.heap \subseteq DOMAIN h /\ \A i \in DOMAIN h : i \in 1 .. n \/ i \in new
    BY <2>1, <2>3
  <2>6. new # {} /\ new \subseteq DOMAIN h /\ new \in SUBSET Nat
    BY <2>1, <2>3
  <2>7. \A i \in 1 .. n : m.heap[i].nref # 0
    BY <1>2, <2>1 DEF Pool
  <2>8. s.free = {i \in DOMAIN s.heap : s.heap[i].nref = 0}
    <3>1. ASSUME NEW i \in DOMAIN h PROVE h[i].nref = 0 <=> i \in new
      <4>1. i \in 1 .. n => i \notin new
        BY <2>1
      <4> QED BY <2>3, <2>5, <2>7, <4>1, EmptyFacts
    <3> QED BY <2>4, <2>6, <3>1
  <2>9. \A i \in DOMAIN h : /\ h[i].next \in DOMAIN h \cup {Nil}
                            /\ h[i].nref = 0 => h[i] = Empty
    <3>1. ASSUME NEW i \in 1 .. n PROVE h[i].next \in DOMAIN h \cup {Nil} /\ h[i].nref # 0
      BY <2>1, <2>3, <2>5, <2>7 DEF Pool
    <3> QED BY <2>3, <2>5, <3>1, EmptyFacts
  <2>10. Pool(s)
    <3>1. m.lost \in SUBSET Nat /\ m.lost \subseteq DOMAIN h
      BY <2>5 DEF Pool
    <3>2. s.heap = h /\ s.free = new /\ s.lost = m.lost
      BY <2>4
    <3>3. s \in [heap : Seq(Cell), free : SUBSET Nat, lost : SUBSET Nat]
      BY <2>3, <2>4, <2>6, <3>1
    <3> QED BY <2>8, <2>9, <3>1, <3>2, <3>3 DEF Pool
  <2>11. \A i : At(s, i) = At(m, i)
    BY <2>1, <2>3, <2>4, <2>5 DEF At
  <2> QED BY <2>4, <2>5, <2>6, <2>10, <2>11 DEF s
<1> QED BY <1>1, <1>2

\* The one handed out had no references; everything else stays.
LEMMA GetFileFacts ==
    ASSUME NEW m, Pool(m), NEW next \in DOMAIN m.heap \cup {Nil},
           NEW file \in Paths, NEW p \in 0 .. MaxP
    PROVE  LET s == GetFile(m, next, file, p)
               id == NewFile(m)
           IN  /\ Pool(s) /\ s.lost = m.lost
               /\ DOMAIN m.heap \subseteq DOMAIN s.heap
               /\ id \in DOMAIN s.heap /\ id \in Nat /\ At(m, id) = Empty
               /\ At(s, id) = [next |-> next, nref |-> 1, file |-> file, p |-> p]
               /\ \A i : i # id => At(s, i) = At(m, i)
<1> DEFINE u == Supply(m)
           id == NewFile(m)
           new == [next |-> next, nref |-> 1, file |-> file, p |-> p]
           s == GetFile(m, next, file, p)
           h == [u.heap EXCEPT ![id] = new]
<1>1. /\ Pool(u) /\ u.free # {} /\ u.lost = m.lost
      /\ DOMAIN m.heap \subseteq DOMAIN u.heap
      /\ \A i : At(u, i) = At(m, i)
  BY SupplyFacts
<1>2. id \in u.free
  <2>1. u.free \subseteq Nat
    BY <1>1 DEF Pool
  <2>2. \E x \in u.free : \A y \in u.free : x <= y
    BY <1>1, <2>1, LeastNumber
  <2> QED BY <2>2 DEF NewFile, Min
<1>3. s = [u EXCEPT !.heap[id] = new, !.free = @ \ {id}]
  BY DEF GetFile
<1>4. s = [heap |-> h, free |-> u.free \ {id}, lost |-> u.lost]
  <2>1. u = [heap |-> u.heap, free |-> u.free, lost |-> u.lost]
    BY <1>1 DEF Pool
  <2> HIDE DEF u, id, new
  <2> QED BY <1>3, <2>1
<1> HIDE DEF u, id, s
<1>5. id \in DOMAIN u.heap /\ id \in Nat /\ u.heap[id] = Empty
  BY <1>1, <1>2, PoolFacts DEF Pool
<1>6. new \in Cell /\ new.nref = 1 /\ new.next = next
  <2>1. next \in Nat \cup {Nil}
    BY PoolFacts
  <2> QED BY <2>1 DEF Cell
<1>7. h \in Seq(Cell) /\ DOMAIN h = DOMAIN u.heap
  <2>1. u.heap \in [1 .. Len(u.heap) -> Cell] /\ Len(u.heap) \in Nat
    BY <1>1, PoolFacts DEF Pool
  <2>2. h \in [1 .. Len(u.heap) -> Cell]
    BY <1>6, <2>1
  <2> QED BY <2>1, <2>2
<1>8. h[id] = new /\ \A i \in DOMAIN h : i # id => h[i] = u.heap[i]
  BY <1>5, <1>7
<1> HIDE DEF h, new
<1>9. Pool(s)
  <2>1. s.heap = h /\ s.free = u.free \ {id} /\ s.lost = u.lost
    BY <1>4
  <2>2. s \in [heap : Seq(Cell), free : SUBSET Nat, lost : SUBSET Nat]
    BY <1>1, <1>4, <1>7 DEF Pool
  <2>3. u.lost \subseteq DOMAIN h
    BY <1>1, <1>7 DEF Pool
  <2>4. ASSUME NEW i \in DOMAIN h
        PROVE  /\ h[i].next \in DOMAIN h \cup {Nil}
               /\ h[i].nref = 0 => h[i] = Empty
               /\ h[i].nref = 0 <=> i \in u.free \ {id}
    <3>1. CASE i = id
      BY <1>1, <1>6, <1>7, <1>8, <3>1
    <3>2. CASE i # id
      BY <1>1, <1>7, <1>8, <3>2 DEF Pool
    <3> QED BY <3>1, <3>2
  <2>5. u.free \ {id} = {i \in DOMAIN h : h[i].nref = 0}
    <3>1. u.free \subseteq DOMAIN h
      BY <1>1, <1>7 DEF Pool
    <3> QED BY <2>4, <3>1
  <2> QED BY <2>1, <2>2, <2>3, <2>4, <2>5 DEF Pool
<1>10. At(s, id) = new /\ \A i : i # id => At(s, i) = At(m, i)
  <2>1. \A i : i # id => At(s, i) = At(u, i)
    BY <1>4, <1>7, <1>8 DEF At
  <2> QED BY <1>1, <1>4, <1>5, <1>7, <1>8, <2>1 DEF At
<1>11. At(m, id) = Empty
  BY <1>1, <1>5 DEF At
<1>12. DOMAIN m.heap \subseteq DOMAIN s.heap /\ id \in DOMAIN s.heap /\ s.lost = m.lost
  BY <1>1, <1>4, <1>5, <1>7
<1> QED BY <1>5, <1>9, <1>10, <1>11, <1>12 DEF s, id, new

\* ixp_srv_freefile: one reference less; the last one empties it.
LEMMA FreeFileFacts ==
    ASSUME NEW m, Pool(m), NEW id, At(m, id).nref # 0
    PROVE  LET s == FreeFile(m, id)
           IN  /\ Pool(s) /\ s.lost = m.lost /\ DOMAIN s.heap = DOMAIN m.heap
               /\ \A i : i # id => At(s, i) = At(m, i)
               /\ At(s, id).nref = At(m, id).nref - 1
               /\ At(m, id).nref = 1 => At(s, id) = Empty
               /\ At(m, id).nref # 1 => At(s, id) = [At(m, id) EXCEPT !.nref = @ - 1]
<1> DEFINE s == FreeFile(m, id)
           n == m.heap[id].nref
           new == IF n = 1 THEN Empty ELSE [m.heap[id] EXCEPT !.nref = @ - 1]
           h == [m.heap EXCEPT ![id] = new]
           fr == IF n = 1 THEN m.free \cup {id} ELSE m.free
<1>1. id \in DOMAIN m.heap /\ id \in Nat /\ At(m, id) = m.heap[id] /\ m.heap[id] \in Cell
  BY PoolFacts
<1>2. n \in Nat /\ n # 0
  BY <1>1 DEF Cell
<1>3. new \in Cell /\ new.nref = n - 1 /\ (n # 1 => new.next = m.heap[id].next)
  BY <1>1, <1>2, EmptyFacts DEF Cell
<1>4. s = [heap |-> h, free |-> fr, lost |-> m.lost]
  <2>1. m = [heap |-> m.heap, free |-> m.free, lost |-> m.lost]
    BY DEF Pool
  <2>2. CASE n = 1
    <3>1. s = [m EXCEPT !.heap[id] = Empty, !.free = @ \cup {id}]
      BY <2>2 DEF FreeFile
    <3> QED BY <2>1, <2>2, <3>1
  <2>3. CASE n # 1
    <3>1. s = [m EXCEPT !.heap[id].nref = @ - 1]
      BY <2>3 DEF FreeFile
    <3> QED BY <2>1, <2>3, <3>1
  <2> QED BY <2>2, <2>3
<1> HIDE DEF s
<1>5. h \in Seq(Cell) /\ DOMAIN h = DOMAIN m.heap
  <2>1. m.heap \in [1 .. Len(m.heap) -> Cell] /\ Len(m.heap) \in Nat
    BY PoolFacts DEF Pool
  <2> HIDE DEF new
  <2>2. h \in [1 .. Len(m.heap) -> Cell]
    BY <1>3, <2>1
  <2> QED BY <2>1, <2>2
<1>6. h[id] = new /\ \A i \in DOMAIN h : i # id => h[i] = m.heap[i]
  BY <1>1, <1>5
<1> HIDE DEF h
<1>7. Pool(s)
  <2>1. s.heap = h /\ s.free = fr /\ s.lost = m.lost
    BY <1>4
  <2>2. s \in [heap : Seq(Cell), free : SUBSET Nat, lost : SUBSET Nat]
    <3>1. fr \in SUBSET Nat /\ m.lost \in SUBSET Nat
      BY <1>1 DEF Pool
    <3> QED BY <1>4, <1>5, <3>1
  <2>3. m.lost \subseteq DOMAIN h
    BY <1>5 DEF Pool
  <2>4. ASSUME NEW i \in DOMAIN h
        PROVE  /\ h[i].next \in DOMAIN h \cup {Nil}
               /\ h[i].nref = 0 => h[i] = Empty
               /\ h[i].nref = 0 <=> i \in fr
    <3>1. CASE i = id
      <4>1. new.nref = 0 <=> n = 1
        BY <1>2, <1>3
      <4>2. id \notin m.free
        BY <1>2 DEF Pool
      <4>3. h[id].next \in DOMAIN h \cup {Nil}
        BY <1>1, <1>3, <1>5, <1>6, EmptyFacts DEF Pool
      <4> QED BY <1>6, <3>1, <4>1, <4>2, <4>3
    <3>2. CASE i # id
      BY <1>5, <1>6, <3>2 DEF Pool
    <3> QED BY <3>1, <3>2
  <2>5. fr = {i \in DOMAIN h : h[i].nref = 0}
    <3>1. fr \subseteq DOMAIN h
      BY <1>1, <1>5 DEF Pool
    <3> QED BY <2>4, <3>1
  <2> QED BY <2>1, <2>2, <2>3, <2>4, <2>5 DEF Pool
<1>8. At(s, id) = new /\ \A i : i # id => At(s, i) = At(m, i)
  BY <1>1, <1>4, <1>5, <1>6 DEF At
<1>9. DOMAIN s.heap = DOMAIN m.heap /\ s.lost = m.lost
  BY <1>4, <1>5
<1> QED BY <1>1, <1>3, <1>7, <1>8, <1>9 DEF s

-----------------------------------------------------------------------------
(* Chains.                                                                 *)

\* The elements of a chain.
Elems(c) == {c[k] : k \in 1 .. Len(c)}

\* c follows next from its first element to the end, and meets nothing twice.
Linked(m, c) ==
    /\ c \in Seq(Nat)
    /\ \A j, k \in 1 .. Len(c) : c[j] = c[k] => j = k
    /\ \A k \in 1 .. Len(c) :
        /\ c[k] \in DOMAIN m.heap
        /\ m.heap[c[k]].next = IF k = Len(c) THEN Nil ELSE c[k + 1]

\* The chain without its first element.
Rest(c) == Tail(c)

\* The rest of a chain.
LEMMA LinkedRest ==
    ASSUME NEW m, NEW c, Linked(m, c), c # <<>>
    PROVE  /\ Linked(m, Rest(c)) /\ Len(c) \in Nat /\ Len(c) >= 1
           /\ Len(Rest(c)) = Len(c) - 1
           /\ \A k \in 1 .. Len(c) - 1 : Rest(c)[k] = c[k + 1]
           /\ c[1] \in DOMAIN m.heap /\ c[1] \in Nat
           /\ Elems(c) = Elems(Rest(c)) \cup {c[1]} /\ c[1] \notin Elems(Rest(c))
           /\ Rest(c) = <<>> => m.heap[c[1]].next = Nil
           /\ Rest(c) # <<>> => m.heap[c[1]].next = Rest(c)[1]
<1> DEFINE t == Rest(c)
           n == Len(c)
<1>1. c \in Seq(Nat) /\ n \in Nat /\ n >= 1
  <2>1. c \in Seq(Nat)
    BY DEF Linked
  <2> QED BY <2>1, EmptySeq, LenProperties
<1>2. t \in Seq(Nat) /\ Len(t) = n - 1 /\ \A k \in 1 .. n - 1 : t[k] = c[k + 1]
  BY <1>1, HeadTailProperties DEF Rest
<1>4. /\ \A j, k \in 1 .. n : c[j] = c[k] => j = k
      /\ \A k \in 1 .. n : c[k] \in DOMAIN m.heap /\ m.heap[c[k]].next = IF k = n THEN Nil ELSE c[k + 1]
  BY DEF Linked
<1>5. c[1] \in Nat
  BY <1>1, ElementOfSeq
<1> HIDE DEF t, n
<1>6. \A k \in 1 .. n - 1 : k + 1 \in 1 .. n /\ k + 1 # 1
  BY <1>1
<1>7. ASSUME NEW j \in 1 .. n - 1, NEW k \in 1 .. n - 1, t[j] = t[k] PROVE j = k
  <2>1. j + 1 = k + 1
    BY <1>2, <1>4, <1>6, <1>7
  <2> QED BY <2>1
<1>8. ASSUME NEW k \in 1 .. n - 1
      PROVE  t[k] \in DOMAIN m.heap /\ m.heap[t[k]].next = IF k = n - 1 THEN Nil ELSE t[k + 1]
  <2>1. t[k] \in DOMAIN m.heap /\ m.heap[t[k]].next = IF k + 1 = n THEN Nil ELSE c[k + 1 + 1]
    BY <1>2, <1>4, <1>6
  <2>2. CASE k = n - 1
    BY <1>1, <2>1, <2>2
  <2>3. CASE k # n - 1
    <3>1. k + 1 \in 1 .. n - 1 /\ k + 1 # n
      BY <1>1, <2>3
    <3> QED BY <1>2, <2>1, <2>3, <3>1
  <2> QED BY <2>2, <2>3
<1>9. Linked(m, t)
  BY <1>2, <1>7, <1>8 DEF Linked
<1>10. Elems(c) = Elems(t) \cup {c[1]}
  <2>1. ASSUME NEW k \in 1 .. n PROVE c[k] \in Elems(t) \cup {c[1]}
    <3>1. CASE k # 1
      <4>1. k - 1 \in 1 .. n - 1 /\ (k - 1) + 1 = k
        BY <1>1, <3>1
      <4>2. t[k - 1] = c[k]
        BY <1>2, <4>1
      <4> QED BY <1>2, <4>1, <4>2 DEF Elems
    <3> QED BY <3>1
  <2>2. ASSUME NEW k \in 1 .. n - 1 PROVE t[k] \in Elems(c)
    BY <1>2, <1>6 DEF Elems, n
  <2>3. c[1] \in Elems(c)
    BY <1>1 DEF Elems, n
  <2> QED BY <1>2, <2>1, <2>2, <2>3 DEF Elems, n
<1>11. c[1] \notin Elems(t)
  <2> SUFFICES ASSUME NEW k \in 1 .. n - 1, t[k] = c[1] PROVE FALSE
    BY <1>2 DEF Elems
  <2>1. k + 1 = 1
    BY <1>1, <1>2, <1>4, <1>6
  <2> QED BY <1>6, <2>1
<1>12. m.heap[c[1]].next = IF t = <<>> THEN Nil ELSE t[1]
  <2>1. m.heap[c[1]].next = IF 1 = n THEN Nil ELSE c[2]
    BY <1>1, <1>4
  <2>2. t = <<>> <=> n = 1
    BY <1>1, <1>2, EmptySeq
  <2>3. n # 1 => t[1] = c[2]
    BY <1>1, <1>2
  <2> QED BY <2>1, <2>2, <2>3
<1>13. c[1] \in DOMAIN m.heap
  BY <1>1, <1>4
<1> QED BY <1>1, <1>2, <1>5, <1>9, <1>10, <1>11, <1>12, <1>13 DEF t, n

\* A chain is its first element and the rest.
LEMMA LinkedJoin ==
    ASSUME NEW m, NEW c, Linked(m, c), c # <<>>
    PROVE  c = <<c[1]>> \o Rest(c)
<1>1. c \in Seq(Nat)
  BY DEF Linked
<1> QED BY <1>1 DEF Rest

\* There is one chain from each place.
LEMMA LinkedUnique ==
    ASSUME NEW m, Nil \notin DOMAIN m.heap, NEW c, Linked(m, c), NEW d, Linked(m, d),
           c # <<>>, d # <<>>, c[1] = d[1]
    PROVE  c = d
<1> DEFINE Alike(a, b) == (a = <<>> <=> b = <<>>) /\ (a # <<>> => a[1] = b[1])
           Same(n) == \A a, b : Linked(m, a) /\ Linked(m, b) /\ Len(a) = n /\ Alike(a, b) => a = b
           S == {n \in 0 .. Len(c) : Same(n)}
<1>1. Len(c) \in Nat
  BY LenProperties DEF Linked
<1>2. 0 \in S
  <2> SUFFICES ASSUME NEW a, NEW b, Linked(m, a), Linked(m, b), Len(a) = 0, Alike(a, b)
               PROVE  a = b
    BY <1>1
  <2>1. a = <<>>
    BY EmptySeq DEF Linked
  <2> QED BY <2>1
<1>3. ASSUME NEW n \in 0 .. Len(c) - 1, n \in S PROVE n + 1 \in S
  <2> SUFFICES ASSUME NEW a, NEW b, Linked(m, a), Linked(m, b), Len(a) = n + 1, Alike(a, b)
               PROVE  a = b
    <3>1. n + 1 \in 0 .. Len(c)
      BY <1>1
    <3> QED BY <3>1
  <2>1. a # <<>>
    BY EmptySeq DEF Linked
  <2>2. b # <<>> /\ a[1] = b[1]
    BY <2>1
  <2>3. /\ Linked(m, Rest(a)) /\ Len(Rest(a)) = n /\ a = <<a[1]>> \o Rest(a)
        /\ (Rest(a) = <<>> => m.heap[a[1]].next = Nil)
        /\ (Rest(a) # <<>> => m.heap[a[1]].next = Rest(a)[1])
    <3>1. Len(Rest(a)) = Len(a) - 1 /\ n + 1 - 1 = n
      BY <1>1, <2>1, LinkedRest
    <3>2. a = <<a[1]>> \o Rest(a)
      BY <2>1, LinkedJoin
    <3>3. /\ Linked(m, Rest(a))
          /\ Rest(a) = <<>> => m.heap[a[1]].next = Nil
          /\ Rest(a) # <<>> => m.heap[a[1]].next = Rest(a)[1]
      BY <2>1, LinkedRest
    <3> QED BY <3>1, <3>2, <3>3
  <2>4. /\ Linked(m, Rest(b)) /\ b = <<b[1]>> \o Rest(b)
        /\ (Rest(b) = <<>> => m.heap[b[1]].next = Nil)
        /\ (Rest(b) # <<>> => m.heap[b[1]].next = Rest(b)[1])
    <3>1. b = <<b[1]>> \o Rest(b)
      BY <2>2, LinkedJoin
    <3>2. /\ Linked(m, Rest(b))
          /\ Rest(b) = <<>> => m.heap[b[1]].next = Nil
          /\ Rest(b) # <<>> => m.heap[b[1]].next = Rest(b)[1]
      BY <2>2, LinkedRest
    <3> QED BY <3>1, <3>2
  <2>5. /\ Rest(a) # <<>> => Rest(a)[1] \in DOMAIN m.heap
        /\ Rest(b) # <<>> => Rest(b)[1] \in DOMAIN m.heap
    BY <2>3, <2>4, LinkedRest
  <2>6. (Rest(a) = <<>> <=> Rest(b) = <<>>) /\ (Rest(a) # <<>> => Rest(a)[1] = Rest(b)[1])
    BY <2>2, <2>3, <2>4, <2>5
  <2>7. Rest(a) = Rest(b)
    BY <1>3, <2>3, <2>4, <2>6
  <2> QED BY <2>2, <2>3, <2>4, <2>7
<1> HIDE DEF S
<1>4. Len(c) \in S
  BY <1>1, <1>2, <1>3, Induction
<1> QED BY <1>4 DEF S

\* A function on 1 .. n is a sequence.
LEMMA FunctionIsSeq ==
    ASSUME NEW S, NEW n \in Nat, NEW f \in [1 .. n -> S]
    PROVE  f \in Seq(S) /\ Len(f) = n
OBVIOUS

\* An IxpFileId without a next is a chain.
LEMMA LinkedOne ==
    ASSUME NEW m, NEW i \in DOMAIN m.heap, i \in Nat, m.heap[i].next = Nil
    PROVE  Linked(m, <<i>>) /\ <<i>> # <<>> /\ <<i>>[1] = i
<1>1. <<i>> \in Seq(Nat) /\ Len(<<i>>) = 1 /\ <<i>>[1] = i /\ <<i>> # <<>>
  OBVIOUS
<1>2. \A k \in 1 .. 1 : k = 1
  OBVIOUS
<1> HIDE DEF Linked
<1> QED BY <1>1, <1>2 DEF Linked

\* A chain from one of its elements on.
LEMMA LinkedFrom ==
    ASSUME NEW m, NEW c, Linked(m, c), NEW i \in Elems(c)
    PROVE  \E d : Linked(m, d) /\ d # <<>> /\ d[1] = i
<1> DEFINE n == Len(c)
<1>1. c \in Seq(Nat) /\ n \in Nat
  BY LenProperties DEF Linked
<1>2. PICK k \in 1 .. n : c[k] = i
  BY DEF Elems
<1> DEFINE d == [j \in 1 .. n - k + 1 |-> c[k + j - 1]]
<1>3. d \in Seq(Nat) /\ Len(d) = n - k + 1 /\ \A j \in 1 .. n - k + 1 : d[j] = c[k + j - 1]
  <2>1. d \in [1 .. n - k + 1 -> Nat]
    <3> SUFFICES ASSUME NEW j \in 1 .. n - k + 1 PROVE c[k + j - 1] \in Nat
      OBVIOUS
    <3>1. k + j - 1 \in 1 .. n
      BY <1>1
    <3> QED BY <1>1, <3>1, ElementOfSeq
  <2>2. n - k + 1 \in Nat
    BY <1>1
  <2>3. \A j \in 1 .. n - k + 1 : d[j] = c[k + j - 1]
    OBVIOUS
  <2> HIDE DEF d
  <2> QED BY <2>1, <2>2, <2>3, FunctionIsSeq
<1> HIDE DEF d, n
<1>4. \A j \in 1 .. n - k + 1 : k + j - 1 \in 1 .. n
  BY <1>1
<1>5. ASSUME NEW j \in 1 .. n - k + 1, NEW l \in 1 .. n - k + 1, d[j] = d[l] PROVE j = l
  <2>1. k + j - 1 = k + l - 1
    <3>1. \A a, b \in 1 .. n : c[a] = c[b] => a = b
      BY DEF Linked, n
    <3>2. k + j - 1 \in 1 .. n /\ k + l - 1 \in 1 .. n /\ c[k + j - 1] = c[k + l - 1]
      BY <1>3, <1>4, <1>5
    <3> QED BY <3>1, <3>2
  <2> QED BY <1>1, <2>1
<1>6. ASSUME NEW j \in 1 .. n - k + 1
      PROVE  d[j] \in DOMAIN m.heap /\ m.heap[d[j]].next = IF j = n - k + 1 THEN Nil ELSE d[j + 1]
  <2>1. /\ d[j] \in DOMAIN m.heap
        /\ m.heap[d[j]].next = IF k + j - 1 = n THEN Nil ELSE c[(k + j - 1) + 1]
    BY <1>3, <1>4 DEF Linked, n
  <2>2. k + j - 1 = n <=> j = n - k + 1
    BY <1>1
  <2>3. CASE j # n - k + 1
    <3>1. j + 1 \in 1 .. n - k + 1 /\ k + (j + 1) - 1 = (k + j - 1) + 1
      BY <1>1, <2>3
    <3> QED BY <1>3, <2>1, <2>2, <2>3, <3>1
  <2> QED BY <2>1, <2>2, <2>3
<1>7. d[1] = i /\ d # <<>>
  <2>1. 1 \in 1 .. n - k + 1 /\ k + 1 - 1 = k /\ n - k + 1 # 0
    BY <1>1
  <2> QED BY <1>2, <1>3, <2>1, EmptySeq
<1>8. Linked(m, d)
  BY <1>3, <1>5, <1>6 DEF Linked
<1> QED BY <1>7, <1>8

-----------------------------------------------------------------------------
(* Counting.  H says who holds which chain: the fids, and a walk or a      *)
(* listing that is under way.                                              *)

\* Those who hold a chain with i on it.
Holders(H, i) == {x \in DOMAIN H : i \in Elems(H[x])}

\* What a walk over "." dropped keeps one reference.
Lost(m, i) == IF i \in m.lost THEN 1 ELSE 0

\* The references to each are the chains it is on, and the one that was dropped.
Counted(m, H) ==
    /\ IsFiniteSet(DOMAIN H)
    /\ \A x \in DOMAIN H : Linked(m, H[x])
    /\ \A i : At(m, i).nref = Cardinality(Holders(H, i)) + Lost(m, i)
    /\ \A i \in m.lost : m.heap[i].next = Nil

\* What nobody counts is nobody's.
LEMMA HoldersFacts ==
    ASSUME NEW m, NEW H, Pool(m), Counted(m, H), NEW i
    PROVE  /\ IsFiniteSet(Holders(H, i)) /\ Cardinality(Holders(H, i)) \in Nat
           /\ Lost(m, i) \in {0, 1}
           /\ At(m, i).nref = Cardinality(Holders(H, i)) + Lost(m, i)
           /\ Holders(H, i) # {} => At(m, i).nref # 0 /\ i \in DOMAIN m.heap
           /\ At(m, i).nref = 0 => \A x \in DOMAIN H : i \notin Elems(H[x])
<1>1. IsFiniteSet(Holders(H, i)) /\ Cardinality(Holders(H, i)) \in Nat
  <2>1. IsFiniteSet(DOMAIN H) /\ Holders(H, i) \in SUBSET DOMAIN H
    BY DEF Counted, Holders
  <2> QED BY <2>1, FS_Subset, FS_CardinalityType
<1>2. Lost(m, i) \in {0, 1} /\ At(m, i).nref = Cardinality(Holders(H, i)) + Lost(m, i)
  BY DEF Lost, Counted
<1>3. ASSUME Holders(H, i) # {} PROVE At(m, i).nref # 0 /\ i \in DOMAIN m.heap
  <2>1. Cardinality(Holders(H, i)) # 0
    BY <1>1, <1>3, FS_EmptySet
  <2>2. At(m, i).nref # 0
    BY <1>1, <1>2, <2>1
  <2> QED BY <2>2, PoolFacts
<1>4. ASSUME At(m, i).nref = 0, NEW x \in DOMAIN H, i \in Elems(H[x]) PROVE FALSE
  BY <1>3, <1>4 DEF Holders
<1> QED BY <1>1, <1>2, <1>3, <1>4

\* Whatever there is begins a chain: what has no next, or is held.
LEMMA EveryLinked ==
    ASSUME NEW m, NEW H, Pool(m), Counted(m, H), NEW i \in DOMAIN m.heap
    PROVE  \E d : Linked(m, d) /\ d # <<>> /\ d[1] = i
<1>1. i \in Nat /\ At(m, i) = m.heap[i]
  BY PoolFacts
<1>2. CASE m.heap[i].next = Nil
  BY <1>1, <1>2, LinkedOne
<1>3. CASE m.heap[i].next # Nil
  <2>1. At(m, i).nref # 0
    BY <1>1, <1>3, PoolFacts, EmptyFacts
  <2>2. Lost(m, i) = 0
    BY <1>3 DEF Lost, Counted
  <2>3. Holders(H, i) # {}
    BY <2>1, <2>2, HoldersFacts, FS_EmptySet
  <2>4. PICK x \in DOMAIN H : i \in Elems(H[x])
    BY <2>3 DEF Holders
  <2>5. Linked(m, H[x])
    BY DEF Counted
  <2> QED BY <2>4, <2>5, LinkedFrom
<1> QED BY <1>2, <1>3

\* Chain finds the chain that begins with an element.
LEMMA ChainFacts ==
    ASSUME NEW m, NEW H, Pool(m), Counted(m, H), NEW c, Linked(m, c), c # <<>>
    PROVE  Chain(m, c[1]) = c
<1> DEFINE D == DOMAIN m.heap
           Step(g, i) == <<i>> \o IF m.heap[i].next = Nil THEN <<>> ELSE g[m.heap[i].next]
           Solves(g) == g = [i \in D |-> Step(g, i)]
           Begins(d, i) == Linked(m, d) /\ d # <<>> /\ d[1] = i
           g0 == [i \in D |-> CHOOSE d : Begins(d, i)]
<1>0. Nil \notin D /\ \A i \in D : m.heap[i].next \in D \cup {Nil}
  BY PoolFacts, EmptyFacts DEF Pool
<1>1. \A i \in D : Begins(g0[i], i)
  <2>1. \A i \in D : \E d : Begins(d, i)
    BY EveryLinked
  <2> QED BY <2>1
<1> HIDE DEF g0
<1>2. Solves(g0)
  <2>1. g0 = [i \in D |-> g0[i]]
    BY DEF g0
  <2>2. ASSUME NEW i \in D PROVE g0[i] = Step(g0, i)
    <3> DEFINE d == g0[i]
    <3>1. Linked(m, d) /\ d # <<>> /\ d[1] = i
      BY <1>1
    <3> HIDE DEF d
    <3>2. d = <<i>> \o Rest(d)
      BY <3>1, LinkedJoin
    <3>3. /\ Linked(m, Rest(d))
          /\ Rest(d) = <<>> => m.heap[i].next = Nil
          /\ Rest(d) # <<>> => m.heap[i].next = Rest(d)[1]
      BY <3>1, LinkedRest
    <3>4. CASE Rest(d) = <<>>
      BY <3>2, <3>3, <3>4 DEF d
    <3>5. CASE Rest(d) # <<>>
      <4>1. Rest(d)[1] \in D
        BY <3>3, <3>5, LinkedRest
      <4>2. m.heap[i].next \in D /\ m.heap[i].next # Nil
        BY <1>0, <3>3, <3>5, <4>1
      <4>3. Rest(d) = g0[m.heap[i].next]
        <5>1. Begins(g0[m.heap[i].next], m.heap[i].next)
          BY <1>1, <4>2
        <5> QED BY <1>0, <3>3, <3>5, <5>1, LinkedUnique
      <4> QED BY <3>2, <4>2, <4>3 DEF d
    <3> QED BY <3>4, <3>5
  <2> HIDE DEF Step, D
  <2> QED BY <2>1, <2>2
<1>3. ASSUME NEW g, Solves(g) PROVE g[c[1]] = c
  <2> DEFINE Right(n) == \A d : Linked(m, d) /\ Len(d) = n /\ d # <<>> => g[d[1]] = d
             S == {n \in 0 .. Len(c) : Right(n)}
  <2>1. Len(c) \in Nat
    BY LenProperties DEF Linked
  <2>2. 0 \in S
    <3>1. ASSUME NEW d, Linked(m, d), Len(d) = 0, d # <<>> PROVE FALSE
      BY <3>1, EmptySeq DEF Linked
    <3> QED BY <2>1, <3>1
  <2>3. ASSUME NEW n \in 0 .. Len(c) - 1, n \in S PROVE n + 1 \in S
    <3>1. n + 1 \in 0 .. Len(c) /\ n + 1 - 1 = n
      BY <2>1
    <3> SUFFICES ASSUME NEW d, Linked(m, d), Len(d) = n + 1, d # <<>> PROVE g[d[1]] = d
      BY <3>1
    <3>2. d = <<d[1]>> \o Rest(d)
      BY LinkedJoin
    <3>3. /\ Linked(m, Rest(d)) /\ d[1] \in D /\ Len(Rest(d)) = n
          /\ Rest(d) = <<>> => m.heap[d[1]].next = Nil
          /\ Rest(d) # <<>> => m.heap[d[1]].next = Rest(d)[1]
      <4>1. Len(Rest(d)) = Len(d) - 1
        BY LinkedRest
      <4> QED BY <3>1, <4>1, LinkedRest
    <3>4. g[d[1]] = Step(g, d[1])
      BY <1>3, <3>3
    <3>5. CASE Rest(d) = <<>>
      BY <3>2, <3>3, <3>4, <3>5
    <3>6. CASE Rest(d) # <<>>
      <4>1. Rest(d)[1] \in D
        BY <3>3, <3>6, LinkedRest
      <4>2. m.heap[d[1]].next # Nil
        BY <1>0, <3>3, <3>6, <4>1
      <4>3. g[m.heap[d[1]].next] = Rest(d)
        BY <2>3, <3>3, <3>6
      <4> QED BY <3>2, <3>4, <4>2, <4>3
    <3> QED BY <3>5, <3>6
  <2> HIDE DEF S
  <2>4. Len(c) \in S
    BY <2>1, <2>2, <2>3, Induction
  <2> QED BY <2>4 DEF S
<1>4. Chain(m, c[1]) = (CHOOSE g : Solves(g))[c[1]]
  BY DEF Chain
<1> HIDE DEF Solves
<1> QED BY <1>2, <1>3, <1>4

\* What a chain says of its files is as it was.
Kept(m, s, c) ==
    \A i \in Elems(c) : /\ At(s, i).next = At(m, i).next
                        /\ At(s, i).file = At(m, i).file
                        /\ At(s, i).p = At(m, i).p

\* A chain that is kept is still one.
LEMMA LinkedKept ==
    ASSUME NEW m, NEW s, NEW c, Linked(m, c), Kept(m, s, c), \A i \in Elems(c) : i \in DOMAIN s.heap
    PROVE  Linked(s, c)
<1>1. ASSUME NEW k \in 1 .. Len(c)
      PROVE  /\ c[k] \in DOMAIN s.heap
             /\ s.heap[c[k]].next = IF k = Len(c) THEN Nil ELSE c[k + 1]
  <2>1. c[k] \in Elems(c)
    BY DEF Elems
  <2>2. /\ c[k] \in DOMAIN s.heap /\ c[k] \in DOMAIN m.heap
        /\ At(s, c[k]).next = At(m, c[k]).next
        /\ m.heap[c[k]].next = IF k = Len(c) THEN Nil ELSE c[k + 1]
    BY <2>1 DEF Linked, Kept
  <2> QED BY <2>2 DEF At
<1> QED BY <1>1 DEF Linked

\* One element in front of a sequence.
LEMMA ConsFacts ==
    ASSUME NEW i \in Nat, NEW c \in Seq(Nat)
    PROVE  /\ Cons(i, c) \in Seq(Nat) /\ Len(Cons(i, c)) = Len(c) + 1 /\ Len(c) \in Nat
           /\ Cons(i, c)[1] = i /\ \A k \in 1 .. Len(c) : Cons(i, c)[k + 1] = c[k]
           /\ Elems(Cons(i, c)) = Elems(c) \cup {i} /\ Cons(i, c) # <<>>
<1> DEFINE d == Cons(i, c)
<1>1. /\ d \in Seq(Nat) /\ Len(d) = Len(c) + 1 /\ Len(c) \in Nat
      /\ d[1] = i /\ \A k \in 1 .. Len(c) : d[k + 1] = c[k]
  BY DEF Cons
<1> HIDE DEF d
<1>2. Elems(d) = Elems(c) \cup {i}
  <2>1. ASSUME NEW k \in 1 .. Len(d) PROVE d[k] \in Elems(c) \cup {i}
    <3>1. CASE k # 1
      <4>1. k - 1 \in 1 .. Len(c) /\ (k - 1) + 1 = k
        BY <1>1, <3>1
      <4>2. d[k] = c[k - 1]
        BY <1>1, <4>1
      <4> QED BY <4>1, <4>2 DEF Elems
    <3> QED BY <1>1, <3>1
  <2>2. ASSUME NEW k \in 1 .. Len(c) PROVE c[k] \in Elems(d)
    <3>1. k + 1 \in 1 .. Len(d) /\ d[k + 1] = c[k]
      BY <1>1
    <3> QED BY <3>1 DEF Elems
  <2>3. i \in Elems(d)
    <3>1. 1 \in 1 .. Len(d)
      BY <1>1
    <3> QED BY <1>1, <3>1 DEF Elems
  <2>4. Elems(d) \subseteq Elems(c) \cup {i}
    BY <2>1 DEF Elems
  <2>5. Elems(c) \subseteq Elems(d)
    BY <2>2 DEF Elems
  <2> QED BY <2>3, <2>4, <2>5
<1>3. d # <<>>
  BY <1>1, EmptySeq
<1> QED BY <1>1, <1>2, <1>3 DEF d

\* One IxpFileId in front of a chain.
LEMMA LinkedCons ==
    ASSUME NEW m, NEW c, Linked(m, c), NEW i \in DOMAIN m.heap, i \in Nat, i \notin Elems(c),
           m.heap[i].next = IF c = <<>> THEN Nil ELSE c[1]
    PROVE  Linked(m, Cons(i, c))
<1> DEFINE d == Cons(i, c)
           n == Len(c)
<1>1. c \in Seq(Nat)
  BY DEF Linked
<1>2. /\ d \in Seq(Nat) /\ Len(d) = n + 1 /\ n \in Nat
      /\ d[1] = i /\ \A k \in 1 .. n : d[k + 1] = c[k]
  BY <1>1, ConsFacts
<1>3. /\ \A j, k \in 1 .. n : c[j] = c[k] => j = k
      /\ \A k \in 1 .. n : c[k] \in DOMAIN m.heap /\ m.heap[c[k]].next = IF k = n THEN Nil ELSE c[k + 1]
  BY DEF Linked
<1>4. c = <<>> <=> n = 0
  BY <1>1, EmptySeq
<1>5. \A k \in 1 .. n : c[k] # i
  BY DEF Elems
<1> HIDE DEF d, n
<1>6. \A k \in 1 .. n + 1 : k # 1 => k - 1 \in 1 .. n /\ (k - 1) + 1 = k /\ d[k] = c[k - 1]
  <2> SUFFICES ASSUME NEW k \in 1 .. n + 1, k # 1
               PROVE  k - 1 \in 1 .. n /\ (k - 1) + 1 = k /\ d[k] = c[k - 1]
    OBVIOUS
  <2>1. k - 1 \in 1 .. n /\ (k - 1) + 1 = k
    BY <1>2
  <2>2. d[(k - 1) + 1] = c[k - 1]
    BY <1>2, <2>1
  <2> QED BY <2>1, <2>2
<1>7. ASSUME NEW j \in 1 .. n + 1, NEW k \in 1 .. n + 1, d[j] = d[k] PROVE j = k
  <2>1. CASE j = 1 /\ k = 1
    BY <2>1
  <2>2. CASE j = 1 /\ k # 1
    BY <1>2, <1>5, <1>6, <1>7, <2>2
  <2>3. CASE j # 1 /\ k = 1
    BY <1>2, <1>5, <1>6, <1>7, <2>3
  <2>4. CASE j # 1 /\ k # 1
    <3>1. j - 1 = k - 1
      BY <1>3, <1>6, <1>7, <2>4
    <3> QED BY <1>2, <3>1
  <2> QED BY <2>1, <2>2, <2>3, <2>4
<1>8. ASSUME NEW k \in 1 .. n + 1
      PROVE  d[k] \in DOMAIN m.heap /\ m.heap[d[k]].next = IF k = n + 1 THEN Nil ELSE d[k + 1]
  <2>1. CASE k = 1
    <3>1. CASE n = 0
      BY <1>2, <1>4, <2>1, <3>1
    <3>2. CASE n # 0
      <4>1. d[1 + 1] = c[1] /\ 1 # n + 1
        BY <1>2, <3>2
      <4> QED BY <1>2, <1>4, <2>1, <3>2, <4>1
    <3> QED BY <3>1, <3>2
  <2>2. CASE k # 1
    <3>1. /\ k - 1 \in 1 .. n /\ d[k] = c[k - 1]
          /\ m.heap[c[k - 1]].next = IF k - 1 = n THEN Nil ELSE c[(k - 1) + 1]
          /\ c[k - 1] \in DOMAIN m.heap
      BY <1>3, <1>6, <2>2
    <3>2. k - 1 = n <=> k = n + 1
      BY <1>2
    <3>3. CASE k # n + 1
      <4>1. k \in 1 .. n /\ (k - 1) + 1 = k
        BY <1>2, <3>3
      <4> QED BY <1>2, <3>1, <3>2, <3>3, <4>1
    <3> QED BY <3>1, <3>2, <3>3
  <2> QED BY <2>1, <2>2
<1>9. Linked(m, d)
  BY <1>2, <1>7, <1>8 DEF Linked
<1> QED BY <1>9 DEF d

\* A new IxpFileId, linked in front of a chain that x holds.
LEMMA Push ==
    ASSUME NEW m, NEW H, Pool(m), Counted(m, H), NEW x \in DOMAIN H,
           NEW next, next = IF H[x] = <<>> THEN Nil ELSE H[x][1],
           NEW file \in Paths, NEW p \in 0 .. MaxP
    PROVE  LET s == GetFile(m, next, file, p)
               id == NewFile(m)
           IN  /\ Pool(s) /\ Counted(s, [H EXCEPT ![x] = Cons(id, @)])
               /\ id \in DOMAIN s.heap /\ id \in Nat
               /\ At(s, id) = [next |-> next, nref |-> 1, file |-> file, p |-> p]
               /\ \A y \in DOMAIN H : Kept(m, s, H[y]) /\ Linked(s, H[y]) /\ id \notin Elems(H[y])
               /\ s.lost = m.lost
<1> DEFINE s == GetFile(m, next, file, p)
           id == NewFile(m)
           G == [H EXCEPT ![x] = Cons(id, @)]
<1>1. \A y \in DOMAIN H : Linked(m, H[y])
  BY DEF Counted
<1>2. next \in DOMAIN m.heap \cup {Nil}
  BY <1>1, LinkedRest
<1>3. /\ Pool(s) /\ s.lost = m.lost
      /\ DOMAIN m.heap \subseteq DOMAIN s.heap
      /\ id \in DOMAIN s.heap /\ id \in Nat /\ At(m, id) = Empty
      /\ At(s, id) = [next |-> next, nref |-> 1, file |-> file, p |-> p]
      /\ \A i : i # id => At(s, i) = At(m, i)
  BY <1>2, GetFileFacts
<1> HIDE DEF s, id
<1>4. \A y \in DOMAIN H : id \notin Elems(H[y])
  BY <1>3, EmptyFacts, HoldersFacts
<1>5. ASSUME NEW y \in DOMAIN H PROVE Kept(m, s, H[y]) /\ Linked(s, H[y])
  <2>1. Kept(m, s, H[y])
    BY <1>3, <1>4 DEF Kept
  <2>2. \A i \in Elems(H[y]) : i \in DOMAIN s.heap
    BY <1>1, <1>3 DEF Linked, Elems
  <2> QED BY <1>1, <2>1, <2>2, LinkedKept
<1>6. At(s, id) = s.heap[id] /\ s.heap[id].next = next /\ At(s, id).nref = 1
  BY <1>3 DEF At
<1>7. /\ DOMAIN G = DOMAIN H /\ G[x] = Cons(id, H[x])
      /\ \A y \in DOMAIN H : y # x => G[y] = H[y]
  OBVIOUS
<1> HIDE DEF G
<1>8. Linked(s, G[x]) /\ Elems(G[x]) = Elems(H[x]) \cup {id}
  <2>1. H[x] \in Seq(Nat)
    BY <1>1 DEF Linked
  <2>2. Elems(Cons(id, H[x])) = Elems(H[x]) \cup {id}
    BY <1>3, <2>1, ConsFacts
  <2>3. s.heap[id].next = IF H[x] = <<>> THEN Nil ELSE H[x][1]
    BY <1>6
  <2>4. Linked(s, H[x]) /\ id \in DOMAIN s.heap /\ id \in Nat /\ id \notin Elems(H[x])
    BY <1>3, <1>4, <1>5
  <2>5. Linked(s, Cons(id, H[x]))
    BY <2>3, <2>4, LinkedCons
  <2> QED BY <1>7, <2>2, <2>5
<1>9. \A i : i # id => Holders(G, i) = Holders(H, i)
  BY <1>7, <1>8 DEF Holders
<1>10. Holders(G, id) = {x}
  BY <1>4, <1>7, <1>8 DEF Holders
<1>11. ASSUME NEW i PROVE At(s, i).nref = Cardinality(Holders(G, i)) + Lost(s, i)
  <2>1. CASE i = id
    <3>1. Cardinality(Holders(G, id)) = 1
      BY <1>10, FS_Singleton
    <3>2. Lost(m, id) = 0
      BY <1>3, EmptyFacts, HoldersFacts
    <3>3. Lost(s, id) = 0
      BY <1>3, <3>2 DEF Lost
    <3> QED BY <1>6, <2>1, <3>1, <3>3
  <2>2. CASE i # id
    <3>1. Lost(s, i) = Lost(m, i)
      BY <1>3 DEF Lost
    <3> QED BY <1>3, <1>9, <2>2, <3>1, HoldersFacts
  <2> QED BY <2>1, <2>2
<1>12. ASSUME NEW i \in s.lost PROVE s.heap[i].next = Nil
  <2>1. i \in DOMAIN m.heap /\ m.heap[i].next = Nil
    BY <1>3 DEF Counted, Pool
  <2>2. i # id
    <3>1. Lost(m, i) = 1
      BY <1>3 DEF Lost
    <3> QED BY <1>3, <3>1, EmptyFacts, HoldersFacts
  <2> QED BY <1>3, <2>1, <2>2 DEF At
<1>13. Counted(s, G)
  <2>1. IsFiniteSet(DOMAIN G)
    BY <1>7 DEF Counted
  <2> QED BY <1>5, <1>7, <1>8, <1>11, <1>12, <2>1 DEF Counted
<1> QED BY <1>3, <1>4, <1>5, <1>13 DEF s, id, G

\* The front of a chain that x holds is freed.
LEMMA Pop ==
    ASSUME NEW m, NEW H, Pool(m), Counted(m, H), NEW x \in DOMAIN H, H[x] # <<>>
    PROVE  LET s == FreeFile(m, H[x][1])
               G == [H EXCEPT ![x] = Rest(@)]
           IN  /\ Pool(s) /\ Counted(s, G)
               /\ s.lost = m.lost /\ DOMAIN s.heap = DOMAIN m.heap
               /\ \A y \in DOMAIN H : Kept(m, s, G[y])
<1> DEFINE id == H[x][1]
           s == FreeFile(m, id)
           G == [H EXCEPT ![x] = Rest(@)]
<1>1. \A y \in DOMAIN H : Linked(m, H[y])
  BY DEF Counted
<1>2. /\ Linked(m, Rest(H[x])) /\ id \in DOMAIN m.heap
      /\ Elems(H[x]) = Elems(Rest(H[x])) \cup {id} /\ id \notin Elems(Rest(H[x]))
  BY <1>1, LinkedRest
<1> HIDE DEF id
<1>3. x \in Holders(H, id)
  BY <1>2 DEF Holders
<1>4. /\ At(m, id).nref # 0 /\ IsFiniteSet(Holders(H, id)) /\ Cardinality(Holders(H, id)) \in Nat
      /\ At(m, id).nref = Cardinality(Holders(H, id)) + Lost(m, id) /\ Lost(m, id) \in {0, 1}
  BY <1>3, HoldersFacts
<1>5. /\ Pool(s) /\ s.lost = m.lost /\ DOMAIN s.heap = DOMAIN m.heap
      /\ \A i : i # id => At(s, i) = At(m, i)
      /\ At(s, id).nref = At(m, id).nref - 1
      /\ At(m, id).nref = 1 => At(s, id) = Empty
      /\ At(m, id).nref # 1 => At(s, id) = [At(m, id) EXCEPT !.nref = @ - 1]
  BY <1>4, FreeFileFacts
<1> HIDE DEF s
<1>6. /\ DOMAIN G = DOMAIN H /\ G[x] = Rest(H[x])
      /\ \A y \in DOMAIN H : y # x => G[y] = H[y]
  OBVIOUS
<1> HIDE DEF G
<1>7. \A i : i # id => Holders(G, i) = Holders(H, i)
  BY <1>2, <1>6 DEF Holders
<1>8. Holders(G, id) = Holders(H, id) \ {x}
  BY <1>2, <1>6 DEF Holders
<1>9. Cardinality(Holders(G, id)) = Cardinality(Holders(H, id)) - 1
  BY <1>3, <1>4, <1>8, FS_RemoveElement
<1>10. At(m, id).nref = 1 => \A y \in DOMAIN H : id \notin Elems(G[y])
  <2> SUFFICES ASSUME At(m, id).nref = 1 PROVE Holders(G, id) = {}
    BY <1>6 DEF Holders
  <2>1. IsFiniteSet(Holders(G, id))
    BY <1>4, <1>8, FS_RemoveElement
  <2>2. Cardinality(Holders(H, id)) # 0
    BY <1>3, <1>4, FS_EmptySet
  <2>3. Cardinality(Holders(G, id)) = 0
    BY <1>4, <1>9, <2>2
  <2> QED BY <2>1, <2>3, FS_EmptySet
<1>11. At(m, id) \in Cell
  BY PoolFacts
<1>12. At(m, id).nref # 1 => /\ At(s, id).next = At(m, id).next
                             /\ At(s, id).file = At(m, id).file /\ At(s, id).p = At(m, id).p
  BY <1>5, <1>11 DEF Cell
<1>13. ASSUME NEW y \in DOMAIN H PROVE Kept(m, s, G[y]) /\ Linked(s, G[y])
  <2>1. Kept(m, s, G[y])
    BY <1>5, <1>10, <1>12 DEF Kept
  <2>2. Linked(m, G[y])
    BY <1>1, <1>2, <1>6
  <2>3. \A i \in Elems(G[y]) : i \in DOMAIN s.heap
    BY <1>5, <2>2 DEF Linked, Elems
  <2> QED BY <2>1, <2>2, <2>3, LinkedKept
<1>14. ASSUME NEW i PROVE At(s, i).nref = Cardinality(Holders(G, i)) + Lost(s, i)
  <2>1. Lost(s, i) = Lost(m, i)
    BY <1>5 DEF Lost
  <2>2. CASE i = id
    BY <1>4, <1>5, <1>9, <2>1, <2>2
  <2>3. CASE i # id
    BY <1>5, <1>7, <2>1, <2>3, HoldersFacts
  <2> QED BY <2>2, <2>3
<1>15. ASSUME NEW i \in s.lost PROVE s.heap[i].next = Nil
  <2>1. i \in DOMAIN m.heap /\ m.heap[i].next = Nil
    BY <1>5 DEF Counted, Pool
  <2>2. At(m, i).next = Nil /\ At(s, i) = s.heap[i]
    BY <1>5, <2>1 DEF At
  <2>3. CASE i = id /\ At(m, id).nref = 1
    BY <1>5, <2>2, <2>3, EmptyFacts
  <2>4. CASE ~(i = id /\ At(m, id).nref = 1)
    BY <1>5, <1>12, <2>2, <2>4
  <2> QED BY <2>3, <2>4
<1>16. Counted(s, G)
  <2>1. IsFiniteSet(DOMAIN G)
    BY <1>6 DEF Counted
  <2> QED BY <1>6, <1>13, <1>14, <1>15, <2>1 DEF Counted
<1> QED BY <1>5, <1>13, <1>16 DEF s, id, G

\* Whoever holds nothing may come and go.
LEMMA EmptyHolder ==
    ASSUME NEW m, NEW H, Counted(m, H), NEW G, IsFiniteSet(DOMAIN G),
           \A y \in DOMAIN G : G[y] = <<>> \/ (y \in DOMAIN H /\ G[y] = H[y]),
           \A y \in DOMAIN H : H[y] = <<>> \/ (y \in DOMAIN G /\ G[y] = H[y])
    PROVE  Counted(m, G)
<1>1. Elems(<<>>) = {} /\ Linked(m, <<>>)
  <2>1. <<>> \in Seq(Nat) /\ Len(<<>>) = 0 /\ \A k \in 1 .. 0 : FALSE
    OBVIOUS
  <2> QED BY <2>1 DEF Elems, Linked
<1>2. \A i : Holders(G, i) = Holders(H, i)
  BY <1>1 DEF Holders
<1>3. \A y \in DOMAIN G : Linked(m, G[y])
  BY <1>1 DEF Counted
<1> QED BY <1>2, <1>3 DEF Counted

\* A chain changes hands.
LEMMA Rename ==
    ASSUME NEW m, NEW H, Pool(m), Counted(m, H), NEW x \in DOMAIN H, NEW y \in DOMAIN H,
           x # y, H[y] = <<>>
    PROVE  Counted(m, [H EXCEPT ![x] = <<>>, ![y] = H[x]])
<1> DEFINE G == [H EXCEPT ![x] = <<>>, ![y] = H[x]]
<1>1. /\ DOMAIN G = DOMAIN H /\ G[x] = <<>> /\ G[y] = H[x]
      /\ \A z \in DOMAIN H : z # x /\ z # y => G[z] = H[z]
  OBVIOUS
<1> HIDE DEF G
<1>2. Elems(<<>>) = {} /\ Linked(m, <<>>)
  <2>1. <<>> \in Seq(Nat) /\ Len(<<>>) = 0 /\ \A k \in 1 .. 0 : FALSE
    OBVIOUS
  <2> QED BY <2>1 DEF Elems, Linked
<1>3. ASSUME NEW i PROVE Cardinality(Holders(G, i)) = Cardinality(Holders(H, i))
  <2> DEFINE S == Holders(H, i)
  <2>1. IsFiniteSet(S) /\ Cardinality(S) \in Nat
    BY HoldersFacts
  <2>2. y \notin S
    BY <1>2 DEF Holders
  <2>3. CASE x \in S
    <3>1. Holders(G, i) = (S \ {x}) \cup {y}
      BY <1>1, <1>2, <2>3 DEF Holders
    <3> HIDE DEF S
    <3>2. IsFiniteSet(S \ {x}) /\ Cardinality(S \ {x}) = Cardinality(S) - 1
      BY <2>1, <2>3, FS_RemoveElement
    <3>3. Cardinality((S \ {x}) \cup {y}) = Cardinality(S \ {x}) + 1
      BY <2>2, <3>2, FS_AddElement
    <3>4. Cardinality((S \ {x}) \cup {y}) = Cardinality(S)
      BY <2>1, <3>2, <3>3
    <3> QED BY <3>1, <3>4 DEF S
  <2>4. CASE x \notin S
    <3>1. Holders(G, i) = S
      BY <1>1, <1>2, <2>4 DEF Holders
    <3> QED BY <3>1
  <2> QED BY <2>3, <2>4
<1>4. \A z \in DOMAIN G : Linked(m, G[z])
  BY <1>1, <1>2 DEF Counted
<1>5. Counted(m, G)
  BY <1>1, <1>3, <1>4 DEF Counted
<1> QED BY <1>5 DEF G

-----------------------------------------------------------------------------
(* The loops.                                                              *)

\* ixp_srv_freefile for every element of a chain, from the front.
LEMMA FreeChainFacts ==
    ASSUME NEW m, NEW H, Pool(m), Counted(m, H), NEW x \in DOMAIN H, H[x] # <<>>
    PROVE  LET s == FreeChain(m, H[x][1])
               G == [H EXCEPT ![x] = <<>>]
           IN  /\ Pool(s) /\ Counted(s, G)
               /\ s.lost = m.lost /\ DOMAIN s.heap = DOMAIN m.heap
               /\ \A y \in DOMAIN H : y # x => Kept(m, s, H[y])
<1> DEFINE c == H[x]
           n == Len(c)
           Step(g, k) == IF k = 0 THEN m ELSE FreeFile(g[k - 1], c[k])
           Upto(g, k) == g = [j \in 0 .. k |-> Step(g, j)]
           after == CHOOSE g : Upto(g, n)
<1>1. c \in Seq(Nat) /\ n \in Nat /\ Linked(m, c)
  BY LenProperties DEF Counted, Linked
<1>2. FreeChain(m, c[1]) = after[n]
  <2>1. Chain(m, c[1]) = c
    BY <1>1, ChainFacts
  <2> QED BY <2>1 DEF FreeChain, Over
<1>3. \E g : Upto(g, n)
  <2> DEFINE S == {k \in 0 .. n : \E g : Upto(g, k)}
  <2>1. 0 \in S
    <3>1. Upto([j \in 0 .. 0 |-> m], 0)
      OBVIOUS
    <3>2. 0 \in 0 .. n
      BY <1>1
    <3> HIDE DEF Upto
    <3> QED BY <3>1, <3>2
  <2>2. ASSUME NEW k \in 0 .. n - 1, k \in S PROVE k + 1 \in S
    <3>1. PICK g : Upto(g, k)
      BY <2>2
    <3> DEFINE h == [j \in 0 .. k + 1 |-> IF j = k + 1 THEN Step(g, j) ELSE g[j]]
    <3>2. ASSUME NEW j \in 0 .. k + 1 PROVE h[j] = Step(h, j)
      <4>1. j # 0 => j - 1 \in 0 .. k + 1 /\ j - 1 # k + 1 /\ h[j - 1] = g[j - 1]
        BY <1>1
      <4>2. Step(h, j) = Step(g, j)
        BY <4>1
      <4>3. CASE j = k + 1
        BY <4>2, <4>3
      <4>4. CASE j # k + 1
        <5>1. j \in 0 .. k
          BY <1>1, <4>4
        <5>2. g[j] = Step(g, j)
          BY <3>1, <5>1
        <5> QED BY <4>2, <4>4, <5>2
      <4> QED BY <4>3, <4>4
    <3>3. h = [j \in 0 .. k + 1 |-> h[j]]
      OBVIOUS
    <3> HIDE DEF h, Step
    <3>4. Upto(h, k + 1)
      BY <3>2, <3>3
    <3>5. k + 1 \in 0 .. n
      BY <1>1
    <3> HIDE DEF Upto
    <3> QED BY <3>4, <3>5
  <2> HIDE DEF S
  <2>3. n \in S
    BY <1>1, <2>1, <2>2, Induction
  <2> QED BY <2>3 DEF S
<1>4. Upto(after, n)
  <2> HIDE DEF Upto
  <2> QED BY <1>3
<1> HIDE DEF after
<1>5. after[0] = m /\ \A k \in 0 .. n - 1 : after[k + 1] = FreeFile(after[k], c[k + 1])
  <2>1. ASSUME NEW k \in 0 .. n PROVE after[k] = Step(after, k)
    <3> HIDE DEF Step
    <3> QED BY <1>4
  <2>2. 0 \in 0 .. n
    BY <1>1
  <2>3. ASSUME NEW k \in 0 .. n - 1 PROVE after[k + 1] = FreeFile(after[k], c[k + 1])
    <3>1. k + 1 \in 0 .. n /\ k + 1 # 0 /\ (k + 1) - 1 = k
      BY <1>1
    <3>2. after[k + 1] = Step(after, k + 1)
      BY <2>1, <3>1
    <3> QED BY <3>1, <3>2
  <2> QED BY <2>1, <2>2, <2>3
<1> HIDE DEF Step, Upto, c, n
<1> DEFINE Left(k, d) == /\ d \in Seq(Nat) /\ Len(d) = n - k
                         /\ \A j \in 1 .. n - k : d[j] = c[k + j]
           Good(k) == LET s == after[k] IN
               /\ Pool(s) /\ s.lost = m.lost /\ DOMAIN s.heap = DOMAIN m.heap
               /\ \E d : Left(k, d) /\ Counted(s, [H EXCEPT ![x] = d])
               /\ \A y \in DOMAIN H : y # x => Kept(m, s, H[y])
           T == {k \in 0 .. n : Good(k)}
<1>6. 0 \in T
  <2>1. Left(0, c)
    <3>1. n - 0 = n /\ \A j \in 1 .. n : 0 + j = j
      BY <1>1
    <3> QED BY <1>1, <3>1 DEF n
  <2>3. Counted(m, [H EXCEPT ![x] = c])
    <3> DEFINE G == [H EXCEPT ![x] = c]
    <3>1. DOMAIN G = DOMAIN H /\ \A y \in DOMAIN H : G[y] = H[y]
      BY DEF c
    <3> HIDE DEF G
    <3>2. \A i : Holders(G, i) = Holders(H, i)
      BY <3>1 DEF Holders
    <3>3. Counted(m, G)
      BY <3>1, <3>2 DEF Counted
    <3> QED BY <3>3 DEF G
  <2>4. \A y \in DOMAIN H : Kept(m, m, H[y])
    BY DEF Kept
  <2>5. Good(0)
    <3> HIDE DEF Left
    <3> QED BY <1>5, <2>1, <2>3, <2>4
  <2> HIDE DEF Good
  <2> QED BY <1>1, <2>5
<1>7. ASSUME NEW k \in 0 .. n - 1, k \in T PROVE k + 1 \in T
  <2> DEFINE s == after[k]
  <2>1. /\ Pool(s) /\ s.lost = m.lost /\ DOMAIN s.heap = DOMAIN m.heap
        /\ \A y \in DOMAIN H : y # x => Kept(m, s, H[y])
    BY <1>7
  <2>2. PICK d : Left(k, d) /\ Counted(s, [H EXCEPT ![x] = d])
    BY <1>7
  <2> DEFINE G == [H EXCEPT ![x] = d]
             t == FreeFile(s, c[k + 1])
             F == [G EXCEPT ![x] = Rest(@)]
  <2>3. /\ G[x] = d /\ DOMAIN G = DOMAIN H /\ F = [H EXCEPT ![x] = Rest(d)]
        /\ \A y \in DOMAIN H : y # x => G[y] = H[y] /\ F[y] = H[y]
    OBVIOUS
  <2>4. d # <<>> /\ d[1] = c[k + 1]
    <3>1. n - k >= 1 /\ 1 \in 1 .. n - k
      BY <1>1
    <3> QED BY <2>2, <3>1, EmptySeq
  <2>5. Counted(s, G)
    BY <2>2
  <2> HIDE DEF s, G
  <2>6. /\ Pool(t) /\ Counted(t, F)
        /\ t.lost = s.lost /\ DOMAIN t.heap = DOMAIN s.heap
        /\ \A y \in DOMAIN G : Kept(s, t, F[y])
    BY <2>1, <2>3, <2>4, <2>5, Pop
  <2>7. Left(k + 1, Rest(d))
    <3>1. Linked(s, d)
      BY <2>3, <2>5 DEF Counted
    <3>2. /\ Rest(d) \in Seq(Nat) /\ Len(Rest(d)) = Len(d) - 1
          /\ \A j \in 1 .. Len(d) - 1 : Rest(d)[j] = d[j + 1]
      <4>0. d # <<>>
        BY <2>4
      <4>1. Linked(s, Rest(d)) /\ Len(Rest(d)) = Len(d) - 1
        BY <3>1, <4>0, LinkedRest
      <4>2. \A j \in 1 .. Len(d) - 1 : Rest(d)[j] = d[j + 1]
        <5>1. d \in Seq(Nat)
          BY <2>2
        <5> QED BY <4>0, <5>1, HeadTailProperties DEF Rest
      <4> QED BY <4>1, <4>2 DEF Linked
    <3>3. Len(d) = n - k /\ (n - k) - 1 = n - (k + 1) /\ n - k \in Nat
      BY <1>1, <2>2
    <3>4. ASSUME NEW j \in 1 .. n - (k + 1) PROVE Rest(d)[j] = c[(k + 1) + j]
      <4>1. j + 1 \in 1 .. n - k /\ k + (j + 1) = (k + 1) + j
        BY <1>1
      <4> QED BY <2>2, <3>2, <3>3, <4>1
    <3> QED BY <3>2, <3>3, <3>4
  <2>8. \A y \in DOMAIN H : y # x => Kept(m, t, H[y])
    BY <2>1, <2>3, <2>6 DEF Kept
  <2>9. after[k + 1] = t
    BY <1>5 DEF s
  <2> HIDE DEF t, Left, F
  <2>10. Good(k + 1)
    BY <2>1, <2>3, <2>6, <2>7, <2>8, <2>9
  <2>11. k + 1 \in 0 .. n
    BY <1>1
  <2> HIDE DEF Good
  <2> QED BY <2>10, <2>11
<1>8. Good(n)
  <2> HIDE DEF T
  <2>1. n \in T
    BY <1>1, <1>6, <1>7, Induction
  <2> HIDE DEF Good
  <2> QED BY <2>1 DEF T
<1>9. PICK d : Left(n, d) /\ Counted(after[n], [H EXCEPT ![x] = d])
  BY <1>8
<1>10. d = <<>>
  <2>1. n - n = 0
    BY <1>1
  <2> QED BY <1>9, <2>1, EmptySeq
<1> QED BY <1>2, <1>8, <1>9, <1>10 DEF c

\* One reference more.
LEMMA CountOne ==
    ASSUME NEW m, Pool(m), NEW id, At(m, id).nref # 0
    PROVE  LET s == [m EXCEPT !.heap[id].nref = @ + 1]
           IN  /\ Pool(s) /\ s.lost = m.lost /\ DOMAIN s.heap = DOMAIN m.heap
               /\ \A i : i # id => At(s, i) = At(m, i)
               /\ At(s, id) = [At(m, id) EXCEPT !.nref = @ + 1]
<1> DEFINE s == [m EXCEPT !.heap[id].nref = @ + 1]
           new == [m.heap[id] EXCEPT !.nref = @ + 1]
           h == [m.heap EXCEPT ![id] = new]
<1>1. id \in DOMAIN m.heap /\ id \in Nat /\ At(m, id) = m.heap[id] /\ m.heap[id] \in Cell
  BY PoolFacts
<1>2. m.heap[id].nref \in Nat /\ m.heap[id].nref # 0
  BY <1>1 DEF Cell
<1>3. new \in Cell /\ new.nref # 0 /\ new.next = m.heap[id].next
  BY <1>1, <1>2 DEF Cell
<1>4. s = [heap |-> h, free |-> m.free, lost |-> m.lost]
  <2>1. m = [heap |-> m.heap, free |-> m.free, lost |-> m.lost]
    BY DEF Pool
  <2> QED BY <2>1
<1> HIDE DEF s
<1>5. h \in Seq(Cell) /\ DOMAIN h = DOMAIN m.heap
  <2>1. m.heap \in [1 .. Len(m.heap) -> Cell] /\ Len(m.heap) \in Nat
    BY PoolFacts DEF Pool
  <2> HIDE DEF new
  <2>2. h \in [1 .. Len(m.heap) -> Cell]
    BY <1>3, <2>1
  <2> QED BY <2>1, <2>2
<1>6. h[id] = new /\ \A i \in DOMAIN h : i # id => h[i] = m.heap[i]
  BY <1>1, <1>5
<1> HIDE DEF h
<1>7. Pool(s)
  <2>1. s.heap = h /\ s.free = m.free /\ s.lost = m.lost
    BY <1>4
  <2>2. s \in [heap : Seq(Cell), free : SUBSET Nat, lost : SUBSET Nat]
    BY <1>4, <1>5 DEF Pool
  <2>3. m.lost \subseteq DOMAIN h
    BY <1>5 DEF Pool
  <2>4. ASSUME NEW i \in DOMAIN h
        PROVE  /\ h[i].next \in DOMAIN h \cup {Nil}
               /\ h[i].nref = 0 => h[i] = Empty
               /\ h[i].nref = 0 <=> i \in m.free
    <3>1. CASE i = id
      <4>1. id \notin m.free /\ h[id].next \in DOMAIN h \cup {Nil}
        BY <1>1, <1>2, <1>3, <1>5, <1>6 DEF Pool
      <4> QED BY <1>3, <1>6, <3>1, <4>1
    <3>2. CASE i # id
      BY <1>5, <1>6, <3>2 DEF Pool
    <3> QED BY <3>1, <3>2
  <2>5. m.free = {i \in DOMAIN h : h[i].nref = 0}
    <3>1. m.free \subseteq DOMAIN h
      BY <1>5 DEF Pool
    <3> QED BY <2>4, <3>1
  <2> QED BY <2>1, <2>2, <2>3, <2>4, <2>5 DEF Pool
<1>8. At(s, id) = new /\ \A i : i # id => At(s, i) = At(m, i)
  BY <1>1, <1>4, <1>5, <1>6 DEF At
<1>9. DOMAIN s.heap = DOMAIN m.heap /\ s.lost = m.lost
  BY <1>4, <1>5
<1> QED BY <1>1, <1>7, <1>8, <1>9 DEF s

\* The loop of ixp_srv_clonefiles.
CountAll(m, r) ==
    LET count(s, i) == [s EXCEPT !.heap[i].nref = @ + 1]
    IN  Over(count, m, r)

\* One reference more for every element of a chain.
LEMMA CountAllFacts ==
    ASSUME NEW m, Pool(m), NEW r \in Seq(Nat), \A j, k \in 1 .. Len(r) : r[j] = r[k] => j = k,
           \A k \in 1 .. Len(r) : At(m, r[k]).nref # 0
    PROVE  LET s == CountAll(m, r)
           IN  /\ Pool(s) /\ s.lost = m.lost /\ DOMAIN s.heap = DOMAIN m.heap
               /\ \A i : i \notin Elems(r) => At(s, i) = At(m, i)
               /\ \A i \in Elems(r) : At(s, i) = [At(m, i) EXCEPT !.nref = @ + 1]
<1> DEFINE n == Len(r)
           count(s, i) == [s EXCEPT !.heap[i].nref = @ + 1]
           Step(g, k) == IF k = 0 THEN m ELSE count(g[k - 1], r[k])
           Upto(g, k) == g = [j \in 0 .. k |-> Step(g, j)]
           after == CHOOSE g : Upto(g, n)
<1>1. n \in Nat
  BY LenProperties
<1>2. CountAll(m, r) = after[n]
  BY DEF CountAll, Over
<1> HIDE DEF count
<1>3. \E g : Upto(g, n)
  <2> DEFINE S == {k \in 0 .. n : \E g : Upto(g, k)}
  <2>1. 0 \in S
    <3>1. Upto([j \in 0 .. 0 |-> m], 0)
      OBVIOUS
    <3>2. 0 \in 0 .. n
      BY <1>1
    <3> HIDE DEF Upto
    <3> QED BY <3>1, <3>2
  <2>2. ASSUME NEW k \in 0 .. n - 1, k \in S PROVE k + 1 \in S
    <3>1. PICK g : Upto(g, k)
      BY <2>2
    <3> DEFINE h == [j \in 0 .. k + 1 |-> IF j = k + 1 THEN Step(g, j) ELSE g[j]]
    <3>2. ASSUME NEW j \in 0 .. k + 1 PROVE h[j] = Step(h, j)
      <4>1. j # 0 => j - 1 \in 0 .. k + 1 /\ j - 1 # k + 1 /\ h[j - 1] = g[j - 1]
        BY <1>1
      <4>2. Step(h, j) = Step(g, j)
        BY <4>1
      <4>3. CASE j = k + 1
        BY <4>2, <4>3
      <4>4. CASE j # k + 1
        <5>1. j \in 0 .. k
          BY <1>1, <4>4
        <5>2. g[j] = Step(g, j)
          BY <3>1, <5>1
        <5> QED BY <4>2, <4>4, <5>2
      <4> QED BY <4>3, <4>4
    <3>3. h = [j \in 0 .. k + 1 |-> h[j]]
      OBVIOUS
    <3> HIDE DEF h, Step
    <3>4. Upto(h, k + 1)
      BY <3>2, <3>3
    <3>5. k + 1 \in 0 .. n
      BY <1>1
    <3> HIDE DEF Upto
    <3> QED BY <3>4, <3>5
  <2> HIDE DEF S
  <2>3. n \in S
    BY <1>1, <2>1, <2>2, Induction
  <2> QED BY <2>3 DEF S
<1>4. Upto(after, n)
  <2> HIDE DEF Upto
  <2> QED BY <1>3
<1> HIDE DEF after
<1>5. after[0] = m /\ \A k \in 0 .. n - 1 : after[k + 1] = count(after[k], r[k + 1])
  <2>1. ASSUME NEW k \in 0 .. n PROVE after[k] = Step(after, k)
    <3> HIDE DEF Step
    <3> QED BY <1>4
  <2>2. 0 \in 0 .. n
    BY <1>1
  <2>3. ASSUME NEW k \in 0 .. n - 1 PROVE after[k + 1] = count(after[k], r[k + 1])
    <3>1. k + 1 \in 0 .. n /\ k + 1 # 0 /\ (k + 1) - 1 = k
      BY <1>1
    <3>2. after[k + 1] = Step(after, k + 1)
      BY <2>1, <3>1
    <3> QED BY <3>1, <3>2
  <2> QED BY <2>1, <2>2, <2>3
<1> HIDE DEF Step, Upto, n
<1> DEFINE first(k) == {r[j] : j \in 1 .. k}
           Good(k) == LET s == after[k] IN
               /\ Pool(s) /\ s.lost = m.lost /\ DOMAIN s.heap = DOMAIN m.heap
               /\ \A i : i \notin first(k) => At(s, i) = At(m, i)
               /\ \A i \in first(k) : At(s, i) = [At(m, i) EXCEPT !.nref = @ + 1]
           T == {k \in 0 .. n : Good(k)}
<1>6. 0 \in T
  <2>1. first(0) = {}
    OBVIOUS
  <2> HIDE DEF first
  <2>2. Good(0)
    BY <1>5, <2>1
  <2> HIDE DEF Good
  <2> QED BY <1>1, <2>2
<1>7. ASSUME NEW k \in 0 .. n - 1, k \in T PROVE k + 1 \in T
  <2> DEFINE s == after[k]
             id == r[k + 1]
             t == count(s, id)
  <2>0. k + 1 \in 1 .. n /\ k + 1 \in 0 .. n
    BY <1>1
  <2>1. /\ Pool(s) /\ s.lost = m.lost /\ DOMAIN s.heap = DOMAIN m.heap
        /\ \A i : i \notin first(k) => At(s, i) = At(m, i)
        /\ \A i \in first(k) : At(s, i) = [At(m, i) EXCEPT !.nref = @ + 1]
    BY <1>7
  <2>2. id \notin first(k)
    <3> SUFFICES ASSUME NEW j \in 1 .. k, r[j] = id PROVE FALSE
      OBVIOUS
    <3>1. j \in 1 .. n /\ j # k + 1
      BY <1>1
    <3> QED BY <2>0, <3>1 DEF n
  <2>3. first(k + 1) = first(k) \cup {id}
    <3>1. \A j : j \in 1 .. k + 1 <=> j \in 1 .. k \/ j = k + 1
      BY <1>1
    <3> QED BY <3>1
  <2> HIDE DEF first
  <2>4. At(s, id).nref # 0
    <3>1. At(m, id).nref # 0
      BY <2>0 DEF n
    <3> QED BY <2>1, <2>2, <3>1
  <2>5. after[k + 1] = t
    BY <1>5
  <2> HIDE DEF s, id
  <2>6. /\ Pool(t) /\ t.lost = s.lost /\ DOMAIN t.heap = DOMAIN s.heap
        /\ \A i : i # id => At(t, i) = At(s, i)
        /\ At(t, id) = [At(s, id) EXCEPT !.nref = @ + 1]
    BY <2>1, <2>4, CountOne DEF count
  <2> HIDE DEF t
  <2>7. Good(k + 1)
    BY <2>1, <2>2, <2>3, <2>5, <2>6
  <2> HIDE DEF Good
  <2> QED BY <2>0, <2>7
<1>8. Good(n)
  <2> HIDE DEF T
  <2>1. n \in T
    BY <1>1, <1>6, <1>7, Induction
  <2> HIDE DEF Good
  <2> QED BY <2>1 DEF T
<1>9. first(n) = Elems(r)
  BY DEF Elems, n
<1> HIDE DEF first
<1> QED BY <1>2, <1>8, <1>9

\* ixp_srv_clonefiles: x gets a chain that ends like y's.
LEMMA CloneFacts ==
    ASSUME NEW m, NEW H, Pool(m), Counted(m, H), NEW x \in DOMAIN H, NEW y \in DOMAIN H,
           H[x] = <<>>, H[y] # <<>>
    PROVE  LET s == CloneFiles(m, H[y][1])
               id == NewFile(m)
           IN  /\ Pool(s) /\ Counted(s, [H EXCEPT ![x] = Cons(id, Rest(H[y]))])
               /\ s.lost = m.lost /\ id \in Nat
               /\ \A z \in DOMAIN H : Kept(m, s, H[z])
               /\ At(s, id).file = At(m, H[y][1]).file /\ At(s, id).p = At(m, H[y][1]).p
<1> DEFINE c == H[y]
           r == Rest(c)
           o == m.heap[c[1]]
           u == GetFile(m, o.next, o.file, o.p)
           id == NewFile(m)
           s == CountAll(u, r)
           G == [H EXCEPT ![x] = Cons(id, r)]
<1>1. \A z \in DOMAIN H : Linked(m, H[z])
  BY DEF Counted
<1>2. Chain(m, c[1]) = c
  BY <1>1, ChainFacts
<1>3. CloneFiles(m, c[1]) = s
  BY <1>2 DEF CloneFiles, CountAll, Rest
<1>4. /\ Linked(m, r) /\ c[1] \in DOMAIN m.heap /\ Elems(r) \subseteq Elems(c)
      /\ r = <<>> => o.next = Nil
      /\ r # <<>> => o.next = r[1]
  <2>1. Linked(m, c) /\ c # <<>>
    BY <1>1
  <2> HIDE DEF c
  <2>2. Linked(m, r) /\ c[1] \in DOMAIN m.heap /\ Elems(c) = Elems(r) \cup {c[1]}
    BY <2>1, LinkedRest
  <2>3. /\ r = <<>> => o.next = Nil
        /\ r # <<>> => o.next = r[1]
    BY <2>1, LinkedRest
  <2> QED BY <2>2, <2>3
<1>5. /\ o = At(m, c[1]) /\ o \in Cell /\ o.next \in DOMAIN m.heap \cup {Nil}
      /\ o.file \in Paths /\ o.p \in 0 .. MaxP
  <2>1. o = At(m, c[1]) /\ o \in Cell
    BY <1>4, PoolFacts
  <2>2. o.next \in DOMAIN m.heap \cup {Nil}
    BY <1>4 DEF Pool
  <2> QED BY <2>1, <2>2 DEF Cell
<1> HIDE DEF c, r, o
<1>6. /\ Pool(u) /\ u.lost = m.lost
      /\ DOMAIN m.heap \subseteq DOMAIN u.heap
      /\ id \in DOMAIN u.heap /\ id \in Nat /\ At(m, id) = Empty
      /\ At(u, id) = [next |-> o.next, nref |-> 1, file |-> o.file, p |-> o.p]
      /\ \A i : i # id => At(u, i) = At(m, i)
  <2> DEFINE a == o.next
             b == o.file
             e == o.p
  <2>1. a \in DOMAIN m.heap \cup {Nil} /\ b \in Paths /\ e \in 0 .. MaxP /\ u = GetFile(m, a, b, e)
    BY <1>5
  <2> HIDE DEF a, b, e, u
  <2> DEFINE v == GetFile(m, a, b, e)
  <2>2. /\ Pool(v) /\ v.lost = m.lost
        /\ DOMAIN m.heap \subseteq DOMAIN v.heap
        /\ id \in DOMAIN v.heap /\ id \in Nat /\ At(m, id) = Empty
        /\ At(v, id) = [next |-> a, nref |-> 1, file |-> b, p |-> e]
        /\ \A i : i # id => At(v, i) = At(m, i)
    BY <2>1, GetFileFacts
  <2>3. u = v
    BY <2>1
  <2> HIDE DEF v
  <2> QED BY <2>2, <2>3 DEF a, b, e
<1> HIDE DEF u, id
<1>7. \A z \in DOMAIN H : id \notin Elems(H[z])
  BY <1>6, EmptyFacts, HoldersFacts
<1>8. id \notin Elems(r)
  BY <1>4, <1>7 DEF c
<1>9. \A i \in Elems(r) : At(m, i).nref # 0 /\ y \in Holders(H, i)
  <2>1. \A i \in Elems(r) : y \in Holders(H, i)
    BY <1>4 DEF Holders, c
  <2> QED BY <2>1, HoldersFacts
<1>10. /\ Pool(s) /\ s.lost = u.lost /\ DOMAIN s.heap = DOMAIN u.heap
       /\ \A i : i \notin Elems(r) => At(s, i) = At(u, i)
       /\ \A i \in Elems(r) : At(s, i) = [At(u, i) EXCEPT !.nref = @ + 1]
  <2>1. r \in Seq(Nat) /\ \A j, k \in 1 .. Len(r) : r[j] = r[k] => j = k
    BY <1>4 DEF Linked
  <2>2. \A k \in 1 .. Len(r) : At(u, r[k]).nref # 0
    <3> TAKE k \in 1 .. Len(r)
    <3>1. r[k] \in Elems(r)
      BY DEF Elems
    <3> QED BY <1>6, <1>8, <1>9, <3>1
  <2> QED BY <1>6, <2>1, <2>2, CountAllFacts
<1> HIDE DEF s
<1>11. \A i \in Elems(r) : /\ At(s, i).nref = At(m, i).nref + 1
                           /\ At(s, i).next = At(m, i).next
                           /\ At(s, i).file = At(m, i).file /\ At(s, i).p = At(m, i).p
  <2> SUFFICES ASSUME NEW i \in Elems(r)
               PROVE  /\ At(s, i).nref = At(m, i).nref + 1
                      /\ At(s, i).next = At(m, i).next
                      /\ At(s, i).file = At(m, i).file /\ At(s, i).p = At(m, i).p
    OBVIOUS
  <2>1. At(s, i) = [At(m, i) EXCEPT !.nref = @ + 1] /\ At(m, i) \in Cell
    BY <1>6, <1>8, <1>10, PoolFacts
  <2> QED BY <2>1 DEF Cell
<1>12. \A i : i # id /\ i \notin Elems(r) => At(s, i) = At(m, i)
  BY <1>6, <1>10
<1>13. At(s, id) = [next |-> o.next, nref |-> 1, file |-> o.file, p |-> o.p]
  BY <1>6, <1>8, <1>10
<1>14. ASSUME NEW z, z \in DOMAIN H \/ H[z] = r, Linked(m, H[z]), id \notin Elems(H[z])
       PROVE  Kept(m, s, H[z]) /\ Linked(s, H[z])
  <2>1. Kept(m, s, H[z])
    BY <1>11, <1>12, <1>14 DEF Kept
  <2>2. \A i \in Elems(H[z]) : i \in DOMAIN s.heap
    BY <1>6, <1>10, <1>14 DEF Linked, Elems
  <2> QED BY <1>14, <2>1, <2>2, LinkedKept
<1>15. Linked(s, r)
  <2>1. Kept(m, s, r)
    BY <1>8, <1>11, <1>12 DEF Kept
  <2>2. \A i \in Elems(r) : i \in DOMAIN s.heap
    BY <1>4, <1>6, <1>10 DEF Linked, Elems
  <2> QED BY <1>4, <2>1, <2>2, LinkedKept
<1>16. /\ DOMAIN G = DOMAIN H /\ G[x] = Cons(id, r)
       /\ \A z \in DOMAIN H : z # x => G[z] = H[z]
  OBVIOUS
<1> HIDE DEF G
<1>17. Linked(s, G[x]) /\ Elems(G[x]) = Elems(r) \cup {id}
  <2>1. r \in Seq(Nat)
    BY <1>4 DEF Linked
  <2>2. Elems(Cons(id, r)) = Elems(r) \cup {id}
    BY <1>6, <2>1, ConsFacts
  <2>3. id \in DOMAIN s.heap /\ s.heap[id].next = IF r = <<>> THEN Nil ELSE r[1]
    BY <1>4, <1>6, <1>10, <1>13 DEF At
  <2>4. Linked(s, Cons(id, r))
    BY <1>6, <1>8, <1>15, <2>3, LinkedCons
  <2> QED BY <1>16, <2>2, <2>4
<1>18. \A z \in DOMAIN H : Kept(m, s, H[z]) /\ Linked(s, H[z])
  BY <1>1, <1>7, <1>14
<1>19. x \notin Holders(H, id) /\ \A i : x \notin Holders(H, i)
  <2>1. Elems(<<>>) = {}
    BY DEF Elems
  <2> QED BY <2>1 DEF Holders
<1>20. ASSUME NEW i PROVE At(s, i).nref = Cardinality(Holders(G, i)) + Lost(s, i)
  <2>1. Lost(s, i) = Lost(m, i)
    BY <1>6, <1>10 DEF Lost
  <2>2. CASE i \in Elems(r) \cup {id}
    <3>1. Holders(G, i) = Holders(H, i) \cup {x}
      BY <1>16, <1>17, <1>19, <2>2 DEF Holders
    <3>2. IsFiniteSet(Holders(H, i)) /\ Cardinality(Holders(H, i)) \in Nat
      BY HoldersFacts
    <3>3. Cardinality(Holders(G, i)) = Cardinality(Holders(H, i)) + 1
      BY <1>19, <3>1, <3>2, FS_AddElement
    <3>4. At(m, i).nref = Cardinality(Holders(H, i)) + Lost(m, i) /\ Lost(m, i) \in {0, 1}
      BY HoldersFacts
    <3>5. At(s, i).nref = At(m, i).nref + 1
      <4>1. CASE i = id
        BY <1>6, <1>13, <4>1, EmptyFacts
      <4> QED BY <1>11, <2>2, <4>1
    <3> QED BY <2>1, <3>2, <3>3, <3>4, <3>5
  <2>3. CASE i \notin Elems(r) \cup {id}
    <3>1. Holders(G, i) = Holders(H, i)
      BY <1>16, <1>17, <1>19, <2>3 DEF Holders
    <3> QED BY <1>12, <2>1, <2>3, <3>1, HoldersFacts
  <2> QED BY <2>2, <2>3
<1>21. ASSUME NEW i \in s.lost PROVE s.heap[i].next = Nil
  <2>1. i \in DOMAIN m.heap /\ m.heap[i].next = Nil /\ i \in m.lost
    BY <1>6, <1>10 DEF Counted, Pool
  <2>2. i # id
    <3>1. Lost(m, i) = 1
      BY <2>1 DEF Lost
    <3> QED BY <1>6, <3>1, EmptyFacts, HoldersFacts
  <2>3. At(s, i).next = At(m, i).next
    BY <1>11, <1>12, <2>2
  <2> QED BY <1>6, <1>10, <2>1, <2>3 DEF At
<1>22. Counted(s, G)
  <2>1. IsFiniteSet(DOMAIN G)
    BY <1>16 DEF Counted
  <2> QED BY <1>16, <1>17, <1>18, <1>20, <1>21, <2>1 DEF Counted
<1>23. At(s, id).file = o.file /\ At(s, id).p = o.p
  BY <1>13
<1> QED BY <1>3, <1>5, <1>6, <1>10, <1>18, <1>22, <1>23 DEF G, c, r, id

\* What lookup found for "." is dropped: nothing points to it.
LEMMA LoseFacts ==
    ASSUME NEW m, NEW H, Pool(m), Counted(m, H), NEW file \in Paths, NEW p \in 0 .. MaxP
    PROVE  LET u == GetFile(m, Nil, file, p)
               s == [u EXCEPT !.lost = u.lost \cup {NewFile(m)}]
           IN  Pool(s) /\ Counted(s, H) /\ \A y \in DOMAIN H : Kept(m, s, H[y])
<1> DEFINE u == GetFile(m, Nil, file, p)
           id == NewFile(m)
           s == [u EXCEPT !.lost = u.lost \cup {id}]
<1>1. /\ Pool(u) /\ u.lost = m.lost
      /\ DOMAIN m.heap \subseteq DOMAIN u.heap
      /\ id \in DOMAIN u.heap /\ id \in Nat /\ At(m, id) = Empty
      /\ At(u, id) = [next |-> Nil, nref |-> 1, file |-> file, p |-> p]
      /\ \A i : i # id => At(u, i) = At(m, i)
  BY GetFileFacts
<1> HIDE DEF u, id
<1>2. s = [heap |-> u.heap, free |-> u.free, lost |-> u.lost \cup {id}]
  <2>1. u \in [heap : Seq(Cell), free : SUBSET Nat, lost : SUBSET Nat]
    BY <1>1 DEF Pool
  <2>2. u = [heap |-> u.heap, free |-> u.free, lost |-> u.lost]
    BY <2>1
  <2> QED BY <2>2
<1> HIDE DEF s
<1>3. Pool(s)
  <2>1. s.heap = u.heap /\ s.free = u.free /\ s.lost = u.lost \cup {id}
    BY <1>2
  <2>2. s \in [heap : Seq(Cell), free : SUBSET Nat, lost : SUBSET Nat]
    BY <1>1, <1>2 DEF Pool
  <2> QED BY <1>1, <2>1, <2>2 DEF Pool
<1>4. \A i : At(s, i) = At(u, i)
  BY <1>2 DEF At
<1>5. \A y \in DOMAIN H : id \notin Elems(H[y])
  BY <1>1, EmptyFacts, HoldersFacts
<1>6. ASSUME NEW y \in DOMAIN H PROVE Kept(m, s, H[y]) /\ Linked(s, H[y])
  <2>1. Kept(m, s, H[y])
    BY <1>1, <1>4, <1>5 DEF Kept
  <2>2. Linked(m, H[y])
    BY DEF Counted
  <2>3. \A i \in Elems(H[y]) : i \in DOMAIN s.heap
    BY <1>1, <1>2, <2>2 DEF Linked, Elems
  <2> QED BY <2>1, <2>2, <2>3, LinkedKept
<1>7. ASSUME NEW i PROVE At(s, i).nref = Cardinality(Holders(H, i)) + Lost(s, i)
  <2>1. CASE i = id
    <3>1. Holders(H, id) = {}
      BY <1>5 DEF Holders
    <3>2. Cardinality(Holders(H, id)) = 0
      BY <3>1, FS_EmptySet
    <3>3. Lost(s, id) = 1 /\ At(s, id).nref = 1
      BY <1>1, <1>2, <1>4 DEF Lost
    <3> QED BY <2>1, <3>2, <3>3
  <2>2. CASE i # id
    <3>1. Lost(s, i) = Lost(m, i)
      BY <1>1, <1>2, <2>2 DEF Lost
    <3> QED BY <1>1, <1>4, <2>2, <3>1, HoldersFacts
  <2> QED BY <2>1, <2>2
<1>8. ASSUME NEW i \in s.lost PROVE s.heap[i].next = Nil
  <2>1. CASE i = id
    <3>1. At(s, id).next = Nil
      BY <1>1, <1>4
    <3> QED BY <1>1, <1>2, <2>1, <3>1 DEF At
  <2>2. CASE i # id
    <3>1. i \in DOMAIN m.heap /\ m.heap[i].next = Nil
      BY <1>1, <1>2, <2>2 DEF Counted, Pool
    <3> QED BY <1>1, <1>2, <1>4, <2>2, <3>1 DEF At
  <2> QED BY <2>1, <2>2
<1>9. Counted(s, H)
  BY <1>6, <1>7, <1>8 DEF Counted
<1> QED BY <1>3, <1>6, <1>9 DEF s, u, id

-----------------------------------------------------------------------------
(* The files along a chain.                                                *)

\* The root is at its end, and each of its files is in the directory behind it.
Along(m, c) ==
    /\ c \in Seq(Nat) /\ c # <<>>
    /\ At(m, c[Len(c)]).file = <<>>
    /\ \A k \in 1 .. Len(c) - 1 :
        \E name \in STRING \ {"."} : At(m, c[k]).file = Append(At(m, c[k + 1]).file, name)

\* What FidPaths knows of it: the names and the p of its files, from the root.
Entry(m, i) == [name |-> Last(At(m, i).file), p |-> At(m, i).p]

Trail(m, c) == [k \in 1 .. Len(c) - 1 |-> Entry(m, c[Len(c) - k])]

\* The elements of a sequence that is not empty.
LEMMA SeqFacts ==
    ASSUME NEW c \in Seq(Nat), c # <<>>
    PROVE  Len(c) \in Nat /\ Len(c) >= 1 /\ \A k \in 1 .. Len(c) : c[k] \in Elems(c) /\ c[k] \in Nat
<1>1. Len(c) \in Nat /\ Len(c) >= 1
  BY EmptySeq, LenProperties
<1>2. \A k \in 1 .. Len(c) : c[k] \in Nat
  BY ElementOfSeq
<1> QED BY <1>1, <1>2 DEF Elems

\* A chain that is kept leads where it did.
LEMMA TrailKept ==
    ASSUME NEW m, NEW s, NEW c, Along(m, c), Kept(m, s, c)
    PROVE  Along(s, c) /\ Trail(s, c) = Trail(m, c)
<1>1. c \in Seq(Nat) /\ c # <<>>
  BY DEF Along
<1>2. Len(c) \in Nat /\ Len(c) >= 1
  BY <1>1, SeqFacts
<1>3. \A k \in 1 .. Len(c) : At(s, c[k]).file = At(m, c[k]).file /\ At(s, c[k]).p = At(m, c[k]).p
  BY <1>1, SeqFacts DEF Kept
<1>4. /\ Len(c) \in 1 .. Len(c)
      /\ \A k \in 1 .. Len(c) - 1 : k \in 1 .. Len(c) /\ k + 1 \in 1 .. Len(c) /\ Len(c) - k \in 1 .. Len(c)
  BY <1>2
<1>5. \A k \in 1 .. Len(c) - 1 : Entry(s, c[Len(c) - k]) = Entry(m, c[Len(c) - k])
  BY <1>3, <1>4 DEF Entry
<1>6. Trail(s, c) = Trail(m, c)
  BY <1>5 DEF Trail
<1>7. Along(s, c)
  <2>1. At(s, c[Len(c)]).file = <<>>
    BY <1>3, <1>4 DEF Along
  <2>2. ASSUME NEW k \in 1 .. Len(c) - 1
        PROVE  \E name \in STRING \ {"."} : At(s, c[k]).file = Append(At(s, c[k + 1]).file, name)
    <3>1. PICK name \in STRING \ {"."} : At(m, c[k]).file = Append(At(m, c[k + 1]).file, name)
      BY DEF Along
    <3> QED BY <1>3, <1>4, <3>1
  <2> QED BY <1>1, <2>1, <2>2 DEF Along
<1> QED BY <1>6, <1>7

\* One file more, in front.
LEMMA TrailCons ==
    ASSUME NEW m, NEW c \in Seq(Nat), c # <<>>, NEW i \in Nat
    PROVE  /\ Trail(m, Cons(i, c)) = Append(Trail(m, c), Entry(m, i))
           /\ \A k \in 1 .. Len(c) - 1 : Trail(m, c)[k] = Entry(m, c[Len(c) - k])
           /\ Len(Trail(m, c)) = Len(c) - 1 /\ DOMAIN Trail(m, c) = 1 .. Len(c) - 1
<1> DEFINE d == Cons(i, c)
           n == Len(c)
           t == Trail(m, c)
           E == {Entry(m, j) : j \in Nat}
<1>1. n \in Nat /\ n >= 1 /\ \A k \in 1 .. n : c[k] \in Nat
  BY SeqFacts
<1>2. Len(d) = n + 1 /\ d[1] = i /\ \A k \in 1 .. n : d[k + 1] = c[k]
  BY ConsFacts
<1>3. \A k \in 1 .. n - 1 : t[k] = Entry(m, c[n - k])
  BY DEF Trail
<1>4. t \in Seq(E) /\ Len(t) = n - 1 /\ DOMAIN t = 1 .. n - 1
  <2>1. \A k \in 1 .. n - 1 : n - k \in 1 .. n
    BY <1>1
  <2>2. t \in [1 .. n - 1 -> E]
    BY <1>1, <2>1 DEF Trail
  <2>3. n - 1 \in Nat
    BY <1>1
  <2> HIDE DEF t
  <2> QED BY <2>2, <2>3, FunctionIsSeq
<1> HIDE DEF d, n, t
<1> DEFINE a == Append(t, Entry(m, i))
<1>5. /\ a \in Seq(E) /\ Len(a) = n
      /\ \A k \in 1 .. n - 1 : a[k] = t[k]
      /\ a[n] = Entry(m, i)
  <2>1. Entry(m, i) \in E
    OBVIOUS
  <2> HIDE DEF E
  <2>2. /\ a \in Seq(E) /\ Len(a) = Len(t) + 1
        /\ \A k \in 1 .. Len(t) : a[k] = t[k]
        /\ a[Len(t) + 1] = Entry(m, i)
    BY <1>4, <2>1, AppendProperties
  <2>3. Len(t) + 1 = n
    BY <1>1, <1>4
  <2> QED BY <1>4, <2>2, <2>3
<1> HIDE DEF a, E
<1>6. ASSUME NEW k \in 1 .. n PROVE Entry(m, d[(n + 1) - k]) = a[k]
  <2>1. CASE k = n
    <3>1. (n + 1) - k = 1
      BY <1>1, <2>1
    <3> QED BY <1>2, <1>5, <2>1, <3>1
  <2>2. CASE k # n
    <3>1. k \in 1 .. n - 1 /\ n - k \in 1 .. n /\ (n - k) + 1 = (n + 1) - k
      BY <1>1, <2>2
    <3>2. d[(n - k) + 1] = c[n - k]
      BY <1>2, <3>1
    <3> QED BY <1>3, <1>5, <3>1, <3>2
  <2> QED BY <2>1, <2>2
<1>7. Trail(m, d) = [k \in 1 .. n |-> Entry(m, d[(n + 1) - k])]
  <2>1. Len(d) - 1 = n
    BY <1>1, <1>2
  <2> QED BY <1>2, <2>1 DEF Trail
<1>8. a = [k \in 1 .. n |-> a[k]]
  <2>1. DOMAIN a = 1 .. n
    BY <1>5, LenProperties
  <2> QED BY <1>5, <2>1
<1>9. Trail(m, d) = a
  BY <1>6, <1>7, <1>8
<1> QED BY <1>3, <1>4, <1>9 DEF a, t, d, n

\* Where an interval ends.
LEMMA IntervalEnd ==
    ASSUME NEW a \in Nat, NEW b \in Nat, 1 .. a = 1 .. b
    PROVE  a = b
<1>1. a > 0 => a \in 1 .. b
  BY a \in 1 .. a <=> a > 0
<1>2. b > 0 => b \in 1 .. a
  BY b \in 1 .. b <=> b > 0
<1> QED BY <1>1, <1>2

\* The names on the way to each file spell it.
LEMMA PrefixFacts ==
    ASSUME NEW m, Pool(m), NEW c, Along(m, c)
    PROVE  \A k \in 0 .. Len(c) - 1 :
               [j \in 1 .. k |-> Trail(m, c)[j].name] = At(m, c[Len(c) - k]).file
<1> DEFINE n == Len(c)
           t == Trail(m, c)
           prefix(k) == [j \in 1 .. k |-> t[j].name]
           S == {k \in 0 .. n - 1 : prefix(k) = At(m, c[n - k]).file}
<1>1. c \in Seq(Nat) /\ n \in Nat /\ n >= 1
  <2>1. c \in Seq(Nat) /\ c # <<>>
    BY DEF Along
  <2> QED BY <2>1, SeqFacts
<1>2. \A k \in 1 .. n - 1 : t[k] = Entry(m, c[n - k])
  BY DEF Trail
<1>3. At(m, c[n]).file = <<>>
  BY DEF Along
<1> DEFINE T == STRING
<1>4. \A i : At(m, i).file \in Seq(T)
  BY PoolFacts, FileIdAssumption DEF Cell
<1>5. ASSUME NEW k \in 1 .. n - 1
      PROVE  \E name : name \in T /\ At(m, c[k]).file = Append(At(m, c[k + 1]).file, name)
  BY DEF Along
<1> HIDE DEF n, t, T
<1>6. 0 \in S
  <2>1. n - 0 = n /\ 0 \in 0 .. n - 1
    BY <1>1
  <2>2. prefix(0) = <<>>
    OBVIOUS
  <2> QED BY <1>3, <2>1, <2>2
<1>7. ASSUME NEW k \in 0 .. (n - 1) - 1, k \in S PROVE k + 1 \in S
  <2> DEFINE l == n - (k + 1)
  <2>1. l \in 1 .. n - 1 /\ l + 1 = n - k /\ k + 1 \in 1 .. n - 1 /\ k + 1 \in 0 .. n - 1 /\ k \in Nat
    BY <1>1
  <2> DEFINE dir == At(m, c[l + 1]).file
             file == At(m, c[l]).file
  <2>2. PICK name : name \in T /\ file = Append(dir, name)
    BY <1>5, <2>1
  <2>3. dir \in Seq(T) /\ dir = prefix(k)
    BY <1>4, <1>7, <2>1
  <2>4. t[k + 1].name = Last(file)
    <3>1. t[k + 1] = Entry(m, c[l])
      BY <1>2, <2>1
    <3> HIDE DEF l
    <3> QED BY <3>1 DEF Entry
  <2>5. Len(dir) = k
    <3>1. Len(prefix(k)) = k
      <4> DEFINE q == prefix(k)
      <4>1. DOMAIN q = 1 .. k
        OBVIOUS
      <4>2. q \in Seq(T)
        BY <2>3
      <4> HIDE DEF q, prefix
      <4>3. DOMAIN q = 1 .. Len(q) /\ Len(q) \in Nat
        BY <4>2, LenProperties
      <4>4. 1 .. k = 1 .. Len(q)
        BY <4>1, <4>3
      <4> QED BY <2>1, <4>3, <4>4, IntervalEnd DEF q
    <3> QED BY <2>3, <3>1
  <2>6. \A j \in 1 .. k : dir[j] = t[j].name
    BY <2>3
  <2> HIDE DEF dir, file, l, prefix
  <2>7. /\ file \in Seq(T) /\ Len(file) = k + 1 /\ file[k + 1] = name
        /\ \A j \in 1 .. k : file[j] = dir[j]
    <3>1. /\ file \in Seq(T) /\ Len(file) = Len(dir) + 1 /\ file[Len(dir) + 1] = name
          /\ \A j \in 1 .. Len(dir) : file[j] = dir[j]
      <4> DEFINE q == Append(dir, name)
      <4>1. /\ q \in Seq(T) /\ Len(q) = Len(dir) + 1 /\ q[Len(dir) + 1] = name
            /\ \A j \in 1 .. Len(dir) : q[j] = dir[j]
        BY <2>2, <2>3, AppendProperties
      <4>2. file = q
        BY <2>2
      <4> HIDE DEF q
      <4> QED BY <4>1, <4>2
    <3> QED BY <2>5, <3>1
  <2>8. Last(file) = name
    BY <2>7 DEF Last
  <2>9. file = [j \in 1 .. k + 1 |-> t[j].name]
    <3>1. file = [j \in 1 .. k + 1 |-> file[j]]
      BY <2>7
    <3>2. ASSUME NEW j \in 1 .. k + 1 PROVE file[j] = t[j].name
      <4>1. j \in 1 .. k \/ j = k + 1
        BY <2>1
      <4> QED BY <2>4, <2>6, <2>7, <2>8, <4>1
    <3> QED BY <3>1, <3>2
  <2>10. prefix(k + 1) = At(m, c[n - (k + 1)]).file
    BY <2>9 DEF prefix, file, l
  <2> QED BY <2>1, <2>10
<1>8. ASSUME NEW k \in 0 .. n - 1 PROVE k \in S
  <2>1. k \in Nat
    BY <1>1
  <2>2. \A j \in 0 .. k - 1 : j \in 0 .. (n - 1) - 1
    BY <1>1
  <2> HIDE DEF S
  <2>3. \A j \in 0 .. k - 1 : j \in S => j + 1 \in S
    BY <1>7, <2>2
  <2> QED BY <1>6, <2>1, <2>3, Induction
<1> QED BY <1>8 DEF n, t

-----------------------------------------------------------------------------
(* Walks.                                                                  *)

\* x holds what it held.
LEMMA SameHolder ==
    ASSUME NEW m, NEW H, Counted(m, H), NEW x \in DOMAIN H
    PROVE  Counted(m, [H EXCEPT ![x] = H[x]])
<1> DEFINE G == [H EXCEPT ![x] = H[x]]
<1>1. DOMAIN G = DOMAIN H /\ \A y \in DOMAIN H : G[y] = H[y]
  OBVIOUS
<1> HIDE DEF G
<1>2. \A i : Holders(G, i) = Holders(H, i)
  BY <1>1 DEF Holders
<1>3. Counted(m, G)
  BY <1>1, <1>2 DEF Counted
<1> QED BY <1>3 DEF G

\* The last of a sequence, and what is before it.
LEMMA FrontFacts ==
    ASSUME NEW S, NEW t \in Seq(S), NEW e \in S
    PROVE  Front(Append(t, e)) = t /\ Last(Append(t, e)) = e /\ Append(t, e) # <<>>
<1> DEFINE a == Append(t, e)
<1>1. /\ a \in Seq(S) /\ a # <<>> /\ Len(a) = Len(t) + 1 /\ Len(t) \in Nat
      /\ \A i \in 1 .. Len(t) : a[i] = t[i]
      /\ a[Len(t) + 1] = e
  BY AppendProperties, LenProperties
<1> HIDE DEF a
<1>2. Last(a) = e
  BY <1>1 DEF Last
<1>3. Front(a) = [i \in 1 .. Len(t) |-> a[i]]
  <2>1. Front(a) = SubSeq(a, 1, Len(t))
    <3>1. Len(a) - 1 = Len(t)
      BY <1>1
    <3> QED BY <3>1 DEF Front
  <2>2. /\ Len(SubSeq(a, 1, Len(t))) = Len(t)
        /\ SubSeq(a, 1, Len(t)) \in Seq(S)
        /\ \A i \in 1 .. Len(t) : SubSeq(a, 1, Len(t))[i] = a[i]
    <3>1. \A i \in 1 .. Len(t) : a[i] \in S
      BY <1>1, ElementOfSeq
    <3>2. SubSeq(a, 1, Len(t)) = [i \in 1 .. Len(t) |-> a[i]]
      BY <1>1
    <3>3. [i \in 1 .. Len(t) |-> a[i]] \in [1 .. Len(t) -> S]
      BY <3>1
    <3> QED BY <1>1, <3>2, <3>3, FunctionIsSeq
  <2> QED BY <1>1, <2>1, <2>2
<1>4. t = [i \in 1 .. Len(t) |-> t[i]]
  BY LenProperties
<1>5. Front(a) = t
  BY <1>1, <1>3, <1>4
<1> QED BY <1>1, <1>2, <1>5 DEF a

\* The directories of a file on a chain are on the rest of the chain.
LEMMA AlongRest ==
    ASSUME NEW m, NEW c, Linked(m, c), Along(m, c), Rest(c) # <<>>
    PROVE  /\ Along(m, Rest(c))
           /\ Trail(m, c) # <<>>
           /\ Trail(m, Rest(c)) = Front(Trail(m, c))
<1> DEFINE d == Rest(c)
           n == Len(c)
<1>1. /\ c \in Seq(Nat) /\ c # <<>> /\ n \in Nat /\ n >= 1
      /\ At(m, c[n]).file = <<>>
  <2>1. c \in Seq(Nat) /\ c # <<>>
    BY DEF Along
  <2> QED BY <2>1, SeqFacts DEF Along
<1>2. /\ d \in Seq(Nat) /\ Len(d) = n - 1 /\ c[1] \in Nat
      /\ \A k \in 1 .. n - 1 : d[k] = c[k + 1]
  <2>1. Linked(m, d) /\ Len(d) = n - 1 /\ c[1] \in Nat /\ \A k \in 1 .. n - 1 : d[k] = c[k + 1]
    <3>1. c # <<>>
      BY <1>1
    <3>2. Linked(m, Rest(c)) /\ c[1] \in Nat
      BY <3>1, LinkedRest
    <3>3. Len(Rest(c)) = Len(c) - 1
      BY <3>1, LinkedRest
    <3>4. \A k \in 1 .. Len(c) - 1 : Rest(c)[k] = c[k + 1]
      BY <1>1, <3>1, HeadTailProperties DEF Rest
    <3> QED BY <3>2, <3>3, <3>4
  <2> QED BY <2>1 DEF Linked
<1>3. d # <<>> /\ n - 1 \in Nat /\ n - 1 >= 1
  <2>1. d # <<>>
    OBVIOUS
  <2> HIDE DEF d, n
  <2> QED BY <1>1, <1>2, <2>1, SeqFacts
<1>4. Along(m, d)
  <2>1. At(m, d[Len(d)]).file = <<>>
    <3>1. Len(d) \in 1 .. n - 1 /\ Len(d) + 1 = n
      BY <1>1, <1>2, <1>3
    <3> QED BY <1>1, <1>2, <3>1
  <2>2. ASSUME NEW k \in 1 .. Len(d) - 1
        PROVE  \E name \in STRING \ {"."} : At(m, d[k]).file = Append(At(m, d[k + 1]).file, name)
    <3>1. k \in 1 .. n - 1 /\ k + 1 \in 1 .. n - 1
      BY <1>1, <1>2
    <3>2. \E name \in STRING \ {"."} : At(m, c[k + 1]).file = Append(At(m, c[(k + 1) + 1]).file, name)
      BY <3>1 DEF Along
    <3> QED BY <1>2, <3>1, <3>2
  <2> QED BY <1>2, <1>3, <2>1, <2>2 DEF Along
<1>5. c = Cons(c[1], d)
  BY <1>1, LinkedJoin DEF Cons
<1> HIDE DEF d
<1>6. Trail(m, c) = Append(Trail(m, d), Entry(m, c[1]))
  <2>1. Trail(m, Cons(c[1], d)) = Append(Trail(m, d), Entry(m, c[1]))
    BY <1>2, <1>3, TrailCons
  <2> QED BY <1>5, <2>1
<1>7. Front(Trail(m, c)) = Trail(m, d) /\ Trail(m, c) # <<>>
  <2> DEFINE E == {Entry(m, j) : j \in Nat}
             t == Trail(m, d)
             e == Entry(m, c[1])
  <2>1. e \in E
    BY <1>2
  <2>2. t \in Seq(E)
    <3>1. \A k \in 1 .. Len(d) - 1 : Len(d) - k \in 1 .. Len(d)
      BY <1>2, <1>3
    <3>2. \A k \in 1 .. Len(d) : d[k] \in Nat
      BY <1>2, ElementOfSeq
    <3>3. t \in [1 .. Len(d) - 1 -> E]
      BY <3>1, <3>2 DEF Trail
    <3>4. Len(d) - 1 \in Nat
      BY <1>2, <1>3
    <3> HIDE DEF t, E
    <3> QED BY <3>3, <3>4, FunctionIsSeq
  <2>3. Trail(m, c) = Append(t, e)
    BY <1>6
  <2> HIDE DEF E, t, e
  <2>4. Front(Append(t, e)) = t /\ Append(t, e) # <<>>
    BY <2>1, <2>2, FrontFacts
  <2> QED BY <2>3, <2>4 DEF t
<1> QED BY <1>4, <1>7 DEF d

\* The names along a chain spell the file that it leads to.
LEMMA HereFacts ==
    ASSUME NEW m, Pool(m), NEW c, Along(m, c)
    PROVE  Abstract!Names(Trail(m, c)) = At(m, c[1]).file
<1> DEFINE n == Len(c)
           t == Trail(m, c)
<1>1. c \in Seq(Nat) /\ c # <<>> /\ n \in Nat /\ n >= 1
  <2>1. c \in Seq(Nat) /\ c # <<>>
    BY DEF Along
  <2> QED BY <2>1, SeqFacts
<1>2. n - 1 \in 0 .. n - 1 /\ n - (n - 1) = 1
  BY <1>1
<1>3. [j \in 1 .. n - 1 |-> t[j].name] = At(m, c[n - (n - 1)]).file
  BY <1>2, PrefixFacts
<1>4. DOMAIN t = 1 .. n - 1
  BY DEF Trail
<1> HIDE DEF t, n
<1>5. Abstract!Names(t) = At(m, c[1]).file
  BY <1>2, <1>3, <1>4 DEF Abstract!Names
<1> QED BY <1>5 DEF t

\* After a part of a walk in which x holds the chain: the memory was m and is
\* s, x holds e now, and nothing else has changed.
Moved(m, H, x, s, e) ==
    /\ Pool(s) /\ e # <<>> /\ Counted(s, [H EXCEPT ![x] = e]) /\ Along(s, e)
    /\ \A y \in DOMAIN H : y # x => Kept(m, s, H[y])

\* The state of the loop in ixp_srv_walkandclone, and the place in FidPaths.
LoopAt(s, e, ok) == [m |-> s, file |-> e[1], ok |-> ok]
Place(s, e, ok) == [ok |-> ok, files |-> Trail(s, e)]

\* w is where the loop is after a part of a walk, and at where FidPaths is.
Steps(m, H, x, w, at) ==
    \E s, e, ok : Moved(m, H, x, s, e) /\ ok \in BOOLEAN /\ w = LoopAt(s, e, ok) /\ at = Place(s, e, ok)

\* No change is a part of a walk.
LEMMA StandStill ==
    ASSUME NEW m, NEW H, Pool(m), Counted(m, H), NEW x \in DOMAIN H, H[x] # <<>>, Along(m, H[x])
    PROVE  Moved(m, H, x, m, H[x])
<1>1. Counted(m, [H EXCEPT ![x] = H[x]])
  BY SameHolder
<1>2. \A y \in DOMAIN H : Kept(m, m, H[y])
  BY DEF Kept
<1> QED BY <1>1, <1>2 DEF Moved

\* The name "..".
LEMMA WalkUpStep ==
    ASSUME NEW m, NEW H, Pool(m), Counted(m, H), NEW x \in DOMAIN H, H[x] # <<>>, Along(m, H[x])
    PROVE  Steps(m, H, x, WalkUp(LoopAt(m, H[x], TRUE)), Abstract!Onward(Place(m, H[x], TRUE), ".."))
<1> DEFINE c == H[x]
           t == Trail(m, c)
           w == LoopAt(m, c, TRUE)
           at == Place(m, c, TRUE)
<1>1. Linked(m, c)
  BY DEF Counted
<1>2. /\ c[1] \in DOMAIN m.heap
      /\ Rest(c) = <<>> => m.heap[c[1]].next = Nil
      /\ Rest(c) # <<>> => m.heap[c[1]].next = Rest(c)[1] /\ Rest(c)[1] \in DOMAIN m.heap
  <2>1. Linked(m, Rest(c))
    BY <1>1, LinkedRest
  <2>2. Rest(c) # <<>> => Rest(c)[1] \in DOMAIN m.heap
    BY <2>1, LinkedRest
  <2> QED BY <1>1, <2>2, LinkedRest
<1>3. w = [m |-> m, file |-> c[1], ok |-> TRUE] /\ at = [ok |-> TRUE, files |-> t]
  BY DEF LoopAt, Place
<1>4. Abstract!Onward(at, "..") = [ok |-> TRUE, files |-> IF t = <<>> THEN t ELSE Front(t)]
  <2> HIDE DEF at, t
  <2>1. at.ok = TRUE /\ at.files = t
    BY <1>3
  <2>2. Abstract!Onward(at, "..") = 
                    [at EXCEPT !.files = IF at.files = <<>> THEN at.files ELSE Front(at.files)]
    BY <2>1 DEF Abstract!Onward, Abstract!Front, Front
  <2> QED BY <1>3, <2>1, <2>2
<1> HIDE DEF w, at, t
<1>5. CASE Rest(c) = <<>>
  <2>1. WalkUp(w) = w
    BY <1>2, <1>3, <1>5 DEF WalkUp
  <2>2. t = <<>>
    <3>1. Len(Rest(c)) = Len(c) - 1 /\ Len(c) \in Nat
      BY <1>1, LinkedRest
    <3>2. Len(Rest(c)) = 0
      BY <1>5
    <3>3. 1 .. Len(c) - 1 = {}
      <4>1. Len(c) - 1 = 0
        BY <3>1, <3>2
      <4>2. 1 .. 0 = {}
        OBVIOUS
      <4> HIDE DEF c
      <4> QED BY <4>1, <4>2
    <3> QED BY <3>3 DEF t, Trail
  <2>3. Abstract!Onward(at, "..") = at
    BY <1>3, <1>4, <2>2
  <2>4. Moved(m, H, x, m, c)
    BY StandStill
  <2> QED BY <2>1, <2>3, <2>4 DEF Steps, w, at
<1>6. CASE Rest(c) # <<>>
  <2> DEFINE s == FreeFile(m, c[1])
             d == Rest(c)
             G == [H EXCEPT ![x] = Rest(@)]
  <2>1. /\ Pool(s) /\ Counted(s, G)
        /\ \A y \in DOMAIN H : Kept(m, s, G[y])
    BY Pop
  <2>2. G = [H EXCEPT ![x] = d] /\ G[x] = d /\ \A y \in DOMAIN H : y # x => G[y] = H[y]
    OBVIOUS
  <2>3. m.heap[c[1]].next = d[1] /\ d[1] # Nil
    <3>1. d[1] \in Nat
      BY <1>2, <1>6, PoolFacts
    <3> QED BY <1>2, <1>6, <3>1, EmptyFacts
  <2>4. WalkUp(w) = LoopAt(s, d, TRUE)
    <3> HIDE DEF s, d
    <3>1. WalkUp(w) = [m |-> FreeFile(m, c[1]), file |-> d[1], ok |-> TRUE]
      BY <1>3, <2>3 DEF WalkUp
    <3> QED BY <3>1 DEF LoopAt, s
  <2>5. Along(m, d) /\ t # <<>> /\ Trail(m, d) = Front(t)
    BY <1>1, <1>6, AlongRest DEF t
  <2> HIDE DEF s, d, G
  <2>6. Kept(m, s, d)
    BY <2>1, <2>2
  <2>7. Along(s, d) /\ Trail(s, d) = Trail(m, d)
    BY <2>5, <2>6, TrailKept
  <2>8. Moved(m, H, x, s, d)
    <3>1. d # <<>>
      BY <2>5 DEF Along
    <3> QED BY <2>1, <2>2, <2>7, <3>1 DEF Moved
  <2>9. Abstract!Onward(at, "..") = Place(s, d, TRUE)
    BY <1>4, <2>5, <2>7 DEF Place
  <2> QED BY <2>4, <2>8, <2>9 DEF Steps, w, at
<1> QED BY <1>5, <1>6

\* A name that lookup finds.
LEMMA WalkDownStep ==
    ASSUME NEW m, NEW H, Pool(m), Counted(m, H), NEW x \in DOMAIN H, H[x] # <<>>, Along(m, H[x]),
           tree \in [Paths -> 0 .. MaxP], NEW name, name \in STRING, name # "..", name # ".",
           Found(m, H[x][1], name)
    PROVE  Steps(m, H, x, WalkDown(LoopAt(m, H[x], TRUE), name), Abstract!Onward(Place(m, H[x], TRUE), name))
<1> DEFINE c == H[x]
           t == Trail(m, c)
           w == LoopAt(m, c, TRUE)
           at == Place(m, c, TRUE)
           file == At(m, c[1]).file
           child == Append(file, name)
<1>1. Linked(m, c) /\ c \in Seq(Nat)
  BY DEF Counted, Linked
<1>2. c[1] \in DOMAIN m.heap /\ c[1] \in Nat
  BY <1>1, LinkedRest
<1>3. m.heap[c[1]].file = file
  BY <1>2 DEF At
<1>4. Child(m, c[1], name) = child
  BY <1>3 DEF Child
<1>5. child \in Paths /\ tree[child] > 0 /\ tree[child] \in 0 .. MaxP
  BY <1>4 DEF Found
<1>6. file \in Seq(STRING)
  <2>1. file \in Paths
    BY PoolFacts DEF Cell
  <2> QED BY <2>1, FileIdAssumption
<1>7. w = [m |-> m, file |-> c[1], ok |-> TRUE] /\ at = [ok |-> TRUE, files |-> t]
  BY DEF LoopAt, Place
<1>8. Abstract!Names(t) = file
  BY HereFacts
<1> HIDE DEF w, at, t, file
<1>9. Abstract!Onward(at, name) = [ok |-> TRUE, files |-> Append(t, [name |-> name, p |-> tree[child]])]
  <2>1. at.ok = TRUE /\ at.files = t
    BY <1>7
  <2> HIDE DEF child
  <2>2. Append(Abstract!Names(at.files), name) = child
    BY <1>8, <2>1 DEF child
  <2>3. Abstract!Onward(at, name) = [at EXCEPT !.files = Append(@, [name |-> name, p |-> tree[child]])]
    BY <1>5, <2>1, <2>2 DEF Abstract!Onward
  <2> QED BY <1>7, <2>3
<1> DEFINE s == GetFile(m, c[1], child, tree[child])
           id == NewFile(m)
           G == [H EXCEPT ![x] = Cons(id, @)]
           d == Cons(id, c)
<1>10. WalkDown(w, name) = LoopAt(s, d, TRUE)
  <2>1. WalkDown(w, name) = [m |-> s, file |-> id, ok |-> TRUE]
    <3> HIDE DEF child
    <3>1. w.m = m /\ w.file = c[1] /\ w.ok = TRUE
      BY <1>7
    <3>2. WalkDown(w, name) = [w EXCEPT !.m = s, !.file = id]
      BY <1>4, <3>1 DEF WalkDown
    <3> HIDE DEF s, id
    <3> QED BY <1>7, <3>2
  <2>2. id \in Nat
    <3> DEFINE u == GetFile(m, Nil, <<>>, 0)
    <3>1. 0 \in 0 .. MaxP /\ <<>> \in Paths
      BY FileIdAssumption
    <3> QED BY <3>1, GetFileFacts
  <2> HIDE DEF s, id
  <2>3. d[1] = id
    BY <1>1, <2>2, ConsFacts
  <2> QED BY <2>1, <2>3 DEF LoopAt
<1>11. /\ Pool(s) /\ Counted(s, G)
       /\ id \in DOMAIN s.heap /\ id \in Nat
       /\ At(s, id) = [next |-> c[1], nref |-> 1, file |-> child, p |-> tree[child]]
       /\ \A y \in DOMAIN H : Kept(m, s, H[y]) /\ Linked(s, H[y]) /\ id \notin Elems(H[y])
  <2> HIDE DEF child
  <2>1. c[1] = IF H[x] = <<>> THEN Nil ELSE H[x][1]
    OBVIOUS
  <2> HIDE DEF c
  <2> QED BY <1>5, <2>1, Push
<1>12. G = [H EXCEPT ![x] = d]
  OBVIOUS
<1> HIDE DEF s, id, G
<1>13. Along(s, c) /\ Trail(s, c) = t
  <2>1. Kept(m, s, c)
    BY <1>11
  <2> QED BY <2>1, TrailKept DEF t
<1>14. Last(child) = name
  BY <1>6, FrontFacts
<1>15. Entry(s, id) = [name |-> name, p |-> tree[child]]
  <2> HIDE DEF child
  <2> QED BY <1>11, <1>14 DEF Entry
<1>16. Trail(s, d) = Append(t, [name |-> name, p |-> tree[child]])
  <2>1. Trail(s, d) = Append(Trail(s, c), Entry(s, id))
    <3>1. c # <<>>
      OBVIOUS
    <3> HIDE DEF c
    <3> QED BY <1>1, <1>11, <3>1, TrailCons
  <2> HIDE DEF child, d
  <2> QED BY <1>13, <1>15, <2>1
<1>17. Along(s, d)
  <2>1. /\ d \in Seq(Nat) /\ Len(d) = Len(c) + 1 /\ Len(c) \in Nat /\ d # <<>>
        /\ d[1] = id /\ \A k \in 1 .. Len(c) : d[k + 1] = c[k]
    BY <1>1, <1>11, ConsFacts
  <2>2. Len(c) >= 1
    BY <1>1, SeqFacts
  <2>3. /\ At(s, c[Len(c)]).file = <<>>
        /\ \A k \in 1 .. Len(c) - 1 :
            \E str \in STRING \ {"."} : At(s, c[k]).file = Append(At(s, c[k + 1]).file, str)
    BY <1>13 DEF Along
  <2>4. At(s, id).file = Append(At(s, c[1]).file, name)
    <3>1. At(s, c[1]).file = file
      <4>1. c[1] \in Elems(c)
        BY <1>1, SeqFacts
      <4> QED BY <1>11, <4>1 DEF Kept, file
    <3> QED BY <1>11, <3>1
  <2> HIDE DEF d, c
  <2>5. At(s, d[Len(d)]).file = <<>>
    <3>1. Len(c) \in 1 .. Len(c)
      BY <2>1, <2>2
    <3> QED BY <2>1, <2>3, <3>1
  <2>6. ASSUME NEW k \in 1 .. Len(d) - 1
        PROVE  \E str \in STRING \ {"."} : At(s, d[k]).file = Append(At(s, d[k + 1]).file, str)
    <3>1. k \in 1 .. Len(c) /\ d[k + 1] = c[k]
      BY <2>1
    <3>2. CASE k = 1
      <4>1. name \in STRING \ {"."}
        OBVIOUS
      <4>2. d[k] = id /\ d[k + 1] = c[1]
        BY <2>1, <3>1, <3>2
      <4> QED BY <2>4, <4>1, <4>2
    <3>3. CASE k # 1
      <4>1. k - 1 \in 1 .. Len(c) /\ k - 1 \in 1 .. Len(c) - 1 /\ (k - 1) + 1 = k
        BY <2>1, <3>1, <3>3
      <4>2. d[k] = c[k - 1]
        BY <2>1, <4>1
      <4>3. \E str \in STRING \ {"."} : At(s, c[k - 1]).file = Append(At(s, c[(k - 1) + 1]).file, str)
        BY <2>3, <4>1
      <4> QED BY <3>1, <4>1, <4>2, <4>3
    <3> QED BY <3>2, <3>3
  <2> QED BY <2>1, <2>5, <2>6 DEF Along
<1>18. Moved(m, H, x, s, d)
  <2>1. d # <<>>
    BY <1>17 DEF Along
  <2> QED BY <1>11, <1>12, <1>17, <2>1 DEF Moved
<1>19. Abstract!Onward(at, name) = Place(s, d, TRUE)
  <2> HIDE DEF child, d
  <2> QED BY <1>9, <1>16 DEF Place
<1> HIDE DEF d
<1> QED BY <1>10, <1>18, <1>19 DEF Steps, w, at

\* What lookup finds for "." is dropped, so the walk stays where it is.
LEMMA WalkDotStep ==
    ASSUME NEW m, NEW H, Pool(m), Counted(m, H), NEW x \in DOMAIN H, H[x] # <<>>, Along(m, H[x]),
           tree \in [Paths -> 0 .. MaxP], Found(m, H[x][1], ".")
    PROVE  Steps(m, H, x, WalkDown(LoopAt(m, H[x], TRUE), "."), Place(m, H[x], TRUE))
<1> DEFINE c == H[x]
           w == LoopAt(m, c, TRUE)
           child == Child(m, c[1], ".")
           u == GetFile(m, Nil, child, tree[child])
           s == [u EXCEPT !.lost = u.lost \cup {NewFile(m)}]
<1>1. child \in Paths /\ tree[child] \in 0 .. MaxP
  BY DEF Found
<1>2. w = [m |-> m, file |-> c[1], ok |-> TRUE]
  BY DEF LoopAt
<1>3. WalkDown(w, ".") = LoopAt(s, c, TRUE)
  <2> HIDE DEF w
  <2>1. w.m = m /\ w.file = c[1]
    BY <1>2
  <2>2. WalkDown(w, ".") = [w EXCEPT !.m = s]
    BY <2>1 DEF WalkDown
  <2> HIDE DEF s, c
  <2>3. WalkDown(w, ".") = [m |-> s, file |-> c[1], ok |-> TRUE]
    BY <1>2, <2>2
  <2> QED BY <2>3 DEF LoopAt
<1> HIDE DEF child
<1>4. Pool(s) /\ Counted(s, H) /\ \A y \in DOMAIN H : Kept(m, s, H[y])
  BY <1>1, LoseFacts
<1> HIDE DEF s
<1>5. Along(s, c) /\ Trail(s, c) = Trail(m, c)
  BY <1>4, TrailKept
<1>6. Counted(s, [H EXCEPT ![x] = c])
  BY <1>4, SameHolder
<1>7. Moved(m, H, x, s, c)
  <2>1. c # <<>>
    OBVIOUS
  <2> HIDE DEF c
  <2> QED BY <1>4, <1>5, <1>6, <2>1 DEF Moved
<1>8. Place(s, c, TRUE) = Place(m, c, TRUE)
  BY <1>5 DEF Place
<1> QED BY <1>3, <1>7, <1>8 DEF Steps

\* A part of a walk after another.
LEMMA StepsFollow ==
    ASSUME NEW m, NEW H, NEW x \in DOMAIN H, NEW s, NEW e, Moved(m, H, x, s, e),
           NEW w, NEW at, Steps(s, [H EXCEPT ![x] = e], x, w, at)
    PROVE  Steps(m, H, x, w, at)
<1> DEFINE G == [H EXCEPT ![x] = e]
<1>1. DOMAIN G = DOMAIN H /\ \A y \in DOMAIN H : y # x => G[y] = H[y]
  OBVIOUS
<1>2. PICK r, d, ok : Moved(s, G, x, r, d) /\ ok \in BOOLEAN /\ w = LoopAt(r, d, ok) /\ at = Place(r, d, ok)
  BY DEF Steps
<1>3. [G EXCEPT ![x] = d] = [H EXCEPT ![x] = d]
  OBVIOUS
<1> HIDE DEF G
<1>4. Pool(r) /\ d # <<>> /\ Counted(r, [H EXCEPT ![x] = d]) /\ Along(r, d)
  BY <1>2, <1>3 DEF Moved
<1>5. ASSUME NEW y \in DOMAIN H, y # x PROVE Kept(m, r, H[y])
  <2>1. Kept(m, s, H[y])
    BY <1>5 DEF Moved
  <2>2. Kept(s, r, H[y])
    BY <1>1, <1>2, <1>5 DEF Moved
  <2> QED BY <2>1, <2>2 DEF Kept
<1>6. Moved(m, H, x, r, d)
  BY <1>4, <1>5 DEF Moved
<1> QED BY <1>2, <1>6 DEF Steps

\* One name of a walk.
LEMMA WalkNameStep ==
    ASSUME NEW m, NEW H, NEW x \in DOMAIN H, NEW w, NEW at, Steps(m, H, x, w, at),
           tree \in [Paths -> 0 .. MaxP], NEW name, name \in STRING
    PROVE  Steps(m, H, x, WalkName(w, name), Abstract!Onward(at, name))
<1>1. PICK s, e, ok : Moved(m, H, x, s, e) /\ ok \in BOOLEAN /\ w = LoopAt(s, e, ok) /\ at = Place(s, e, ok)
  BY DEF Steps
<1> DEFINE G == [H EXCEPT ![x] = e]
           file == At(s, e[1]).file
<1>2. G[x] = e /\ DOMAIN G = DOMAIN H
  OBVIOUS
<1>3. Pool(s) /\ e # <<>> /\ Counted(s, G) /\ Along(s, e)
  BY <1>1 DEF Moved
<1>4. w = [m |-> s, file |-> e[1], ok |-> ok] /\ at = [ok |-> ok, files |-> Trail(s, e)]
  BY <1>1 DEF LoopAt, Place
<1>5. w.m = s /\ w.file = e[1] /\ w.ok = ok /\ at.ok = ok /\ at.files = Trail(s, e)
  BY <1>4
<1>6. Abstract!Names(at.files) = file
  BY <1>3, <1>5, HereFacts
<1>7. Child(s, e[1], name) = IF name = "." THEN file ELSE Append(file, name)
  <2>1. Linked(s, e)
    BY <1>2, <1>3 DEF Counted
  <2>2. e[1] \in DOMAIN s.heap
    BY <1>3, <2>1, LinkedRest
  <2> QED BY <2>2 DEF Child, At
<1>8. file \in Paths
  BY <1>3, PoolFacts DEF Cell
<1>9. CASE ~ok
  <2>1. WalkName(w, name) = w
    BY <1>5, <1>9 DEF WalkName
  <2>2. Abstract!Onward(at, name) = at
    BY <1>5, <1>9 DEF Abstract!Onward
  <2> QED BY <2>1, <2>2
<1>10. CASE ok /\ name = ".."
  <2>0. ok = TRUE
    BY <1>1, <1>10
  <2>1. WalkName(w, name) = WalkUp(w)
    BY <1>5, <1>10 DEF WalkName
  <2> HIDE DEF G
  <2>2. Steps(s, G, x, WalkUp(LoopAt(s, G[x], TRUE)), Abstract!Onward(Place(s, G[x], TRUE), ".."))
    BY <1>2, <1>3, WalkUpStep
  <2>3. Steps(s, G, x, WalkUp(w), Abstract!Onward(at, ".."))
    BY <1>1, <1>2, <2>0, <2>2
  <2>4. Steps(m, H, x, WalkUp(w), Abstract!Onward(at, ".."))
    BY <1>1, <2>3, StepsFollow DEF G
  <2> QED BY <1>10, <2>1, <2>4
<1>11. CASE ok /\ name # ".." /\ ~Found(s, e[1], name)
  <2>1. WalkName(w, name) = LoopAt(s, e, FALSE)
    <3>1. WalkName(w, name) = [w EXCEPT !.ok = FALSE]
      BY <1>5, <1>11 DEF WalkName
    <3> QED BY <1>4, <3>1 DEF LoopAt
  <2>2. Abstract!Onward(at, name) = Place(s, e, FALSE)
    <3>1. CASE name = "."
      <4>1. ~(tree[file] > 0)
        BY <1>7, <1>8, <1>11, <3>1 DEF Found
      <4> HIDE DEF file
      <4>2. Abstract!Onward(at, name) = [at EXCEPT !.ok = tree[file] > 0]
        BY <1>5, <1>6, <1>11, <3>1 DEF Abstract!Onward
      <4>3. (tree[file] > 0) = FALSE
        BY <4>1
      <4>4. Abstract!Onward(at, name) = [at EXCEPT !.ok = FALSE]
        BY <4>2, <4>3
      <4> QED BY <1>4, <4>4 DEF Place
    <3>2. CASE name # "."
      <4> DEFINE child == Append(file, name)
      <4>1. ~(child \in Paths /\ tree[child] > 0)
        BY <1>7, <1>11, <3>2 DEF Found
      <4> HIDE DEF child
      <4>2. Append(Abstract!Names(at.files), name) = child
        BY <1>6 DEF child
      <4>3. Abstract!Onward(at, name) = [at EXCEPT !.ok = FALSE]
        BY <1>5, <1>11, <3>2, <4>1, <4>2 DEF Abstract!Onward
      <4> QED BY <1>4, <4>3 DEF Place
    <3> QED BY <3>1, <3>2
  <2> QED BY <1>1, <2>1, <2>2 DEF Steps
<1>12. CASE ok /\ name # ".." /\ Found(s, e[1], name)
  <2>0. ok = TRUE
    BY <1>1, <1>12
  <2>1. WalkName(w, name) = WalkDown(w, name)
    BY <1>5, <1>12 DEF WalkName
  <2>2. Steps(s, G, x, WalkDown(w, name), Abstract!Onward(at, name))
    <3>1. CASE name = "."
      <4>1. tree[file] > 0
        BY <1>7, <1>12, <3>1 DEF Found
      <4>2. Abstract!Onward(at, name) = [at EXCEPT !.ok = tree[file] > 0]
        <5> HIDE DEF file
        <5> QED BY <1>5, <1>6, <1>12, <3>1 DEF Abstract!Onward
      <4>3. (tree[file] > 0) = TRUE
        BY <4>1
      <4>4. Abstract!Onward(at, name) = at
        BY <1>4, <2>0, <4>2, <4>3
      <4> HIDE DEF G
      <4>5. Steps(s, G, x, WalkDown(LoopAt(s, G[x], TRUE), "."), Place(s, G[x], TRUE))
        BY <1>2, <1>3, <1>12, <3>1, WalkDotStep
      <4> QED BY <1>1, <1>2, <2>0, <3>1, <4>4, <4>5
    <3>2. CASE name # "."
      <4> HIDE DEF G
      <4>1. Steps(s, G, x, WalkDown(LoopAt(s, G[x], TRUE), name), Abstract!Onward(Place(s, G[x], TRUE), name))
        BY <1>2, <1>3, <1>12, <3>2, WalkDownStep
      <4> QED BY <1>1, <1>2, <2>0, <4>1
    <3> QED BY <3>1, <3>2
  <2>3. Steps(m, H, x, WalkDown(w, name), Abstract!Onward(at, name))
    BY <1>1, <2>2, StepsFollow
  <2> QED BY <2>1, <2>3
<1> QED BY <1>1, <1>9, <1>10, <1>11, <1>12

\* The loop of ixp_srv_walkandclone.
WalkLoop(w, names) == Over(WalkName, w, names)

\* What Over computes for a walk: one state for every name.
LEMMA WalkStates ==
    ASSUME NEW w, NEW names, Len(names) \in Nat
    PROVE  \E after : /\ after[0] = w /\ WalkLoop(w, names) = after[Len(names)]
                      /\ \A k \in 0 .. Len(names) - 1 : after[k + 1] = WalkName(after[k], names[k + 1])
<1> DEFINE n == Len(names)
           Step(g, k) == IF k = 0 THEN w ELSE WalkName(g[k - 1], names[k])
           Upto(g, k) == g = [j \in 0 .. k |-> Step(g, j)]
           after == CHOOSE g : Upto(g, n)
<1>1. n \in Nat
  OBVIOUS
<1>2. WalkLoop(w, names) = after[n]
  BY DEF WalkLoop, Over
<1>3. \E g : Upto(g, n)
  <2> DEFINE S == {k \in 0 .. n : \E g : Upto(g, k)}
  <2>1. 0 \in S
    <3>1. Upto([j \in 0 .. 0 |-> w], 0)
      OBVIOUS
    <3>2. 0 \in 0 .. n
      BY <1>1
    <3> HIDE DEF Upto
    <3> QED BY <3>1, <3>2
  <2>2. ASSUME NEW k \in 0 .. n - 1, k \in S PROVE k + 1 \in S
    <3>1. PICK g : Upto(g, k)
      BY <2>2
    <3> DEFINE h == [j \in 0 .. k + 1 |-> IF j = k + 1 THEN Step(g, j) ELSE g[j]]
    <3>2. ASSUME NEW j \in 0 .. k + 1 PROVE h[j] = Step(h, j)
      <4>1. j # 0 => j - 1 \in 0 .. k + 1 /\ j - 1 # k + 1 /\ h[j - 1] = g[j - 1]
        BY <1>1
      <4>2. Step(h, j) = Step(g, j)
        BY <4>1
      <4>3. CASE j = k + 1
        BY <4>2, <4>3
      <4>4. CASE j # k + 1
        <5>1. j \in 0 .. k
          BY <1>1, <4>4
        <5>2. g[j] = Step(g, j)
          BY <3>1, <5>1
        <5> QED BY <4>2, <4>4, <5>2
      <4> QED BY <4>3, <4>4
    <3>3. h = [j \in 0 .. k + 1 |-> h[j]]
      OBVIOUS
    <3> HIDE DEF h, Step
    <3>4. Upto(h, k + 1)
      BY <3>2, <3>3
    <3>5. k + 1 \in 0 .. n
      BY <1>1
    <3> HIDE DEF Upto
    <3> QED BY <3>4, <3>5
  <2> HIDE DEF S
  <2>3. n \in S
    BY <1>1, <2>1, <2>2, Induction
  <2> QED BY <2>3 DEF S
<1>4. Upto(after, n)
  <2> HIDE DEF Upto
  <2> QED BY <1>3
<1> HIDE DEF after
<1>5. after[0] = w /\ \A k \in 0 .. n - 1 : after[k + 1] = WalkName(after[k], names[k + 1])
  <2>1. ASSUME NEW k \in 0 .. n PROVE after[k] = Step(after, k)
    <3> HIDE DEF Step
    <3> QED BY <1>4
  <2>2. 0 \in 0 .. n
    BY <1>1
  <2>3. ASSUME NEW k \in 0 .. n - 1 PROVE after[k + 1] = WalkName(after[k], names[k + 1])
    <3>1. k + 1 \in 0 .. n /\ k + 1 # 0 /\ (k + 1) - 1 = k
      BY <1>1
    <3>2. after[k + 1] = Step(after, k + 1)
      BY <2>1, <3>1
    <3> QED BY <3>1, <3>2
  <2> QED BY <2>1, <2>2, <2>3
<1> QED BY <1>2, <1>5

\* The same for the walk of FidPaths.
LEMMA PlaceStates ==
    ASSUME NEW files, NEW names, Len(names) \in Nat
    PROVE  \E after : /\ after[0] = [ok |-> TRUE, files |-> files]
                      /\ Abstract!Walked(files, names) = after[Len(names)]
                      /\ \A k \in 0 .. Len(names) - 1 :
                            after[k + 1] = Abstract!Onward(after[k], names[k + 1])
<1> DEFINE n == Len(names)
           w == [ok |-> TRUE, files |-> files]
           Step(g, k) == IF k = 0 THEN w ELSE Abstract!Onward(g[k - 1], names[k])
           Upto(g, k) == g = [j \in 0 .. k |-> Step(g, j)]
           after == CHOOSE g : Upto(g, n)
<1>1. n \in Nat
  OBVIOUS
<1>2. Abstract!Walked(files, names) = after[n]
  BY DEF Abstract!Walked
<1> HIDE DEF w
<1>3. \E g : Upto(g, n)
  <2> DEFINE S == {k \in 0 .. n : \E g : Upto(g, k)}
  <2>1. 0 \in S
    <3>1. Upto([j \in 0 .. 0 |-> w], 0)
      OBVIOUS
    <3>2. 0 \in 0 .. n
      BY <1>1
    <3> HIDE DEF Upto
    <3> QED BY <3>1, <3>2
  <2>2. ASSUME NEW k \in 0 .. n - 1, k \in S PROVE k + 1 \in S
    <3>1. PICK g : Upto(g, k)
      BY <2>2
    <3> DEFINE h == [j \in 0 .. k + 1 |-> IF j = k + 1 THEN Step(g, j) ELSE g[j]]
    <3>2. ASSUME NEW j \in 0 .. k + 1 PROVE h[j] = Step(h, j)
      <4>1. j # 0 => j - 1 \in 0 .. k + 1 /\ j - 1 # k + 1 /\ h[j - 1] = g[j - 1]
        BY <1>1
      <4>2. Step(h, j) = Step(g, j)
        BY <4>1
      <4>3. CASE j = k + 1
        BY <4>2, <4>3
      <4>4. CASE j # k + 1
        <5>1. j \in 0 .. k
          BY <1>1, <4>4
        <5>2. g[j] = Step(g, j)
          BY <3>1, <5>1
        <5> QED BY <4>2, <4>4, <5>2
      <4> QED BY <4>3, <4>4
    <3>3. h = [j \in 0 .. k + 1 |-> h[j]]
      OBVIOUS
    <3> HIDE DEF h, Step
    <3>4. Upto(h, k + 1)
      BY <3>2, <3>3
    <3>5. k + 1 \in 0 .. n
      BY <1>1
    <3> HIDE DEF Upto
    <3> QED BY <3>4, <3>5
  <2> HIDE DEF S
  <2>3. n \in S
    BY <1>1, <2>1, <2>2, Induction
  <2> QED BY <2>3 DEF S
<1>4. Upto(after, n)
  <2> HIDE DEF Upto
  <2> QED BY <1>3
<1> HIDE DEF after
<1>5. after[0] = w /\ \A k \in 0 .. n - 1 : after[k + 1] = Abstract!Onward(after[k], names[k + 1])
  <2>1. ASSUME NEW k \in 0 .. n PROVE after[k] = Step(after, k)
    <3> HIDE DEF Step
    <3> QED BY <1>4
  <2>2. 0 \in 0 .. n
    BY <1>1
  <2>3. ASSUME NEW k \in 0 .. n - 1 PROVE after[k + 1] = Abstract!Onward(after[k], names[k + 1])
    <3>1. k + 1 \in 0 .. n /\ k + 1 # 0 /\ (k + 1) - 1 = k
      BY <1>1
    <3>2. after[k + 1] = Step(after, k + 1)
      BY <2>1, <3>1
    <3> QED BY <3>1, <3>2
  <2> QED BY <2>1, <2>2, <2>3
<1> QED BY <1>2, <1>5 DEF w

\* A walk by all its names.
LEMMA WalkFacts ==
    ASSUME NEW m, NEW H, NEW x \in DOMAIN H, NEW w, NEW files,
           Steps(m, H, x, w, [ok |-> TRUE, files |-> files]),
           tree \in [Paths -> 0 .. MaxP], NEW names \in Walks
    PROVE  Steps(m, H, x, WalkLoop(w, names), Abstract!Walked(files, names))
<1> DEFINE n == Len(names)
<1>1. n \in Nat /\ \A k \in 1 .. n : names[k] \in STRING
  BY FileIdAssumption, LenProperties, ElementOfSeq
<1>2. PICK a : /\ a[0] = w /\ WalkLoop(w, names) = a[n]
               /\ \A k \in 0 .. n - 1 : a[k + 1] = WalkName(a[k], names[k + 1])
  BY <1>1, WalkStates
<1>3. PICK b : /\ b[0] = [ok |-> TRUE, files |-> files] /\ Abstract!Walked(files, names) = b[n]
               /\ \A k \in 0 .. n - 1 : b[k + 1] = Abstract!Onward(b[k], names[k + 1])
  BY <1>1, PlaceStates
<1> DEFINE S == {k \in 0 .. n : Steps(m, H, x, a[k], b[k])}
<1>4. 0 \in S
  BY <1>1, <1>2, <1>3
<1>5. ASSUME NEW k \in 0 .. n - 1, k \in S PROVE k + 1 \in S
  <2>1. k + 1 \in 0 .. n /\ k + 1 \in 1 .. n
    BY <1>1
  <2>2. names[k + 1] \in STRING
    BY <1>1, <2>1
  <2>3. Steps(m, H, x, a[k], b[k])
    BY <1>5
  <2>4. Steps(m, H, x, WalkName(a[k], names[k + 1]), Abstract!Onward(b[k], names[k + 1]))
    BY <2>2, <2>3, WalkNameStep
  <2> QED BY <1>2, <1>3, <2>1, <2>4
<1> HIDE DEF S
<1>6. n \in S
  BY <1>1, <1>4, <1>5, Induction
<1>7. Steps(m, H, x, a[n], b[n])
  BY <1>6 DEF S
<1> QED BY <1>2, <1>3, <1>7

-----------------------------------------------------------------------------
(* Listings.                                                               *)

\* One file of the list that lookup makes for ixp_srv_readdir, and all of them.
AddFile(s, x) == [m |-> GetFile(s.m, s.file, x, tree[x]), file |-> NewFile(s.m)]

AddLoop(s, seq) == Over(AddFile, s, seq)

\* One state for every file of the list.
LEMMA AddStates ==
    ASSUME NEW w, NEW names, Len(names) \in Nat
    PROVE  \E after : /\ after[0] = w /\ AddLoop(w, names) = after[Len(names)]
                      /\ \A k \in 0 .. Len(names) - 1 : after[k + 1] = AddFile(after[k], names[k + 1])
<1> DEFINE n == Len(names)
           Step(g, k) == IF k = 0 THEN w ELSE AddFile(g[k - 1], names[k])
           Upto(g, k) == g = [j \in 0 .. k |-> Step(g, j)]
           after == CHOOSE g : Upto(g, n)
<1>1. n \in Nat
  OBVIOUS
<1>2. AddLoop(w, names) = after[n]
  BY DEF AddLoop, Over
<1>3. \E g : Upto(g, n)
  <2> DEFINE S == {k \in 0 .. n : \E g : Upto(g, k)}
  <2>1. 0 \in S
    <3>1. Upto([j \in 0 .. 0 |-> w], 0)
      OBVIOUS
    <3>2. 0 \in 0 .. n
      BY <1>1
    <3> HIDE DEF Upto
    <3> QED BY <3>1, <3>2
  <2>2. ASSUME NEW k \in 0 .. n - 1, k \in S PROVE k + 1 \in S
    <3>1. PICK g : Upto(g, k)
      BY <2>2
    <3> DEFINE h == [j \in 0 .. k + 1 |-> IF j = k + 1 THEN Step(g, j) ELSE g[j]]
    <3>2. ASSUME NEW j \in 0 .. k + 1 PROVE h[j] = Step(h, j)
      <4>1. j # 0 => j - 1 \in 0 .. k + 1 /\ j - 1 # k + 1 /\ h[j - 1] = g[j - 1]
        BY <1>1
      <4>2. Step(h, j) = Step(g, j)
        BY <4>1
      <4>3. CASE j = k + 1
        BY <4>2, <4>3
      <4>4. CASE j # k + 1
        <5>1. j \in 0 .. k
          BY <1>1, <4>4
        <5>2. g[j] = Step(g, j)
          BY <3>1, <5>1
        <5> QED BY <4>2, <4>4, <5>2
      <4> QED BY <4>3, <4>4
    <3>3. h = [j \in 0 .. k + 1 |-> h[j]]
      OBVIOUS
    <3> HIDE DEF h, Step
    <3>4. Upto(h, k + 1)
      BY <3>2, <3>3
    <3>5. k + 1 \in 0 .. n
      BY <1>1
    <3> HIDE DEF Upto
    <3> QED BY <3>4, <3>5
  <2> HIDE DEF S
  <2>3. n \in S
    BY <1>1, <2>1, <2>2, Induction
  <2> QED BY <2>3 DEF S
<1>4. Upto(after, n)
  <2> HIDE DEF Upto
  <2> QED BY <1>3
<1> HIDE DEF after
<1>5. after[0] = w /\ \A k \in 0 .. n - 1 : after[k + 1] = AddFile(after[k], names[k + 1])
  <2>1. ASSUME NEW k \in 0 .. n PROVE after[k] = Step(after, k)
    <3> HIDE DEF Step
    <3> QED BY <1>4
  <2>2. 0 \in 0 .. n
    BY <1>1
  <2>3. ASSUME NEW k \in 0 .. n - 1 PROVE after[k + 1] = AddFile(after[k], names[k + 1])
    <3>1. k + 1 \in 0 .. n /\ k + 1 # 0 /\ (k + 1) - 1 = k
      BY <1>1
    <3>2. after[k + 1] = Step(after, k + 1)
      BY <2>1, <3>1
    <3> QED BY <3>1, <3>2
  <2> QED BY <2>1, <2>2, <2>3
<1> QED BY <1>2, <1>5

\* The list that lookup makes is a chain which x comes to hold.
Listed(m, H, x, w, e) ==
    /\ Pool(w.m) /\ Counted(w.m, [H EXCEPT ![x] = e])
    /\ e # <<>> => w.file = e[1]
    /\ e = <<>> => w.file = Nil
    /\ \A y \in DOMAIN H : y # x => Kept(m, w.m, H[y])

\* lookup adds one file to its list.
LEMMA AddStep ==
    ASSUME NEW m, NEW H, NEW x \in DOMAIN H, NEW w, NEW e, Listed(m, H, x, w, e),
           tree \in [Paths -> 0 .. MaxP], NEW file \in Paths
    PROVE  LET d == Cons(NewFile(w.m), e)
           IN  d # <<>> /\ Listed(m, H, x, AddFile(w, file), d)
<1> DEFINE s == w.m
           G == [H EXCEPT ![x] = e]
           id == NewFile(s)
           next == w.file
           t == GetFile(s, next, file, tree[file])
           d == Cons(id, e)
           F == [G EXCEPT ![x] = Cons(id, @)]
<1>1. /\ G[x] = e /\ DOMAIN G = DOMAIN H /\ F = [H EXCEPT ![x] = d]
      /\ \A y \in DOMAIN H : y # x => G[y] = H[y]
  OBVIOUS
<1>2. Pool(s) /\ Counted(s, G) /\ \A y \in DOMAIN H : y # x => Kept(m, s, H[y])
  BY DEF Listed
<1>3. next = IF G[x] = <<>> THEN Nil ELSE G[x][1]
  <2> HIDE DEF G
  <2> QED BY <1>1 DEF Listed
<1>4. tree[file] \in 0 .. MaxP
  OBVIOUS
<1>5. AddFile(w, file).m = t /\ AddFile(w, file).file = id
  BY DEF AddFile
<1>6. e \in Seq(Nat)
  <2> HIDE DEF G
  <2> QED BY <1>1, <1>2 DEF Counted, Linked
<1> HIDE DEF s, next, G
<1>7. /\ Pool(t) /\ Counted(t, F) /\ id \in Nat
      /\ \A y \in DOMAIN G : Kept(s, t, G[y])
  BY <1>1, <1>2, <1>3, <1>4, Push
<1> HIDE DEF t, id
<1>8. d # <<>> /\ d[1] = id
  BY <1>6, <1>7, ConsFacts
<1>9. ASSUME NEW y \in DOMAIN H, y # x PROVE Kept(m, t, H[y])
  <2>1. Kept(m, s, H[y]) /\ Kept(s, t, H[y])
    BY <1>1, <1>2, <1>7, <1>9
  <2> QED BY <2>1 DEF Kept
<1> HIDE DEF F, d
<1>10. Listed(m, H, x, AddFile(w, file), d)
  BY <1>1, <1>5, <1>7, <1>8, <1>9 DEF Listed
<1> QED BY <1>8, <1>10 DEF d, id, s

\* The list that ixp_srv_readdir packs.
LEMMA ListingFacts ==
    ASSUME NEW m, NEW H, Pool(m), Counted(m, H), NEW x \in DOMAIN H, H[x] = <<>>,
           tree \in [Paths -> 0 .. MaxP], NEW dir \in Paths
    PROVE  \E e : e # <<>> /\ Listed(m, H, x, Listing(m, dir), e)
<1> DEFINE children == {y \in Paths : y # <<>> /\ Front(y) = dir /\ tree[y] > 0}
           q == SetToSeq(children)
           names == q \o <<dir>>
           n == Len(names)
           w == [m |-> m, file |-> Nil]
<1>1. q \in Seq(Paths)
  <2>1. children \in SUBSET Paths
    OBVIOUS
  <2> HIDE DEF children
  <2>2. IsFiniteSet(children)
    BY <2>1, FileIdAssumption, FS_Subset
  <2> DEFINE k == Cardinality(children)
  <2>3. k \in Nat /\ ExistsBijection(1 .. k, children)
    BY <2>2, FS_CardinalityType
  <2>4. PICK f : f \in Bijection(1 .. k, children)
    BY <2>3 DEF ExistsBijection
  <2>5. f \in [1 .. k -> children] /\ IsInjective(f)
    BY <2>4 DEF Bijection, Injection
  <2>6. q \in [1 .. k -> children]
    BY <2>5 DEF SetToSeq
  <2>7. q \in [1 .. k -> Paths]
    <3> HIDE DEF q, k
    <3> QED BY <2>1, <2>6
  <2> HIDE DEF q, k
  <2> QED BY <2>3, <2>7, FunctionIsSeq
<1>2. /\ n \in Nat /\ n >= 1 /\ \A k \in 1 .. n : names[k] \in Paths
  <2> HIDE DEF q
  <2>1. <<dir>> \in Seq(Paths) /\ Len(<<dir>>) = 1
    OBVIOUS
  <2> DEFINE one == <<dir>>
  <2> HIDE DEF one
  <2>2. names \in Seq(Paths) /\ n = Len(q) + Len(one)
    BY <1>1, <2>1, ConcatProperties DEF one
  <2>3. Len(q) \in Nat
    BY <1>1, LenProperties
  <2> HIDE DEF names
  <2>4. n = Len(q) + 1
    BY <2>1, <2>2 DEF one
  <2> QED BY <2>2, <2>3, <2>4, ElementOfSeq
<1>3. Listing(m, dir) = AddLoop(w, names)
  BY DEF Listing, AddLoop, AddFile, Over
<1> HIDE DEF q, names, w
<1>4. PICK a : /\ a[0] = w /\ AddLoop(w, names) = a[n]
               /\ \A k \in 0 .. n - 1 : a[k + 1] = AddFile(a[k], names[k + 1])
  BY <1>2, AddStates
<1> DEFINE S == {k \in 0 .. n : \E e : (k # 0 => e # <<>>) /\ Listed(m, H, x, a[k], e)}
<1>5. 0 \in S
  <2>1. Counted(m, [H EXCEPT ![x] = <<>>])
    BY SameHolder
  <2>2. \A y \in DOMAIN H : Kept(m, m, H[y])
    BY DEF Kept
  <2>3. w.m = m /\ w.file = Nil
    BY DEF w
  <2>4. Listed(m, H, x, w, <<>>)
    BY <2>1, <2>2, <2>3 DEF Listed
  <2> QED BY <1>2, <1>4, <2>4
<1>6. ASSUME NEW k \in 0 .. n - 1, k \in S PROVE k + 1 \in S
  <2>1. k + 1 \in 0 .. n /\ k + 1 \in 1 .. n
    BY <1>2
  <2>2. PICK e : Listed(m, H, x, a[k], e)
    BY <1>6
  <2>3. names[k + 1] \in Paths
    BY <1>2, <2>1
  <2> DEFINE d == Cons(NewFile(a[k].m), e)
  <2>4. d # <<>> /\ Listed(m, H, x, AddFile(a[k], names[k + 1]), d)
    BY <2>2, <2>3, AddStep
  <2> HIDE DEF d
  <2>5. d # <<>> /\ Listed(m, H, x, a[k + 1], d)
    BY <1>4, <2>4
  <2> QED BY <2>1, <2>5
<1> HIDE DEF S
<1>7. n \in S
  BY <1>2, <1>5, <1>6, Induction
<1>8. n # 0
  BY <1>2
<1> HIDE DEF n
<1>9. \E e : e # <<>> /\ Listed(m, H, x, a[n], e)
  BY <1>7, <1>8 DEF S
<1> QED BY <1>3, <1>4, <1>9

-----------------------------------------------------------------------------
(* The handlers.                                                           *)

\* H[f] is the chain of each fid in use, whose first the aux a points to.
Held(m, a, H) ==
    /\ Pool(m) /\ Counted(m, H)
    /\ a \in [Fids -> Nat \cup {Nil}]
    /\ DOMAIN H = {f \in Fids : a[f] # Nil}
    /\ \A f \in DOMAIN H : H[f] # <<>> /\ H[f][1] = a[f] /\ Along(m, H[f])

\* No set has everything in it, so there is always one holder more.
LEMMA Fresh ==
    ASSUME NEW S
    PROVE  \E X : X \notin S
<1> DEFINE X == {y \in S : y \notin y}
<1>1. X \notin S
  OBVIOUS
<1> QED BY <1>1

\* G is H with one holder more, that holds nothing.
More(G, H, X) ==
    /\ X \notin DOMAIN H /\ DOMAIN G = DOMAIN H \cup {X}
    /\ G[X] = <<>> /\ \A y \in DOMAIN H : G[y] = H[y]

\* A holder of nothing may always be added.
LEMMA OneMore ==
    ASSUME NEW m, NEW H, Counted(m, H), NEW X, X \notin DOMAIN H
    PROVE  \E G : Counted(m, G) /\ More(G, H, X)
<1> DEFINE G == [y \in DOMAIN H \cup {X} |-> IF y = X THEN <<>> ELSE H[y]]
<1>1. /\ DOMAIN G = DOMAIN H \cup {X} /\ G[X] = <<>>
      /\ \A y \in DOMAIN H : G[y] = H[y]
  OBVIOUS
<1>2. IsFiniteSet(DOMAIN H)
  BY DEF Counted
<1>3. IsFiniteSet(DOMAIN H \cup {X})
  BY <1>2, FS_AddElement
<1> HIDE DEF G
<1>4. Counted(m, G)
  BY <1>1, <1>3, EmptyHolder
<1>5. More(G, H, X)
  BY <1>1 DEF More
<1> QED BY <1>4, <1>5

\* f takes what X holds.
LEMMA Transfer ==
    ASSUME NEW m, NEW G, Pool(m), Counted(m, G), NEW X \in DOMAIN G, NEW f, f # X,
           f \in DOMAIN G => G[f] = <<>>,
           NEW F, DOMAIN F = (DOMAIN G \ {X}) \cup {f}, F[f] = G[X],
           \A y \in DOMAIN F : y # f => F[y] = G[y]
    PROVE  Counted(m, F)
<1> DEFINE E == [y \in DOMAIN G \cup {f} |-> IF y = f THEN <<>> ELSE G[y]]
           R == [E EXCEPT ![X] = <<>>, ![f] = E[X]]
<1>1. IsFiniteSet(DOMAIN G)
  BY DEF Counted
<1>2. IsFiniteSet(DOMAIN G \cup {f})
  BY <1>1, FS_AddElement
<1>3. DOMAIN E = DOMAIN G \cup {f} /\ E[f] = <<>> /\ \A y \in DOMAIN G : y # f => E[y] = G[y]
  OBVIOUS
<1>4. \A y \in DOMAIN G : G[y] = <<>> \/ E[y] = G[y]
  BY <1>3
<1>5. DOMAIN R = DOMAIN E /\ R[X] = <<>> /\ R[f] = G[X] /\ \A y \in DOMAIN E : y # X /\ y # f => R[y] = E[y]
  OBVIOUS
<1> HIDE DEF E
<1>6. Counted(m, E)
  BY <1>2, <1>3, <1>4, EmptyHolder
<1>7. Counted(m, R)
  BY <1>3, <1>6, Rename
<1> HIDE DEF R
<1>8. IsFiniteSet(DOMAIN F)
  <2>1. DOMAIN F \in SUBSET (DOMAIN G \cup {f})
    OBVIOUS
  <2> QED BY <1>2, <2>1, FS_Subset
<1>9. \A y \in DOMAIN F : y \in DOMAIN R /\ F[y] = R[y]
  BY <1>3, <1>5
<1>10. \A y \in DOMAIN R : R[y] = <<>> \/ (y \in DOMAIN F /\ F[y] = R[y])
  BY <1>3, <1>5, <1>9
<1> QED BY <1>7, <1>8, <1>9, <1>10, EmptyHolder

\* The chains of the other fids lead where they did.
LEMMA OthersKept ==
    ASSUME NEW m, NEW a, NEW H, Held(m, a, H), NEW s, NEW f \in DOMAIN H, Kept(m, s, H[f])
    PROVE  Along(s, H[f]) /\ Trail(s, H[f]) = Trail(m, H[f])
BY TrailKept DEF Held

\* After a step the fid g leads along the files v, and the others as before.
Leads(m, H, s, b, g, v) ==
    \E G : /\ Held(s, b, G) /\ DOMAIN G = DOMAIN H \cup {g} /\ Trail(s, G[g]) = v
           /\ \A y \in DOMAIN H : y # g => Trail(s, G[y]) = Trail(m, H[y])

\* After a step the fid g is not in use, and the others lead where they did.
Gone(m, H, s, b, g) ==
    \E G : /\ Held(s, b, G) /\ DOMAIN G = DOMAIN H \ {g}
           /\ \A y \in DOMAIN G : Trail(s, G[y]) = Trail(m, H[y])

\* The fid of an attach leads to the root.
LEMMA AttachFacts ==
    ASSUME NEW m, NEW a, NEW H, Held(m, a, H), NEW f \in Fids, a[f] = Nil, NEW p \in 0 .. MaxP
    PROVE  Leads(m, H, GetFile(m, Nil, <<>>, p), [a EXCEPT ![f] = NewFile(m)], f, <<>>)
<1> DEFINE s == GetFile(m, Nil, <<>>, p)
           id == NewFile(m)
           b == [a EXCEPT ![f] = id]
           c == Cons(id, <<>>)
<1>1. /\ Pool(m) /\ Counted(m, H) /\ a \in [Fids -> Nat \cup {Nil}]
      /\ DOMAIN H = {g \in Fids : a[g] # Nil}
  BY DEF Held
<1>2. f \notin DOMAIN H
  BY <1>1
<1>20. PICK E : Counted(m, E) /\ More(E, H, f)
  <2>1. Counted(m, H)
    BY <1>1
  <2> QED BY <1>2, <2>1, OneMore
<1>3. /\ Counted(m, E) /\ DOMAIN E = DOMAIN H \cup {f}
      /\ E[f] = <<>> /\ \A y \in DOMAIN H : E[y] = H[y]
  BY <1>20 DEF More
<1> DEFINE G == [E EXCEPT ![f] = Cons(id, @)]
<1>4. DOMAIN G = DOMAIN E /\ G[f] = c /\ \A y \in DOMAIN H : G[y] = H[y]
  BY <1>2, <1>3
<1>5. Nil = IF E[f] = <<>> THEN Nil ELSE E[f][1]
  BY <1>3
<1>6. <<>> \in Paths
  BY FileIdAssumption
<1>7. /\ Pool(s) /\ Counted(s, G) /\ id \in Nat
      /\ At(s, id) = [next |-> Nil, nref |-> 1, file |-> <<>>, p |-> p]
      /\ \A y \in DOMAIN E : Kept(m, s, E[y])
  <2>1. Pool(m)
    BY <1>1
  <2>2. f \in DOMAIN E
    BY <1>3
  <2>3. Counted(m, E)
    BY <1>3
  <2> QED BY <1>5, <1>6, <2>1, <2>2, <2>3, Push
<1> HIDE DEF s, id, G
<1>8. c \in Seq(Nat) /\ Len(c) = 1 /\ c[1] = id /\ c # <<>>
  <2>1. <<>> \in Seq(Nat) /\ Len(<<>>) = 0
    OBVIOUS
  <2> DEFINE z == <<>>
  <2> HIDE DEF z
  <2>2. Cons(id, z) \in Seq(Nat) /\ Len(Cons(id, z)) = Len(z) + 1 /\ Cons(id, z)[1] = id /\ Cons(id, z) # <<>>
    BY <1>7, <2>1, ConsFacts DEF z
  <2> QED BY <2>1, <2>2 DEF z
<1> HIDE DEF c
<1>9. Along(s, c) /\ Trail(s, c) = <<>>
  <2>1. \A k : k \notin 1 .. Len(c) - 1
    <3>1. Len(c) - 1 = 0
      BY <1>8
    <3>2. 1 .. 0 = {}
      OBVIOUS
    <3> QED BY <3>1, <3>2
  <2>2. At(s, c[Len(c)]).file = <<>>
    BY <1>7, <1>8
  <2>3. Along(s, c)
    BY <1>8, <2>1, <2>2 DEF Along
  <2>4. 1 .. Len(c) - 1 = {}
    BY <2>1
  <2>5. Trail(s, c) = <<>>
    <3> DEFINE D == 1 .. Len(c) - 1
    <3>1. Trail(s, c) = [k \in D |-> Entry(s, c[Len(c) - k])]
      BY DEF Trail
    <3>2. D = {}
      BY <2>4
    <3> HIDE DEF D
    <3> QED BY <3>1, <3>2
  <2> QED BY <2>3, <2>5
<1>10. b \in [Fids -> Nat \cup {Nil}] /\ DOMAIN G = {g \in Fids : b[g] # Nil}
  BY <1>1, <1>3, <1>4, <1>7, EmptyFacts
<1>11. ASSUME NEW y \in DOMAIN H
       PROVE  G[y] # <<>> /\ G[y][1] = b[y] /\ Along(s, G[y]) /\ Trail(s, G[y]) = Trail(m, H[y])
  <2>1. Kept(m, s, H[y]) /\ G[y] = H[y]
    BY <1>3, <1>4, <1>7
  <2>2. Along(s, H[y]) /\ Trail(s, H[y]) = Trail(m, H[y])
    BY <2>1, OthersKept
  <2>3. H[y] # <<>> /\ H[y][1] = a[y] /\ b[y] = a[y]
    BY <1>1, <1>2 DEF Held
  <2> QED BY <2>1, <2>2, <2>3
<1>12. b[f] = id
  BY <1>1
<1> HIDE DEF b
<1>13. Held(s, b, G)
  <2>1. ASSUME NEW y \in DOMAIN G PROVE G[y] # <<>> /\ G[y][1] = b[y] /\ Along(s, G[y])
    <3>1. CASE y = f
      BY <1>4, <1>8, <1>9, <1>12, <3>1
    <3>2. CASE y # f
      <4>1. y \in DOMAIN H
        BY <1>3, <1>4, <3>2
      <4> QED BY <1>11, <4>1
    <3> QED BY <3>1, <3>2
  <2> QED BY <1>7, <1>10, <2>1 DEF Held
<1>14. Trail(s, G[f]) = <<>>
  BY <1>4, <1>9
<1>15. Leads(m, H, s, b, f, <<>>)
  BY <1>3, <1>4, <1>11, <1>13, <1>14 DEF Leads
<1> QED BY <1>15 DEF s, b, id

\* freefid takes the chain of one fid and leaves the others.
LEMMA ClunkFacts ==
    ASSUME NEW m, NEW a, NEW H, Held(m, a, H), NEW f \in Fids, a[f] # Nil
    PROVE  /\ Gone(m, H, FreeChain(m, a[f]), [a EXCEPT ![f] = Nil], f)
           /\ DOMAIN FreeChain(m, a[f]).heap = DOMAIN m.heap
<1> DEFINE s == FreeChain(m, a[f])
           b == [a EXCEPT ![f] = Nil]
           E == [H EXCEPT ![f] = <<>>]
           G == [y \in DOMAIN H \ {f} |-> H[y]]
<1>1. /\ Pool(m) /\ Counted(m, H) /\ a \in [Fids -> Nat \cup {Nil}]
      /\ DOMAIN H = {g \in Fids : a[g] # Nil}
  BY DEF Held
<1>2. f \in DOMAIN H
  BY <1>1
<1>3. H[f] # <<>> /\ H[f][1] = a[f]
  BY <1>2 DEF Held
<1>4. /\ Pool(s) /\ Counted(s, E) /\ DOMAIN s.heap = DOMAIN m.heap
      /\ \A y \in DOMAIN H : y # f => Kept(m, s, H[y])
  <2>1. Pool(m) /\ Counted(m, H)
    BY <1>1
  <2>2. /\ Pool(FreeChain(m, H[f][1])) /\ Counted(FreeChain(m, H[f][1]), [H EXCEPT ![f] = <<>>])
        /\ DOMAIN FreeChain(m, H[f][1]).heap = DOMAIN m.heap
        /\ \A y \in DOMAIN H : y # f => Kept(m, FreeChain(m, H[f][1]), H[y])
    BY <1>2, <1>3, <2>1, FreeChainFacts
  <2> QED BY <1>3, <2>2
<1>5. DOMAIN E = DOMAIN H /\ E[f] = <<>> /\ \A y \in DOMAIN H : y # f => E[y] = H[y]
  BY <1>2
<1>6. DOMAIN G = DOMAIN H \ {f} /\ \A y \in DOMAIN G : y # f /\ y \in DOMAIN H /\ G[y] = H[y]
  OBVIOUS
<1> HIDE DEF s, E, G
<1>7. Counted(s, G)
  <2>1. IsFiniteSet(DOMAIN G)
    <3>1. IsFiniteSet(DOMAIN H) /\ DOMAIN G \in SUBSET DOMAIN H
      BY <1>1, <1>6 DEF Counted
    <3> QED BY <3>1, FS_Subset
  <2>2. \A y \in DOMAIN G : y \in DOMAIN E /\ G[y] = E[y]
    BY <1>5, <1>6
  <2>3. \A y \in DOMAIN E : E[y] = <<>> \/ (y \in DOMAIN G /\ G[y] = E[y])
    BY <1>5, <1>6
  <2> QED BY <1>4, <2>1, <2>2, <2>3, EmptyHolder
<1>8. b \in [Fids -> Nat \cup {Nil}] /\ DOMAIN G = {g \in Fids : b[g] # Nil}
  BY <1>1, <1>6
<1>9. ASSUME NEW y \in DOMAIN G
      PROVE  G[y] # <<>> /\ G[y][1] = b[y] /\ Along(s, G[y]) /\ Trail(s, G[y]) = Trail(m, H[y])
  <2>1. y \in DOMAIN H /\ y # f /\ Kept(m, s, H[y]) /\ G[y] = H[y]
    BY <1>4, <1>6
  <2>2. Along(s, H[y]) /\ Trail(s, H[y]) = Trail(m, H[y])
    BY <2>1, OthersKept
  <2>3. H[y] # <<>> /\ H[y][1] = a[y]
    BY <2>1 DEF Held
  <2>4. b[y] = a[y]
    BY <1>1, <2>1
  <2> QED BY <2>1, <2>2, <2>3, <2>4
<1> HIDE DEF b
<1>10. Held(s, b, G)
  BY <1>4, <1>7, <1>8, <1>9 DEF Held
<1>11. Gone(m, H, s, b, f)
  BY <1>6, <1>9, <1>10 DEF Gone
<1> QED BY <1>4, <1>11 DEF s, b

\* After ixp_srv_readdir the memory holds what it held before.
LEMMA ReaddirFacts ==
    ASSUME NEW m, NEW a, NEW H, Held(m, a, H), tree \in [Paths -> 0 .. MaxP], NEW dir \in Paths
    PROVE  LET list == Listing(m, dir)
               s == FreeChain(list.m, list.file)
           IN  Held(s, a, H) /\ \A y \in DOMAIN H : Trail(s, H[y]) = Trail(m, H[y])
<1> DEFINE l == Listing(m, dir)
           s == FreeChain(l.m, l.file)
<1>1. Pool(m) /\ Counted(m, H)
  BY DEF Held
<1>2. PICK X : X \notin DOMAIN H
  BY Fresh
<1>20. PICK E : Counted(m, E) /\ More(E, H, X)
  <2>1. Counted(m, H)
    BY <1>1
  <2> QED BY <1>2, <2>1, OneMore
<1>3. /\ Counted(m, E) /\ DOMAIN E = DOMAIN H \cup {X}
      /\ E[X] = <<>> /\ \A y \in DOMAIN H : E[y] = H[y]
  BY <1>20 DEF More
<1> HIDE DEF l
<1>4. PICK e : e # <<>> /\ Listed(m, E, X, l, e)
  BY <1>1, <1>3, ListingFacts DEF l
<1> DEFINE F == [E EXCEPT ![X] = e]
           G == [F EXCEPT ![X] = <<>>]
<1>5. /\ DOMAIN F = DOMAIN E /\ F[X] = e /\ \A y \in DOMAIN H : F[y] = H[y]
      /\ DOMAIN G = DOMAIN E /\ G[X] = <<>> /\ \A y \in DOMAIN H : G[y] = H[y]
  BY <1>2, <1>3
<1>6. /\ Pool(l.m) /\ Counted(l.m, F) /\ l.file = e[1]
      /\ \A y \in DOMAIN E : y # X => Kept(m, l.m, E[y])
  BY <1>4 DEF Listed
<1> HIDE DEF F
<1>7. /\ Pool(s) /\ Counted(s, G)
      /\ \A y \in DOMAIN F : y # X => Kept(l.m, s, F[y])
  <2>1. X \in DOMAIN F /\ F[X] # <<>> /\ F[X][1] = l.file
    BY <1>3, <1>4, <1>5, <1>6
  <2>2. Pool(l.m) /\ Counted(l.m, F)
    BY <1>6
  <2> DEFINE i == F[X][1]
  <2>3. /\ Pool(FreeChain(l.m, i)) /\ Counted(FreeChain(l.m, i), G)
        /\ \A y \in DOMAIN F : y # X => Kept(l.m, FreeChain(l.m, i), F[y])
    BY <2>1, <2>2, FreeChainFacts
  <2> HIDE DEF i
  <2> QED BY <2>1, <2>3 DEF i
<1> HIDE DEF G, s
<1>8. Counted(s, H)
  <2>1. IsFiniteSet(DOMAIN H)
    BY <1>1 DEF Counted
  <2>2. \A y \in DOMAIN H : y \in DOMAIN G /\ H[y] = G[y]
    BY <1>3, <1>5
  <2>3. \A y \in DOMAIN G : G[y] = <<>> \/ (y \in DOMAIN H /\ H[y] = G[y])
    BY <1>3, <1>5
  <2> QED BY <1>7, <2>1, <2>2, <2>3, EmptyHolder
<1>9. ASSUME NEW y \in DOMAIN H PROVE Along(s, H[y]) /\ Trail(s, H[y]) = Trail(m, H[y])
  <2>1. y # X
    BY <1>2
  <2>2. Kept(m, l.m, H[y]) /\ Kept(l.m, s, H[y])
    BY <1>3, <1>5, <1>6, <1>7, <2>1
  <2>3. Kept(m, s, H[y])
    BY <2>2 DEF Kept
  <2> QED BY <2>3, OthersKept
<1>10. Held(s, a, H)
  BY <1>7, <1>8, <1>9 DEF Held
<1> QED BY <1>9, <1>10 DEF s, l

\* Two chains of the same files.
LEMMA AlongLike ==
    ASSUME NEW m, NEW s, NEW c, Along(m, c), NEW d \in Seq(Nat), Len(d) = Len(c),
           \A k \in 1 .. Len(c) : At(s, d[k]).file = At(m, c[k]).file /\ At(s, d[k]).p = At(m, c[k]).p
    PROVE  Along(s, d) /\ Trail(s, d) = Trail(m, c)
<1>1. c \in Seq(Nat) /\ c # <<>>
  BY DEF Along
<1>2. Len(c) \in Nat /\ Len(c) >= 1
  BY <1>1, SeqFacts
<1>3. d # <<>>
  <2>1. Len(<<>>) = 0
    OBVIOUS
  <2> QED BY <1>2, <2>1
<1>4. /\ Len(c) \in 1 .. Len(c)
      /\ \A k \in 1 .. Len(c) - 1 : k \in 1 .. Len(c) /\ k + 1 \in 1 .. Len(c) /\ Len(c) - k \in 1 .. Len(c)
  BY <1>2
<1>5. \A k \in 1 .. Len(c) - 1 : Entry(s, d[Len(c) - k]) = Entry(m, c[Len(c) - k])
  BY <1>4 DEF Entry
<1>6. Trail(s, d) = Trail(m, c)
  BY <1>5 DEF Trail
<1>7. At(s, d[Len(d)]).file = <<>>
  BY <1>4 DEF Along
<1>8. ASSUME NEW k \in 1 .. Len(d) - 1
      PROVE  \E name \in STRING \ {"."} : At(s, d[k]).file = Append(At(s, d[k + 1]).file, name)
  <2>1. PICK name \in STRING \ {"."} : At(m, c[k]).file = Append(At(m, c[k + 1]).file, name)
    BY DEF Along
  <2> QED BY <1>4, <2>1
<1>9. Along(s, d)
  BY <1>3, <1>7, <1>8 DEF Along
<1> QED BY <1>6, <1>9

\* ixp_srv_clonefiles makes a chain that leads along the same files.
LEMMA CloneWalk ==
    ASSUME NEW m, NEW H, Pool(m), Counted(m, H), NEW x \in DOMAIN H, NEW f \in DOMAIN H,
           H[x] = <<>>, H[f] # <<>>, Along(m, H[f])
    PROVE  Steps(m, H, x, [m |-> CloneFiles(m, H[f][1]), file |-> NewFile(m), ok |-> TRUE],
                 [ok |-> TRUE, files |-> Trail(m, H[f])])
<1> DEFINE c == H[f]
           s == CloneFiles(m, c[1])
           id == NewFile(m)
           r == Rest(c)
           d == Cons(id, r)
           n == Len(c)
<1>1. /\ Pool(s) /\ Counted(s, [H EXCEPT ![x] = d]) /\ id \in Nat
      /\ \A z \in DOMAIN H : Kept(m, s, H[z])
      /\ At(s, id).file = At(m, c[1]).file /\ At(s, id).p = At(m, c[1]).p
  BY CloneFacts
<1>2. Linked(m, c)
  BY DEF Counted
<1>3. c \in Seq(Nat) /\ n \in Nat /\ n >= 1
  <2>1. c \in Seq(Nat)
    BY <1>2 DEF Linked
  <2> QED BY <2>1, SeqFacts
<1>4. r \in Seq(Nat) /\ Len(r) = n - 1 /\ \A k \in 1 .. n - 1 : r[k] = c[k + 1]
  <2>1. Linked(m, r) /\ Len(r) = n - 1
    BY <1>2, LinkedRest
  <2>2. \A k \in 1 .. Len(c) - 1 : Rest(c)[k] = c[k + 1]
    BY <1>3, HeadTailProperties DEF Rest
  <2> QED BY <2>1, <2>2 DEF Linked
<1> HIDE DEF s, id, r
<1>5. /\ d \in Seq(Nat) /\ d # <<>> /\ Len(d) = Len(r) + 1
      /\ d[1] = id /\ \A k \in 1 .. Len(r) : d[k + 1] = r[k]
  BY <1>1, <1>4, ConsFacts
<1> HIDE DEF d
<1>6. Len(d) = n
  <2> HIDE DEF n
  <2> QED BY <1>3, <1>4, <1>5
<1>7. ASSUME NEW k \in 1 .. n
      PROVE  At(s, d[k]).file = At(m, c[k]).file /\ At(s, d[k]).p = At(m, c[k]).p
  <2>1. CASE k = 1
    BY <1>1, <1>5, <2>1
  <2>2. CASE k # 1
    <3>1. k - 1 \in 1 .. n - 1 /\ (k - 1) + 1 = k
      BY <1>3, <2>2
    <3>2. d[k] = c[k]
      BY <1>4, <1>5, <3>1
    <3>3. c[k] \in Elems(c)
      BY DEF Elems
    <3>4. Kept(m, s, c)
      BY <1>1
    <3> QED BY <3>2, <3>3, <3>4 DEF Kept
  <2> QED BY <2>1, <2>2
<1>8. Along(s, d) /\ Trail(s, d) = Trail(m, c)
  <2>1. Along(m, c) /\ d \in Seq(Nat)
    BY <1>5
  <2> HIDE DEF c
  <2>2. Len(d) = Len(c)
    BY <1>6
  <2>3. \A k \in 1 .. Len(c) : At(s, d[k]).file = At(m, c[k]).file /\ At(s, d[k]).p = At(m, c[k]).p
    BY <1>7
  <2> QED BY <2>1, <2>2, <2>3, AlongLike
<1>9. Moved(m, H, x, s, d)
  BY <1>1, <1>5, <1>8 DEF Moved
<1>10. [m |-> s, file |-> id, ok |-> TRUE] = LoopAt(s, d, TRUE)
  BY <1>5 DEF LoopAt
<1>11. [ok |-> TRUE, files |-> Trail(m, c)] = Place(s, d, TRUE)
  BY <1>8 DEF Place
<1>12. Steps(m, H, x, [m |-> s, file |-> id, ok |-> TRUE], [ok |-> TRUE, files |-> Trail(m, c)])
  BY <1>9, <1>10, <1>11 DEF Steps
<1> QED BY <1>12 DEF s, id

\* The state of the loop at its end, with the chain of the walk held by X.
LEMMA WalkEnd ==
    ASSUME NEW m, NEW a, NEW H, Held(m, a, H), tree \in [Paths -> 0 .. MaxP],
           NEW f \in DOMAIN H, NEW names \in Walks
    PROVE  \E X, E : /\ More(E, H, X) /\ X \notin Fids
                     /\ Steps(m, E, X,
                              WalkLoop([m |-> CloneFiles(m, a[f]), file |-> NewFile(m), ok |-> TRUE], names),
                              Abstract!Walked(Trail(m, H[f]), names))
<1>1. Pool(m) /\ Counted(m, H) /\ DOMAIN H \subseteq Fids
  BY DEF Held
<1>2. H[f] # <<>> /\ H[f][1] = a[f] /\ Along(m, H[f])
  BY DEF Held
<1>3. PICK X : X \notin Fids
  BY Fresh
<1>4. PICK E : Counted(m, E) /\ More(E, H, X)
  <2>1. X \notin DOMAIN H
    BY <1>1, <1>3
  <2> QED BY <1>1, <2>1, OneMore
<1>5. X \in DOMAIN E /\ f \in DOMAIN E /\ E[X] = <<>> /\ E[f] = H[f]
  BY <1>4 DEF More
<1> DEFINE w == [m |-> CloneFiles(m, E[f][1]), file |-> NewFile(m), ok |-> TRUE]
<1>6. Steps(m, E, X, w, [ok |-> TRUE, files |-> Trail(m, E[f])])
  BY <1>1, <1>2, <1>4, <1>5, CloneWalk
<1> HIDE DEF w
<1>7. Steps(m, E, X, WalkLoop(w, names), Abstract!Walked(Trail(m, E[f]), names))
  BY <1>5, <1>6, WalkFacts
<1>8. Steps(m, E, X, WalkLoop(w, names), Abstract!Walked(Trail(m, H[f]), names))
  BY <1>5, <1>7
<1>9. w = [m |-> CloneFiles(m, a[f]), file |-> NewFile(m), ok |-> TRUE]
  BY <1>2, <1>5 DEF w
<1> QED BY <1>3, <1>4, <1>8, <1>9

\* Not found: the chain of the walk is freed, and nothing is left of it.
LEMMA WalkFails ==
    ASSUME NEW m, NEW a, NEW H, Held(m, a, H), NEW X, NEW E, More(E, H, X),
           NEW s, NEW e, Moved(m, E, X, s, e)
    PROVE  /\ Held(FreeChain(s, e[1]), a, H)
           /\ \A y \in DOMAIN H : Trail(FreeChain(s, e[1]), H[y]) = Trail(m, H[y])
<1> DEFINE t == FreeChain(s, e[1])
           F == [E EXCEPT ![X] = e]
           G == [F EXCEPT ![X] = <<>>]
<1>1. /\ X \notin DOMAIN H /\ DOMAIN E = DOMAIN H \cup {X}
      /\ \A y \in DOMAIN H : E[y] = H[y]
  BY DEF More
<1>2. /\ DOMAIN F = DOMAIN E /\ F[X] = e /\ \A y \in DOMAIN H : F[y] = H[y]
      /\ DOMAIN G = DOMAIN E /\ G[X] = <<>> /\ \A y \in DOMAIN H : G[y] = H[y]
  BY <1>1
<1>3. /\ Pool(s) /\ Counted(s, F) /\ e # <<>>
      /\ \A y \in DOMAIN E : y # X => Kept(m, s, E[y])
  BY DEF Moved
<1> HIDE DEF F
<1>4. /\ Pool(t) /\ Counted(t, G)
      /\ \A y \in DOMAIN F : y # X => Kept(s, t, F[y])
  <2>1. X \in DOMAIN F /\ F[X] # <<>> /\ F[X][1] = e[1]
    BY <1>1, <1>2, <1>3
  <2> DEFINE i == F[X][1]
  <2>2. /\ Pool(FreeChain(s, i)) /\ Counted(FreeChain(s, i), G)
        /\ \A y \in DOMAIN F : y # X => Kept(s, FreeChain(s, i), F[y])
    BY <1>3, <2>1, FreeChainFacts
  <2> HIDE DEF i
  <2> QED BY <2>1, <2>2 DEF i
<1> HIDE DEF G, t
<1>5. Counted(t, H)
  <2>1. IsFiniteSet(DOMAIN H)
    BY DEF Held, Counted
  <2>2. \A y \in DOMAIN H : y \in DOMAIN G /\ H[y] = G[y]
    BY <1>1, <1>2
  <2>3. \A y \in DOMAIN G : G[y] = <<>> \/ (y \in DOMAIN H /\ H[y] = G[y])
    BY <1>1, <1>2
  <2> QED BY <1>4, <2>1, <2>2, <2>3, EmptyHolder
<1>6. ASSUME NEW y \in DOMAIN H PROVE Along(t, H[y]) /\ Trail(t, H[y]) = Trail(m, H[y])
  <2>1. y # X
    BY <1>1
  <2>2. Kept(m, s, H[y]) /\ Kept(s, t, H[y])
    BY <1>1, <1>2, <1>3, <1>4, <2>1
  <2>3. Kept(m, t, H[y])
    BY <2>2 DEF Kept
  <2> QED BY <2>3, OthersKept
<1>7. Held(t, a, H)
  BY <1>4, <1>5, <1>6 DEF Held
<1> QED BY <1>6, <1>7 DEF t

\* Before the new fid g takes the chain e of the walk, which X holds in F.
Ready(m, H, X, g, t, e, F) ==
    /\ Pool(t) /\ Counted(t, F) /\ e # <<>> /\ Along(t, e)
    /\ X \notin DOMAIN H /\ DOMAIN F = DOMAIN H \cup {X} /\ X # g
    /\ F[X] = e /\ (g \in DOMAIN H => F[g] = <<>>)
    /\ \A y \in DOMAIN H : y # g => F[y] = H[y] /\ Kept(m, t, H[y])

\* The new fid takes the chain of the walk.
LEMMA WalkTaken ==
    ASSUME NEW m, NEW a, NEW H, Held(m, a, H), NEW X, NEW g \in Fids,
           NEW t, NEW e, NEW F, Ready(m, H, X, g, t, e, F)
    PROVE  Leads(m, H, t, [a EXCEPT ![g] = e[1]], g, Trail(t, e))
<1> DEFINE G == [y \in DOMAIN H \cup {g} |-> IF y = g THEN e ELSE H[y]]
           b == [a EXCEPT ![g] = e[1]]
<1>1. /\ Pool(t) /\ Counted(t, F) /\ e # <<>> /\ Along(t, e)
      /\ X \notin DOMAIN H /\ DOMAIN F = DOMAIN H \cup {X} /\ X # g
      /\ F[X] = e /\ (g \in DOMAIN H => F[g] = <<>>)
      /\ \A y \in DOMAIN H : y # g => F[y] = H[y] /\ Kept(m, t, H[y])
  BY DEF Ready
<1>2. a \in [Fids -> Nat \cup {Nil}] /\ DOMAIN H = {f \in Fids : a[f] # Nil}
  BY DEF Held
<1>3. /\ DOMAIN G = DOMAIN H \cup {g} /\ G[g] = e
      /\ \A y \in DOMAIN G : y # g => y \in DOMAIN H /\ G[y] = H[y]
  OBVIOUS
<1> HIDE DEF G
<1>4. Counted(t, G)
  <2>1. DOMAIN G = (DOMAIN F \ {X}) \cup {g}
    BY <1>1, <1>3
  <2>2. g \in DOMAIN F => F[g] = <<>>
    BY <1>1
  <2>3. G[g] = F[X] /\ \A y \in DOMAIN G : y # g => G[y] = F[y]
    BY <1>1, <1>3
  <2> QED BY <1>1, <2>1, <2>2, <2>3, Transfer
<1>5. e[1] \in Nat /\ e[1] # Nil
  <2>1. e \in Seq(Nat) /\ e # <<>>
    BY <1>1 DEF Along
  <2>2. e[1] \in Nat
    <3>1. Len(e) \in Nat /\ Len(e) >= 1
      BY <2>1, SeqFacts
    <3>2. 1 \in 1 .. Len(e)
      BY <3>1
    <3> QED BY <2>1, <3>2, ElementOfSeq
  <2> QED BY <2>2, EmptyFacts
<1>6. b \in [Fids -> Nat \cup {Nil}] /\ b[g] = e[1] /\ \A y \in Fids : y # g => b[y] = a[y]
  BY <1>2, <1>5
<1> HIDE DEF b
<1>7. DOMAIN G = {f \in Fids : b[f] # Nil}
  BY <1>2, <1>3, <1>5, <1>6
<1>8. ASSUME NEW y \in DOMAIN H, y # g
      PROVE  G[y] # <<>> /\ G[y][1] = b[y] /\ Along(t, G[y]) /\ Trail(t, G[y]) = Trail(m, H[y])
  <2>1. G[y] = H[y] /\ Kept(m, t, H[y])
    BY <1>1, <1>3, <1>8
  <2>2. Along(t, H[y]) /\ Trail(t, H[y]) = Trail(m, H[y])
    BY <2>1, OthersKept
  <2>3. H[y] # <<>> /\ H[y][1] = a[y] /\ y \in Fids
    BY <1>2 DEF Held
  <2> QED BY <1>6, <1>8, <2>1, <2>2, <2>3
<1>9. ASSUME NEW y \in DOMAIN G PROVE G[y] # <<>> /\ G[y][1] = b[y] /\ Along(t, G[y])
  <2>1. CASE y = g
    BY <1>1, <1>3, <1>6, <2>1
  <2>2. CASE y # g
    BY <1>3, <1>8, <2>2
  <2> QED BY <2>1, <2>2
<1>10. Held(t, b, G)
  BY <1>1, <1>4, <1>6, <1>7, <1>9 DEF Held
<1>11. Leads(m, H, t, b, g, Trail(t, e))
  BY <1>3, <1>8, <1>10 DEF Leads
<1> QED BY <1>11 DEF b

\* The whole of ixp_srv_walkandclone, from the end w of its loop.
Handled(m, a, H, f, g, w, to) ==
    /\ w.ok \in BOOLEAN /\ to.ok = w.ok
    /\ ~w.ok => /\ Held(FreeChain(w.m, w.file), a, H)
                /\ \A y \in DOMAIN H : Trail(FreeChain(w.m, w.file), H[y]) = Trail(m, H[y])
    /\ w.ok => Leads(m, H, IF g = f THEN FreeChain(w.m, a[f]) ELSE w.m,
                     [a EXCEPT ![g] = w.file], g, to.files)

\* ixp_srv_walkandclone does what its names say, or nothing.
LEMMA WalkHandled ==
    ASSUME NEW m, NEW a, NEW H, Held(m, a, H), tree \in [Paths -> 0 .. MaxP],
           NEW f \in DOMAIN H, NEW g \in Fids, g = f \/ a[g] = Nil, NEW names \in Walks,
           NEW w, w = WalkLoop([m |-> CloneFiles(m, a[f]), file |-> NewFile(m), ok |-> TRUE], names),
           NEW to, to = Abstract!Walked(Trail(m, H[f]), names)
    PROVE  Handled(m, a, H, f, g, w, to)
<1>1. PICK X, E : More(E, H, X) /\ X \notin Fids /\ Steps(m, E, X, w, to)
  BY WalkEnd
<1>2. PICK s, e, ok : Moved(m, E, X, s, e) /\ ok \in BOOLEAN /\ w = LoopAt(s, e, ok) /\ to = Place(s, e, ok)
  BY <1>1 DEF Steps
<1>3. w.m = s /\ w.file = e[1] /\ w.ok = ok /\ to.ok = ok /\ to.files = Trail(s, e)
  BY <1>2 DEF LoopAt, Place
<1>4. ASSUME ~w.ok
      PROVE  /\ Held(FreeChain(w.m, w.file), a, H)
             /\ \A y \in DOMAIN H : Trail(FreeChain(w.m, w.file), H[y]) = Trail(m, H[y])
  <2>1. /\ Held(FreeChain(s, e[1]), a, H)
        /\ \A y \in DOMAIN H : Trail(FreeChain(s, e[1]), H[y]) = Trail(m, H[y])
    BY <1>1, <1>2, WalkFails
  <2> QED BY <1>3, <2>1
<1> DEFINE t == IF g = f THEN FreeChain(w.m, a[f]) ELSE w.m
           b == [a EXCEPT ![g] = e[1]]
           F == [E EXCEPT ![X] = e]
<1>5. /\ X \notin DOMAIN H /\ DOMAIN E = DOMAIN H \cup {X} /\ X \in DOMAIN E
      /\ \A y \in DOMAIN H : E[y] = H[y]
  BY <1>1 DEF More
<1>6. DOMAIN F = DOMAIN E /\ F[X] = e /\ \A y \in DOMAIN H : F[y] = H[y]
  BY <1>5
<1>7. /\ Pool(s) /\ Counted(s, F) /\ e # <<>> /\ Along(s, e)
      /\ \A y \in DOMAIN E : y # X => Kept(m, s, E[y])
  BY <1>2 DEF Moved
<1>8. \A y \in DOMAIN H : y # X /\ Kept(m, s, H[y])
  BY <1>5, <1>7
<1>9. X # g /\ X # f
  <2>1. f \in Fids
    BY DEF Held
  <2> QED BY <1>1, <2>1
<1> HIDE DEF F
<1>10. ASSUME g # f PROVE Leads(m, H, t, b, g, Trail(t, e)) /\ Trail(t, e) = Trail(s, e)
  <2>1. t = s
    BY <1>3, <1>10
  <2>2. g \notin DOMAIN H
    BY <1>10 DEF Held
  <2>3. \A y \in DOMAIN H : y # g => F[y] = H[y] /\ Kept(m, s, H[y])
    BY <1>6, <1>8
  <2> HIDE DEF t, b
  <2>4. Ready(m, H, X, g, s, e, F)
    BY <1>5, <1>6, <1>7, <1>9, <2>2, <2>3 DEF Ready
  <2>5. Leads(m, H, s, b, g, Trail(s, e))
    BY <2>4, WalkTaken DEF b
  <2> QED BY <2>1, <2>5
<1>11. ASSUME g = f PROVE Leads(m, H, t, b, g, Trail(t, e)) /\ Trail(t, e) = Trail(s, e)
  <2> DEFINE i == F[f][1]
             D == [F EXCEPT ![f] = <<>>]
  <2>1. f \in DOMAIN F /\ F[f] # <<>> /\ i = a[f]
    BY <1>5, <1>6 DEF Held
  <2>2. DOMAIN D = DOMAIN E /\ D[X] = e /\ D[f] = <<>> /\ \A y \in DOMAIN H : y # f => D[y] = H[y]
    BY <1>6, <1>9, <2>1
  <2>3. /\ Pool(FreeChain(s, i)) /\ Counted(FreeChain(s, i), D)
        /\ \A y \in DOMAIN F : y # f => Kept(s, FreeChain(s, i), F[y])
    BY <1>7, <2>1, FreeChainFacts
  <2> HIDE DEF i, D
  <2>4. t = FreeChain(s, i)
    BY <1>3, <1>11, <2>1
  <2>5. /\ Pool(t) /\ Counted(t, D)
        /\ \A y \in DOMAIN F : y # f => Kept(s, t, F[y])
    BY <2>3, <2>4
  <2> HIDE DEF t
  <2>6. ASSUME NEW y \in DOMAIN H, y # f PROVE D[y] = H[y] /\ Kept(m, t, H[y])
    <3>1. Kept(m, s, H[y]) /\ Kept(s, t, H[y])
      BY <1>5, <1>6, <1>8, <2>5, <2>6
    <3>2. Kept(m, t, H[y])
      BY <3>1 DEF Kept
    <3> QED BY <2>2, <2>6, <3>2
  <2>7. Along(t, e) /\ Trail(t, e) = Trail(s, e)
    <3>1. Kept(s, t, e)
      BY <1>5, <1>6, <1>9, <2>5
    <3> QED BY <1>7, <3>1, TrailKept
  <2>8. g \in DOMAIN H => D[g] = <<>>
    BY <1>11, <2>2
  <2>9. \A y \in DOMAIN H : y # g => D[y] = H[y] /\ Kept(m, t, H[y])
    BY <1>11, <2>6
  <2> HIDE DEF b
  <2>10. Ready(m, H, X, g, t, e, D)
    BY <1>5, <1>7, <1>9, <2>2, <2>5, <2>7, <2>8, <2>9 DEF Ready
  <2>11. Leads(m, H, t, b, g, Trail(t, e))
    BY <2>10, WalkTaken DEF b
  <2> QED BY <2>7, <2>11
<1>12. Leads(m, H, t, b, g, Trail(t, e)) /\ Trail(t, e) = Trail(s, e)
  BY <1>10, <1>11
<1> HIDE DEF t
<1>13. Leads(m, H, t, [a EXCEPT ![g] = w.file], g, to.files)
  BY <1>3, <1>12
<1> QED BY <1>2, <1>3, <1>4, <1>13 DEF t, Handled

-----------------------------------------------------------------------------
(* The files that a fid leads along.                                       *)

\* Spelled and VerifyFile, of the chain from id in m.
SpelledAt(m, id) ==
    LET down == Reverse(Chain(m, id))
    IN  [k \in 1 .. Len(down) - 1 |->
            [name |-> Last(m.heap[down[k + 1]].file), p |-> m.heap[down[k + 1]].p]]

\* Chain finds what the fid holds, and Spelled the files along it.
LEMMA SpelledFacts ==
    ASSUME NEW m, NEW a, NEW H, Held(m, a, H), NEW f \in DOMAIN H
    PROVE  Chain(m, a[f]) = H[f] /\ SpelledAt(m, a[f]) = Trail(m, H[f])
<1> DEFINE c == H[f]
           n == Len(c)
           down == Reverse(c)
<1>1. Pool(m) /\ Counted(m, H) /\ c # <<>> /\ c[1] = a[f] /\ Linked(m, c)
  BY DEF Held, Counted
<1>2. Chain(m, a[f]) = c
  <2>1. Chain(m, c[1]) = c
    BY <1>1, ChainFacts
  <2> QED BY <1>1, <2>1
<1>3. c \in Seq(Nat) /\ n \in Nat /\ n >= 1 /\ \A k \in 1 .. n : c[k] \in DOMAIN m.heap
  <2>1. c \in Seq(Nat) /\ \A k \in 1 .. n : c[k] \in DOMAIN m.heap
    BY <1>1 DEF Linked
  <2> QED BY <1>1, <2>1, SeqFacts
<1> HIDE DEF c, n
<1>4. down = [i \in 1 .. n |-> c[(n - i) + 1]]
  BY DEF Reverse, n
<1>5. Len(down) = n
  <2>1. \A i \in 1 .. n : (n - i) + 1 \in 1 .. n
    BY <1>3
  <2>2. \A i \in 1 .. n : c[i] \in Nat
    BY <1>3, ElementOfSeq DEF n
  <2>3. down \in [1 .. n -> Nat]
    BY <1>4, <2>1, <2>2
  <2> HIDE DEF down
  <2> QED BY <1>3, <2>3, FunctionIsSeq
<1> HIDE DEF down
<1>6. ASSUME NEW k \in 1 .. n - 1
      PROVE  [name |-> Last(m.heap[down[k + 1]].file), p |-> m.heap[down[k + 1]].p] = Entry(m, c[n - k])
  <2>1. k + 1 \in 1 .. n /\ (n - (k + 1)) + 1 = n - k /\ n - k \in 1 .. n
    BY <1>3
  <2>2. down[k + 1] = c[n - k]
    BY <1>4, <2>1
  <2>3. At(m, c[n - k]) = m.heap[c[n - k]]
    BY <1>3, <2>1 DEF At
  <2> QED BY <2>2, <2>3 DEF Entry
<1>7. SpelledAt(m, a[f]) =
        [k \in 1 .. n - 1 |-> [name |-> Last(m.heap[down[k + 1]].file), p |-> m.heap[down[k + 1]].p]]
  BY <1>2, <1>5 DEF SpelledAt, down
<1>8. Trail(m, c) = [k \in 1 .. n - 1 |-> Entry(m, c[n - k])]
  BY DEF Trail, n
<1>9. SpelledAt(m, a[f]) = Trail(m, c)
  BY <1>6, <1>7, <1>8
<1> QED BY <1>2, <1>9 DEF c

\* The paths that implement those of FidPaths.
PathOf(m, a) == [f \in Fids |-> IF a[f] # Nil THEN SpelledAt(m, a[f]) ELSE Nil]

\* A place is not the null pointer.
LEMMA TrailType ==
    ASSUME NEW m, Pool(m), NEW c, Along(m, c)
    PROVE  Trail(m, c) # Nil
<1> DEFINE n == Len(c)
           R == [name : STRING, p : 0 .. MaxP]
<1>1. c \in Seq(Nat) /\ c # <<>> /\ n \in Nat /\ n >= 1
  <2>1. c \in Seq(Nat) /\ c # <<>>
    BY DEF Along
  <2> QED BY <2>1, SeqFacts
<1>2. ASSUME NEW k \in 1 .. n - 1 PROVE Entry(m, c[k]) \in R
  <2>1. PICK name : name \in STRING /\ At(m, c[k]).file = Append(At(m, c[k + 1]).file, name)
    BY DEF Along
  <2>2. At(m, c[k + 1]).file \in Seq(STRING)
    <3>1. At(m, c[k + 1]).file \in Paths
      BY PoolFacts DEF Cell
    <3> QED BY <3>1, FileIdAssumption
  <2> DEFINE T == STRING
             dir == At(m, c[k + 1]).file
  <2>3. dir \in Seq(T) /\ name \in T
    BY <2>1, <2>2
  <2> HIDE DEF T, dir
  <2>4. Last(Append(dir, name)) = name
    BY <2>3, FrontFacts
  <2>5. Last(At(m, c[k]).file) = name
    BY <2>1, <2>4 DEF dir
  <2>6. At(m, c[k]).p \in 0 .. MaxP
    BY PoolFacts DEF Cell
  <2> QED BY <2>1, <2>5, <2>6 DEF Entry
<1> HIDE DEF R
<1>3. Trail(m, c) \in [1 .. n - 1 -> R]
  <2>1. \A k \in 1 .. n - 1 : n - k \in 1 .. n - 1
    BY <1>1
  <2> QED BY <1>2, <2>1 DEF Trail
<1>4. Trail(m, c) \in Seq(R)
  <2>1. n - 1 \in Nat
    BY <1>1
  <2> HIDE DEF n
  <2> QED BY <1>3, <2>1, FunctionIsSeq
<1>5. Nil \notin Seq(R)
  BY FileIdAssumption DEF R
<1> QED BY <1>4, <1>5

\* The path of each fid, by what it holds.
LEMMA PathOfFacts ==
    ASSUME NEW m, NEW a, NEW H, Held(m, a, H), NEW f \in Fids
    PROVE  /\ f \in DOMAIN H => PathOf(m, a)[f] = Trail(m, H[f]) /\ PathOf(m, a)[f] # Nil
           /\ f \notin DOMAIN H => PathOf(m, a)[f] = Nil
           /\ f \in DOMAIN H <=> a[f] # Nil
<1>1. f \in DOMAIN H <=> a[f] # Nil
  BY DEF Held
<1>2. ASSUME f \in DOMAIN H PROVE PathOf(m, a)[f] = Trail(m, H[f]) /\ PathOf(m, a)[f] # Nil
  <2>1. PathOf(m, a)[f] = SpelledAt(m, a[f])
    BY <1>1, <1>2 DEF PathOf
  <2>2. SpelledAt(m, a[f]) = Trail(m, H[f])
    BY <1>2, SpelledFacts
  <2>3. Trail(m, H[f]) # Nil
    BY <1>2, TrailType DEF Held
  <2> QED BY <2>1, <2>2, <2>3
<1>3. ASSUME f \notin DOMAIN H PROVE PathOf(m, a)[f] = Nil
  BY <1>1, <1>3 DEF PathOf
<1> QED BY <1>1, <1>2, <1>3

\* One fid leads elsewhere now, or nowhere.
LEMMA PathChanged ==
    ASSUME NEW m, NEW a, NEW H, Held(m, a, H), NEW s, NEW b, NEW G, Held(s, b, G), NEW g \in Fids, NEW v,
           g \in DOMAIN G => Trail(s, G[g]) = v,
           g \notin DOMAIN G => v = Nil,
           \A y \in Fids : y # g => (y \in DOMAIN G <=> y \in DOMAIN H),
           \A y \in DOMAIN H : y # g /\ y \in DOMAIN G => Trail(s, G[y]) = Trail(m, H[y])
    PROVE  PathOf(s, b) = [PathOf(m, a) EXCEPT ![g] = v]
<1> DEFINE p == PathOf(m, a)
           q == PathOf(s, b)
<1>1. p = [f \in Fids |-> p[f]] /\ q = [f \in Fids |-> q[f]]
  BY DEF PathOf
<1>2. ASSUME NEW f \in Fids PROVE q[f] = IF f = g THEN v ELSE p[f]
  <2>1. CASE f = g
    BY <2>1, PathOfFacts
  <2>2. CASE f # g
    <3>1. CASE f \in DOMAIN H
      <4>1. q[f] = Trail(s, G[f]) /\ p[f] = Trail(m, H[f])
        BY <2>2, <3>1, PathOfFacts
      <4> QED BY <2>2, <3>1, <4>1
    <3>2. CASE f \notin DOMAIN H
      <4>1. q[f] = Nil /\ p[f] = Nil
        BY <2>2, <3>2, PathOfFacts
      <4> QED BY <2>2, <4>1
    <3> QED BY <3>1, <3>2
  <2> QED BY <2>1, <2>2
<1> HIDE DEF p, q
<1>3. q = [f \in Fids |-> IF f = g THEN v ELSE p[f]]
  BY <1>1, <1>2
<1>4. [p EXCEPT ![g] = v] = [f \in Fids |-> IF f = g THEN v ELSE p[f]]
  BY <1>1
<1>5. q = [p EXCEPT ![g] = v]
  BY <1>3, <1>4
<1> QED BY <1>5 DEF p, q

\* No fid leads elsewhere.
LEMMA PathsSame ==
    ASSUME NEW m, NEW a, NEW H, Held(m, a, H), NEW s, NEW b, NEW G, Held(s, b, G),
           DOMAIN G = DOMAIN H, \A y \in DOMAIN H : Trail(s, G[y]) = Trail(m, H[y])
    PROVE  PathOf(s, b) = PathOf(m, a)
<1>1. PathOf(m, a) = [f \in Fids |-> PathOf(m, a)[f]] /\ PathOf(s, b) = [f \in Fids |-> PathOf(s, b)[f]]
  BY DEF PathOf
<1>2. ASSUME NEW f \in Fids PROVE PathOf(s, b)[f] = PathOf(m, a)[f]
  <2>1. CASE f \in DOMAIN H
    BY <2>1, PathOfFacts
  <2>2. CASE f \notin DOMAIN H
    BY <2>2, PathOfFacts
  <2> QED BY <2>1, <2>2
<1> QED BY <1>1, <1>2

-----------------------------------------------------------------------------
(* The inductive invariant, action by action.                              *)

\* Some H accounts for every reference, and leads each fid along its files.
Fine ==
    /\ DOMAIN mem.heap \subseteq 1 .. MaxFiles
    /\ tree \in [Paths -> 0 .. MaxP]
    /\ reply \in {"none", "ok", "file not found"}
    /\ \E H : Held(mem, aux, H)

\* The bound on IxpFileIds.
LEMMA HeldLen ==
    ASSUME NEW m, NEW a, NEW H, Held(m, a, H), Len(m.heap) <= MaxFiles
    PROVE  DOMAIN m.heap \subseteq 1 .. MaxFiles
<1>1. Len(m.heap) \in Nat /\ DOMAIN m.heap = 1 .. Len(m.heap)
  BY PoolFacts DEF Held
<1>2. MaxFiles \in Nat
  BY FileIdAssumption
<1> QED BY <1>1, <1>2

\* No IxpFileIds and no fids in use: the memory at the beginning and after
\* ixp_srv_freefilepool.
LEMMA EmptyHeld ==
    ASSUME NEW a \in [Fids -> {Nil}]
    PROVE  LET m == [heap |-> <<>>, free |-> {}, lost |-> {}]
           IN  DOMAIN m.heap = {} /\ \E H : Held(m, a, H) /\ DOMAIN H = {}
<1> DEFINE m == [heap |-> <<>>, free |-> {}, lost |-> {}]
           H == [f \in {} |-> <<>>]
<1>1. m.heap = <<>> /\ m.free = {} /\ m.lost = {}
  OBVIOUS
<1>2. DOMAIN m.heap = {}
  BY <1>1
<1>3. m \in [heap : Seq(Cell), free : SUBSET Nat, lost : SUBSET Nat]
  OBVIOUS
<1>4. DOMAIN H = {}
  OBVIOUS
<1> HIDE DEF m, H
<1>5. Pool(m)
  BY <1>1, <1>2, <1>3 DEF Pool
<1>6. Counted(m, H)
  <2>1. IsFiniteSet({}) /\ Cardinality({}) = 0
    BY FS_EmptySet
  <2>2. ASSUME NEW i PROVE At(m, i).nref = Cardinality(Holders(H, i)) + Lost(m, i)
    <3>1. Holders(H, i) = {}
      BY <1>4 DEF Holders
    <3>2. At(m, i).nref = 0 /\ Lost(m, i) = 0
      BY <1>1, <1>2, EmptyFacts DEF At, Lost
    <3> QED BY <2>1, <3>1, <3>2
  <2> QED BY <1>1, <1>4, <2>1, <2>2 DEF Counted
<1>7. Held(m, a, H)
  BY <1>4, <1>5, <1>6 DEF Held
<1> QED BY <1>2, <1>4, <1>7 DEF m

\* The invariant holds at the beginning.
LEMMA FineInit ==
    ASSUME Init
    PROVE  Fine
<1>1. aux \in [Fids -> {Nil}] /\ mem = [heap |-> <<>>, free |-> {}, lost |-> {}]
  BY DEF Init
<1>2. DOMAIN mem.heap = {} /\ \E H : Held(mem, aux, H)
  BY <1>1, EmptyHeld
<1>3. tree \in [Paths -> 0 .. MaxP] /\ reply = "none"
  BY FileIdAssumption DEF Init
<1> QED BY <1>2, <1>3 DEF Fine

\* The attach handler.
LEMMA AttachStep ==
    ASSUME Fine, NEW f \in Fids, Attach(f)
    PROVE  /\ Fine' /\ PathOf(mem, aux)[f] = Nil
           /\ PathOf(mem', aux') = [PathOf(mem, aux) EXCEPT ![f] = <<>>]
<1>1. PICK H : Held(mem, aux, H)
  BY DEF Fine
<1>2. /\ aux[f] = Nil /\ mem' = GetFile(mem, Nil, <<>>, tree[<<>>])
      /\ aux' = [aux EXCEPT ![f] = NewFile(mem)]
      /\ Len(mem'.heap) <= MaxFiles /\ tree' = tree /\ reply' = reply
  BY DEF Attach
<1>3. tree[<<>>] \in 0 .. MaxP
  BY FileIdAssumption DEF Fine
<1> DEFINE p == tree[<<>>]
<1> HIDE DEF p
<1>4. Leads(mem, H, GetFile(mem, Nil, <<>>, p), [aux EXCEPT ![f] = NewFile(mem)], f, <<>>)
  <2>1. aux[f] = Nil
    BY <1>2
  <2>2. p \in 0 .. MaxP
    BY <1>3 DEF p
  <2> QED BY <1>1, <2>1, <2>2, AttachFacts
<1>5. PICK G : /\ Held(mem', aux', G) /\ DOMAIN G = DOMAIN H \cup {f} /\ Trail(mem', G[f]) = <<>>
               /\ \A y \in DOMAIN H : y # f => Trail(mem', G[y]) = Trail(mem, H[y])
  <2>1. Leads(mem, H, mem', aux', f, <<>>)
    BY <1>2, <1>4 DEF p
  <2> QED BY <2>1 DEF Leads
<1>6. f \notin DOMAIN H /\ PathOf(mem, aux)[f] = Nil
  BY <1>1, <1>2, PathOfFacts
<1>7. PathOf(mem', aux') = [PathOf(mem, aux) EXCEPT ![f] = <<>>]
  <2>1. /\ f \in DOMAIN G
        /\ \A y \in Fids : y # f => (y \in DOMAIN G <=> y \in DOMAIN H)
    BY <1>5
  <2> QED BY <1>1, <1>5, <2>1, PathChanged
<1>8. DOMAIN mem'.heap \subseteq 1 .. MaxFiles
  BY <1>2, <1>5, HeldLen
<1>9. Fine'
  BY <1>2, <1>5, <1>8 DEF Fine
<1> QED BY <1>6, <1>7, <1>9

\* A clunk.
LEMMA ClunkStep ==
    ASSUME Fine, NEW f \in Fids, Clunk(f)
    PROVE  /\ Fine' /\ PathOf(mem, aux)[f] # Nil
           /\ PathOf(mem', aux') = [PathOf(mem, aux) EXCEPT ![f] = Nil]
<1>1. PICK H : Held(mem, aux, H)
  BY DEF Fine
<1>2. /\ aux[f] # Nil /\ mem' = FreeChain(mem, aux[f]) /\ aux' = [aux EXCEPT ![f] = Nil]
      /\ tree' = tree /\ reply' = reply
  BY DEF Clunk
<1>3. /\ Gone(mem, H, FreeChain(mem, aux[f]), [aux EXCEPT ![f] = Nil], f)
      /\ DOMAIN FreeChain(mem, aux[f]).heap = DOMAIN mem.heap
  <2>1. aux[f] # Nil
    BY <1>2
  <2> QED BY <1>1, <2>1, ClunkFacts
<1>4. PICK G : /\ Held(mem', aux', G) /\ DOMAIN mem'.heap = DOMAIN mem.heap
               /\ DOMAIN G = DOMAIN H \ {f} /\ \A y \in DOMAIN G : Trail(mem', G[y]) = Trail(mem, H[y])
  <2>1. Gone(mem, H, mem', aux', f) /\ DOMAIN mem'.heap = DOMAIN mem.heap
    BY <1>2, <1>3
  <2> QED BY <2>1 DEF Gone
<1>5. PathOf(mem, aux)[f] # Nil
  BY <1>1, <1>2, PathOfFacts
<1>6. PathOf(mem', aux') = [PathOf(mem, aux) EXCEPT ![f] = Nil]
  <2>1. /\ f \notin DOMAIN G
        /\ \A y \in Fids : y # f => (y \in DOMAIN G <=> y \in DOMAIN H)
    BY <1>4
  <2> QED BY <1>1, <1>4, <2>1, PathChanged
<1>7. Fine'
  BY <1>2, <1>4 DEF Fine
<1> QED BY <1>5, <1>6, <1>7

\* ixp_srv_readdir.
LEMMA ReaddirStep ==
    ASSUME Fine, NEW f \in Fids, Readdir(f)
    PROVE  Fine' /\ PathOf(mem', aux') = PathOf(mem, aux)
<1>1. PICK H : Held(mem, aux, H)
  BY DEF Fine
<1> DEFINE dir == mem.heap[aux[f]].file
           list == Listing(mem, dir)
<1>2. /\ aux[f] # Nil /\ mem' = FreeChain(list.m, list.file)
      /\ Len(mem'.heap) <= MaxFiles /\ aux' = aux /\ tree' = tree /\ reply' = reply
  BY DEF Readdir
<1>3. dir \in Paths
  <2>1. f \in DOMAIN H /\ H[f] # <<>> /\ H[f][1] = aux[f] /\ Linked(mem, H[f]) /\ Pool(mem)
    BY <1>1, <1>2 DEF Held, Counted
  <2>2. aux[f] \in DOMAIN mem.heap
    <3>1. H[f][1] \in DOMAIN mem.heap
      BY <2>1, LinkedRest
    <3> QED BY <2>1, <3>1
  <2>3. mem.heap[aux[f]] \in Cell
    BY <2>1, <2>2, PoolFacts
  <2> QED BY <2>3 DEF Cell
<1> HIDE DEF dir
<1>4. /\ Held(FreeChain(list.m, list.file), aux, H)
      /\ \A y \in DOMAIN H : Trail(FreeChain(list.m, list.file), H[y]) = Trail(mem, H[y])
  <2>1. tree \in [Paths -> 0 .. MaxP]
    BY DEF Fine
  <2> QED BY <1>1, <1>3, <2>1, ReaddirFacts
<1> HIDE DEF list
<1>5. Held(mem', aux', H) /\ \A y \in DOMAIN H : Trail(mem', H[y]) = Trail(mem, H[y])
  BY <1>2, <1>4
<1>6. PathOf(mem', aux') = PathOf(mem, aux)
  BY <1>1, <1>5, PathsSame
<1>7. DOMAIN mem'.heap \subseteq 1 .. MaxFiles
  BY <1>2, <1>5, HeldLen
<1>8. Fine'
  BY <1>2, <1>5, <1>7 DEF Fine
<1> QED BY <1>6, <1>8

\* ixp_srv_walkandclone.
LEMMA WalkStep ==
    ASSUME Fine, NEW f \in Fids, NEW newfid \in Fids, NEW names \in Walks, Walk(f, newfid, names),
           NEW path, path = PathOf(mem, aux), NEW to, to = Abstract!Walked(path[f], names)
    PROVE  /\ Fine' /\ path[f] # Nil /\ (newfid = f \/ path[newfid] = Nil) /\ tree' = tree
           /\ reply' = IF to.ok THEN "ok" ELSE "file not found"
           /\ PathOf(mem', aux') = [path EXCEPT ![newfid] = IF to.ok THEN to.files ELSE @]
<1>1. PICK H : Held(mem, aux, H)
  BY DEF Fine
<1> DEFINE w == WalkLoop([m |-> CloneFiles(mem, aux[f]), file |-> NewFile(mem), ok |-> TRUE], names)
           t == IF newfid = f THEN FreeChain(w.m, aux[f]) ELSE w.m
<1>2. /\ aux[f] # Nil /\ (newfid = f \/ aux[newfid] = Nil)
      /\ mem' = IF ~w.ok THEN FreeChain(w.m, w.file) ELSE t
      /\ aux' = [aux EXCEPT ![newfid] = IF w.ok THEN w.file ELSE @]
      /\ reply' = IF w.ok THEN "ok" ELSE "file not found"
      /\ Len(mem'.heap) <= MaxFiles /\ tree' = tree
  BY DEF Walk, WalkLoop
<1>3. f \in DOMAIN H /\ path[f] = Trail(mem, H[f]) /\ path[f] # Nil /\ (newfid = f \/ path[newfid] = Nil)
  <2>1. aux[f] # Nil /\ (newfid = f \/ aux[newfid] = Nil)
    BY <1>2
  <2>2. f \in DOMAIN H /\ PathOf(mem, aux)[f] = Trail(mem, H[f]) /\ PathOf(mem, aux)[f] # Nil
    BY <1>1, <2>1, PathOfFacts
  <2>3. aux[newfid] = Nil => PathOf(mem, aux)[newfid] = Nil
    BY <1>1, PathOfFacts
  <2> QED BY <2>1, <2>2, <2>3
<1>4. tree \in [Paths -> 0 .. MaxP]
  BY DEF Fine
<1>5. to = Abstract!Walked(Trail(mem, H[f]), names)
  BY <1>3
<1> HIDE DEF w
<1>6. /\ w.ok \in BOOLEAN /\ to.ok = w.ok
      /\ ~w.ok => /\ Held(FreeChain(w.m, w.file), aux, H)
                  /\ \A y \in DOMAIN H : Trail(FreeChain(w.m, w.file), H[y]) = Trail(mem, H[y])
      /\ w.ok => Leads(mem, H, t, [aux EXCEPT ![newfid] = w.file], newfid, to.files)
  <2>1. newfid = f \/ aux[newfid] = Nil
    BY <1>2
  <2>2. w = WalkLoop([m |-> CloneFiles(mem, aux[f]), file |-> NewFile(mem), ok |-> TRUE], names)
    BY DEF w
  <2>3. f \in DOMAIN H
    BY <1>3
  <2>4. Handled(mem, aux, H, f, newfid, w, to)
    BY <1>1, <1>4, <1>5, <2>1, <2>2, <2>3, WalkHandled
  <2> QED BY <2>4 DEF Handled
<1> HIDE DEF t
<1>7. path = [g \in Fids |-> path[g]]
  BY DEF PathOf
<1>8. ASSUME ~w.ok
      PROVE  /\ \E G : Held(mem', aux', G)
             /\ PathOf(mem', aux') = [path EXCEPT ![newfid] = IF to.ok THEN to.files ELSE @]
  <2>1. mem' = FreeChain(w.m, w.file)
    BY <1>2, <1>8
  <2>2. aux' = aux
    <3>1. aux' = [aux EXCEPT ![newfid] = aux[newfid]]
      BY <1>2, <1>8
    <3>2. aux \in [Fids -> Nat \cup {Nil}]
      BY <1>1 DEF Held
    <3> QED BY <3>1, <3>2
  <2>3. Held(mem', aux', H) /\ \A y \in DOMAIN H : Trail(mem', H[y]) = Trail(mem, H[y])
    BY <1>6, <1>8, <2>1, <2>2
  <2>4. PathOf(mem', aux') = path
    BY <1>1, <2>3, PathsSame
  <2>5. [path EXCEPT ![newfid] = IF to.ok THEN to.files ELSE @] = path
    <3>1. [path EXCEPT ![newfid] = IF to.ok THEN to.files ELSE @] = [path EXCEPT ![newfid] = path[newfid]]
      BY <1>6, <1>8
    <3> QED BY <1>7, <3>1
  <2> QED BY <2>3, <2>4, <2>5
<1>9. ASSUME w.ok
      PROVE  /\ \E G : Held(mem', aux', G)
             /\ PathOf(mem', aux') = [path EXCEPT ![newfid] = IF to.ok THEN to.files ELSE @]
  <2>1. mem' = t
    BY <1>2, <1>9
  <2>2. aux' = [aux EXCEPT ![newfid] = w.file]
    BY <1>2, <1>9
  <2>3. Leads(mem, H, mem', aux', newfid, to.files)
    BY <1>6, <1>9, <2>1, <2>2
  <2>4. PICK G : /\ Held(mem', aux', G) /\ DOMAIN G = DOMAIN H \cup {newfid}
                 /\ Trail(mem', G[newfid]) = to.files
                 /\ \A y \in DOMAIN H : y # newfid => Trail(mem', G[y]) = Trail(mem, H[y])
    BY <2>3 DEF Leads
  <2>5. /\ newfid \in DOMAIN G
        /\ \A y \in Fids : y # newfid => (y \in DOMAIN G <=> y \in DOMAIN H)
    BY <2>4
  <2>6. PathOf(mem', aux') = [path EXCEPT ![newfid] = to.files]
    BY <1>1, <2>4, <2>5, PathChanged
  <2>7. to.ok
    BY <1>6, <1>9
  <2> QED BY <2>4, <2>6, <2>7
<1>10. PICK G : Held(mem', aux', G)
  BY <1>8, <1>9
<1>11. DOMAIN mem'.heap \subseteq 1 .. MaxFiles
  BY <1>2, <1>10, HeldLen
<1>12. reply' \in {"none", "ok", "file not found"} /\ reply' = IF to.ok THEN "ok" ELSE "file not found"
  BY <1>2, <1>6
<1>13. Fine'
  BY <1>2, <1>4, <1>10, <1>11, <1>12 DEF Fine
<1> QED BY <1>2, <1>3, <1>8, <1>9, <1>12, <1>13

\* ixp_srv_freefilepool.
LEMMA FreeFilePoolStep ==
    ASSUME Fine, FreeFilePool
    PROVE  Fine' /\ PathOf(mem', aux') = PathOf(mem, aux)
<1>1. PICK H : Held(mem, aux, H)
  BY DEF Fine
<1>2. /\ \A f \in Fids : aux[f] = Nil
      /\ mem' = [heap |-> <<>>, free |-> {}, lost |-> {}]
      /\ aux' = aux /\ tree' = tree /\ reply' = reply
  BY DEF FreeFilePool
<1>3. aux \in [Fids -> {Nil}] /\ DOMAIN H = {}
  <2>1. aux \in [Fids -> Nat \cup {Nil}] /\ DOMAIN H = {f \in Fids : aux[f] # Nil}
    BY <1>1 DEF Held
  <2> QED BY <1>2, <2>1
<1>4. DOMAIN mem'.heap = {} /\ \E G : Held(mem', aux', G) /\ DOMAIN G = {}
  BY <1>2, <1>3, EmptyHeld
<1>5. PathOf(mem', aux') = PathOf(mem, aux)
  BY <1>1, <1>3, <1>4, PathsSame
<1>6. Fine'
  BY <1>2, <1>4 DEF Fine
<1> QED BY <1>5, <1>6

\* The application changes one file; the IxpFileIds do not know.
LEMMA TreeStep ==
    ASSUME Fine, NEW x \in Paths, Removed(x) \/ Created(x)
    PROVE  /\ Fine' /\ PathOf(mem', aux') = PathOf(mem, aux) /\ reply' = reply
           /\ \E p \in 0 .. MaxP : tree' = [tree EXCEPT ![x] = p]
<1>1. mem' = mem /\ aux' = aux /\ reply' = reply
  BY DEF Removed, Created
<1>2. MaxP \in Nat \ {0}
  BY FileIdAssumption
<1>3. PICK p \in 0 .. MaxP : tree' = [tree EXCEPT ![x] = p]
  <2>1. CASE Removed(x)
    <3>1. 0 \in 0 .. MaxP
      BY <1>2
    <3> QED BY <2>1, <3>1 DEF Removed
  <2>2. CASE Created(x)
    <3>1. PICK p \in IF x \in Volatile THEN 1 .. MaxP ELSE {1} : tree' = [tree EXCEPT ![x] = p]
      BY <2>2 DEF Created
    <3>2. p \in 0 .. MaxP
      BY <1>2, <3>1
    <3> QED BY <3>1, <3>2
  <2> QED BY <2>1, <2>2
<1>4. tree' \in [Paths -> 0 .. MaxP]
  BY <1>3 DEF Fine
<1>5. Fine'
  BY <1>1, <1>4 DEF Fine
<1>6. PathOf(mem', aux') = PathOf(mem, aux)
  BY <1>1
<1> QED BY <1>1, <1>3, <1>5, <1>6

\* Every step keeps the invariant.
LEMMA FineStep ==
    ASSUME Fine, [Next]_vars
    PROVE  Fine'
<1>1. CASE \E f \in Fids : Attach(f)
  BY <1>1, AttachStep
<1>2. CASE \E f \in Fids : Clunk(f)
  BY <1>2, ClunkStep
<1>3. CASE \E f \in Fids : Readdir(f)
  BY <1>3, ReaddirStep
<1>4. CASE \E f, newfid \in Fids, names \in Walks : Walk(f, newfid, names)
  BY <1>4, WalkStep
<1>5. CASE FreeFilePool
  BY <1>5, FreeFilePoolStep
<1>6. CASE \E x \in Paths : Removed(x) \/ Created(x)
  BY <1>6, TreeStep
<1>7. CASE UNCHANGED vars
  BY <1>7 DEF vars, Fine
<1> QED BY <1>1, <1>2, <1>3, <1>4, <1>5, <1>6, <1>7 DEF Next

\* Held says what FilesCounted says, of the chains that Chain finds.
LEMMA FineCounted ==
    ASSUME Fine
    PROVE  FilesCounted
<1>1. PICK H : Held(mem, aux, H)
  BY DEF Fine
<1>2. Pool(mem) /\ Counted(mem, H) /\ aux \in [Fids -> Nat \cup {Nil}] /\ DOMAIN H = InUse
  BY <1>1 DEF Held, InUse
<1>3. TypeOK
  <2>1. ASSUME NEW i \in DOMAIN mem.heap
        PROVE  mem.heap[i] \in
                [next : DOMAIN mem.heap \cup {Nil}, nref : Nat, file : Paths, p : 0 .. MaxP]
    <3>1. mem.heap[i] \in Cell /\ mem.heap[i].next \in DOMAIN mem.heap \cup {Nil}
      BY <1>2, PoolFacts DEF Pool
    <3> QED BY <3>1 DEF Cell
  <2>2. mem.free \cup mem.lost \subseteq DOMAIN mem.heap
    BY <1>2 DEF Pool
  <2>3. ASSUME NEW f \in Fids PROVE aux[f] \in DOMAIN mem.heap \cup {Nil}
    <3>1. CASE aux[f] # Nil
      <4>1. f \in DOMAIN H /\ H[f] # <<>> /\ H[f][1] = aux[f] /\ Linked(mem, H[f])
        BY <1>1, <3>1 DEF Held, Counted
      <4>2. H[f][1] \in DOMAIN mem.heap
        BY <4>1, LinkedRest
      <4> QED BY <4>1, <4>2
    <3> QED BY <3>1
  <2>4. aux \in [Fids -> DOMAIN mem.heap \cup {Nil}]
    BY <1>2, <2>3
  <2> QED BY <2>1, <2>2, <2>4 DEF TypeOK, Fine
<1>4. ASSUME NEW i \in DOMAIN mem.heap
      PROVE  mem.heap[i].nref = Cardinality({f \in InUse : Contains(Chain(mem, aux[f]), i)})
                                + (IF i \in mem.lost THEN 1 ELSE 0)
  <2>1. ASSUME NEW f \in InUse PROVE Contains(Chain(mem, aux[f]), i) <=> i \in Elems(H[f])
    <3>1. Chain(mem, aux[f]) = H[f]
      BY <1>1, <1>2, SpelledFacts
    <3> QED BY <3>1 DEF Contains, Elems
  <2>2. {f \in InUse : Contains(Chain(mem, aux[f]), i)} = Holders(H, i)
    BY <1>2, <2>1 DEF Holders
  <2>3. At(mem, i).nref = Cardinality(Holders(H, i)) + Lost(mem, i)
    BY <1>2 DEF Counted
  <2>4. At(mem, i) = mem.heap[i]
    BY DEF At
  <2> QED BY <2>2, <2>3, <2>4 DEF Lost
<1>5. mem.free = {i \in DOMAIN mem.heap : mem.heap[i].nref = 0}
  BY <1>2 DEF Pool
<1> QED BY <1>3, <1>4, <1>5 DEF FilesCounted

\* Whatever clients walk, clone, list and clunk, for any tree, any number of fids
\* and any size of a chunk, each IxpFileId counts the chains it is on, the pool
\* has exactly those that are on none, and only the one that a walk over "."
\* drops is lost: ixp_srv_clonefiles and ixp_srv_freefile agree about every
\* shared end of a chain, also in a walk that fails and in one onto its own fid.
THEOREM FilesCorrect == Spec => []FilesCounted
<1>1. Init => Fine
  BY FineInit
<1>2. Fine /\ [Next]_vars => Fine'
  BY FineStep
<1>3. Fine => FilesCounted
  BY FineCounted
<1> QED BY <1>1, <1>2, <1>3, PTL DEF Spec

-----------------------------------------------------------------------------
(* ixp_srv_verifyfile.                                                     *)

\* The file of the k-th of a chain is there, and is the one it was.
Still(c, k) ==
    LET name == Last(mem.heap[c[k]].file)
        found == Child(mem, c[k + 1], name)
    IN  /\ Found(mem, c[k + 1], name)
        /\ found \notin Volatile \/ tree[found] = mem.heap[c[k]].p

\* An interval without its beginning.
LEMMA IntervalSplit ==
    ASSUME NEW a \in Int, NEW b \in Int, a <= b
    PROVE  a .. b = {a} \cup (a + 1 .. b)
<1>1. \A j \in Int : j \in a .. b <=> j = a \/ j \in a + 1 .. b
  OBVIOUS
<1>2. a .. b \subseteq Int /\ a + 1 .. b \subseteq Int
  OBVIOUS
<1> QED BY <1>1, <1>2

\* Its recursion from the end of the chain tells whether all of them are.
LEMMA VerifyAll ==
    ASSUME NEW f, NEW c, Chain(mem, aux[f]) = c, c \in Seq(Nat), c # <<>>
    PROVE  VerifyFile(f) <=> \A k \in 1 .. Len(c) - 1 : Still(c, k)
<1> DEFINE n == Len(c)
           Step(g, k) == k = n \/ (g[k + 1] /\ Still(c, k))
           Right(g) == g = [k \in 1 .. n |-> Step(g, k)]
           ok == CHOOSE g : Right(g)
           all == [k \in 1 .. n |-> \A j \in k .. n - 1 : Still(c, j)]
<1>1. n \in Nat /\ n >= 1 /\ DOMAIN c = 1 .. n
  BY SeqFacts, LenProperties
<1>2. VerifyFile(f) = ok[1]
  BY <1>1 DEF VerifyFile, Still
<1> HIDE DEF n
<1>3. Right(all)
  <2>1. ASSUME NEW k \in 1 .. n PROVE all[k] = Step(all, k)
    <3>1. CASE k = n
      <4>1. \A j \in k .. n - 1 : FALSE
        BY <1>1, <3>1
      <4> QED BY <3>1, <4>1
    <3>2. CASE k # n
      <4>0. k + 1 \in 1 .. n /\ k \in Int /\ n - 1 \in Int /\ k <= n - 1
        BY <1>1, <3>2
      <4>1. k + 1 \in 1 .. n /\ k .. n - 1 = {k} \cup (k + 1 .. n - 1)
        BY <4>0, IntervalSplit
      <4>2. all[k + 1] = (\A j \in k + 1 .. n - 1 : Still(c, j))
        BY <4>1
      <4>3. (\A j \in k .. n - 1 : Still(c, j)) <=> (all[k + 1] /\ Still(c, k))
        BY <4>1, <4>2
      <4>4. all[k] = (\A j \in k .. n - 1 : Still(c, j))
        OBVIOUS
      <4> HIDE DEF all
      <4>5. all[k] <=> Step(all, k)
        BY <3>2, <4>3, <4>4
      <4> QED BY <3>2, <4>2, <4>3, <4>4
    <3> QED BY <3>1, <3>2
  <2>2. all = [k \in 1 .. n |-> all[k]]
    OBVIOUS
  <2> HIDE DEF all, Step
  <2> QED BY <2>1, <2>2
<1>4. Right(ok)
  <2> HIDE DEF Right, all
  <2> QED BY <1>3
<1> HIDE DEF ok
<1>5. ASSUME NEW k \in 1 .. n PROVE ok[k] = Step(ok, k)
  <2> HIDE DEF Step
  <2> QED BY <1>4
<1> HIDE DEF all
<1> DEFINE S == {i \in 0 .. n - 1 : ok[n - i] <=> \A j \in n - i .. n - 1 : Still(c, j)}
<1>6. 0 \in S
  <2>1. n - 0 = n /\ n \in 1 .. n /\ 0 \in 0 .. n - 1 /\ \A j \in n .. n - 1 : FALSE
    BY <1>1
  <2>2. ok[n]
    BY <1>5, <2>1
  <2> QED BY <2>1, <2>2
<1>7. ASSUME NEW i \in 0 .. (n - 1) - 1, i \in S PROVE i + 1 \in S
  <2> DEFINE k == n - (i + 1)
  <2>1. /\ k \in 1 .. n - 1 /\ k \in 1 .. n /\ k # n /\ k + 1 = n - i /\ i + 1 \in 0 .. n - 1
        /\ k .. n - 1 = {k} \cup (n - i .. n - 1)
    <3>1. /\ k \in 1 .. n - 1 /\ k \in 1 .. n /\ k # n /\ k + 1 = n - i /\ i + 1 \in 0 .. n - 1
          /\ k \in Int /\ n - 1 \in Int /\ k <= n - 1
      BY <1>1
    <3> HIDE DEF k
    <3>2. k .. n - 1 = {k} \cup (k + 1 .. n - 1)
      BY <3>1, IntervalSplit
    <3> QED BY <3>1, <3>2
  <2>2. ok[n - i] <=> \A j \in n - i .. n - 1 : Still(c, j)
    BY <1>7
  <2>3. ok[k] <=> ok[n - i] /\ Still(c, k)
    <3> HIDE DEF k
    <3>1. ok[k] = Step(ok, k)
      BY <1>5, <2>1
    <3> QED BY <2>1, <3>1
  <2>4. ok[k] <=> \A j \in k .. n - 1 : Still(c, j)
    <3> HIDE DEF k
    <3> QED BY <2>1, <2>2, <2>3
  <2> QED BY <2>1, <2>4
<1>8. n - 1 \in S
  <2>1. n - 1 \in Nat
    BY <1>1
  <2> HIDE DEF S
  <2> QED BY <1>6, <1>7, <2>1, Induction
<1>9. ok[1] <=> \A j \in 1 .. n - 1 : Still(c, j)
  <2>1. n - (n - 1) = 1
    BY <1>1
  <2> QED BY <1>8, <2>1
<1> QED BY <1>2, <1>9 DEF n

\* Lookup of the name in the directory behind it finds the file itself.
LEMMA StillFacts ==
    ASSUME Pool(mem), NEW c, Linked(mem, c), Along(mem, c), NEW k \in 1 .. Len(c) - 1
    PROVE  LET file == At(mem, c[k]).file
           IN  Still(c, k) <=> tree[file] > 0 /\ (file \in Volatile => tree[file] = At(mem, c[k]).p)
<1> DEFINE T == STRING
           dir == At(mem, c[k + 1]).file
           file == At(mem, c[k]).file
<1>1. /\ k \in 1 .. Len(c) /\ k + 1 \in 1 .. Len(c)
  <2>1. c \in Seq(Nat) /\ c # <<>>
    BY DEF Along
  <2>2. Len(c) \in Nat
    BY <2>1, SeqFacts
  <2> QED BY <2>2
<1>2. c[k] \in DOMAIN mem.heap /\ c[k + 1] \in DOMAIN mem.heap
  BY <1>1 DEF Linked
<1>3. mem.heap[c[k]] = At(mem, c[k]) /\ mem.heap[c[k + 1]] = At(mem, c[k + 1])
  BY <1>2 DEF At
<1>4. PICK name : name \in T /\ name # "." /\ file = Append(dir, name)
  BY DEF Along
<1>5. dir \in Seq(T) /\ file \in Paths
  <2>1. dir \in Paths /\ file \in Paths
    BY PoolFacts DEF Cell
  <2> QED BY <2>1, FileIdAssumption
<1> HIDE DEF T, dir, file
<1>6. Last(file) = name
  <2>1. Last(Append(dir, name)) = name
    BY <1>4, <1>5, FrontFacts
  <2> QED BY <1>4, <2>1
<1>7. mem.heap[c[k]].file = file /\ mem.heap[c[k + 1]].file = dir
  BY <1>3 DEF file, dir
<1>8. Child(mem, c[k + 1], name) = file
  BY <1>4, <1>7 DEF Child
<1>9. Found(mem, c[k + 1], name) <=> tree[file] > 0
  BY <1>5, <1>8 DEF Found
<1>10. Still(c, k) <=> tree[file] > 0 /\ (file \notin Volatile \/ tree[file] = At(mem, c[k]).p)
  <2>1. Last(mem.heap[c[k]].file) = name /\ mem.heap[c[k]].p = At(mem, c[k]).p
    BY <1>3, <1>6, <1>7
  <2> QED BY <1>8, <1>9, <2>1 DEF Still
<1> QED BY <1>10 DEF file

\* What ixp_srv_verifyfile finds along the chain is what the names along it say.
LEMMA FineVerified ==
    ASSUME Fine
    PROVE  VerifyRight
<1>1. PICK H : Held(mem, aux, H)
  BY DEF Fine
<1> SUFFICES ASSUME NEW f \in InUse
             PROVE  LET files == Spelled(f)
                        prefix(k) == [i \in 1 .. k |-> files[i].name]
                    IN  VerifyFile(f) <=>
                        \A k \in DOMAIN files :
                            /\ tree[prefix(k)] > 0
                            /\ prefix(k) \in Volatile => tree[prefix(k)] = files[k].p
  BY DEF VerifyRight
<1> DEFINE c == H[f]
           n == Len(c)
           files == Trail(mem, c)
           prefix(k) == [i \in 1 .. k |-> files[i].name]
           There(k) == /\ tree[prefix(k)] > 0
                       /\ prefix(k) \in Volatile => tree[prefix(k)] = files[k].p
<1>2. f \in DOMAIN H /\ Pool(mem) /\ Linked(mem, c) /\ Along(mem, c)
  BY <1>1 DEF InUse, Held, Counted
<1>3. Chain(mem, aux[f]) = c /\ SpelledAt(mem, aux[f]) = files
  BY <1>1, <1>2, SpelledFacts
<1>4. Spelled(f) = files
  BY <1>3 DEF Spelled, SpelledAt
<1>5. c \in Seq(Nat) /\ c # <<>> /\ n \in Nat /\ n >= 1
  <2>1. c \in Seq(Nat) /\ c # <<>>
    BY <1>2 DEF Along
  <2> QED BY <2>1, SeqFacts
<1> HIDE DEF c
<1>6. VerifyFile(f) <=> \A k \in 1 .. n - 1 : Still(c, k)
  BY <1>3, <1>5, VerifyAll
<1>7. DOMAIN files = 1 .. n - 1 /\ \A k \in 1 .. n - 1 : files[k] = Entry(mem, c[n - k])
  BY DEF Trail
<1>8. ASSUME NEW k \in 1 .. n - 1 PROVE There(k) <=> Still(c, n - k)
  <2>1. k \in 0 .. n - 1 /\ n - k \in 1 .. n - 1
    BY <1>5
  <2>2. prefix(k) = At(mem, c[n - k]).file
    BY <1>2, <2>1, PrefixFacts
  <2>3. files[k].p = At(mem, c[n - k]).p
    <3>1. files[k] = Entry(mem, c[n - k])
      BY <1>7
    <3> HIDE DEF files
    <3> QED BY <3>1 DEF Entry
  <2> DEFINE i == n - k
             file == At(mem, c[i]).file
  <2>4. Still(c, i) <=> tree[file] > 0 /\ (file \in Volatile => tree[file] = At(mem, c[i]).p)
    BY <1>2, <2>1, StillFacts
  <2> HIDE DEF i, file, prefix, files, n
  <2>5. There(k) <=> tree[file] > 0 /\ (file \in Volatile => tree[file] = At(mem, c[i]).p)
    BY <2>2, <2>3 DEF i, file
  <2> QED BY <2>4, <2>5 DEF i
<1> HIDE DEF There, n, files
<1>9. (\A k \in 1 .. n - 1 : Still(c, k)) <=> \A k \in 1 .. n - 1 : There(k)
  <2>1. \A k \in 1 .. n - 1 : n - k \in 1 .. n - 1 /\ n - (n - k) = k
    BY <1>5
  <2> QED BY <1>8, <2>1
<1>10. VerifyFile(f) <=> \A k \in DOMAIN files : There(k)
  BY <1>6, <1>7, <1>9
<1> QED BY <1>4, <1>10 DEF There

\* ixp_srv_verifyfile, which recurs along the chain and asks lookup for each
\* name, accepts a fid exactly when none of the files that it was walked along
\* is gone and no volatile one was replaced.
THEOREM VerifyCorrect == Spec => []VerifyRight
<1>1. Init => Fine
  BY FineInit
<1>2. Fine /\ [Next]_vars => Fine'
  BY FineStep
<1>3. Fine => VerifyRight
  BY FineVerified
<1> QED BY <1>1, <1>2, <1>3, PTL DEF Spec

-----------------------------------------------------------------------------
(* The refinement.                                                         *)

\* The path that Abstract is instantiated with.
Path == [f \in Fids |-> IF f \in InUse THEN Spelled(f) ELSE Nil]

\* The refinement mapping, before and after a step.
LEMMA PathIs ==
    Path = PathOf(mem, aux) /\ Path' = PathOf(mem', aux')
<1>1. Path = PathOf(mem, aux)
  BY DEF Path, PathOf, InUse, Spelled, SpelledAt
<1>2. Path' = PathOf(mem', aux')
  BY DEF Path, PathOf, InUse, Spelled, SpelledAt
<1> QED BY <1>1, <1>2

\* A step of the IxpFileIds is a step of the paths, or changes none.
LEMMA AbstractStep ==
    ASSUME Fine, [Next]_vars
    PROVE  [Abstract!Next]_(Abstract!vars)
<1> DEFINE path == PathOf(mem, aux)
<1>1. ASSUME NEW f \in Fids, Attach(f) PROVE Abstract!Attach(f)
  <2>1. path[f] = Nil /\ PathOf(mem', aux') = [path EXCEPT ![f] = <<>>]
    BY <1>1, AttachStep
  <2>2. tree' = tree /\ reply' = reply
    BY <1>1 DEF Attach
  <2> HIDE DEF path
  <2> QED BY <2>1, <2>2, PathIs DEF Abstract!Attach, Path, path
<1>2. ASSUME NEW f \in Fids, Clunk(f) PROVE Abstract!Clunk(f)
  <2>1. path[f] # Nil /\ PathOf(mem', aux') = [path EXCEPT ![f] = Nil]
    BY <1>2, ClunkStep
  <2>2. tree' = tree /\ reply' = reply
    BY <1>2 DEF Clunk
  <2> HIDE DEF path
  <2> QED BY <2>1, <2>2, PathIs DEF Abstract!Clunk, Path, path
<1>3. ASSUME NEW f \in Fids, Readdir(f) PROVE UNCHANGED Abstract!vars
  <2>1. PathOf(mem', aux') = path
    BY <1>3, ReaddirStep
  <2>2. tree' = tree /\ reply' = reply
    BY <1>3 DEF Readdir
  <2> QED BY <2>1, <2>2, PathIs DEF Abstract!vars, Path
<1>4. ASSUME NEW f \in Fids, NEW newfid \in Fids, NEW names \in Walks, Walk(f, newfid, names)
      PROVE  Abstract!Walk(f)
  <2> DEFINE to == Abstract!Walked(path[f], names)
  <2>1. /\ path[f] # Nil /\ (newfid = f \/ path[newfid] = Nil) /\ tree' = tree
        /\ reply' = IF to.ok THEN "ok" ELSE "file not found"
        /\ PathOf(mem', aux') = [path EXCEPT ![newfid] = IF to.ok THEN to.files ELSE @]
    BY <1>4, WalkStep
  <2> HIDE DEF path
  <2>2. newfid \in {f} \cup {g \in Fids : path[g] = Nil}
    BY <2>1
  <2> QED BY <2>1, <2>2, PathIs DEF Abstract!Walk, Path, path
<1>5. ASSUME FreeFilePool PROVE UNCHANGED Abstract!vars
  <2>1. PathOf(mem', aux') = path
    BY <1>5, FreeFilePoolStep
  <2>2. tree' = tree /\ reply' = reply
    BY <1>5 DEF FreeFilePool
  <2> QED BY <2>1, <2>2, PathIs DEF Abstract!vars, Path
<1>6. ASSUME NEW x \in Paths, Removed(x) \/ Created(x) PROVE Abstract!TreeChanges
  <2>1. /\ PathOf(mem', aux') = path /\ reply' = reply
        /\ \E p \in 0 .. MaxP : tree' = [tree EXCEPT ![x] = p]
    BY <1>6, TreeStep
  <2> QED BY <2>1, PathIs DEF Abstract!TreeChanges, Path
<1>7. ASSUME UNCHANGED vars PROVE UNCHANGED Abstract!vars
  BY <1>7, PathIs DEF vars, Abstract!vars, Path
<1> HIDE DEF path
<1> QED BY <1>1, <1>2, <1>3, <1>4, <1>5, <1>6, <1>7 DEF Next, Abstract!Next

\* No fid leads anywhere at the beginning.
LEMMA AbstractInit ==
    ASSUME Init
    PROVE  Abstract!Init
<1>1. tree = [x \in Paths |-> 1] /\ reply = "none" /\ \A f \in Fids : aux[f] = Nil
  BY DEF Init
<1>2. Path = [f \in Fids |-> Nil]
  BY <1>1 DEF Path, InUse
<1> QED BY <1>1, <1>2 DEF Abstract!Init, Path

\* The chains implement the paths of FidPaths: ixp_srv_walkandclone leads where
\* its names say or changes nothing, and no handler moves another fid.
THEOREM PathsImplemented == Spec => ImplementsFidPaths
<1>1. Init => Fine /\ Abstract!Init
  BY FineInit, AbstractInit
<1>2. Fine /\ [Next]_vars => Fine'
  BY FineStep
<1>3. Fine /\ [Next]_vars => [Abstract!Next]_(Abstract!vars)
  BY AbstractStep
<1> QED BY <1>1, <1>2, <1>3, PTL DEF Spec, ImplementsFidPaths, Abstract!Spec

=============================================================================
