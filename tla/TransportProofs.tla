-------------------------- MODULE TransportProofs --------------------------
(***************************************************************************)
(* Messages over a byte stream, for any fcalls, any buffer size and any    *)
(* way reads and writes are split.                                         *)
(***************************************************************************)
EXTENDS Transport, SequenceTheorems, WellFoundedInduction, TLAPS

-----------------------------------------------------------------------------
(* Sequences.                                                              *)

LEMMA FunctionIsSeq ==
    ASSUME NEW S, NEW n \in Nat, NEW f \in [1 .. n -> S]
    PROVE  f \in Seq(S) /\ Len(f) = n
OBVIOUS

LEMMA ConcatFacts ==
    ASSUME NEW s \in Bytes, NEW t \in Bytes
    PROVE  /\ s \o t \in Bytes /\ Len(s \o t) = Len(s) + Len(t)
           /\ Len(s) \in Nat /\ Len(t) \in Nat
           /\ \A i \in 1 .. Len(s) : (s \o t)[i] = s[i]
           /\ \A i \in 1 .. Len(t) : (s \o t)[Len(s) + i] = t[i]
<1>1. /\ s \o t \in Bytes /\ Len(s \o t) = Len(s) + Len(t)
      /\ Len(s) \in Nat /\ Len(t) \in Nat
      /\ \A i \in 1 .. Len(s) + Len(t) : (s \o t)[i] = IF i <= Len(s) THEN s[i] ELSE t[i - Len(s)]
  BY ConcatProperties, LenProperties DEF Bytes
<1>2. ASSUME NEW i \in 1 .. Len(t) PROVE (s \o t)[Len(s) + i] = t[i]
  <2>1. Len(s) + i \in 1 .. Len(s) + Len(t) /\ ~(Len(s) + i <= Len(s)) /\ (Len(s) + i) - Len(s) = i
    BY <1>1
  <2> QED BY <1>1, <2>1
<1> QED BY <1>1, <1>2

LEMMA BytesEqual ==
    ASSUME NEW s \in Bytes, NEW t \in Bytes, Len(s) = Len(t),
           \A i \in 1 .. Len(s) : s[i] = t[i]
    PROVE  s = t
BY SeqEqual DEF Bytes

LEMMA PartFacts ==
    ASSUME NEW s \in Bytes, NEW m \in Nat, NEW n \in Nat, 1 <= m, m <= n + 1, n <= Len(s)
    PROVE  /\ SubSeq(s, m, n) \in Bytes /\ Len(SubSeq(s, m, n)) = (n - m) + 1
           /\ \A i \in 1 .. (n - m) + 1 : SubSeq(s, m, n)[i] = s[(m - 1) + i]
<1>1. Len(s) \in Nat /\ \A i \in 1 .. Len(s) : s[i] \in 0 .. Byte - 1
  BY LenProperties, ElementOfSeq DEF Bytes
<1>2. m \in Int /\ n \in Int /\ \A i \in m .. n : s[i] \in 0 .. Byte - 1
  BY <1>1
<1>3. /\ SubSeq(s, m, n) \in Seq(0 .. Byte - 1)
      /\ Len(SubSeq(s, m, n)) = IF m <= n THEN n - m + 1 ELSE 0
      /\ \A i \in 1 .. n - m + 1 : SubSeq(s, m, n)[i] = s[m + i - 1]
  BY <1>2, SubSeqProperties
<1> QED BY <1>3 DEF Bytes

\* A sequence cut in two.
LEMMA CutFacts ==
    ASSUME NEW s \in Bytes, NEW k \in 0 .. Len(s)
    PROVE  /\ SubSeq(s, 1, k) \in Bytes /\ Len(SubSeq(s, 1, k)) = k
           /\ SubSeq(s, k + 1, Len(s)) \in Bytes /\ Len(SubSeq(s, k + 1, Len(s))) = Len(s) - k
           /\ \A i \in 1 .. k : SubSeq(s, 1, k)[i] = s[i]
           /\ \A i \in 1 .. Len(s) - k : SubSeq(s, k + 1, Len(s))[i] = s[k + i]
           /\ SubSeq(s, 1, k) \o SubSeq(s, k + 1, Len(s)) = s
<1> DEFINE a == SubSeq(s, 1, k)
           b == SubSeq(s, k + 1, Len(s))
<1>0. Len(s) \in Nat
  BY LenProperties DEF Bytes
<1>1. a \in Bytes /\ Len(a) = k /\ \A i \in 1 .. k : a[i] = s[i]
  BY <1>0, PartFacts
<1>2. b \in Bytes /\ Len(b) = Len(s) - k /\ \A i \in 1 .. Len(s) - k : b[i] = s[k + i]
  BY <1>0, PartFacts
<1> HIDE DEF a, b
<1>3. a \o b \in Bytes /\ Len(a \o b) = Len(s)
  <2>1. a \o b \in Bytes /\ Len(a \o b) = Len(a) + Len(b)
    BY <1>1, <1>2, ConcatFacts
  <2> QED BY <1>0, <1>1, <1>2, <2>1
<1>4. ASSUME NEW i \in 1 .. Len(s) PROVE (a \o b)[i] = s[i]
  <2>1. CASE i <= k
    BY <1>0, <1>1, <1>2, <2>1, ConcatFacts
  <2>2. CASE i > k
    <3>1. i - k \in 1 .. Len(b) /\ k + (i - k) = i /\ Len(a) + (i - k) = i
      BY <1>0, <1>1, <1>2, <2>2
    <3>2. (a \o b)[Len(a) + (i - k)] = b[i - k]
      BY <1>1, <1>2, <3>1, ConcatFacts
    <3> QED BY <1>2, <3>1, <3>2
  <2>3. i <= k \/ i > k
    BY <1>0
  <2> QED BY <2>1, <2>2, <2>3
<1>5. a \o b = s
  BY <1>0, <1>3, <1>4, BytesEqual
<1> QED BY <1>1, <1>2, <1>5 DEF a, b


-----------------------------------------------------------------------------
(* Integers.                                                               *)

LEMMA WeightFacts ==
    /\ Byte = 256 /\ Word = 65536 /\ SDWord = 4
    /\ Weight[1] = 1 /\ Weight[2] = 256 /\ Weight[3] = 65536 /\ Weight[4] = 16777216
BY DEF Byte, Word, SDWord, Weight

\* The values that w bytes hold.
Fits(w, v) ==
    \/ w = 1 /\ v < Byte
    \/ w = 2 /\ v < Word
    \/ w = 4 /\ v \div Word < Word

LEMMA FitsFacts ==
    ASSUME NEW v
    PROVE  /\ v \in 0 .. Byte - 1 => v \in Nat /\ Fits(1, v)
           /\ v \in 0 .. Word - 1 => v \in Nat /\ Fits(2, v)
<1>1. ASSUME v \in 0 .. Byte - 1 PROVE v \in Nat /\ Fits(1, v)
  BY <1>1, WeightFacts DEF Fits
<1>2. ASSUME v \in 0 .. Word - 1 PROVE v \in Nat /\ Fits(2, v)
  BY <1>2, WeightFacts DEF Fits
<1> QED BY <1>1, <1>2

LEMMA PuintFacts ==
    ASSUME NEW w \in {1, 2, 4}, NEW v \in Nat
    PROVE  /\ Puint(w, v) \in Bytes /\ Len(Puint(w, v)) = w
           /\ \A i \in 1 .. w : Puint(w, v)[i] = (v \div Weight[i]) % Byte
<1>1. ASSUME NEW i \in 1 .. w PROVE (v \div Weight[i]) % Byte \in 0 .. Byte - 1
  <2>1. Weight[i] \in {1, 256, 65536, 16777216}
    BY WeightFacts
  <2>2. v \div Weight[i] \in Nat
    BY <2>1
  <2> QED BY <2>2, WeightFacts
<1>2. Puint(w, v) \in [1 .. w -> 0 .. Byte - 1]
  BY <1>1 DEF Puint
<1>3. Puint(w, v) \in Seq(0 .. Byte - 1) /\ Len(Puint(w, v)) = w
  BY <1>2, FunctionIsSeq
<1> QED BY <1>3 DEF Puint, Bytes

\* ixp_puint: a field that lies at pos is read back.
LEMMA UintRead ==
    ASSUME NEW msg, NEW pos, NEW w \in {1, 2, 4}, NEW v \in Nat, Fits(w, v),
           Available(msg, pos, w),
           \A i \in 1 .. w : msg[pos + i - 1] = Puint(w, v)[i]
    PROVE  UintAt(msg, pos, w) = v
<1> DEFINE part(i) == IF i <= w THEN msg[pos + i - 1] * Weight[i] ELSE 0
<1>1. \A i \in 1 .. w : msg[pos + i - 1] = (v \div Weight[i]) % Byte
  BY PuintFacts
<1>2. UintAt(msg, pos, w) = part(1) + part(2) + part(3) + part(4)
  BY DEF UintAt
<1>3. part(1) = v % 256
  BY <1>1, WeightFacts
<1>4. part(2) = IF w >= 2 THEN ((v \div 256) % 256) * 256 ELSE 0
  BY <1>1, WeightFacts
<1>5. part(3) = IF w = 4 THEN ((v \div 65536) % 256) * 65536 ELSE 0
  BY <1>1, WeightFacts
<1>6. part(4) = IF w = 4 THEN ((v \div 16777216) % 256) * 16777216 ELSE 0
  BY <1>1, WeightFacts
<1> HIDE DEF part
<1>7. CASE w = 1
  BY <1>2, <1>3, <1>4, <1>5, <1>6, <1>7, WeightFacts DEF Fits
<1>8. CASE w = 2
  <2>1. v < 65536
    BY <1>8, WeightFacts DEF Fits
  <2>2. (v \div 256) % 256 = v \div 256
    BY <2>1
  <2>3. part(3) = 0 /\ part(4) = 0 /\ part(2) = (v \div 256) * 256
    BY <1>4, <1>5, <1>6, <1>8, <2>2
  <2> QED BY <1>2, <1>3, <2>3
<1>9. CASE w = 4
  BY <1>2, <1>3, <1>4, <1>5, <1>6, <1>9, WeightFacts DEF Fits
<1> QED BY <1>7, <1>8, <1>9


-----------------------------------------------------------------------------
(* Induction up to a bound, over the set of the numbers a claim holds of.  *)

LEMMA LeastNumber ==
    ASSUME NEW S, S \subseteq Nat, S # {}
    PROVE  \E x \in S : \A y \in S : x <= y
<1> DEFINE R == OpToRel(<, Nat)
<1>1. \E x \in S : \A y \in S : ~ (<<y, x>> \in R)
  <2>1. IsWellFoundedOn(R, Nat)
    BY NatLessThanWellFounded
  <2> HIDE DEF R
  <2> QED BY <2>1, WFMin
<1>2. PICK x \in S : \A y \in S : ~ (<<y, x>> \in R)
  BY <1>1
<1>3. \A y \in S : x <= y
  <2> TAKE y \in S
  <2>1. x \in Nat /\ y \in Nat
    OBVIOUS
  <2>2. y < x => <<y, x>> \in R
    BY <2>1 DEF OpToRel
  <2> HIDE DEF R
  <2>3. ~(y < x)
    BY <1>2, <2>2
  <2> QED BY <2>1, <2>3
<1> QED BY <1>3

LEMMA Induction ==
    ASSUME NEW n \in Nat, NEW S, 0 \in S, \A k \in 0 .. n - 1 : k \in S => k + 1 \in S
    PROVE  n \in S
<1> DEFINE T == {k \in 0 .. n : k \notin S}
<1> SUFFICES T = {}
  OBVIOUS
<1> SUFFICES ASSUME T # {} PROVE FALSE
  OBVIOUS
<1>1. PICK x \in T : \A y \in T : x <= y
  <2>1. T \subseteq Nat
    OBVIOUS
  <2> HIDE DEF T
  <2> QED BY <2>1, LeastNumber
<1>2. x \in 0 .. n /\ x \notin S /\ x # 0
  OBVIOUS
<1>3. x - 1 \in 0 .. n - 1 /\ x - 1 \in 0 .. n /\ (x - 1) + 1 = x /\ ~(x <= x - 1)
  BY <1>2
<1>4. x - 1 \in S
  BY <1>1, <1>3
<1> QED BY <1>2, <1>3, <1>4

-----------------------------------------------------------------------------
(* Sequences joined.                                                       *)

\* q is the first n parts, one after the other; the i-th ends at at[i].
Joined(at, n, parts, q) ==
    /\ at \in [0 .. n -> 0 .. Len(q)]
    /\ at[0] = 0 /\ at[n] = Len(q)
    /\ \A i \in 1 .. n :
        /\ at[i] = at[i - 1] + Len(parts[i])
        /\ \A j \in 1 .. Len(parts[i]) : q[at[i - 1] + j] = parts[i][j]

LEMMA JoinedAppend ==
    ASSUME NEW n \in Nat, NEW parts, NEW q \in Bytes, NEW at, Joined(at, n, parts, q),
           \A i \in 1 .. n + 1 : parts[i] \in Bytes
    PROVE  \E at2 : Joined(at2, n + 1, parts, q \o parts[n + 1])
<1> DEFINE x == parts[n + 1]
           p == q \o x
           at2 == [i \in 0 .. n + 1 |-> IF i = n + 1 THEN Len(p) ELSE at[i]]
<1>1. /\ p \in Bytes /\ Len(p) = Len(q) + Len(x) /\ Len(q) \in Nat /\ Len(x) \in Nat
      /\ \A i \in 1 .. Len(q) : p[i] = q[i]
      /\ \A i \in 1 .. Len(x) : p[Len(q) + i] = x[i]
  <2>1. x \in Bytes
    OBVIOUS
  <2> QED BY <2>1, ConcatFacts
<1> HIDE DEF p
<1>2. /\ \A i \in 0 .. n : at[i] \in Nat /\ at[i] <= Len(q)
      /\ at[0] = 0 /\ at[n] = Len(q)
      /\ \A i \in 1 .. n :
            /\ at[i] = at[i - 1] + Len(parts[i])
            /\ \A j \in 1 .. Len(parts[i]) : q[at[i - 1] + j] = parts[i][j]
  BY <1>1 DEF Joined
<1>3. at2 \in [0 .. n + 1 -> 0 .. Len(p)] /\ at2[0] = 0 /\ at2[n + 1] = Len(p)
  BY <1>1, <1>2
<1>4. at2[n] = Len(q) /\ \A i \in 0 .. n : at2[i] = at[i]
  BY <1>2
<1> HIDE DEF at2
<1>5. ASSUME NEW i \in 1 .. n + 1
      PROVE  /\ at2[i] = at2[i - 1] + Len(parts[i])
             /\ \A j \in 1 .. Len(parts[i]) : p[at2[i - 1] + j] = parts[i][j]
  <2>1. CASE i = n + 1
    <3>1. i - 1 = n
      BY <2>1
    <3> QED BY <1>1, <1>3, <1>4, <2>1, <3>1
  <2>2. CASE i # n + 1
    <3>1. i \in 1 .. n /\ i - 1 \in 0 .. n /\ i \in 0 .. n
      BY <2>2
    <3>2. at2[i] = at[i] /\ at2[i - 1] = at[i - 1] /\ at[i] = at[i - 1] + Len(parts[i])
      BY <1>2, <1>4, <3>1
    <3>3. ASSUME NEW j \in 1 .. Len(parts[i]) PROVE p[at[i - 1] + j] = parts[i][j]
      <4> DEFINE u == at[i - 1]
                 w == at[i]
                 k == Len(parts[i])
      <4>1. u \in Nat /\ w \in Nat /\ w <= Len(q) /\ w = u + k
        BY <1>2, <3>1, <3>2
      <4>2. j \in 1 .. k /\ q[u + j] = parts[i][j]
        BY <1>2, <3>1
      <4> HIDE DEF u, w, k
      <4>3. k \in Nat
        <5>1. parts[i] \in Bytes
          OBVIOUS
        <5> QED BY <5>1, ConcatFacts DEF k
      <4>4. u + j \in 1 .. Len(q)
        BY <1>1, <4>1, <4>2, <4>3
      <4>5. p[u + j] = q[u + j]
        BY <1>1, <4>4
      <4> QED BY <4>2, <4>5 DEF u
    <3> QED BY <3>2, <3>3
  <2> QED BY <2>1, <2>2
<1>6. Joined(at2, n + 1, parts, p)
  BY <1>3, <1>5 DEF Joined
<1> QED BY <1>6 DEF p

\* FlattenSeq joins the parts.
LEMMA FlattenFacts ==
    ASSUME NEW n \in Nat, NEW parts \in [1 .. n -> Bytes]
    PROVE  /\ FlattenSeq(parts) \in Bytes
           /\ \E at : Joined(at, n, parts, FlattenSeq(parts))
<1>1. parts \in Seq(Bytes) /\ Len(parts) = n
  BY FunctionIsSeq
<1>2. CASE n = 0
  <2>1. FlattenSeq(parts) = <<>>
    BY <1>1, <1>2, EmptySeq DEF FlattenSeq
  <2>2. <<>> \in Bytes /\ Len(<<>>) = 0
    BY EmptySeq DEF Bytes
  <2>3. Joined([i \in 0 .. 0 |-> 0], 0, parts, <<>>)
    BY <2>2 DEF Joined
  <2> QED BY <1>2, <2>1, <2>2, <2>3
<1>3. CASE n # 0
  <2> DEFINE Step(g, i) == IF i = 1 THEN parts[i] ELSE g[i - 1] \o parts[i]
             Upto(g, k) == g = [i \in 1 .. k |-> Step(g, i)]
             flatten == CHOOSE g : Upto(g, n)
  <2>1. FlattenSeq(parts) = flatten[n]
    BY <1>1, <1>3 DEF FlattenSeq
  <2>2. \E g : Upto(g, n)
    <3> DEFINE S == {k \in 0 .. n : \E g : Upto(g, k)}
    <3>1. 0 \in S
      <4>1. Upto([i \in 1 .. 0 |-> <<>>], 0)
        OBVIOUS
      <4>2. 0 \in 0 .. n
        OBVIOUS
      <4> HIDE DEF Upto
      <4> QED BY <4>1, <4>2
    <3>2. ASSUME NEW k \in 0 .. n - 1, k \in S PROVE k + 1 \in S
      <4>1. PICK g : Upto(g, k)
        BY <3>2
      <4> DEFINE h == [i \in 1 .. k + 1 |-> IF i = k + 1 THEN Step(g, i) ELSE g[i]]
      <4>2. ASSUME NEW i \in 1 .. k + 1 PROVE h[i] = Step(h, i)
        <5>1. i # 1 => i - 1 \in 1 .. k /\ h[i - 1] = g[i - 1]
          OBVIOUS
        <5>2. Step(h, i) = Step(g, i)
          BY <5>1
        <5>3. CASE i = k + 1
          BY <5>2, <5>3
        <5>4. CASE i # k + 1
          <6>1. i \in 1 .. k
            BY <5>4
          <6>2. g[i] = Step(g, i)
            BY <4>1, <6>1
          <6> QED BY <5>2, <5>4, <6>2
        <5> QED BY <5>3, <5>4
      <4>3. Upto(h, k + 1)
        <5>1. h = [i \in 1 .. k + 1 |-> h[i]]
          OBVIOUS
        <5> HIDE DEF h
        <5> QED BY <4>2, <5>1
      <4>4. k + 1 \in 0 .. n
        OBVIOUS
      <4> HIDE DEF Upto, h
      <4> QED BY <4>3, <4>4
    <3> HIDE DEF S
    <3>3. \A k \in 0 .. n - 1 : k \in S => k + 1 \in S
      BY <3>2
    <3>4. n \in S
      BY <3>1, <3>3, Induction
    <3> HIDE DEF Upto
    <3> QED BY <3>4 DEF S
  <2>3. Upto(flatten, n)
    BY <2>2
  <2>4. flatten[1] = parts[1] /\ \A i \in 2 .. n : flatten[i] = flatten[i - 1] \o parts[i]
    <3> HIDE DEF flatten
    <3>1. \A i \in 1 .. n : flatten[i] = Step(flatten, i)
      BY <2>3
    <3>2. 1 \in 1 .. n
      BY <1>3
    <3>3. flatten[1] = parts[1]
      BY <3>1, <3>2
    <3>4. ASSUME NEW i \in 2 .. n PROVE flatten[i] = flatten[i - 1] \o parts[i]
      <4>1. i \in 1 .. n /\ i # 1
        OBVIOUS
      <4> QED BY <3>1, <4>1
    <3> QED BY <3>3, <3>4
  <2> HIDE DEF flatten
  <2> DEFINE Good(k) == flatten[k] \in Bytes /\ \E at : Joined(at, k, parts, flatten[k])
             S == {k \in 0 .. n : k # 0 => Good(k)}
  <2>5. 0 \in S
    OBVIOUS
  <2>6. ASSUME NEW k \in 0 .. n - 1, k \in S PROVE k + 1 \in S
    <3>0. \A i \in 1 .. k + 1 : parts[i] \in Bytes
      OBVIOUS
    <3>1. CASE k = 0
      <4>1. flatten[1] \in Bytes /\ flatten[1] = parts[1]
        BY <2>4, <3>0, <3>1
      <4>2. <<>> \in Bytes /\ Len(<<>>) = 0
        BY EmptySeq DEF Bytes
      <4>3. Joined([i \in 0 .. 0 |-> 0], 0, parts, <<>>)
        BY <4>2 DEF Joined
      <4>4. \E at : Joined(at, 0 + 1, parts, <<>> \o parts[0 + 1])
        BY <3>0, <3>1, <4>2, <4>3, JoinedAppend
      <4>5. <<>> \o parts[1] = parts[1]
        BY <4>1, ConcatEmptySeq DEF Bytes
      <4>6. \E at : Joined(at, 1, parts, flatten[1])
        BY <4>1, <4>4, <4>5
      <4> QED BY <3>1, <4>1, <4>6
    <3>2. CASE k # 0
      <4>1. k \in Nat /\ k + 1 \in 2 .. n /\ (k + 1) - 1 = k /\ Good(k)
        BY <2>6, <3>2
      <4>2. flatten[k + 1] = flatten[k] \o parts[k + 1]
        BY <2>4, <4>1
      <4>3. parts[k + 1] \in Bytes
        BY <3>0
      <4>4. flatten[k + 1] \in Bytes
        BY <4>1, <4>2, <4>3, ConcatFacts
      <4>5. PICK at : Joined(at, k, parts, flatten[k])
        BY <4>1
      <4>6. \E at2 : Joined(at2, k + 1, parts, flatten[k] \o parts[k + 1])
        BY <3>0, <4>1, <4>5, JoinedAppend
      <4>7. Good(k + 1)
        BY <4>2, <4>4, <4>6, Zenon
      <4>8. k + 1 \in 0 .. n
        OBVIOUS
      <4> HIDE DEF Good
      <4> QED BY <4>7, <4>8
    <3> QED BY <3>1, <3>2
  <2> HIDE DEF S
  <2>9. \A k \in 0 .. n - 1 : k \in S => k + 1 \in S
    BY <2>6
  <2>7. n \in S
    BY <2>5, <2>9, Induction
  <2>8. Good(n)
    BY <1>3, <2>7 DEF S
  <2> QED BY <2>1, <2>8
<1> QED BY <1>2, <1>3

-----------------------------------------------------------------------------
(* Reading what was packed.                                                *)

\* p lies in msg from pos on, as far as msg goes.
Holds(msg, pos, p) ==
    \A j \in 1 .. Len(p) : pos + j - 1 <= Len(msg) => msg[pos + j - 1] = p[j]

\* From c to d, the bytes p were read and gave the value v; or msg is too short,
\* or an earlier field failed, and d has failed.
Read(msg, c, d, p, v) ==
    IF c.pos + Len(p) <= Len(msg) + 1
    THEN d = [pos |-> c.pos + Len(p), vals |-> Append(c.vals, v)]
    ELSE d.pos = Len(msg) + 2

\* A cursor that read the first n values, or failed.
ReadUpto(msg, start, at, n, vals, c) ==
    IF start + at[n] <= Len(msg) + 1
    THEN c = [pos |-> start + at[n], vals |-> [j \in 1 .. n |-> vals[j]]]
    ELSE c.pos = Len(msg) + 2

\* Each step of after reads its part, where it lies.
Chain(msg, after, n, parts, vals) ==
    \A i \in 1 .. n :
        after[i - 1].pos \in 1 .. Len(msg) + 2 /\ Holds(msg, after[i - 1].pos, parts[i])
            => Read(msg, after[i - 1], after[i], parts[i], vals[i])

\* Parts that lie one after the other are read one after the other.
LEMMA ReadChain ==
    ASSUME NEW msg \in Bytes, NEW start \in 1 .. Len(msg) + 2,
           NEW n \in Nat, NEW parts \in [1 .. n -> Bytes], NEW vals,
           NEW q \in Bytes, NEW at, Joined(at, n, parts, q), Holds(msg, start, q),
           NEW after, after[0] = [pos |-> start, vals |-> <<>>], Chain(msg, after, n, parts, vals)
    PROVE  ReadUpto(msg, start, at, n, vals, after[n]) /\ at[n] = Len(q)
<1>1. Len(msg) \in Nat /\ Len(q) \in Nat /\ \A i \in 1 .. n : Len(parts[i]) \in Nat
  BY LenProperties DEF Bytes
<1>2. /\ \A i \in 0 .. n : at[i] \in Nat /\ at[i] <= Len(q)
      /\ at[0] = 0 /\ at[n] = Len(q)
      /\ \A i \in 1 .. n :
            /\ at[i] = at[i - 1] + Len(parts[i])
            /\ \A j \in 1 .. Len(parts[i]) : q[at[i - 1] + j] = parts[i][j]
  BY <1>1 DEF Joined
<1> DEFINE S == {k \in 0 .. n : ReadUpto(msg, start, at, k, vals, after[k])}
<1>3. 0 \in S
  <2>1. [j \in 1 .. 0 |-> vals[j]] = <<>>
    OBVIOUS
  <2>2. ReadUpto(msg, start, at, 0, vals, after[0])
    <3>1. start + at[0] = start
      BY <1>1, <1>2
    <3>2. start <= Len(msg) + 1 \/ start = Len(msg) + 2
      BY <1>1
    <3> QED BY <2>1, <3>1, <3>2 DEF ReadUpto
  <2> QED BY <2>2
<1>4. ASSUME NEW k \in 0 .. n - 1, k \in S PROVE k + 1 \in S
  <2> DEFINE i == k + 1
             c == after[k]
             d == after[i]
             p == parts[i]
  <2>1. /\ i \in 1 .. n /\ i - 1 = k /\ k \in 0 .. n /\ i \in 0 .. n
        /\ p \in Bytes /\ Len(p) \in Nat
    BY <1>1
  <2>2. /\ at[k] \in Nat /\ at[i] = at[k] + Len(p) /\ at[i] <= Len(q)
        /\ \A j \in 1 .. Len(p) : q[at[k] + j] = p[j]
    BY <1>2, <2>1
  <2>3. ReadUpto(msg, start, at, k, vals, c)
    BY <1>4
  <2>4. c.pos \in 1 .. Len(msg) + 2 /\ Holds(msg, c.pos, p) => Read(msg, c, d, p, vals[i])
    BY <2>1 DEF Chain
  <2> HIDE DEF c, d, p
  <2>5. CASE start + at[k] <= Len(msg) + 1
    <3>1. c = [pos |-> start + at[k], vals |-> [j \in 1 .. k |-> vals[j]]]
      BY <2>3, <2>5 DEF ReadUpto
    <3>2. c.pos = start + at[k] /\ c.vals = [j \in 1 .. k |-> vals[j]]
      BY <3>1
    <3>3. Holds(msg, c.pos, p)
      <4> SUFFICES ASSUME NEW j \in 1 .. Len(p), c.pos + j - 1 <= Len(msg)
                   PROVE  msg[c.pos + j - 1] = p[j]
        BY DEF Holds
      <4>1. at[k] + j \in 1 .. Len(q) /\ start + (at[k] + j) - 1 = c.pos + j - 1
        <5> DEFINE u == at[k]
                   m == Len(p)
        <5>1. u \in Nat /\ m \in Nat /\ u + m <= Len(q) /\ j \in 1 .. m
          BY <2>1, <2>2
        <5> HIDE DEF u, m
        <5>2. u + j \in 1 .. Len(q)
          BY <1>1, <5>1
        <5>3. start + (u + j) - 1 = (start + u) + j - 1
          BY <1>1, <5>1
        <5> QED BY <3>2, <5>2, <5>3 DEF u
      <4>2. msg[start + (at[k] + j) - 1] = q[at[k] + j]
        BY <4>1 DEF Holds
      <4> QED BY <2>2, <4>1, <4>2
    <3>4. Read(msg, c, d, p, vals[i])
      <4>1. c.pos \in 1 .. Len(msg) + 2
        BY <1>1, <2>2, <2>5, <3>2
      <4> QED BY <2>4, <3>3, <4>1
    <3>5. c.pos + Len(p) = start + at[i]
      BY <1>1, <2>1, <2>2, <3>2
    <3>6. CASE start + at[i] <= Len(msg) + 1
      <4>1. d = [pos |-> start + at[i], vals |-> Append(c.vals, vals[i])]
        BY <3>4, <3>5, <3>6 DEF Read
      <4>2. Append(c.vals, vals[i]) = [j \in 1 .. i |-> vals[j]]
        <5> DEFINE T == {vals[j] : j \in 1 .. n}
                   s == [j \in 1 .. k |-> vals[j]]
                   t == [j \in 1 .. i |-> vals[j]]
        <5>1. s \in [1 .. k -> T] /\ t \in [1 .. i -> T] /\ vals[i] \in T
          BY <2>1
        <5>2. \A j \in 1 .. k : s[j] = t[j]
          OBVIOUS
        <5>3. t[i] = vals[i]
          BY <2>1
        <5> HIDE DEF T, s, t
        <5>4. s \in Seq(T) /\ Len(s) = k /\ t \in Seq(T) /\ Len(t) = i
          BY <2>1, <5>1, FunctionIsSeq
        <5>5. /\ Append(s, vals[i]) \in Seq(T) /\ Len(Append(s, vals[i])) = k + 1
              /\ \A j \in 1 .. k : Append(s, vals[i])[j] = s[j]
              /\ Append(s, vals[i])[k + 1] = vals[i]
          BY <5>1, <5>4, AppendProperties
        <5>6. ASSUME NEW j \in 1 .. k + 1 PROVE Append(s, vals[i])[j] = t[j]
          <6>1. j \in 1 .. k \/ j = k + 1
            OBVIOUS
          <6> QED BY <5>2, <5>3, <5>5, <6>1
        <5>7. Append(s, vals[i]) = t
          BY <5>4, <5>5, <5>6, SeqEqual
        <5> QED BY <3>2, <5>7 DEF s, t
      <4> QED BY <2>1, <3>6, <4>1, <4>2 DEF ReadUpto, d
    <3>7. CASE ~(start + at[i] <= Len(msg) + 1)
      <4>1. d.pos = Len(msg) + 2
        BY <3>4, <3>5, <3>7 DEF Read
      <4> QED BY <2>1, <3>7, <4>1 DEF ReadUpto, d
    <3> QED BY <3>6, <3>7
  <2>6. CASE ~(start + at[k] <= Len(msg) + 1)
    <3>1. c.pos = Len(msg) + 2
      BY <2>3, <2>6 DEF ReadUpto
    <3>2. Holds(msg, c.pos, p)
      BY <1>1, <2>1, <3>1 DEF Holds
    <3>3. Read(msg, c, d, p, vals[i])
      BY <1>1, <2>4, <3>1, <3>2
    <3>4. d.pos = Len(msg) + 2
      BY <1>1, <2>1, <3>1, <3>3 DEF Read
    <3>5. ~(start + at[i] <= Len(msg) + 1)
      BY <1>1, <2>1, <2>2, <2>6
    <3> QED BY <2>1, <3>4, <3>5 DEF ReadUpto, d
  <2> QED BY <2>5, <2>6
<1> HIDE DEF S
<1>5. \A k \in 0 .. n - 1 : k \in S => k + 1 \in S
  BY <1>4
<1>6. n \in S
  BY <1>3, <1>5, Induction
<1>7. ReadUpto(msg, start, at, n, vals, after[n])
  BY <1>6 DEF S
<1> QED BY <1>2, <1>7

\* A cursor of this message.
AtCursor(msg, c) == msg \in Bytes /\ c.pos \in 1 .. Len(msg) + 2

LEMMA CursorFacts ==
    ASSUME NEW msg, NEW c, AtCursor(msg, c)
    PROVE  /\ msg \in Bytes /\ Len(msg) \in Nat
           /\ c.pos \in Nat /\ 1 <= c.pos /\ c.pos <= Len(msg) + 2
<1>1. msg \in Bytes /\ Len(msg) \in Nat
  BY LenProperties DEF AtCursor, Bytes
<1> QED BY <1>1 DEF AtCursor

LEMMA GetUintFacts ==
    ASSUME NEW msg, NEW c, AtCursor(msg, c), NEW w \in {1, 2, 4}, NEW v \in Nat, Fits(w, v),
           Holds(msg, c.pos, Puint(w, v))
    PROVE  Read(msg, c, GetUint(msg, c, w), Puint(w, v), v)
<1>1. Len(msg) \in Nat /\ Len(Puint(w, v)) = w /\ c.pos \in Nat
  BY PuintFacts, CursorFacts
<1>2. CASE c.pos + w <= Len(msg) + 1
  <2>1. Available(msg, c.pos, w)
    BY <1>1, <1>2 DEF Available
  <2>2. \A i \in 1 .. w : msg[c.pos + i - 1] = Puint(w, v)[i]
    <3> SUFFICES ASSUME NEW i \in 1 .. w PROVE msg[c.pos + i - 1] = Puint(w, v)[i]
      OBVIOUS
    <3>1. c.pos + i - 1 <= Len(msg)
      BY <1>1, <1>2
    <3> QED BY <1>1, <3>1 DEF Holds
  <2>3. UintAt(msg, c.pos, w) = v
    BY <2>1, <2>2, UintRead
  <2> QED BY <1>1, <1>2, <2>1, <2>3 DEF GetUint, Skip, Read
<1>3. CASE ~(c.pos + w <= Len(msg) + 1)
  <2>1. ~Available(msg, c.pos, w)
    BY <1>1, <1>3 DEF Available
  <2> QED BY <1>1, <1>3, <2>1 DEF GetUint, Skip, Read
<1> QED BY <1>2, <1>3

\* Where the halves of what lies at pos lie.
LEMMA HoldsParts ==
    ASSUME NEW msg \in Bytes, NEW pos \in Nat, NEW a \in Bytes, NEW b \in Bytes,
           Holds(msg, pos, a \o b)
    PROVE  Holds(msg, pos, a) /\ Holds(msg, pos + Len(a), b)
<1>1. /\ Len(a \o b) = Len(a) + Len(b) /\ Len(a) \in Nat /\ Len(b) \in Nat
      /\ \A i \in 1 .. Len(a) : (a \o b)[i] = a[i]
      /\ \A i \in 1 .. Len(b) : (a \o b)[Len(a) + i] = b[i]
  BY ConcatFacts
<1> DEFINE ab == a \o b
<1>2. \A j \in 1 .. Len(ab) : pos + j - 1 <= Len(msg) => msg[pos + j - 1] = ab[j]
  BY DEF Holds
<1> HIDE DEF ab
<1>3. /\ Len(ab) = Len(a) + Len(b)
      /\ \A i \in 1 .. Len(a) : ab[i] = a[i]
      /\ \A i \in 1 .. Len(b) : ab[Len(a) + i] = b[i]
  BY <1>1 DEF ab
<1>4. ASSUME NEW j \in 1 .. Len(a), pos + j - 1 <= Len(msg) PROVE msg[pos + j - 1] = a[j]
  <2>1. j \in 1 .. Len(ab)
    BY <1>1, <1>3
  <2> QED BY <1>2, <1>3, <1>4, <2>1
<1>5. ASSUME NEW j \in 1 .. Len(b), (pos + Len(a)) + j - 1 <= Len(msg)
      PROVE  msg[(pos + Len(a)) + j - 1] = b[j]
  <2>1. Len(a) + j \in 1 .. Len(ab) /\ pos + (Len(a) + j) - 1 = (pos + Len(a)) + j - 1
    BY <1>1, <1>3
  <2> QED BY <1>2, <1>3, <1>5, <2>1
<1> QED BY <1>4, <1>5 DEF Holds

LEMMA GetBytesFacts ==
    ASSUME NEW msg, NEW c, AtCursor(msg, c), NEW w \in {2, 4}, NEW s \in Bytes, Fits(w, Len(s)),
           Holds(msg, c.pos, Puint(w, Len(s)) \o s)
    PROVE  Read(msg, c, GetBytes(msg, c, w), Puint(w, Len(s)) \o s, s)
<1> DEFINE n == Len(s)
           u == Puint(w, n)
<1> SUFFICES Read(msg, c, GetBytes(msg, c, w), u \o s, s)
  OBVIOUS
<1>0. n \in Nat /\ n = Len(s)
  BY ConcatFacts
<1>1. /\ u \in Bytes /\ Len(u) = w /\ w \in Nat /\ w >= 2
      /\ msg \in Bytes /\ Len(msg) \in Nat
      /\ c.pos \in Nat /\ 1 <= c.pos /\ c.pos <= Len(msg) + 2
  <2>1. w \in {1, 2, 4} /\ w \in Nat /\ w >= 2
    OBVIOUS
  <2>2. u \in Bytes /\ Len(u) = w
    BY <1>0, <2>1, PuintFacts
  <2> QED BY <2>1, <2>2, CursorFacts
<1>5. Fits(w, n) /\ Holds(msg, c.pos, u \o s) /\ u = Puint(w, n) /\ w \in {1, 2, 4}
  OBVIOUS
<1> HIDE DEF n, u
<1>2. Len(u \o s) = w + n /\ Holds(msg, c.pos, u) /\ Holds(msg, c.pos + w, s)
  <2>1. Holds(msg, c.pos, u) /\ Holds(msg, c.pos + Len(u), s)
    BY <1>1, <1>5, HoldsParts
  <2>2. Len(u \o s) = Len(u) + Len(s)
    BY <1>1, ConcatFacts
  <2> QED BY <1>0, <1>1, <2>1, <2>2
<1>3. CASE c.pos + w <= Len(msg) + 1
  <2>1. Available(msg, c.pos, w)
    BY <1>1, <1>3 DEF Available
  <2>2. \A i \in 1 .. w : msg[c.pos + i - 1] = u[i]
    <3> SUFFICES ASSUME NEW i \in 1 .. w PROVE msg[c.pos + i - 1] = u[i]
      OBVIOUS
    <3>1. c.pos + i - 1 <= Len(msg)
      BY <1>1, <1>3
    <3> QED BY <1>1, <1>2, <3>1 DEF Holds
  <2>3. UintAt(msg, c.pos, w) = n
    <3>1. \A i \in 1 .. w : msg[c.pos + i - 1] = Puint(w, n)[i]
      BY <1>5, <2>2
    <3> QED BY <1>0, <1>5, <2>1, <3>1, UintRead
  <2> DEFINE from == c.pos + w
  <2>4. Skip(msg, c.pos, w) = from
    BY <2>1 DEF Skip
  <2>5. CASE from + n <= Len(msg) + 1
    <3>1. Available(msg, from, n)
      BY <1>0, <1>1, <1>3, <2>5 DEF Available
    <3>2. Skip(msg, from, n) = from + n /\ from + n = c.pos + (w + n)
      BY <1>0, <1>1, <3>1 DEF Skip
    <3>3. SubSeq(msg, from, from + n - 1) = s
      <4> DEFINE t == SubSeq(msg, from, from + n - 1)
      <4>1. /\ from \in Nat /\ from + n - 1 \in Nat /\ 1 <= from /\ from <= (from + n - 1) + 1
            /\ from + n - 1 <= Len(msg) /\ ((from + n - 1) - from) + 1 = n
        <5>1. from \in Nat /\ 1 <= from /\ from + n <= Len(msg) + 1
          BY <1>1, <2>5
        <5> HIDE DEF from
        <5> QED BY <1>0, <1>1, <5>1
      <4>2. t \in Bytes /\ Len(t) = n /\ \A i \in 1 .. n : t[i] = msg[(from - 1) + i]
        <5> DEFINE to == from + n - 1
        <5>1. /\ from \in Nat /\ to \in Nat /\ 1 <= from /\ from <= to + 1
              /\ to <= Len(msg) /\ (to - from) + 1 = n
          BY <4>1
        <5> HIDE DEF from, to
        <5>2. LET piece == SubSeq(msg, from, to)
              IN  /\ piece \in Bytes /\ Len(piece) = (to - from) + 1
                  /\ \A i \in 1 .. (to - from) + 1 : piece[i] = msg[(from - 1) + i]
          BY <1>1, <5>1, PartFacts
        <5> QED BY <5>1, <5>2 DEF to
      <4> HIDE DEF t, from
      <4>3. ASSUME NEW i \in 1 .. n PROVE t[i] = s[i]
        <5>1. (from - 1) + i = from + i - 1 /\ from + i - 1 <= Len(msg)
          BY <1>0, <1>1, <4>1
        <5>2. msg[from + i - 1] = s[i]
          BY <1>0, <1>2, <5>1 DEF Holds, from
        <5> QED BY <4>2, <5>1, <5>2
      <4>4. t = s
        BY <1>0, <4>2, <4>3, BytesEqual
      <4> QED BY <4>4 DEF t
    <3>4. c.pos + Len(u \o s) <= Len(msg) + 1
      BY <1>0, <1>1, <1>2, <2>5
    <3>5. GetBytes(msg, c, w) = [pos |-> from + n, vals |-> Append(c.vals, s)]
      BY <2>3, <2>4, <3>1, <3>2, <3>3 DEF GetBytes
    <3> QED BY <1>2, <3>2, <3>4, <3>5 DEF Read
  <2>6. CASE ~(from + n <= Len(msg) + 1)
    <3>1. ~Available(msg, from, n)
      BY <1>0, <1>1, <2>6 DEF Available
    <3>2. ~(c.pos + Len(u \o s) <= Len(msg) + 1)
      BY <1>0, <1>1, <1>2, <2>6
    <3>3. GetBytes(msg, c, w).pos = Len(msg) + 2
      BY <2>3, <2>4, <3>1 DEF GetBytes, Skip
    <3> QED BY <3>2, <3>3 DEF Read
  <2> QED BY <2>5, <2>6
<1>4. CASE ~(c.pos + w <= Len(msg) + 1)
  <2>1. ~Available(msg, c.pos, w)
    BY <1>1, <1>4 DEF Available
  <2>2. ~Available(msg, Len(msg) + 2, 0)
    BY <1>1 DEF Available
  <2>3. GetBytes(msg, c, w).pos = Len(msg) + 2
    BY <2>1, <2>2 DEF GetBytes, Skip, UintAt
  <2>4. ~(c.pos + Len(u \o s) <= Len(msg) + 1)
    BY <1>0, <1>1, <1>2, <1>4
  <2> QED BY <2>3, <2>4 DEF Read
<1> QED BY <1>3, <1>4

LEMMA GetU64Facts ==
    ASSUME NEW msg, NEW c, AtCursor(msg, c), NEW v \in U32 \X U32,
           Holds(msg, c.pos, Puint(4, v[1]) \o Puint(4, v[2]))
    PROVE  Read(msg, c, GetU64(msg, c), Puint(4, v[1]) \o Puint(4, v[2]), v)
<1> DEFINE a == Puint(4, v[1])
           b == Puint(4, v[2])
<1> SUFFICES Read(msg, c, GetU64(msg, c), a \o b, v)
  OBVIOUS
<1>1. v[1] \in Nat /\ v[2] \in Nat /\ Fits(4, v[1]) /\ Fits(4, v[2]) /\ v = <<v[1], v[2]>>
  BY DEF U32, Fits
<1>2. a \in Bytes /\ Len(a) = 4 /\ b \in Bytes /\ Len(b) = 4
  BY <1>1, PuintFacts
<1>3. /\ msg \in Bytes /\ Len(msg) \in Nat
      /\ c.pos \in Nat /\ 1 <= c.pos /\ c.pos <= Len(msg) + 2
  BY CursorFacts
<1>4. Holds(msg, c.pos, a \o b) /\ a = Puint(4, v[1]) /\ b = Puint(4, v[2])
  OBVIOUS
<1> HIDE DEF a, b
<1>5. Holds(msg, c.pos, a) /\ Holds(msg, c.pos + 4, b) /\ Len(a \o b) = 8
  <2>1. Holds(msg, c.pos, a) /\ Holds(msg, c.pos + Len(a), b)
    BY <1>2, <1>3, <1>4, HoldsParts
  <2>2. Len(a \o b) = Len(a) + Len(b)
    BY <1>2, ConcatFacts
  <2> QED BY <1>2, <2>1, <2>2
<1>6. CASE c.pos + 8 <= Len(msg) + 1
  <2>1. Available(msg, c.pos, 4) /\ Available(msg, c.pos + 4, 4)
    BY <1>3, <1>6 DEF Available
  <2>2. UintAt(msg, c.pos, 4) = v[1]
    <3>1. \A i \in 1 .. 4 : c.pos + i - 1 <= Len(msg)
      BY <1>3, <1>6
    <3>2. \A i \in 1 .. 4 : msg[c.pos + i - 1] = Puint(4, v[1])[i]
      BY <1>2, <1>4, <1>5, <3>1 DEF Holds
    <3> QED BY <1>1, <2>1, <3>2, UintRead
  <2>3. UintAt(msg, c.pos + 4, 4) = v[2]
    <3>1. \A i \in 1 .. 4 : (c.pos + 4) + i - 1 <= Len(msg)
      BY <1>3, <1>6
    <3>2. \A i \in 1 .. 4 : msg[(c.pos + 4) + i - 1] = Puint(4, v[2])[i]
      BY <1>2, <1>4, <1>5, <3>1 DEF Holds
    <3> QED BY <1>1, <2>1, <3>2, UintRead
  <2>4. Skip(msg, c.pos, 4) = c.pos + 4 /\ Skip(msg, c.pos + 4, 4) = c.pos + 8
    BY <1>3, <2>1 DEF Skip
  <2>5. GetU64(msg, c) = [pos |-> c.pos + 8, vals |-> Append(c.vals, <<v[1], v[2]>>)]
    BY <2>2, <2>3, <2>4 DEF GetU64
  <2>6. GetU64(msg, c) = [pos |-> c.pos + 8, vals |-> Append(c.vals, v)]
    BY <1>1, <2>5
  <2> QED BY <1>5, <1>6, <2>6 DEF Read
<1>7. CASE ~(c.pos + 8 <= Len(msg) + 1)
  <2>1. Skip(msg, c.pos, 4) = c.pos + 4 \/ Skip(msg, c.pos, 4) = Len(msg) + 2
    BY DEF Skip
  <2>2. ~Available(msg, c.pos + 4, 4) /\ ~Available(msg, Len(msg) + 2, 4)
    BY <1>3, <1>7 DEF Available
  <2>3. GetU64(msg, c).pos = Len(msg) + 2
    BY <2>1, <2>2 DEF GetU64, Skip
  <2> QED BY <1>5, <1>7, <2>3 DEF Read
<1> QED BY <1>6, <1>7

Qids == (0 .. Byte - 1) \X U32 \X (U32 \X U32)

LEMMA PqidFacts ==
    ASSUME NEW v \in Qids
    PROVE  Pqid(v) \in Bytes /\ Len(Pqid(v)) = 13
<1> DEFINE a == Puint(1, v[1])
           b == Puint(4, v[2])
           x == Puint(4, v[3][1])
           y == Puint(4, v[3][2])
<1>1. /\ v[1] \in Nat /\ v[2] \in Nat /\ v[3][1] \in Nat /\ v[3][2] \in Nat
      /\ Fits(1, v[1]) /\ Fits(4, v[2]) /\ Fits(4, v[3][1]) /\ Fits(4, v[3][2])
      /\ v = <<v[1], v[2], <<v[3][1], v[3][2]>>>>
  <2>1. v[1] \in 0 .. Byte - 1 /\ v[2] \in U32 /\ v[3] \in U32 \X U32 /\ v = <<v[1], v[2], v[3]>>
    BY DEF Qids
  <2>2. v[3][1] \in U32 /\ v[3][2] \in U32 /\ v[3] = <<v[3][1], v[3][2]>>
    BY <2>1
  <2>3. v[1] \in Nat /\ Fits(1, v[1])
    BY <2>1, WeightFacts DEF Fits
  <2>4. ASSUME NEW z \in U32 PROVE z \in Nat /\ Fits(4, z)
    BY DEF U32, Fits
  <2> QED BY <2>1, <2>2, <2>3, <2>4
<1>2. /\ a \in Bytes /\ Len(a) = 1 /\ b \in Bytes /\ Len(b) = 4
      /\ x \in Bytes /\ Len(x) = 4 /\ y \in Bytes /\ Len(y) = 4
  BY <1>1, PuintFacts
<1>4. /\ Pqid(v) = ((a \o b) \o x) \o y /\ a = Puint(1, v[1]) /\ b = Puint(4, v[2])
      /\ x = Puint(4, v[3][1]) /\ y = Puint(4, v[3][2])
  BY DEF Pqid
<1> HIDE DEF a, b, x, y
<1>5. a \o b \in Bytes /\ Len(a \o b) = 5
  <2>1. a \o b \in Bytes /\ Len(a \o b) = Len(a) + Len(b)
    BY <1>2, ConcatFacts
  <2> QED BY <1>2, <2>1
<1>6. (a \o b) \o x \in Bytes /\ Len((a \o b) \o x) = 9
  <2> DEFINE s == a \o b
  <2> HIDE DEF s
  <2>1. s \in Bytes /\ Len(s) = 5
    BY <1>5 DEF s
  <2>2. s \o x \in Bytes /\ Len(s \o x) = Len(s) + Len(x)
    BY <1>2, <2>1, ConcatFacts
  <2>3. s \o x \in Bytes /\ Len(s \o x) = 9
    BY <1>2, <2>1, <2>2
  <2> QED BY <2>3 DEF s
<1>7. Pqid(v) \in Bytes /\ Len(Pqid(v)) = 13
  <2> DEFINE s == (a \o b) \o x
  <2>4. Pqid(v) = s \o y
    BY <1>4, Zenon
  <2> HIDE DEF s
  <2>1. s \in Bytes /\ Len(s) = 9
    BY <1>6 DEF s
  <2>2. s \o y \in Bytes /\ Len(s \o y) = Len(s) + Len(y)
    BY <1>2, <2>1, ConcatFacts
  <2>3. s \o y \in Bytes /\ Len(s \o y) = 13
    BY <1>2, <2>1, <2>2
  <2> QED BY <2>3, <2>4
<1> QED BY <1>7

LEMMA GetQidFacts ==
    ASSUME NEW msg, NEW c, AtCursor(msg, c), NEW v \in Qids, Holds(msg, c.pos, Pqid(v))
    PROVE  Read(msg, c, GetQid(msg, c), Pqid(v), v)
<1> DEFINE a == Puint(1, v[1])
           b == Puint(4, v[2])
           x == Puint(4, v[3][1])
           y == Puint(4, v[3][2])
<1>1. /\ v[1] \in Nat /\ v[2] \in Nat /\ v[3][1] \in Nat /\ v[3][2] \in Nat
      /\ Fits(1, v[1]) /\ Fits(4, v[2]) /\ Fits(4, v[3][1]) /\ Fits(4, v[3][2])
      /\ v = <<v[1], v[2], <<v[3][1], v[3][2]>>>>
  <2>1. v[1] \in 0 .. Byte - 1 /\ v[2] \in U32 /\ v[3] \in U32 \X U32 /\ v = <<v[1], v[2], v[3]>>
    BY DEF Qids
  <2>2. v[3][1] \in U32 /\ v[3][2] \in U32 /\ v[3] = <<v[3][1], v[3][2]>>
    BY <2>1
  <2>3. v[1] \in Nat /\ Fits(1, v[1])
    BY <2>1, WeightFacts DEF Fits
  <2>4. ASSUME NEW z \in U32 PROVE z \in Nat /\ Fits(4, z)
    BY DEF U32, Fits
  <2> QED BY <2>1, <2>2, <2>3, <2>4
<1>2. /\ a \in Bytes /\ Len(a) = 1 /\ b \in Bytes /\ Len(b) = 4
      /\ x \in Bytes /\ Len(x) = 4 /\ y \in Bytes /\ Len(y) = 4
  BY <1>1, PuintFacts
<1>3. /\ msg \in Bytes /\ Len(msg) \in Nat
      /\ c.pos \in Nat /\ 1 <= c.pos /\ c.pos <= Len(msg) + 2
  BY CursorFacts
<1>4. /\ Pqid(v) = ((a \o b) \o x) \o y /\ a = Puint(1, v[1]) /\ b = Puint(4, v[2])
      /\ x = Puint(4, v[3][1]) /\ y = Puint(4, v[3][2])
  BY DEF Pqid
<1> HIDE DEF a, b, x, y
<1>5. a \o b \in Bytes /\ Len(a \o b) = 5
  <2>1. a \o b \in Bytes /\ Len(a \o b) = Len(a) + Len(b)
    BY <1>2, ConcatFacts
  <2> QED BY <1>2, <2>1
<1>6. (a \o b) \o x \in Bytes /\ Len((a \o b) \o x) = 9
  <2> DEFINE s == a \o b
  <2> HIDE DEF s
  <2>1. s \in Bytes /\ Len(s) = 5
    BY <1>5 DEF s
  <2>2. s \o x \in Bytes /\ Len(s \o x) = Len(s) + Len(x)
    BY <1>2, <2>1, ConcatFacts
  <2>3. s \o x \in Bytes /\ Len(s \o x) = 9
    BY <1>2, <2>1, <2>2
  <2> QED BY <2>3 DEF s
<1>7. Len(Pqid(v)) = 13
  BY PqidFacts
<1>8. Holds(msg, c.pos, (a \o b) \o x) /\ Holds(msg, c.pos + 9, y)
  <2>1. Holds(msg, c.pos, ((a \o b) \o x) \o y)
    BY <1>4, Zenon
  <2> QED BY <1>2, <1>3, <1>6, <2>1, HoldsParts
<1>9. Holds(msg, c.pos, a \o b) /\ Holds(msg, c.pos + 5, x)
  BY <1>2, <1>3, <1>5, <1>8, HoldsParts
<1>10. Holds(msg, c.pos, a) /\ Holds(msg, c.pos + 1, b)
  BY <1>2, <1>3, <1>9, HoldsParts
<1>11. CASE c.pos + 13 <= Len(msg) + 1
  <2>1. /\ Available(msg, c.pos, 1) /\ Available(msg, c.pos + 1, 4)
        /\ Available(msg, c.pos + 5, 4) /\ Available(msg, c.pos + 9, 4) /\ Available(msg, c.pos, 13)
    <3>1. Available(msg, c.pos, 1) /\ Available(msg, c.pos + 1, 4)
      BY <1>3, <1>11 DEF Available
    <3>2. Available(msg, c.pos + 5, 4) /\ Available(msg, c.pos + 9, 4)
      BY <1>3, <1>11 DEF Available
    <3>3. Available(msg, c.pos, 13)
      BY <1>3, <1>11 DEF Available
    <3> QED BY <3>1, <3>2, <3>3
  <2>2. UintAt(msg, c.pos, 1) = v[1]
    <3>1. \A i \in 1 .. 1 : c.pos + i - 1 <= Len(msg)
      BY <1>3, <1>11
    <3>2. \A i \in 1 .. 1 : msg[c.pos + i - 1] = Puint(1, v[1])[i]
      BY <1>2, <1>4, <1>10, <3>1 DEF Holds
    <3> QED BY <1>1, <2>1, <3>2, UintRead
  <2>3. UintAt(msg, c.pos + 1, 4) = v[2]
    <3>1. \A i \in 1 .. 4 : (c.pos + 1) + i - 1 <= Len(msg)
      BY <1>3, <1>11
    <3>2. \A i \in 1 .. 4 : msg[(c.pos + 1) + i - 1] = Puint(4, v[2])[i]
      BY <1>2, <1>4, <1>10, <3>1 DEF Holds
    <3> QED BY <1>1, <2>1, <3>2, UintRead
  <2>4. UintAt(msg, c.pos + 5, 4) = v[3][1]
    <3>1. \A i \in 1 .. 4 : (c.pos + 5) + i - 1 <= Len(msg)
      BY <1>3, <1>11
    <3>2. \A i \in 1 .. 4 : msg[(c.pos + 5) + i - 1] = Puint(4, v[3][1])[i]
      BY <1>2, <1>4, <1>9, <3>1 DEF Holds
    <3> QED BY <1>1, <2>1, <3>2, UintRead
  <2>5. UintAt(msg, c.pos + 9, 4) = v[3][2]
    <3>1. \A i \in 1 .. 4 : (c.pos + 9) + i - 1 <= Len(msg)
      BY <1>3, <1>11
    <3>2. \A i \in 1 .. 4 : msg[(c.pos + 9) + i - 1] = Puint(4, v[3][2])[i]
      BY <1>2, <1>4, <1>8, <3>1 DEF Holds
    <3> QED BY <1>1, <2>1, <3>2, UintRead
  <2>6. Skip(msg, c.pos, 13) = c.pos + 13
    BY <2>1 DEF Skip
  <2>7. GetQid(msg, c) = [pos |-> c.pos + 13,
                          vals |-> Append(c.vals, <<v[1], v[2], <<v[3][1], v[3][2]>>>>)]
    BY <2>2, <2>3, <2>4, <2>5, <2>6 DEF GetQid
  <2>8. GetQid(msg, c) = [pos |-> c.pos + 13, vals |-> Append(c.vals, v)]
    BY <1>1, <2>7, Zenon
  <2> QED BY <1>7, <1>11, <2>8 DEF Read
<1>12. CASE ~(c.pos + 13 <= Len(msg) + 1)
  <2>1. ~Available(msg, c.pos, 13)
    BY <1>3, <1>12 DEF Available
  <2>2. GetQid(msg, c).pos = Len(msg) + 2
    BY <2>1 DEF GetQid, Skip
  <2> QED BY <1>7, <1>12, <2>2 DEF Read
<1> QED BY <1>11, <1>12

\* GetItems takes the items one by one.
ItemsOf(after, msg, pos, kind, n) ==
    /\ after[0] = [pos |-> pos, vals |-> <<>>]
    /\ \A i \in 1 .. n : after[i] = IF kind = "strings" THEN GetBytes(msg, after[i - 1], 2)
                                 ELSE GetQid(msg, after[i - 1])

LEMMA GetItemsFacts ==
    ASSUME NEW msg, NEW pos, NEW kind, NEW n \in Nat
    PROVE  \E after : ItemsOf(after, msg, pos, kind, n) /\ GetItems(msg, pos, kind, n) = after[n]
<1> DEFINE First == [pos |-> pos, vals |-> <<>>]
           Next1(d) == IF kind = "strings" THEN GetBytes(msg, d, 2) ELSE GetQid(msg, d)
           Upto(g, k) == g = [i \in 0 .. k |-> IF i = 0 THEN First ELSE Next1(g[i - 1])]
           after == CHOOSE g : Upto(g, n)
<1>1. GetItems(msg, pos, kind, n) = after[n]
  BY DEF GetItems
<1> HIDE DEF First, Next1
<1>2. \E g : Upto(g, n)
  <2> DEFINE S == {k \in 0 .. n : \E g : Upto(g, k)}
  <2>1. 0 \in S
    <3>1. Upto([i \in 0 .. 0 |-> First], 0)
      OBVIOUS
    <3> HIDE DEF Upto
    <3> QED BY <3>1
  <2>2. ASSUME NEW k \in 0 .. n - 1, k \in S PROVE k + 1 \in S
    <3>1. PICK g : Upto(g, k)
      BY <2>2
    <3> DEFINE h == [i \in 0 .. k + 1 |-> IF i = k + 1 THEN Next1(g[k]) ELSE g[i]]
    <3>2. ASSUME NEW i \in 0 .. k + 1 PROVE h[i] = IF i = 0 THEN First ELSE Next1(h[i - 1])
      <4>1. \A j \in 0 .. k : g[j] = IF j = 0 THEN First ELSE Next1(g[j - 1])
        BY <3>1
      <4>2. i # 0 => i - 1 \in 0 .. k /\ h[i - 1] = g[i - 1]
        OBVIOUS
      <4>3. CASE i = k + 1
        <5>1. h[i] = Next1(g[k]) /\ i # 0 /\ i - 1 = k
          BY <4>3
        <5> QED BY <4>2, <5>1
      <4>4. CASE i # k + 1
        <5>1. i \in 0 .. k /\ h[i] = g[i]
          BY <4>4
        <5> QED BY <4>1, <4>2, <5>1
      <4> QED BY <4>3, <4>4
    <3>3. Upto(h, k + 1)
      <4>1. h = [i \in 0 .. k + 1 |-> h[i]]
        OBVIOUS
      <4> HIDE DEF h
      <4> QED BY <3>2, <4>1
    <3>4. k + 1 \in 0 .. n
      OBVIOUS
    <3> HIDE DEF Upto, h
    <3> QED BY <3>3, <3>4
  <2> HIDE DEF S
  <2>3. \A k \in 0 .. n - 1 : k \in S => k + 1 \in S
    BY <2>2
  <2>4. n \in S
    BY <2>1, <2>3, Induction
  <2> HIDE DEF Upto
  <2> QED BY <2>4 DEF S
<1>3. Upto(after, n)
  BY <1>2
<1> HIDE DEF after
<1>4. after[0] = First /\ \A i \in 1 .. n : after[i] = Next1(after[i - 1])
  <2>1. \A i \in 0 .. n : after[i] = IF i = 0 THEN First ELSE Next1(after[i - 1])
    BY <1>3
  <2> QED BY <2>1
<1>5. ItemsOf(after, msg, pos, kind, n)
  BY <1>4 DEF First, Next1, ItemsOf
<1> QED BY <1>1, <1>5

LEMMA PstringFacts ==
    ASSUME NEW s \in Bytes, Len(s) < Word
    PROVE  Pstring(s) = Puint(2, Len(s)) \o s /\ Pstring(s) \in Bytes /\ Fits(2, Len(s))
<1>1. Len(s) \in Nat /\ s \in Seq(0 .. Byte - 1)
  BY ConcatFacts DEF Bytes
<1>2. Len(s) % Word = Len(s)
  <2>1. Len(s) < 65536 /\ Word = 65536
    BY WeightFacts
  <2>2. Len(s) % 65536 = Len(s)
    BY <1>1, <2>1
  <2> QED BY <2>1, <2>2
<1>3. SubSeq(s, 1, Len(s)) = s
  <2>1. Len(s) \in 0 .. Len(s)
    BY <1>1
  <2>2. /\ SubSeq(s, 1, Len(s)) \in Bytes /\ Len(SubSeq(s, 1, Len(s))) = Len(s)
        /\ \A i \in 1 .. Len(s) : SubSeq(s, 1, Len(s))[i] = s[i]
    BY <2>1, CutFacts
  <2> QED BY <2>2, BytesEqual
<1>4. Pstring(s) = Puint(2, Len(s)) \o s
  BY <1>2, <1>3 DEF Pstring
<1>5. Puint(2, Len(s)) \in Bytes
  BY <1>1, PuintFacts
<1>6. Puint(2, Len(s)) \o s \in Bytes
  BY <1>5, ConcatFacts
<1> QED BY <1>4, <1>6 DEF Fits

\* The bytes of one element of an array.
Item(kind, x) == IF kind = "strings" THEN Pstring(x) ELSE Pqid(x)

LEMMA ItemFacts ==
    ASSUME NEW kind \in {"strings", "qids"}, NEW v \in Values(kind)
    PROVE  /\ Len(v) \in Nat /\ DOMAIN v = 1 .. Len(v) /\ v = [i \in 1 .. Len(v) |-> v[i]]
           /\ \A i \in 1 .. Len(v) :
                /\ Item(kind, v[i]) \in Bytes
                /\ kind = "strings" => v[i] \in Bytes /\ Len(v[i]) < Word
                /\ kind = "qids" => v[i] \in Qids
<1>1. CASE kind = "strings"
  <2> DEFINE T == {s \in Bytes : Len(s) < Word}
  <2>1. v \in Seq(T)
    BY <1>1 DEF Values
  <2>2. \A x \in T : Item(kind, x) \in Bytes /\ x \in Bytes /\ Len(x) < Word
    BY <1>1, PstringFacts DEF Item
  <2> HIDE DEF T
  <2>3. /\ Len(v) \in Nat /\ DOMAIN v = 1 .. Len(v) /\ v = [i \in 1 .. Len(v) |-> v[i]]
        /\ \A i \in 1 .. Len(v) : v[i] \in T
    BY <2>1, LenProperties, ElementOfSeq
  <2> QED BY <1>1, <2>2, <2>3
<1>2. CASE kind = "qids"
  <2>1. v \in Seq(Qids)
    BY <1>2 DEF Values, Qids
  <2>2. \A x \in Qids : Item(kind, x) \in Bytes
    BY <1>2, PqidFacts DEF Item
  <2>3. /\ Len(v) \in Nat /\ DOMAIN v = 1 .. Len(v) /\ v = [i \in 1 .. Len(v) |-> v[i]]
        /\ \A i \in 1 .. Len(v) : v[i] \in Qids
    BY <2>1, LenProperties, ElementOfSeq
  <2> QED BY <1>2, <2>2, <2>3
<1> QED BY <1>1, <1>2

\* The bytes of an array.
Array(kind, v) == Puint(2, Len(v)) \o FlattenSeq([i \in DOMAIN v |-> Item(kind, v[i])])

LEMMA GetArrayFacts ==
    ASSUME NEW kind \in {"strings", "qids"}, NEW v \in Values(kind), Len(v) <= MaxWelem
    PROVE  /\ Array(kind, v) \in Bytes
           /\ \A msg, c : AtCursor(msg, c) /\ Holds(msg, c.pos, Array(kind, v))
                => Read(msg, c, GetArray(msg, c, kind), Array(kind, v), v)
<1> DEFINE n == Len(v)
           parts == [i \in 1 .. n |-> Item(kind, v[i])]
           u == Puint(2, n)
           q == FlattenSeq(parts)
<1>1. /\ n \in Nat /\ v = [i \in 1 .. n |-> v[i]]
      /\ \A i \in 1 .. n :
                /\ Item(kind, v[i]) \in Bytes
                /\ kind = "strings" => v[i] \in Bytes /\ Len(v[i]) < Word
                /\ kind = "qids" => v[i] \in Qids
  BY ItemFacts
<1>2. Array(kind, v) = u \o q
  BY ItemFacts DEF Array
<1>3. parts \in [1 .. n -> Bytes] /\ \A i \in 1 .. n : parts[i] = Item(kind, v[i])
  BY <1>1
<1>4. n <= MaxWelem /\ n < Word /\ Fits(2, n)
  BY <1>1, CodecAssumption, WeightFacts DEF Fits
<1>5. u \in Bytes /\ Len(u) = 2 /\ u = Puint(2, n)
  BY <1>1, PuintFacts
<1> HIDE DEF parts, u, n
<1>6. q \in Bytes /\ \E at : Joined(at, n, parts, q)
  BY <1>1, <1>3, FlattenFacts
<1>7. PICK at : Joined(at, n, parts, q)
  BY <1>6
<1> HIDE DEF q
<1>8. u \o q \in Bytes /\ Len(u \o q) = 2 + Len(q) /\ Len(q) \in Nat
  <2>1. u \o q \in Bytes /\ Len(u \o q) = Len(u) + Len(q) /\ Len(q) \in Nat
    BY <1>5, <1>6, ConcatFacts
  <2> QED BY <1>5, <2>1
<1>9. ASSUME NEW msg, NEW c, AtCursor(msg, c), Holds(msg, c.pos, u \o q)
      PROVE  Read(msg, c, GetArray(msg, c, kind), u \o q, v)
  <2>1. /\ msg \in Bytes /\ Len(msg) \in Nat
        /\ c.pos \in Nat /\ 1 <= c.pos /\ c.pos <= Len(msg) + 2
    BY <1>9, CursorFacts
  <2>2. Holds(msg, c.pos, u) /\ Holds(msg, c.pos + 2, q)
    <3>1. Holds(msg, c.pos, u) /\ Holds(msg, c.pos + Len(u), q)
      BY <1>5, <1>6, <1>9, <2>1, HoldsParts
    <3> QED BY <1>5, <3>1
  <2>3. CASE c.pos + 2 <= Len(msg) + 1
    <3> DEFINE start == c.pos + 2
    <3>1. Available(msg, c.pos, 2)
      BY <2>1, <2>3 DEF Available
    <3>2. UintAt(msg, c.pos, 2) = n
      <4>1. \A i \in 1 .. 2 : c.pos + i - 1 <= Len(msg)
        BY <2>1, <2>3
      <4>2. \A i \in 1 .. 2 : msg[c.pos + i - 1] = Puint(2, n)[i]
        BY <1>5, <2>2, <4>1 DEF Holds
      <4> QED BY <1>1, <1>4, <3>1, <4>2, UintRead
    <3>3. Skip(msg, c.pos, 2) = start
      BY <3>1 DEF Skip
    <3>4. start \in 1 .. Len(msg) + 2
      BY <2>1, <2>3
    <3>5. Holds(msg, start, q)
      BY <2>2
    <3> DEFINE items == GetItems(msg, start, kind, n)
    <3>6. GetArray(msg, c, kind) = [pos |-> items.pos, vals |-> Append(c.vals, items.vals)]
      <4>1. ~(n > MaxWelem)
        BY <1>1, <1>4, CodecAssumption
      <4> QED BY <3>2, <3>3, <4>1 DEF GetArray
    <3> HIDE DEF start
    <3>7. PICK after : ItemsOf(after, msg, start, kind, n) /\ items = after[n]
      BY <1>1, GetItemsFacts
    <3> HIDE DEF items
    <3>8. ASSUME NEW i \in 1 .. n, after[i - 1].pos \in 1 .. Len(msg) + 2,
                 Holds(msg, after[i - 1].pos, parts[i])
          PROVE  Read(msg, after[i - 1], after[i], parts[i], v[i])
      <4> DEFINE d == after[i - 1]
      <4>1. AtCursor(msg, d)
        BY <2>1, <3>8 DEF AtCursor
      <4>2. after[i] = IF kind = "strings" THEN GetBytes(msg, d, 2) ELSE GetQid(msg, d)
        BY <3>7 DEF ItemsOf
      <4>3. Holds(msg, d.pos, Item(kind, v[i])) /\ parts[i] = Item(kind, v[i])
        BY <1>3, <3>8
      <4> HIDE DEF d
      <4>4. CASE kind = "strings"
        <5>1. v[i] \in Bytes /\ Len(v[i]) < Word
          BY <1>1, <4>4
        <5>2. Item(kind, v[i]) = Puint(2, Len(v[i])) \o v[i] /\ Fits(2, Len(v[i]))
          BY <4>4, <5>1, PstringFacts DEF Item
        <5>3. Read(msg, d, GetBytes(msg, d, 2), Puint(2, Len(v[i])) \o v[i], v[i])
          BY <4>1, <4>3, <5>1, <5>2, GetBytesFacts
        <5>4. Read(msg, d, after[i], parts[i], v[i])
          BY <4>2, <4>3, <4>4, <5>2, <5>3
        <5> QED BY <5>4 DEF d
      <4>5. CASE kind = "qids"
        <5>1. v[i] \in Qids /\ Item(kind, v[i]) = Pqid(v[i]) /\ kind # "strings"
          BY <1>1, <4>5 DEF Item
        <5>2. Read(msg, d, GetQid(msg, d), Pqid(v[i]), v[i])
          BY <4>1, <4>3, <5>1, GetQidFacts
        <5>3. Read(msg, d, after[i], parts[i], v[i])
          BY <4>2, <4>3, <5>1, <5>2
        <5> QED BY <5>3 DEF d
      <4> QED BY <4>4, <4>5
    <3>9. ReadUpto(msg, start, at, n, v, after[n]) /\ at[n] = Len(q)
      <4>1. Chain(msg, after, n, parts, v)
        BY <3>8 DEF Chain
      <4>2. after[0] = [pos |-> start, vals |-> <<>>]
        BY <3>7 DEF ItemsOf
      <4> QED BY <1>1, <1>3, <1>6, <1>7, <2>1, <3>4, <3>5, <4>1, <4>2, ReadChain
    <3>10. start + Len(q) = c.pos + Len(u \o q)
      BY <1>8, <2>1 DEF start
    <3>11. CASE start + Len(q) <= Len(msg) + 1
      <4>1. items = [pos |-> start + Len(q), vals |-> v]
        BY <1>1, <3>7, <3>9, <3>11 DEF ReadUpto
      <4>2. GetArray(msg, c, kind) = [pos |-> start + Len(q), vals |-> Append(c.vals, v)]
        BY <3>6, <4>1
      <4> QED BY <3>10, <3>11, <4>2 DEF Read
    <3>12. CASE ~(start + Len(q) <= Len(msg) + 1)
      <4>1. GetArray(msg, c, kind).pos = Len(msg) + 2
        BY <3>6, <3>7, <3>9, <3>12 DEF ReadUpto
      <4> QED BY <3>10, <3>12, <4>1 DEF Read
    <3> QED BY <3>11, <3>12
  <2>4. CASE ~(c.pos + 2 <= Len(msg) + 1)
    <3>1. ~Available(msg, c.pos, 2)
      BY <2>1, <2>4 DEF Available
    <3>2. UintAt(msg, c.pos, 2) = 0 /\ Skip(msg, c.pos, 2) = Len(msg) + 2
      BY <3>1 DEF UintAt, Skip
    <3> DEFINE items == GetItems(msg, Len(msg) + 2, kind, 0)
    <3>3. items.pos = Len(msg) + 2
      <4>1. 0 \in Nat
        OBVIOUS
      <4>2. PICK after : ItemsOf(after, msg, Len(msg) + 2, kind, 0) /\ items = after[0]
        BY <4>1, GetItemsFacts
      <4> HIDE DEF items
      <4> QED BY <4>2 DEF ItemsOf
    <3>4. GetArray(msg, c, kind) = [pos |-> items.pos, vals |-> Append(c.vals, items.vals)]
      <4>1. ~(0 > MaxWelem)
        BY CodecAssumption
      <4> QED BY <3>2, <4>1 DEF GetArray
    <3> HIDE DEF items
    <3>5. ~(c.pos + Len(u \o q) <= Len(msg) + 1)
      BY <1>8, <2>1, <2>4
    <3> QED BY <3>3, <3>4, <3>5 DEF Read
  <2> QED BY <2>3, <2>4
<1> QED BY <1>2, <1>8, <1>9

Kinds == {"u8", "u16", "u32", "u64", "string", "data", "strings", "qids", "unset", "statsize"}

\* x is what the code packs in a field of this kind whose value is v.
Packs(kind, x, v) ==
    /\ v \in Values(kind)
    /\ IF kind \in {"unset", "statsize"} THEN x \in Nat ELSE x = v
    /\ kind \in {"strings", "qids"} => Len(v) <= MaxWelem

\* Every kind of field is read back from its bytes.
LEMMA GetFacts ==
    ASSUME NEW kind \in Kinds, NEW x, NEW v, Packs(kind, x, v)
    PROVE  /\ Packed(kind, x) \in Bytes
           /\ \A msg, c : AtCursor(msg, c) /\ Holds(msg, c.pos, Packed(kind, x))
                => Read(msg, c, Get(msg, c, kind), Packed(kind, x), v)
<1>1. CASE kind = "u8"
  <2>1. x = v /\ v \in Nat /\ Fits(1, v)
    BY <1>1, WeightFacts DEF Packs, Values, Fits
  <2>2. Packed(kind, x) = Puint(1, v) /\ \A msg, c : Get(msg, c, kind) = GetUint(msg, c, 1)
    BY <1>1, <2>1 DEF Packed, Get
  <2> QED BY <2>1, <2>2, PuintFacts, GetUintFacts
<1>2. CASE kind = "u16"
  <2>0. x = v /\ v \in 0 .. Word - 1
    BY <1>2 DEF Packs, Values
  <2>1. x = v /\ v \in Nat /\ Fits(2, v)
    BY <2>0, WeightFacts DEF Fits
  <2>2. Packed(kind, x) = Puint(2, v) /\ \A msg, c : Get(msg, c, kind) = GetUint(msg, c, 2)
    BY <1>2, <2>1 DEF Packed, Get
  <2> QED BY <2>1, <2>2, PuintFacts, GetUintFacts
<1>3. CASE kind = "u32"
  <2>1. x = v /\ v \in Nat /\ Fits(4, v)
    BY <1>3 DEF Packs, Values, Fits, U32
  <2>2. Packed(kind, x) = Puint(4, v) /\ \A msg, c : Get(msg, c, kind) = GetUint(msg, c, 4)
    BY <1>3, <2>1 DEF Packed, Get
  <2> QED BY <2>1, <2>2, PuintFacts, GetUintFacts
<1>4. CASE kind = "u64"
  <2>1. x = v /\ v \in U32 \X U32
    BY <1>4 DEF Packs, Values
  <2>2. /\ Packed(kind, x) = Puint(4, v[1]) \o Puint(4, v[2])
        /\ \A msg, c : Get(msg, c, kind) = GetU64(msg, c)
    BY <1>4, <2>1 DEF Packed, Get
  <2>3. Puint(4, v[1]) \o Puint(4, v[2]) \in Bytes
    <3>1. v[1] \in Nat /\ v[2] \in Nat
      BY <2>1 DEF U32
    <3>2. Puint(4, v[1]) \in Bytes /\ Puint(4, v[2]) \in Bytes
      BY <3>1, PuintFacts
    <3> QED BY <3>2, ConcatFacts
  <2> QED BY <2>1, <2>2, <2>3, GetU64Facts
<1>5. CASE kind = "string"
  <2>1. x = v /\ v \in Bytes /\ Len(v) < Word
    BY <1>5 DEF Packs, Values
  <2>2. Packed(kind, x) = Pstring(v) /\ \A msg, c : Get(msg, c, kind) = GetBytes(msg, c, 2)
    BY <1>5, <2>1 DEF Packed, Get
  <2>3. Pstring(v) = Puint(2, Len(v)) \o v /\ Pstring(v) \in Bytes /\ Fits(2, Len(v))
    BY <2>1, PstringFacts
  <2> QED BY <2>1, <2>2, <2>3, GetBytesFacts
<1>6. CASE kind = "data"
  <2>1. x = v /\ v \in Bytes /\ Len(v) \in Nat /\ Fits(4, Len(v))
    BY <1>6 DEF Packs, Values, Fits, U32
  <2>2. /\ Packed(kind, x) = Puint(4, Len(v)) \o v
        /\ \A msg, c : Get(msg, c, kind) = GetBytes(msg, c, 4)
    BY <1>6, <2>1 DEF Packed, Get
  <2>3. Puint(4, Len(v)) \o v \in Bytes
    <3>1. Puint(4, Len(v)) \in Bytes
      BY <2>1, PuintFacts
    <3> QED BY <2>1, <3>1, ConcatFacts
  <2> QED BY <2>1, <2>2, <2>3, GetBytesFacts
<1>7. CASE kind \in {"strings", "qids"}
  <2>1. x = v /\ v \in Values(kind) /\ Len(v) <= MaxWelem
    BY <1>7 DEF Packs
  <2>2. Packed(kind, x) = Array(kind, v)
    BY <1>7, <2>1 DEF Packed, Array, Item
  <2>3. \A msg, c : Get(msg, c, kind) = GetArray(msg, c, kind)
    BY <1>7 DEF Get
  <2> QED BY <1>7, <2>1, <2>2, <2>3, GetArrayFacts
<1>8. CASE kind \in {"unset", "statsize"}
  <2>1. x \in Nat /\ v = 0
    BY <1>8 DEF Packs, Values
  <2>2. /\ Packed(kind, x) = Puint(2, x)
        /\ \A msg, c : Get(msg, c, kind) = [pos |-> Skip(msg, c.pos, 2), vals |-> Append(c.vals, 0)]
    BY <1>8 DEF Packed, Get
  <2>3. Puint(2, x) \in Bytes /\ Len(Puint(2, x)) = 2
    BY <2>1, PuintFacts
  <2>4. ASSUME NEW msg, NEW c, AtCursor(msg, c)
        PROVE  Read(msg, c, Get(msg, c, kind), Packed(kind, x), v)
    <3>1. Len(msg) \in Nat /\ c.pos \in Nat
      BY <2>4, CursorFacts
    <3>2. Available(msg, c.pos, 2) <=> c.pos + 2 <= Len(msg) + 1
      BY <3>1 DEF Available
    <3>3. Get(msg, c, kind) = [pos |-> IF c.pos + 2 <= Len(msg) + 1 THEN c.pos + 2 ELSE Len(msg) + 2,
                               vals |-> Append(c.vals, v)]
      BY <2>1, <2>2, <3>2 DEF Skip
    <3>4. Len(Packed(kind, x)) = 2
      BY <2>2, <2>3
    <3> QED BY <3>3, <3>4 DEF Read
  <2> QED BY <2>2, <2>3, <2>4
<1> QED BY <1>1, <1>2, <1>3, <1>4, <1>5, <1>6, <1>7, <1>8 DEF Kinds

-----------------------------------------------------------------------------
(* Messages.                                                               *)

\* The fields of every type.
LEMMA LayoutFacts ==
    ASSUME NEW type
    PROVE  /\ Layout(type) \in Seq(Kinds)
           /\ Len(Layout(type)) \in Nat /\ DOMAIN Layout(type) = 1 .. Len(Layout(type))
           /\ \A i \in DOMAIN Layout(type) :
                /\ Layout(type)[i] \in Kinds
                /\ Layout(type)[i] \in {"unset", "statsize"} => type = "TWStat"
<1> DEFINE Plain == Kinds \ {"unset", "statsize"}
           Simple == {<<"u32", "string">>, <<"u32", "string", "string">>,
                      <<"u32", "u32", "string", "string">>, <<"string">>, <<"u16">>,
                      <<"u32", "u32", "strings">>, <<"qids">>, <<"u32", "u8">>,
                      <<"u32", "string", "u32", "u8">>, <<"u32", "u64", "u32">>, <<"data">>,
                      <<"u32", "u64", "data">>, <<"u32">>, <<>>, Qid, Qid \o <<"u32">>}
<1>1. ASSUME NEW s \in Simple PROVE s \in Seq(Plain)
  <2>1. Qid \in Seq(Plain) /\ Qid \o <<"u32">> \in Seq(Plain)
    BY DEF Qid, Kinds
  <2> HIDE DEF Plain
  <2>2. /\ "u8" \in Plain /\ "u16" \in Plain /\ "u32" \in Plain /\ "u64" \in Plain
        /\ "string" \in Plain /\ "data" \in Plain /\ "strings" \in Plain /\ "qids" \in Plain
    BY DEF Plain, Kinds
  <2>3. /\ <<"u32", "string">> \in Seq(Plain) /\ <<"u32", "string", "string">> \in Seq(Plain)
        /\ <<"u32", "u32", "string", "string">> \in Seq(Plain) /\ <<"string">> \in Seq(Plain)
        /\ <<"u16">> \in Seq(Plain) /\ <<"u32", "u32", "strings">> \in Seq(Plain)
        /\ <<"qids">> \in Seq(Plain) /\ <<"u32", "u8">> \in Seq(Plain)
    BY <2>2
  <2>4. /\ <<"u32", "string", "u32", "u8">> \in Seq(Plain) /\ <<"u32", "u64", "u32">> \in Seq(Plain)
        /\ <<"data">> \in Seq(Plain) /\ <<"u32", "u64", "data">> \in Seq(Plain)
        /\ <<"u32">> \in Seq(Plain) /\ <<>> \in Seq(Plain)
    BY <2>2
  <2> QED BY <2>1, <2>3, <2>4, Zenon
<1>2. Layout("TWStat") \in Seq(Kinds)
  BY DEF Layout, Stat, Qid, Kinds
<1>3. ASSUME type # "TWStat" PROVE Layout(type) \in Seq(Plain)
  <2>1. Layout(type) \in Simple
    BY <1>3 DEF Layout
  <2> QED BY <1>1, <2>1
<1>4. CASE type = "TWStat"
  <2>1. Layout(type) \in Seq(Kinds)
    BY <1>2, <1>4
  <2> QED BY <1>4, <2>1, LenProperties, ElementOfSeq
<1>5. CASE type # "TWStat"
  <2>1. Layout(type) \in Seq(Plain)
    BY <1>3, <1>5
  <2>2. /\ Len(Layout(type)) \in Nat /\ DOMAIN Layout(type) = 1 .. Len(Layout(type))
        /\ \A i \in 1 .. Len(Layout(type)) : Layout(type)[i] \in Plain
    <3> HIDE DEF Plain
    <3> QED BY <2>1, LenProperties, ElementOfSeq
  <2>3. Layout(type) \in Seq(Kinds)
    <3> HIDE DEF Simple
    <3> QED BY <2>1, <2>2
  <2> QED BY <2>2, <2>3
<1> QED BY <1>4, <1>5

\* The fields of a TWStat.
StatKinds ==
    <<"u32", "unset", "statsize", "u16", "u32", "u8", "u32", "u64",
      "u32", "u32", "u32", "u64", "string", "string", "string", "string">>

LEMMA StatLayout ==
    Len(Layout("TWStat")) = 16 /\ \A i \in 1 .. 16 : Layout("TWStat")[i] = StatKinds[i]
<1> DEFINE A == <<"statsize", "u16", "u32">>
           B == <<"u32", "u32", "u32", "u64", "string", "string", "string", "string">>
           H == <<"u32", "unset">>
<1>1. Layout("TWStat") = H \o Stat /\ Stat = (A \o Qid) \o B
  BY DEF Layout, Stat
<1>2. A \in Seq(Kinds) /\ Len(A) = 3 /\ \A i \in 1 .. 3 : A[i] = StatKinds[2 + i]
  BY DEF Kinds, StatKinds
<1>3. Qid \in Seq(Kinds) /\ Len(Qid) = 3 /\ \A i \in 1 .. 3 : Qid[i] = StatKinds[5 + i]
  BY DEF Qid, Kinds, StatKinds
<1>4. B \in Seq(Kinds) /\ Len(B) = 8 /\ \A i \in 1 .. 8 : B[i] = StatKinds[8 + i]
  BY DEF Kinds, StatKinds
<1>5. H \in Seq(Kinds) /\ Len(H) = 2 /\ \A i \in 1 .. 2 : H[i] = StatKinds[i]
  BY DEF Kinds, StatKinds
<1> HIDE DEF A, B, H
<1>6. A \o Qid \in Seq(Kinds) /\ Len(A \o Qid) = 6 /\ \A i \in 1 .. 6 : (A \o Qid)[i] = StatKinds[2 + i]
  <2> DEFINE s == A \o Qid
  <2>1. /\ s \in Seq(Kinds) /\ Len(s) = Len(A) + Len(Qid)
        /\ \A i \in 1 .. Len(A) + Len(Qid) : s[i] = IF i <= Len(A) THEN A[i] ELSE Qid[i - Len(A)]
    BY <1>2, <1>3, ConcatProperties
  <2> HIDE DEF s
  <2>2. s \in Seq(Kinds) /\ Len(s) = 6
    BY <1>2, <1>3, <2>1
  <2>3. ASSUME NEW i \in 1 .. 6 PROVE s[i] = StatKinds[2 + i]
    <3>1. CASE i <= 3
      BY <1>2, <1>3, <2>1, <3>1
    <3>2. CASE i > 3
      <4>1. i - 3 \in 1 .. 3 /\ 5 + (i - 3) = 2 + i
        BY <3>2
      <4> QED BY <1>2, <1>3, <2>1, <3>2, <4>1
    <3> QED BY <3>1, <3>2
  <2> QED BY <2>2, <2>3 DEF s
<1>7. Stat \in Seq(Kinds) /\ Len(Stat) = 14 /\ \A i \in 1 .. 14 : Stat[i] = StatKinds[2 + i]
  <2> DEFINE s == A \o Qid
  <2>1. Stat = s \o B /\ s \in Seq(Kinds) /\ Len(s) = 6 /\ \A i \in 1 .. 6 : s[i] = StatKinds[2 + i]
    BY <1>1, <1>6
  <2> HIDE DEF s
  <2>2. /\ Stat \in Seq(Kinds) /\ Len(Stat) = Len(s) + Len(B)
        /\ \A i \in 1 .. Len(s) + Len(B) : Stat[i] = IF i <= Len(s) THEN s[i] ELSE B[i - Len(s)]
    BY <1>4, <2>1, ConcatProperties
  <2>3. Stat \in Seq(Kinds) /\ Len(Stat) = 14
    BY <1>4, <2>1, <2>2
  <2>4. ASSUME NEW i \in 1 .. 14 PROVE Stat[i] = StatKinds[2 + i]
    <3>0. i \in 1 .. Len(s) + Len(B) /\ Len(s) = 6
      BY <1>4, <2>1
    <3>3. Stat[i] = IF i <= 6 THEN s[i] ELSE B[i - 6]
      BY <2>2, <3>0
    <3>1. CASE i <= 6
      BY <2>1, <3>1, <3>3
    <3>2. CASE i > 6
      <4>1. i - 6 \in 1 .. 8 /\ 8 + (i - 6) = 2 + i
        BY <3>2
      <4> QED BY <1>4, <3>2, <3>3, <4>1
    <3> QED BY <3>1, <3>2
  <2> QED BY <2>3, <2>4
<1> DEFINE t == H \o Stat
<1>8. /\ Len(t) = Len(H) + Len(Stat)
      /\ \A i \in 1 .. Len(H) + Len(Stat) : t[i] = IF i <= Len(H) THEN H[i] ELSE Stat[i - Len(H)]
  BY <1>5, <1>7, ConcatProperties
<1> HIDE DEF t
<1>9. ASSUME NEW i \in 1 .. 16 PROVE t[i] = StatKinds[i]
  <2>1. CASE i <= 2
    BY <1>5, <1>7, <1>8, <2>1
  <2>2. CASE i > 2
    <3>1. i - 2 \in 1 .. 14 /\ 2 + (i - 2) = i
      BY <2>2
    <3> QED BY <1>5, <1>7, <1>8, <2>2, <3>1
  <2> QED BY <2>1, <2>2
<1>10. Len(t) = 16
  BY <1>5, <1>7, <1>8
<1> QED BY <1>1, <1>9, <1>10 DEF t

LEMMA ArgsFacts ==
    ASSUME NEW f, IsFcall(f)
    PROVE  /\ Len(Layout(f.type)) \in Nat
           /\ DOMAIN f.args = 1 .. Len(Layout(f.type)) /\ DOMAIN Layout(f.type) = DOMAIN f.args
           /\ f.args = [i \in 1 .. Len(Layout(f.type)) |-> f.args[i]]
           /\ \A i \in 1 .. Len(Layout(f.type)) :
                Layout(f.type)[i] \in Kinds /\ f.args[i] \in Values(Layout(f.type)[i])
<1>1. /\ Len(Layout(f.type)) \in Nat /\ DOMAIN Layout(f.type) = 1 .. Len(Layout(f.type))
      /\ \A i \in DOMAIN Layout(f.type) : Layout(f.type)[i] \in Kinds
  BY LayoutFacts
<1>2. /\ f.args = [i \in DOMAIN Layout(f.type) |-> f.args[i]]
      /\ \A i \in DOMAIN Layout(f.type) : f.args[i] \in Values(Layout(f.type)[i])
  BY DEF IsFcall
<1>3. DOMAIN f.args = DOMAIN Layout(f.type)
  BY <1>2
<1> QED BY <1>1, <1>2, <1>3

\* The size of the stat in a TWStat.
LEMMA SizeofFacts ==
    ASSUME NEW f, IsFcall(f), f.type = "TWStat"
    PROVE  /\ \A i \in 13 .. 16 : f.args[i] \in Bytes /\ Len(f.args[i]) \in Nat
           /\ SizeofStat(f.args) - 2 =
                47 + Len(f.args[13]) + Len(f.args[14]) + Len(f.args[15]) + Len(f.args[16])
           /\ SizeofStat(f.args) - 2 \in Nat
<1>1. ASSUME NEW i \in 13 .. 16 PROVE f.args[i] \in Bytes /\ Len(f.args[i]) \in Nat
  <2>1. i \in 1 .. Len(Layout(f.type)) /\ Layout(f.type)[i] = "string"
    <3>1. i \in 1 .. 16 /\ StatKinds[i] = "string"
      BY DEF StatKinds
    <3> QED BY <3>1, StatLayout
  <2>2. f.args[i] \in Values("string")
    BY <2>1, ArgsFacts
  <2>3. f.args[i] \in Bytes
    BY <2>2 DEF Values
  <2> QED BY <2>3, ConcatFacts
<1>2. /\ Len(f.args[13]) \in Nat /\ Len(f.args[14]) \in Nat
      /\ Len(f.args[15]) \in Nat /\ Len(f.args[16]) \in Nat
  BY <1>1
<1> DEFINE a == Len(f.args[13])
           b == Len(f.args[14])
           c == Len(f.args[15])
           d == Len(f.args[16])
<1>3. SizeofStat(f.args) = 2 + 2 + 4 + 13 + 3 * 4 + 8 + (2 + a) + (2 + b) + (2 + c) + (2 + d)
  BY DEF SizeofStat
<1> HIDE DEF a, b, c, d
<1>4. a \in Nat /\ b \in Nat /\ c \in Nat /\ d \in Nat
  BY <1>2 DEF a, b, c, d
<1>5. SizeofStat(f.args) - 2 = 47 + a + b + c + d /\ SizeofStat(f.args) - 2 \in Nat
  BY <1>3, <1>4
<1> QED BY <1>1, <1>5 DEF a, b, c, d

LEMMA SourceFacts ==
    ASSUME NEW f, IsFcall(f), ~TooMany(f), NEW junk \in Nat, NEW i \in 1 .. Len(Layout(f.type))
    PROVE  Packs(Layout(f.type)[i], Source(f, i, junk), f.args[i])
<1> DEFINE kind == Layout(f.type)[i]
           x == Source(f, i, junk)
           v == f.args[i]
<1>1. kind \in Kinds /\ v \in Values(kind) /\ i \in DOMAIN f.args /\ i \in DOMAIN Layout(f.type)
  BY ArgsFacts
<1>2. kind \in {"strings", "qids"} => Len(v) <= MaxWelem
  <2> SUFFICES ASSUME kind \in {"strings", "qids"} PROVE Len(v) <= MaxWelem
    OBVIOUS
  <2>1. Len(v) \in Nat
    BY <1>1, ItemFacts
  <2>2. ~(Len(v) > MaxWelem)
    BY <1>1 DEF TooMany
  <2> QED BY <2>1, <2>2, CodecAssumption
<1>3. CASE kind = "unset"
  <2>1. x = junk
    BY <1>3 DEF Source
  <2> QED BY <1>1, <1>2, <1>3, <2>1 DEF Packs
<1>4. CASE kind = "statsize"
  <2>1. x = SizeofStat(f.args) - 2
    BY <1>4 DEF Source
  <2>2. f.type = "TWStat"
    BY <1>1, <1>4, LayoutFacts
  <2>3. x \in Nat
    BY <2>1, <2>2, SizeofFacts
  <2> QED BY <1>1, <1>2, <1>4, <2>3 DEF Packs
<1>5. CASE kind \notin {"unset", "statsize"}
  <2>1. x = v
    BY <1>5 DEF Source
  <2> QED BY <1>1, <1>2, <1>5, <2>1 DEF Packs
<1> QED BY <1>3, <1>4, <1>5

\* The bytes of the fields of f.
Fields(f, junk) == [i \in 1 .. Len(Layout(f.type)) |-> Packed(Layout(f.type)[i], Source(f, i, junk))]

LEMMA FieldsFacts ==
    ASSUME NEW f, IsFcall(f), ~TooMany(f), NEW junk \in Nat
    PROVE  /\ Fields(f, junk) \in [1 .. Len(Layout(f.type)) -> Bytes]
           /\ FlattenSeq(Fields(f, junk)) \in Bytes
           /\ \E at : Joined(at, Len(Layout(f.type)), Fields(f, junk), FlattenSeq(Fields(f, junk)))
<1> DEFINE n == Len(Layout(f.type))
<1>1. n \in Nat
  BY ArgsFacts
<1>2. \A i \in 1 .. n : Packed(Layout(f.type)[i], Source(f, i, junk)) \in Bytes
  <2> TAKE i \in 1 .. n
  <2>1. Layout(f.type)[i] \in Kinds
    BY ArgsFacts
  <2>2. Packs(Layout(f.type)[i], Source(f, i, junk), f.args[i])
    BY SourceFacts
  <2> QED BY <2>1, <2>2, GetFacts
<1>3. Fields(f, junk) \in [1 .. n -> Bytes]
  BY <1>2 DEF Fields
<1> HIDE DEF n
<1>4. /\ FlattenSeq(Fields(f, junk)) \in Bytes
      /\ \E at : Joined(at, n, Fields(f, junk), FlattenSeq(Fields(f, junk)))
  BY <1>1, <1>3, FlattenFacts
<1> QED BY <1>3, <1>4 DEF n

LEMMA CodeFacts ==
    ASSUME NEW f, IsFcall(f)
    PROVE  Code(f.type) \in 100 .. 127 /\ TypeOf(Code(f.type)) = f.type
<1> DEFINE i == CHOOSE j \in DOMAIN TypeNames : TypeNames[j] = f.type
<1>1. \E j \in DOMAIN TypeNames : TypeNames[j] = f.type
  BY DEF IsFcall
<1>2. i \in DOMAIN TypeNames /\ TypeNames[i] = f.type
  BY <1>1
<1>3. DOMAIN TypeNames = 1 .. 28
  BY DEF TypeNames
<1>4. Code(f.type) = 99 + i
  BY DEF Code
<1> HIDE DEF i
<1>5. Code(f.type) \in 100 .. 127 /\ Code(f.type) - 99 = i
  BY <1>2, <1>3, <1>4
<1> QED BY <1>2, <1>5 DEF TypeOf

\* A packed message, byte by byte: size, type, tag and fields.
LEMMA PackedFacts ==
    ASSUME NEW f, IsFcall(f), NEW junk \in Nat, NEW size \in Nat,
           Fcall2msg(f, size, junk) # <<>>
    PROVE  LET msg == Fcall2msg(f, size, junk)
               q == FlattenSeq(Fields(f, junk))
           IN  /\ ~TooMany(f)
               /\ q \in Bytes /\ Len(q) \in Nat
               /\ msg \in Bytes /\ Len(msg) = 7 + Len(q) /\ Len(msg) <= size
               /\ \A i \in 1 .. 4 : msg[i] = Puint(4, Len(msg))[i]
               /\ msg[5] = Puint(1, Code(f.type))[1]
               /\ \A i \in 1 .. 2 : msg[5 + i] = Puint(2, f.tag)[i]
               /\ \A i \in 1 .. Len(q) : msg[7 + i] = q[i]
<1> DEFINE fields == [i \in DOMAIN f.args |-> Packed(Layout(f.type)[i], Source(f, i, junk))]
           msg == Fcall2msg(f, size, junk)
           q == FlattenSeq(Fields(f, junk))
           a == Puint(1, Code(f.type))
           b == Puint(2, f.tag)
           body == (a \o b) \o q
           total == 4 + Len(body)
           z == Puint(4, total)
<1>1. fields = Fields(f, junk)
  BY ArgsFacts DEF Fields
<1>2. msg = IF size < 4 \/ total > size \/ TooMany(f) THEN <<>> ELSE z \o body
  BY <1>1 DEF Fcall2msg, SDWord
<1>3. ~(total > size) /\ ~TooMany(f) /\ msg = z \o body
  BY <1>2
<1>4. q \in Bytes /\ Len(q) \in Nat
  <2>1. q \in Bytes
    BY <1>3, FieldsFacts
  <2> QED BY <2>1, ConcatFacts
<1>5. a \in Bytes /\ Len(a) = 1 /\ b \in Bytes /\ Len(b) = 2
  <2>1. Code(f.type) \in Nat /\ f.tag \in Nat
    <3>1. f.tag \in 0 .. Word - 1
      BY DEF IsFcall
    <3>2. f.tag \in Nat
      BY <3>1
    <3>3. Code(f.type) \in 100 .. 127
      BY CodeFacts
    <3>4. \A n \in 100 .. 127 : n \in Nat
      OBVIOUS
    <3> QED BY <3>2, <3>3, <3>4, Zenon
  <2> QED BY <2>1, PuintFacts
<1> HIDE DEF msg, q, a, b, fields
<1> DEFINE ab == a \o b
<1>6. ab \in Bytes /\ Len(ab) = 3 /\ ab[1] = a[1] /\ \A i \in 1 .. 2 : ab[1 + i] = b[i]
  <2>1. /\ ab \in Bytes /\ Len(ab) = Len(a) + Len(b) /\ \A i \in 1 .. Len(a) : ab[i] = a[i]
        /\ \A i \in 1 .. Len(b) : ab[Len(a) + i] = b[i]
    BY <1>5, ConcatFacts
  <2> HIDE DEF ab
  <2> QED BY <1>5, <2>1
<1> HIDE DEF ab
<1>7. /\ body \in Bytes /\ Len(body) = 3 + Len(q) /\ body[1] = a[1]
      /\ \A i \in 1 .. 2 : body[1 + i] = b[i]
      /\ \A i \in 1 .. Len(q) : body[3 + i] = q[i]
  <2>0. body = ab \o q
    BY DEF ab
  <2> HIDE DEF body
  <2>1. /\ body \in Bytes /\ Len(body) = Len(ab) + Len(q) /\ \A i \in 1 .. Len(ab) : body[i] = ab[i]
        /\ \A i \in 1 .. Len(q) : body[Len(ab) + i] = q[i]
    BY <1>4, <1>6, <2>0, ConcatFacts
  <2>2. body[1] = a[1] /\ \A i \in 1 .. 2 : body[1 + i] = b[i]
    BY <1>6, <2>1
  <2> QED BY <1>6, <2>1, <2>2
<1> HIDE DEF body
<1>8. total \in Nat /\ total = 7 + Len(q)
  BY <1>4, <1>7
<1>9. z \in Bytes /\ Len(z) = 4
  BY <1>8, PuintFacts
<1> HIDE DEF z
<1>10. /\ msg \in Bytes /\ Len(msg) = total
       /\ \A i \in 1 .. 4 : msg[i] = z[i]
       /\ \A i \in 1 .. Len(body) : msg[4 + i] = body[i]
  <2>1. /\ msg \in Bytes /\ Len(msg) = Len(z) + Len(body) /\ \A i \in 1 .. Len(z) : msg[i] = z[i]
        /\ \A i \in 1 .. Len(body) : msg[Len(z) + i] = body[i]
    BY <1>3, <1>7, <1>9, ConcatFacts
  <2> QED BY <1>9, <2>1
<1>11. z = Puint(4, Len(msg))
  BY <1>10 DEF z
<1> HIDE DEF total
<1>12. msg[5] = a[1] /\ \A i \in 1 .. 2 : msg[5 + i] = b[i]
  <2>1. 1 \in 1 .. Len(body) /\ 2 \in 1 .. Len(body) /\ 3 \in 1 .. Len(body)
    BY <1>4, <1>7
  <2>2. msg[5] = body[1] /\ msg[6] = body[2] /\ msg[7] = body[3]
    BY <1>10, <2>1
  <2> QED BY <1>7, <2>2
<1>13. ASSUME NEW i \in 1 .. Len(q) PROVE msg[7 + i] = q[i]
  <2>1. 3 + i \in 1 .. Len(body) /\ 4 + (3 + i) = 7 + i
    BY <1>4, <1>7
  <2> QED BY <1>7, <1>10, <2>1
<1>14. Len(msg) = 7 + Len(q) /\ Len(msg) <= size
  BY <1>3, <1>4, <1>8, <1>10
<1> QED BY <1>3, <1>4, <1>10, <1>11, <1>12, <1>13, <1>14 DEF msg, q, a, b

\* GetFields takes the fields one by one.
FieldsOf(after, msg, pos, kinds) ==
    /\ after[0] = [pos |-> pos, vals |-> <<>>]
    /\ \A i \in 1 .. Len(kinds) : after[i] = Get(msg, after[i - 1], kinds[i])

LEMMA GetFieldsFacts ==
    ASSUME NEW msg, NEW pos, NEW kinds, Len(kinds) \in Nat
    PROVE  \E after : FieldsOf(after, msg, pos, kinds) /\ GetFields(msg, pos, kinds) = after[Len(kinds)]
<1> DEFINE First == [pos |-> pos, vals |-> <<>>]
           n == Len(kinds)
           Next1(d, i) == Get(msg, d, kinds[i])
           Upto(g, k) == g = [i \in 0 .. k |-> IF i = 0 THEN First ELSE Next1(g[i - 1], i)]
           after == CHOOSE g : Upto(g, n)
<1>1. GetFields(msg, pos, kinds) = after[n]
  BY DEF GetFields
<1>0. n \in Nat
  OBVIOUS
<1> HIDE DEF First, Next1, n
<1>2. \E g : Upto(g, n)
  <2> DEFINE S == {k \in 0 .. n : \E g : Upto(g, k)}
  <2>1. 0 \in S
    <3>1. Upto([i \in 0 .. 0 |-> First], 0)
      OBVIOUS
    <3> HIDE DEF Upto
    <3> QED BY <1>0, <3>1
  <2>2. ASSUME NEW k \in 0 .. n - 1, k \in S PROVE k + 1 \in S
    <3>1. PICK g : Upto(g, k)
      BY <2>2
    <3> DEFINE h == [i \in 0 .. k + 1 |-> IF i = k + 1 THEN Next1(g[k], k + 1) ELSE g[i]]
    <3>2. ASSUME NEW i \in 0 .. k + 1 PROVE h[i] = IF i = 0 THEN First ELSE Next1(h[i - 1], i)
      <4>1. \A j \in 0 .. k : g[j] = IF j = 0 THEN First ELSE Next1(g[j - 1], j)
        BY <3>1
      <4>2. i # 0 => i - 1 \in 0 .. k /\ h[i - 1] = g[i - 1]
        OBVIOUS
      <4>3. CASE i = k + 1
        <5>1. h[i] = Next1(g[k], k + 1) /\ i # 0 /\ i - 1 = k
          BY <4>3
        <5> QED BY <4>2, <5>1
      <4>4. CASE i # k + 1
        <5>1. i \in 0 .. k /\ h[i] = g[i]
          BY <4>4
        <5> QED BY <4>1, <4>2, <5>1
      <4> QED BY <4>3, <4>4
    <3>3. Upto(h, k + 1)
      <4>1. h = [i \in 0 .. k + 1 |-> h[i]]
        OBVIOUS
      <4> HIDE DEF h
      <4> QED BY <3>2, <4>1
    <3>4. k + 1 \in 0 .. n
      BY <1>0
    <3> HIDE DEF Upto, h
    <3> QED BY <3>3, <3>4
  <2> HIDE DEF S
  <2>3. \A k \in 0 .. n - 1 : k \in S => k + 1 \in S
    BY <2>2
  <2>4. n \in S
    BY <1>0, <2>1, <2>3, Induction
  <2> HIDE DEF Upto
  <2> QED BY <2>4 DEF S
<1>3. Upto(after, n)
  BY <1>2
<1> HIDE DEF after
<1>4. after[0] = First /\ \A i \in 1 .. n : after[i] = Next1(after[i - 1], i)
  <2>1. \A i \in 0 .. n : after[i] = IF i = 0 THEN First ELSE Next1(after[i - 1], i)
    BY <1>3
  <2> QED BY <1>0, <2>1
<1>5. FieldsOf(after, msg, pos, kinds)
  BY <1>4 DEF First, Next1, FieldsOf, n
<1> QED BY <1>1, <1>5 DEF n

\* The fields of f are read back from wherever they lie, or found to be cut short.
LEMMA FieldsRead ==
    ASSUME NEW f, IsFcall(f), ~TooMany(f), NEW junk \in Nat,
           NEW msg \in Bytes, NEW start \in 1 .. Len(msg) + 2,
           Holds(msg, start, FlattenSeq(Fields(f, junk)))
    PROVE  LET q == FlattenSeq(Fields(f, junk))
               c == GetFields(msg, start, Layout(f.type))
           IN  IF start + Len(q) <= Len(msg) + 1
               THEN c = [pos |-> start + Len(q), vals |-> f.args]
               ELSE c.pos = Len(msg) + 2
<1> DEFINE kinds == Layout(f.type)
           n == Len(kinds)
           parts == Fields(f, junk)
           q == FlattenSeq(parts)
           c == GetFields(msg, start, kinds)
<1>1. n \in Nat /\ f.args = [i \in 1 .. n |-> f.args[i]]
  BY ArgsFacts
<1>2. parts \in [1 .. n -> Bytes] /\ q \in Bytes /\ \E at : Joined(at, n, parts, q)
  BY FieldsFacts
<1>3. PICK at : Joined(at, n, parts, q)
  BY <1>2
<1>4. PICK after : FieldsOf(after, msg, start, kinds) /\ c = after[n]
  BY <1>1, GetFieldsFacts
<1>5. Chain(msg, after, n, parts, f.args)
  <2> SUFFICES ASSUME NEW i \in 1 .. n, after[i - 1].pos \in 1 .. Len(msg) + 2,
                      Holds(msg, after[i - 1].pos, parts[i])
               PROVE  Read(msg, after[i - 1], after[i], parts[i], f.args[i])
    BY DEF Chain
  <2> DEFINE d == after[i - 1]
  <2>1. AtCursor(msg, d)
    BY DEF AtCursor
  <2>2. after[i] = Get(msg, d, kinds[i])
    BY <1>4 DEF FieldsOf
  <2>3. parts[i] = Packed(kinds[i], Source(f, i, junk))
    BY DEF Fields
  <2>4. kinds[i] \in Kinds /\ Packs(kinds[i], Source(f, i, junk), f.args[i])
    BY ArgsFacts, SourceFacts
  <2>5. Holds(msg, d.pos, Packed(kinds[i], Source(f, i, junk)))
    BY <2>3
  <2> HIDE DEF d, kinds, n, parts
  <2>6. Read(msg, d, Get(msg, d, kinds[i]), Packed(kinds[i], Source(f, i, junk)), f.args[i])
    BY <2>1, <2>4, <2>5, GetFacts
  <2> QED BY <2>2, <2>3, <2>6 DEF d
<1>6. after[0] = [pos |-> start, vals |-> <<>>]
  BY <1>4 DEF FieldsOf
<1>7. Holds(msg, start, q)
  OBVIOUS
<1> HIDE DEF n, parts, q, c, kinds
<1>8. ReadUpto(msg, start, at, n, f.args, after[n]) /\ at[n] = Len(q)
  BY <1>1, <1>2, <1>3, <1>5, <1>6, <1>7, ReadChain
<1>9. IF start + Len(q) <= Len(msg) + 1
      THEN c = [pos |-> start + Len(q), vals |-> f.args]
      ELSE c.pos = Len(msg) + 2
  BY <1>1, <1>4, <1>8 DEF ReadUpto
<1> QED BY <1>9 DEF c, kinds, q, parts

\* msg is m as far as it goes, except perhaps for its size field.
Cut(msg, m) ==
    /\ msg \in Bytes /\ Len(msg) <= Len(m)
    /\ \A i \in SDWord + 1 .. Len(msg) : msg[i] = m[i]

\* ixp_msg2fcall undoes ixp_fcall2msg; what is cut short anywhere is refused.
LEMMA UnpackFacts ==
    ASSUME NEW f, IsFcall(f), NEW junk \in Nat, NEW size \in Nat,
           Fcall2msg(f, size, junk) # <<>>,
           NEW msg, Cut(msg, Fcall2msg(f, size, junk))
    PROVE  Msg2fcall(msg) = IF Len(msg) = Len(Fcall2msg(f, size, junk)) THEN {f} ELSE {}
<1> DEFINE m == Fcall2msg(f, size, junk)
           q == FlattenSeq(Fields(f, junk))
           code == Code(f.type)
           c0 == [pos |-> 5, vals |-> <<>>]
           c1 == GetUint(msg, c0, 1)
           c2 == GetUint(msg, c1, 2)
           c == GetFields(msg, c2.pos, Layout(TypeOf(c2.vals[1])))
<1>1. /\ ~TooMany(f)
      /\ q \in Bytes /\ Len(q) \in Nat
      /\ m \in Bytes /\ Len(m) = 7 + Len(q)
      /\ m[5] = Puint(1, code)[1]
      /\ \A i \in 1 .. 2 : m[5 + i] = Puint(2, f.tag)[i]
      /\ \A i \in 1 .. Len(q) : m[7 + i] = q[i]
  BY PackedFacts
<1>2. Msg2fcall(msg) = IF Len(msg) < 4 \/ c.pos > Len(msg) + 1 THEN {}
                       ELSE {[type |-> TypeOf(c2.vals[1]), tag |-> c2.vals[2], args |-> c.vals]}
  BY DEF Msg2fcall, SDWord
<1>14. msg \in Bytes /\ Len(msg) \in Nat
  BY ConcatFacts DEF Cut
<1>3. Len(msg) \in Nat /\ Len(msg) <= Len(m) /\ \A i \in 5 .. Len(msg) : msg[i] = m[i]
  BY <1>14 DEF Cut, SDWord
<1>4. code \in 100 .. 127 /\ TypeOf(code) = f.type
  BY CodeFacts
<1>5. f.tag \in 0 .. Word - 1 /\ f = [type |-> f.type, tag |-> f.tag, args |-> f.args]
  BY DEF IsFcall
<1>6. f.tag \in Nat /\ Fits(2, f.tag)
  BY <1>5, FitsFacts
<1>7. code \in Nat /\ Fits(1, code)
  <2>1. code \in 0 .. Byte - 1
    BY <1>4, WeightFacts
  <2> QED BY <2>1, FitsFacts
<1> HIDE DEF m, q, code
<1>8. Holds(msg, 8, q)
  <2> SUFFICES ASSUME NEW j \in 1 .. Len(q), 8 + j - 1 <= Len(msg) PROVE msg[8 + j - 1] = q[j]
    BY DEF Holds
  <2>1. 8 + j - 1 = 7 + j /\ 7 + j \in 5 .. Len(msg)
    BY <1>1, <1>3
  <2> QED BY <1>1, <1>3, <2>1
<1>9. Holds(msg, Len(msg) + 2, q)
  BY <1>1, <1>3 DEF Holds
<1>10. CASE Len(msg) < 4
  <2>1. Msg2fcall(msg) = {}
    BY <1>2, <1>10
  <2>2. Len(msg) # Len(m)
    BY <1>1, <1>3, <1>10
  <2> QED BY <2>1, <2>2 DEF m
<1>11. CASE Len(msg) = 4
  <2>1. ~Available(msg, 5, 1) /\ ~Available(msg, 6, 2)
    BY <1>11 DEF Available
  <2>2. c1 = [pos |-> 6, vals |-> Append(<<>>, 0)]
    BY <1>11, <2>1 DEF GetUint, Skip, UintAt
  <2>3. c2 = [pos |-> 6, vals |-> Append(Append(<<>>, 0), 0)]
    BY <1>11, <2>1, <2>2 DEF GetUint, Skip, UintAt
  <2>4. c2.pos = 6 /\ TypeOf(c2.vals[1]) = "unknown"
    <3>1. c2.vals[1] = 0
      BY <2>3
    <3>2. 0 - 99 \notin DOMAIN TypeNames
      BY DEF TypeNames
    <3> QED BY <2>3, <3>1, <3>2 DEF TypeOf
  <2> HIDE DEF c2
  <2>5. c.pos = 6
    <3>1. Layout("unknown") = <<>> /\ Len(<<>>) = 0
      BY DEF Layout
    <3>2. PICK after : FieldsOf(after, msg, 6, <<>>) /\ GetFields(msg, 6, <<>>) = after[0]
      BY <3>1, GetFieldsFacts
    <3>3. GetFields(msg, 6, <<>>).pos = 6
      BY <3>2 DEF FieldsOf
    <3> QED BY <2>4, <3>1, <3>3
  <2> HIDE DEF c
  <2>6. Msg2fcall(msg) = {}
    BY <1>2, <1>11, <2>5
  <2>7. Len(msg) # Len(m)
    BY <1>1, <1>11
  <2> QED BY <2>6, <2>7 DEF m
<1>12. CASE Len(msg) >= 5
  <2>1. AtCursor(msg, c0) /\ Holds(msg, 5, Puint(1, code))
    <3>1. Len(Puint(1, code)) = 1
      BY <1>7, PuintFacts
    <3>2. msg[5] = m[5]
      BY <1>3, <1>12
    <3> QED BY <1>1, <1>3, <1>12, <1>14, <3>1, <3>2 DEF AtCursor, Holds
  <2>2. c1 = [pos |-> 6, vals |-> Append(<<>>, code)]
    <3>1. Read(msg, c0, c1, Puint(1, code), code)
      <4>1. Holds(msg, c0.pos, Puint(1, code))
        BY <2>1
      <4> QED BY <1>7, <2>1, <4>1, GetUintFacts
    <3>2. Len(Puint(1, code)) = 1
      BY <1>7, PuintFacts
    <3>3. c0.pos = 5 /\ c0.vals = <<>>
      OBVIOUS
    <3> HIDE DEF c0, c1
    <3>4. c0.pos + Len(Puint(1, code)) = 6 /\ 6 <= Len(msg) + 1
      <4>1. \A n \in Nat : n >= 5 => 6 <= n + 1
        OBVIOUS
      <4>2. 6 <= Len(msg) + 1
        BY <1>12, <1>14, <4>1, Zenon
      <4>3. c0.pos + Len(Puint(1, code)) = 5 + 1 /\ 5 + 1 = 6
        <5>1. c0.pos + Len(Puint(1, code)) = 5 + 1
          BY <3>2, <3>3, Zenon
        <5> QED BY <5>1, SMT
      <4> QED BY <4>2, <4>3, Zenon
    <3> QED BY <3>1, <3>3, <3>4 DEF Read
  <2>3. Len(Puint(2, f.tag)) = 2
    BY <1>6, PuintFacts
  <2>4. c1.pos = 6 /\ AtCursor(msg, c1) /\ Holds(msg, c1.pos, Puint(2, f.tag))
    <3>1. c1.pos = 6 /\ AtCursor(msg, c1)
      BY <1>3, <1>12, <1>14, <2>2 DEF AtCursor
    <3>2. ASSUME NEW j \in 1 .. 2, 6 + j - 1 <= Len(msg) PROVE msg[6 + j - 1] = Puint(2, f.tag)[j]
      <4>1. 6 + j - 1 = 5 + j /\ 5 + j \in 5 .. Len(msg)
        BY <1>3, <3>2
      <4> QED BY <1>1, <1>3, <4>1
    <3> HIDE DEF c1
    <3> QED BY <2>3, <3>1, <3>2 DEF Holds
  <2>5. Read(msg, c1, c2, Puint(2, f.tag), f.tag)
    BY <1>6, <2>4, GetUintFacts
  <2>6. c2.vals[1] = code
    <3>1. c2.vals = Append(Append(<<>>, code), UintAt(msg, c1.pos, 2))
      BY <2>2 DEF GetUint
    <3> HIDE DEF c2
    <3> QED BY <3>1
  <2> HIDE DEF c1, c2
  <2>7. TypeOf(c2.vals[1]) = f.type /\ c = GetFields(msg, c2.pos, Layout(f.type))
    BY <1>4, <2>6
  <2> HIDE DEF c
  <2>8. CASE Len(msg) >= 7
    <3>1. c2 = [pos |-> 8, vals |-> Append(Append(<<>>, code), f.tag)]
      <4>1. c1.pos + Len(Puint(2, f.tag)) = 8 /\ 8 <= Len(msg) + 1
        <5>1. \A n \in Nat : n >= 7 => 8 <= n + 1
          OBVIOUS
        <5>2. 8 <= Len(msg) + 1
          BY <1>14, <2>8, <5>1, Zenon
        <5>3. c1.pos + Len(Puint(2, f.tag)) = 6 + 2 /\ 6 + 2 = 8
          <6>1. c1.pos + Len(Puint(2, f.tag)) = 6 + 2
            BY <2>3, <2>4, Zenon
          <6> QED BY <6>1, SMT
        <5> QED BY <5>2, <5>3, Zenon
      <4> QED BY <2>2, <2>5, <4>1 DEF Read
    <3>2. c2.pos = 8 /\ c2.vals[2] = f.tag /\ 8 \in 1 .. Len(msg) + 2
      BY <1>3, <2>8, <3>1
    <3>3. IF 8 + Len(q) <= Len(msg) + 1 THEN c = [pos |-> 8 + Len(q), vals |-> f.args]
          ELSE c.pos = Len(msg) + 2
      BY <1>1, <1>8, <1>14, <2>7, <3>2, FieldsRead DEF q
    <3>4. CASE Len(msg) = Len(m)
      <4>1. c.pos = Len(msg) + 1 /\ c.vals = f.args
        BY <1>1, <3>3, <3>4
      <4>2. Msg2fcall(msg) = {[type |-> f.type, tag |-> f.tag, args |-> f.args]}
        BY <1>2, <1>3, <2>7, <2>8, <3>2, <4>1
      <4> QED BY <1>5, <3>4, <4>2 DEF m
    <3>5. CASE Len(msg) # Len(m)
      <4>1. c.pos = Len(msg) + 2
        BY <1>1, <1>3, <3>3, <3>5
      <4> QED BY <1>2, <1>3, <3>5, <4>1 DEF m
    <3> QED BY <3>4, <3>5
  <2>9. CASE Len(msg) < 7
    <3>1. c2.pos = Len(msg) + 2 /\ Len(msg) + 2 \in 1 .. Len(msg) + 2
      <4>1. c1.pos + Len(Puint(2, f.tag)) = 8 /\ ~(8 <= Len(msg) + 1)
        <5>1. \A n \in Nat : n < 7 => ~(8 <= n + 1)
          OBVIOUS
        <5>2. ~(8 <= Len(msg) + 1)
          BY <1>14, <2>9, <5>1, Zenon
        <5>3. c1.pos + Len(Puint(2, f.tag)) = 6 + 2 /\ 6 + 2 = 8
          <6>1. c1.pos + Len(Puint(2, f.tag)) = 6 + 2
            BY <2>3, <2>4, Zenon
          <6> QED BY <6>1, SMT
        <5> QED BY <5>2, <5>3, Zenon
      <4> QED BY <1>3, <2>5, <4>1 DEF Read
    <3>2. c.pos = Len(msg) + 2
      <4> DEFINE start == Len(msg) + 2
      <4>1. ~(start + Len(q) <= Len(msg) + 1)
        BY <1>1, <1>3
      <4>2. start \in 1 .. Len(msg) + 2 /\ c2.pos = start /\ Holds(msg, start, q)
        BY <1>9, <3>1
      <4> HIDE DEF start
      <4>3. GetFields(msg, start, Layout(f.type)).pos = Len(msg) + 2
        BY <1>1, <1>14, <4>1, <4>2, FieldsRead DEF q
      <4> QED BY <2>7, <4>2, <4>3
    <3>3. c.pos = Len(msg) + 2 /\ Len(msg) # Len(m)
      BY <1>1, <1>3, <2>9, <3>2
    <3> QED BY <1>2, <1>3, <3>3 DEF m
  <2> QED BY <1>3, <2>8, <2>9
<1>13. Len(msg) < 4 \/ Len(msg) = 4 \/ Len(msg) >= 5
  <2>1. \A n \in Nat : n < 4 \/ n = 4 \/ n >= 5
    OBVIOUS
  <2> QED BY <1>14, <2>1, Zenon
<1> QED BY <1>10, <1>11, <1>12, <1>13

LEMMA PackedLength ==
    ASSUME NEW kind, NEW x, NEW v, Packs(kind, x, v)
    PROVE  /\ kind = "u8" => Len(Packed(kind, x)) = 1
           /\ kind \in {"u16", "unset", "statsize"} => Len(Packed(kind, x)) = 2
           /\ kind = "u32" => Len(Packed(kind, x)) = 4
           /\ kind = "u64" => Len(Packed(kind, x)) = 8
           /\ kind = "string" => Len(Packed(kind, x)) = 2 + Len(v)
<1>1. CASE kind = "u8"
  <2>1. x \in Nat
    BY <1>1 DEF Packs, Values
  <2> QED BY <1>1, <2>1, PuintFacts DEF Packed
<1>2. CASE kind \in {"u16", "unset", "statsize"}
  <2>1. x \in Nat
    BY <1>2 DEF Packs, Values
  <2>2. Packed(kind, x) = Puint(2, x)
    BY <1>2 DEF Packed
  <2> QED BY <1>2, <2>1, <2>2, PuintFacts
<1>3. CASE kind = "u32"
  <2>1. x \in Nat
    BY <1>3 DEF Packs, Values, U32
  <2> QED BY <1>3, <2>1, PuintFacts DEF Packed
<1>4. CASE kind = "u64"
  <2>1. x[1] \in Nat /\ x[2] \in Nat
    BY <1>4 DEF Packs, Values, U32
  <2> DEFINE a == Puint(4, x[1])
             b == Puint(4, x[2])
  <2>2. a \in Bytes /\ Len(a) = 4 /\ b \in Bytes /\ Len(b) = 4
    BY <2>1, PuintFacts
  <2>3. Packed(kind, x) = a \o b
    BY <1>4 DEF Packed
  <2> HIDE DEF a, b
  <2>4. Len(a \o b) = Len(a) + Len(b)
    BY <2>2, ConcatFacts
  <2>5. Len(a \o b) = 8
    BY <2>2, <2>4
  <2> QED BY <1>4, <2>3, <2>5
<1>5. CASE kind = "string"
  <2>1. x = v /\ v \in Bytes /\ Len(v) < Word
    BY <1>5 DEF Packs, Values
  <2> DEFINE a == Puint(2, Len(v))
  <2>2. Packed(kind, x) = a \o v
    BY <1>5, <2>1, PstringFacts DEF Packed
  <2>3. a \in Bytes /\ Len(a) = 2
    BY <2>1, ConcatFacts, PuintFacts
  <2> HIDE DEF a
  <2>4. Len(a \o v) = Len(a) + Len(v)
    BY <2>1, <2>3, ConcatFacts
  <2>5. Len(a \o v) = 2 + Len(v)
    BY <2>3, <2>4
  <2> QED BY <1>5, <2>2, <2>5
<1> QED BY <1>1, <1>2, <1>3, <1>4, <1>5

\* The size in a stat counts the bytes that follow it, when they can be counted
\* in two bytes.
LEMMA StatSize ==
    ASSUME NEW f, IsFcall(f), f.type = "TWStat", NEW junk \in Nat, NEW size \in Nat, size <= Word,
           Fcall2msg(f, size, junk) # <<>>
    PROVE  UintAt(Fcall2msg(f, size, junk), 14, 2) = Len(Fcall2msg(f, size, junk)) - 15
<1> DEFINE msg == Fcall2msg(f, size, junk)
           parts == Fields(f, junk)
           q == FlattenSeq(parts)
           a == Len(f.args[13])
           b == Len(f.args[14])
           c == Len(f.args[15])
           d == Len(f.args[16])
           v == SizeofStat(f.args) - 2
<1>1. /\ ~TooMany(f) /\ q \in Bytes /\ Len(q) \in Nat
      /\ msg \in Bytes /\ Len(msg) = 7 + Len(q) /\ Len(msg) <= size
      /\ \A i \in 1 .. Len(q) : msg[7 + i] = q[i]
  BY PackedFacts
<1>2. a \in Nat /\ b \in Nat /\ c \in Nat /\ d \in Nat /\ v = 47 + a + b + c + d /\ v \in Nat
  <2>1. /\ \A i \in 13 .. 16 : Len(f.args[i]) \in Nat
        /\ v = 47 + a + b + c + d /\ v \in Nat
    BY SizeofFacts, Zenon
  <2>2. 13 \in 13 .. 16 /\ 14 \in 13 .. 16 /\ 15 \in 13 .. 16 /\ 16 \in 13 .. 16
    OBVIOUS
  <2> QED BY <2>1, <2>2, Zenon
<1>3. Len(Layout(f.type)) = 16 /\ \A i \in 1 .. 16 : Layout(f.type)[i] = StatKinds[i]
  BY StatLayout
<1>4. PICK at : Joined(at, 16, parts, q)
  BY <1>1, <1>3, FieldsFacts
<1>5. \A i \in 1 .. 16 : /\ parts[i] = Packed(StatKinds[i], Source(f, i, junk))
                        /\ Packs(StatKinds[i], Source(f, i, junk), f.args[i])
  BY <1>1, <1>3, SourceFacts DEF Fields
<1>6. parts[3] = Puint(2, v)
  <2>1. StatKinds[3] = "statsize" /\ Layout(f.type)[3] = "statsize"
    BY <1>3 DEF StatKinds
  <2>2. Source(f, 3, junk) = v
    BY <2>1 DEF Source
  <2> QED BY <1>5, <2>1, <2>2 DEF Packed
<1>7. /\ Len(parts[1]) = 4 /\ Len(parts[2]) = 2 /\ Len(parts[3]) = 2 /\ Len(parts[4]) = 2
      /\ Len(parts[5]) = 4 /\ Len(parts[6]) = 1 /\ Len(parts[7]) = 4 /\ Len(parts[8]) = 8
      /\ Len(parts[9]) = 4 /\ Len(parts[10]) = 4 /\ Len(parts[11]) = 4 /\ Len(parts[12]) = 8
  <2>1. ASSUME NEW i \in 1 .. 16
        PROVE  /\ StatKinds[i] = "u8" => Len(parts[i]) = 1
               /\ StatKinds[i] \in {"u16", "unset", "statsize"} => Len(parts[i]) = 2
               /\ StatKinds[i] = "u32" => Len(parts[i]) = 4
               /\ StatKinds[i] = "u64" => Len(parts[i]) = 8
    <3> DEFINE kind == StatKinds[i]
               x == Source(f, i, junk)
    <3>1. parts[i] = Packed(kind, x) /\ Packs(kind, x, f.args[i])
      BY <1>5
    <3> HIDE DEF kind, x, parts
    <3>2. /\ kind = "u8" => Len(parts[i]) = 1
          /\ kind \in {"u16", "unset", "statsize"} => Len(parts[i]) = 2
          /\ kind = "u32" => Len(parts[i]) = 4
          /\ kind = "u64" => Len(parts[i]) = 8
      BY <3>1, PackedLength
    <3> QED BY <3>2 DEF kind
  <2> HIDE DEF parts
  <2>2. Len(parts[1]) = 4 /\ Len(parts[2]) = 2 /\ Len(parts[3]) = 2 /\ Len(parts[4]) = 2
    BY <2>1 DEF StatKinds
  <2>3. Len(parts[5]) = 4 /\ Len(parts[6]) = 1 /\ Len(parts[7]) = 4 /\ Len(parts[8]) = 8
    BY <2>1 DEF StatKinds
  <2>4. Len(parts[9]) = 4 /\ Len(parts[10]) = 4 /\ Len(parts[11]) = 4 /\ Len(parts[12]) = 8
    BY <2>1 DEF StatKinds
  <2> QED BY <2>2, <2>3, <2>4
<1>8. /\ Len(parts[13]) = 2 + a /\ Len(parts[14]) = 2 + b
      /\ Len(parts[15]) = 2 + c /\ Len(parts[16]) = 2 + d
  <2>1. ASSUME NEW i \in 13 .. 16 PROVE Len(parts[i]) = 2 + Len(f.args[i])
    <3>1. i \in 1 .. 16 /\ StatKinds[i] = "string"
      BY DEF StatKinds
    <3> QED BY <1>5, <3>1, PackedLength
  <2> QED BY <2>1
<1> HIDE DEF msg, parts, q, a, b, c, d, v
<1>9. /\ at[0] = 0 /\ at[16] = Len(q) /\ \A i \in 1 .. 16 : at[i] = at[i - 1] + Len(parts[i])
      /\ \A i \in 1 .. 16 : \A j \in 1 .. Len(parts[i]) : q[at[i - 1] + j] = parts[i][j]
  BY <1>4 DEF Joined
<1>10. at[1] = 4 /\ at[2] = 6 /\ at[3] = 8 /\ at[4] = 10
  <2>0. (\A i \in 1 .. 16 : at[i] = at[i - 1] + Len(parts[i])) /\ 1 - 1 = 0
    BY <1>9
  <2>1. /\ at[1] = at[0] + Len(parts[1]) /\ at[2] = at[1] + Len(parts[2])
        /\ at[3] = at[2] + Len(parts[3]) /\ at[4] = at[3] + Len(parts[4])
    BY <2>0
  <2> QED BY <1>7, <2>1, <1>9
<1>11. at[5] = 14 /\ at[6] = 15 /\ at[7] = 19 /\ at[8] = 27
  <2>1. /\ at[5] = at[4] + Len(parts[5]) /\ at[6] = at[5] + Len(parts[6])
        /\ at[7] = at[6] + Len(parts[7]) /\ at[8] = at[7] + Len(parts[8])
    BY <1>9
  <2> QED BY <1>7, <2>1, <1>10
<1>12. at[9] = 31 /\ at[10] = 35 /\ at[11] = 39 /\ at[12] = 47
  <2>1. /\ at[9] = at[8] + Len(parts[9]) /\ at[10] = at[9] + Len(parts[10])
        /\ at[11] = at[10] + Len(parts[11]) /\ at[12] = at[11] + Len(parts[12])
    BY <1>9
  <2> QED BY <1>7, <2>1, <1>11
<1>13. Len(q) = 55 + a + b + c + d
  <2>1. /\ at[13] = at[12] + Len(parts[13]) /\ at[14] = at[13] + Len(parts[14])
        /\ at[15] = at[14] + Len(parts[15]) /\ at[16] = at[15] + Len(parts[16])
    BY <1>9
  <2>2. at[13] = 49 + a
    BY <1>2, <1>8, <1>12, <2>1
  <2>3. at[14] = 51 + a + b
    BY <1>2, <1>8, <2>1, <2>2
  <2>4. at[15] = 53 + a + b + c
    BY <1>2, <1>8, <2>1, <2>3
  <2>5. at[16] = 55 + a + b + c + d
    BY <1>2, <1>8, <2>1, <2>4
  <2> QED BY <1>9, <2>5, Zenon
<1>14. v = Len(msg) - 15 /\ Len(msg) >= 62 /\ Fits(2, v)
  BY <1>1, <1>2, <1>13, WeightFacts DEF Fits
<1>15. Available(msg, 14, 2)
  BY <1>1, <1>14 DEF Available
<1>16. \A i \in 1 .. 2 : msg[14 + i - 1] = Puint(2, v)[i]
  <2> SUFFICES ASSUME NEW i \in 1 .. 2 PROVE msg[14 + i - 1] = Puint(2, v)[i]
    OBVIOUS
  <2>1. q[6 + i] = parts[3][i]
    <3>1. 3 \in 1 .. 16 /\ 3 - 1 = 2 /\ i \in 1 .. Len(parts[3])
      BY <1>7
    <3>2. \A j \in 1 .. Len(parts[3]) : q[at[2] + j] = parts[3][j]
      <4>1. \A j \in 1 .. Len(parts[3]) : q[at[3 - 1] + j] = parts[3][j]
        BY <1>9, <3>1, Zenon
      <4> QED BY <3>1, <4>1
    <3> QED BY <1>10, <3>1, <3>2
  <2>2. 6 + i \in 1 .. Len(q) /\ 7 + (6 + i) = 14 + i - 1
    BY <1>2, <1>13
  <2> QED BY <1>1, <1>6, <2>1, <2>2
<1>17. UintAt(msg, 14, 2) = v
  BY <1>2, <1>14, <1>15, <1>16, UintRead
<1> QED BY <1>14, <1>17 DEF msg

-----------------------------------------------------------------------------
(* ixp_fcall2msg and ixp_msg2fcall.                                        *)

\* Whatever ixp_fcall2msg packs, of any type, with any values and in a buffer of
\* any size, ixp_msg2fcall unpacks to the same fcall, and it refuses every proper
\* prefix of the message.
THEOREM PackedUnpacks ==
    ASSUME NEW f, IsFcall(f), NEW junk \in 0 .. Word - 1, NEW size \in Nat,
           NEW msg, msg = Fcall2msg(f, size, junk), msg # <<>>
    PROVE  /\ Msg2fcall(msg) = {f}
           /\ \A n \in 0 .. Len(msg) - 1 : Msg2fcall(SubSeq(msg, 1, n)) = {}
<1>1. junk \in Nat
  OBVIOUS
<1>2. msg \in Bytes /\ Len(msg) \in Nat
  <2>1. msg \in Bytes
    BY <1>1, PackedFacts
  <2> QED BY <2>1, ConcatFacts
<1>3. Msg2fcall(msg) = {f}
  <2>1. Cut(msg, msg)
    BY <1>2 DEF Cut, SDWord
  <2> QED BY <1>1, <2>1, UnpackFacts
<1>4. ASSUME NEW n \in 0 .. Len(msg) - 1 PROVE Msg2fcall(SubSeq(msg, 1, n)) = {}
  <2> DEFINE s == SubSeq(msg, 1, n)
  <2>1. n \in 0 .. Len(msg)
    BY <1>2
  <2>2. s \in Bytes /\ Len(s) = n /\ \A i \in 1 .. n : s[i] = msg[i]
    BY <1>2, <2>1, CutFacts
  <2> HIDE DEF s
  <2>3. Cut(s, msg) /\ Len(s) # Len(msg)
    BY <1>2, <2>2 DEF Cut, SDWord
  <2>4. Msg2fcall(s) = {}
    BY <1>1, <2>3, UnpackFacts
  <2> QED BY <2>4 DEF s
<1> QED BY <1>3, <1>4

-----------------------------------------------------------------------------
(* The stream.                                                             *)


\* The fcalls that may be sent.
Calls == UNION {Fcalls[n] : n \in 1 .. Len(Fcalls)}

Message == [f : Calls, honest : BOOLEAN, bytes : Bytes]

\* The bytes that were sent in messages not yet received.
Queue == buf \o (wire \o left)

\* q is the bytes of the messages of ms after the r-th; those up to the m-th end
\* at at[m].
Laid(at, r, ms, q) ==
    /\ at \in [r .. Len(ms) -> 0 .. Len(q)]
    /\ at[r] = 0 /\ at[Len(ms)] = Len(q)
    /\ \A m \in r .. Len(ms) - 1 :
        /\ at[m + 1] = at[m] + Len(ms[m + 1].bytes)
        /\ \A j \in 1 .. Len(ms[m + 1].bytes) : q[at[m] + j] = ms[m + 1].bytes[j]
    /\ \A m, n \in r .. Len(ms) : m <= n => at[m] <= at[n]

\* The size field of a message is its length, one that ixp_recvmsg refuses, or one
\* more than there is.
Announced(bytes) == UintAt(bytes, 1, SDWord)
Whole(bytes) == Announced(bytes) = Len(bytes)
Refused(bytes) == Announced(bytes) < SDWord \/ Announced(bytes) > Size
Greedy(bytes) == Announced(bytes) = Len(bytes) + 1
Sized(bytes) ==
    /\ bytes \in Bytes /\ Len(bytes) \in SDWord .. Size
    /\ Whole(bytes) \/ Refused(bytes) \/ Greedy(bytes)

\* What was sent is the message that was packed, or that message with a wrong
\* size, which is never received unless it cuts off the last byte.
Origin(x) ==
  /\ x.honest => Whole(x.bytes)
  /\ \E junk \in Junk :
        LET msg == Fcall2msg(x.f, Size, junk) IN
        /\ msg # <<>>
        /\ IF x.honest THEN x.bytes = msg
           ELSE \/ Refused(x.bytes) \/ Greedy(x.bytes)
                \/ /\ Len(x.bytes) = Len(msg) - 1
                   /\ \A i \in SDWord + 1 .. Len(x.bytes) : x.bytes[i] = msg[i]

TypesOK ==
    /\ sent \in Seq(Message) /\ received \in Seq(Bytes)
    /\ buf \in Bytes /\ wire \in Bytes /\ left \in Bytes
    /\ num \in Nat /\ eof \in BOOLEAN /\ state \in {"size", "body", "failed"}

\* How far the reader is in the message it reads.
ReaderOK ==
    /\ Len(buf) <= Size
    /\ state = "size" => num + Len(buf) = SDWord
    /\ state = "body" =>
        /\ Len(received) < Len(sent)
        /\ num + Len(buf) = Announced(sent[Len(received) + 1].bytes)
        /\ ~Refused(sent[Len(received) + 1].bytes)

\* A message with a wrong size is the last.
HonestBut == \A m \in 1 .. Len(sent) - 1 : sent[m].honest

\* The inductive invariant.
FrameInv ==
    /\ TypesOK
    /\ ReaderOK
    /\ \A m \in 1 .. Len(sent) : Sized(sent[m].bytes) /\ Origin(sent[m])
    /\ HonestBut
    /\ Len(received) <= Len(sent)
    /\ \A m \in 1 .. Len(received) : received[m] = sent[m].bytes /\ Whole(sent[m].bytes)
    /\ \E at : Laid(at, Len(received), sent, Queue)

-----------------------------------------------------------------------------
(* Messages in the stream.                                                 *)

LEMMA MessageSeqFacts ==
    ASSUME NEW ms \in Seq(Message)
    PROVE  /\ Len(ms) \in Nat
           /\ \A m \in 1 .. Len(ms) : ms[m].bytes \in Bytes /\ Len(ms[m].bytes) \in Nat
<1>1. Len(ms) \in Nat /\ \A m \in 1 .. Len(ms) : ms[m] \in Message
  BY LenProperties, ElementOfSeq
<1>2. \A x \in Message : x.bytes \in Bytes
  BY DEF Message
<1>3. \A b \in Bytes : Len(b) \in Nat
  BY LenProperties DEF Bytes
<1> QED BY <1>1, <1>2, <1>3

LEMMA AppendMessage ==
    ASSUME NEW ms \in Seq(Message), NEW x \in Message
    PROVE  /\ Append(ms, x) \in Seq(Message) /\ Len(Append(ms, x)) = Len(ms) + 1
           /\ \A m \in 1 .. Len(ms) : Append(ms, x)[m] = ms[m]
           /\ Append(ms, x)[Len(ms) + 1] = x
BY AppendProperties

\* A message is sent: its bytes join the queue at the end.
LEMMA LaidAppend ==
    ASSUME NEW r \in Nat, NEW ms \in Seq(Message), r <= Len(ms), NEW q \in Bytes,
           NEW at, Laid(at, r, ms, q), NEW x \in Message
    PROVE  \E at2 : Laid(at2, r, Append(ms, x), q \o x.bytes)
<1> DEFINE ns == Append(ms, x)
           p == q \o x.bytes
           at2 == [m \in r .. Len(ms) + 1 |-> IF m = Len(ms) + 1 THEN Len(p) ELSE at[m]]
<1>1. /\ Len(ms) \in Nat /\ Len(ns) = Len(ms) + 1
      /\ \A m \in 1 .. Len(ms) : ns[m] = ms[m] /\ Len(ms[m].bytes) \in Nat
      /\ ns[Len(ms) + 1] = x
  BY MessageSeqFacts, AppendMessage
<1>2. /\ x.bytes \in Bytes /\ p \in Bytes /\ Len(p) = Len(q) + Len(x.bytes)
      /\ Len(q) \in Nat /\ Len(x.bytes) \in Nat
      /\ \A i \in 1 .. Len(q) : p[i] = q[i]
      /\ \A i \in 1 .. Len(x.bytes) : p[Len(q) + i] = x.bytes[i]
  <2>1. x.bytes \in Bytes
    BY DEF Message
  <2> QED BY <2>1, ConcatFacts
<1> HIDE DEF ns, p
<1>3. /\ \A m \in r .. Len(ms) : at[m] \in Nat /\ at[m] <= Len(q)
      /\ at[r] = 0 /\ at[Len(ms)] = Len(q)
      /\ \A m \in r .. Len(ms) - 1 :
            /\ at[m + 1] = at[m] + Len(ms[m + 1].bytes)
            /\ \A j \in 1 .. Len(ms[m + 1].bytes) : q[at[m] + j] = ms[m + 1].bytes[j]
      /\ \A m, n \in r .. Len(ms) : m <= n => at[m] <= at[n]
  BY <1>2 DEF Laid
<1>4. at2 \in [r .. Len(ns) -> 0 .. Len(p)]
  BY <1>1, <1>2, <1>3
<1>5. at2[r] = 0 /\ at2[Len(ns)] = Len(p)
  BY <1>1, <1>2, <1>3
<1>6. ASSUME NEW m \in r .. Len(ns) - 1
      PROVE  /\ at2[m + 1] = at2[m] + Len(ns[m + 1].bytes)
             /\ \A j \in 1 .. Len(ns[m + 1].bytes) : p[at2[m] + j] = ns[m + 1].bytes[j]
  <2>1. CASE m = Len(ms)
    <3>1. at2[m] = Len(q) /\ at2[m + 1] = Len(p) /\ ns[m + 1] = x
      BY <1>1, <1>3, <2>1
    <3> QED BY <1>2, <3>1
  <2>2. CASE m < Len(ms)
    <3>1. m \in r .. Len(ms) - 1 /\ m + 1 \in 1 .. Len(ms) /\ m + 1 \in r .. Len(ms)
      BY <1>1, <2>2
    <3>2. at2[m] = at[m] /\ at2[m + 1] = at[m + 1] /\ ns[m + 1] = ms[m + 1]
      BY <1>1, <2>2, <3>1
    <3>3. at[m] \in Nat /\ at[m + 1] <= Len(q) /\ at[m + 1] = at[m] + Len(ms[m + 1].bytes)
      <4>1. m \in r .. Len(ms)
        BY <1>1, <3>1
      <4> QED BY <1>3, <3>1, <4>1
    <3>4. ASSUME NEW j \in 1 .. Len(ms[m + 1].bytes)
          PROVE  p[at[m] + j] = ms[m + 1].bytes[j]
      <4>1. Len(ms[m + 1].bytes) \in Nat
        BY <1>1, <3>1
      <4>2. at[m] + j \in 1 .. Len(q)
        BY <1>2, <3>3, <4>1
      <4> QED BY <1>2, <1>3, <3>1, <4>2
    <3>5. \A j \in 1 .. Len(ns[m + 1].bytes) : p[at2[m] + j] = ns[m + 1].bytes[j]
      <4> HIDE DEF at2
      <4> SUFFICES ASSUME NEW j \in 1 .. Len(ns[m + 1].bytes)
                   PROVE  p[at2[m] + j] = ns[m + 1].bytes[j]
        OBVIOUS
      <4>1. j \in 1 .. Len(ms[m + 1].bytes)
        BY <3>2
      <4>2. p[at[m] + j] = ms[m + 1].bytes[j]
        BY <3>4, <4>1
      <4> QED BY <3>2, <4>2
    <3> QED BY <3>2, <3>3, <3>5
  <2>3. m = Len(ms) \/ m < Len(ms)
    BY <1>1
  <2> QED BY <2>1, <2>2, <2>3
<1>7. ASSUME NEW m \in r .. Len(ns), NEW n \in r .. Len(ns), m <= n
      PROVE  at2[m] <= at2[n]
  <2>1. CASE n = Len(ms) + 1
    <3>1. at2[n] = Len(p) /\ at2[m] \in 0 .. Len(p)
      BY <1>1, <1>4, <2>1
    <3> QED BY <3>1
  <2>2. CASE n # Len(ms) + 1
    <3>1. m \in r .. Len(ms) /\ n \in r .. Len(ms)
      BY <1>1, <1>7, <2>2
    <3>2. at2[m] = at[m] /\ at2[n] = at[n]
      BY <1>1, <3>1
    <3> QED BY <1>3, <1>7, <3>1, <3>2
  <2> QED BY <2>1, <2>2
<1> HIDE DEF at2
<1>8. Laid(at2, r, ns, p)
  BY <1>4, <1>5, <1>6, <1>7 DEF Laid
<1> QED BY <1>8 DEF ns, p

\* As many bytes as the first message has are that message, and the rest of the
\* queue is the other messages.
LEMMA LaidDrop ==
    ASSUME NEW r \in Nat, NEW ms \in Seq(Message), r < Len(ms), NEW b \in Bytes,
           NEW rest \in Bytes, NEW at, Laid(at, r, ms, b \o rest),
           Len(b) = Len(ms[r + 1].bytes)
    PROVE  /\ b = ms[r + 1].bytes
           /\ \E at2 : Laid(at2, r + 1, ms, rest)
<1> DEFINE q == b \o rest
           at2 == [m \in r + 1 .. Len(ms) |-> at[m] - Len(b)]
<1>1. /\ Len(ms) \in Nat
      /\ \A m \in 1 .. Len(ms) : ms[m].bytes \in Bytes /\ Len(ms[m].bytes) \in Nat
  BY MessageSeqFacts
<1>2. /\ Len(q) = Len(b) + Len(rest) /\ Len(b) \in Nat /\ Len(rest) \in Nat
      /\ \A i \in 1 .. Len(b) : q[i] = b[i]
      /\ \A i \in 1 .. Len(rest) : q[Len(b) + i] = rest[i]
  BY ConcatFacts
<1>3. /\ \A m \in r .. Len(ms) : at[m] \in Nat /\ at[m] <= Len(q)
      /\ at[r] = 0 /\ at[Len(ms)] = Len(q)
      /\ \A m \in r .. Len(ms) - 1 :
            /\ at[m + 1] = at[m] + Len(ms[m + 1].bytes)
            /\ \A j \in 1 .. Len(ms[m + 1].bytes) : q[at[m] + j] = ms[m + 1].bytes[j]
      /\ \A m, n \in r .. Len(ms) : m <= n => at[m] <= at[n]
  <2>1. Laid(at, r, ms, q)
    OBVIOUS
  <2> HIDE DEF q
  <2> QED BY <1>2, <2>1 DEF Laid
<1> HIDE DEF q
<1>4. r \in r .. Len(ms) - 1 /\ r + 1 \in 1 .. Len(ms) /\ r + 1 \in r .. Len(ms)
  BY <1>1
<1>5. at[r + 1] = Len(b) /\ \A j \in 1 .. Len(b) : q[j] = ms[r + 1].bytes[j]
  BY <1>2, <1>3, <1>4
<1>6. b = ms[r + 1].bytes
  <2>1. ms[r + 1].bytes \in Bytes /\ \A j \in 1 .. Len(b) : b[j] = ms[r + 1].bytes[j]
    BY <1>1, <1>2, <1>4, <1>5
  <2> QED BY <2>1, BytesEqual
<1>7. \A m \in r + 1 .. Len(ms) : at[m] \in Len(b) .. Len(q)
  <2> SUFFICES ASSUME NEW m \in r + 1 .. Len(ms) PROVE at[m] \in Len(b) .. Len(q)
    OBVIOUS
  <2>1. m \in r .. Len(ms) /\ r + 1 <= m
    BY <1>1
  <2>2. at[r + 1] <= at[m] /\ at[m] \in Nat /\ at[m] <= Len(q)
    BY <1>3, <1>4, <2>1
  <2> QED BY <1>2, <1>5, <2>2
<1>8. at2 \in [r + 1 .. Len(ms) -> 0 .. Len(rest)]
  BY <1>2, <1>7
<1>9. at2[r + 1] = 0 /\ at2[Len(ms)] = Len(rest)
  BY <1>1, <1>2, <1>3, <1>4, <1>5
<1>13. \A m \in r + 1 .. Len(ms) : at2[m] = at[m] - Len(b)
  OBVIOUS
<1> HIDE DEF at2
<1>10. ASSUME NEW m \in r + 1 .. Len(ms) - 1
       PROVE  /\ at2[m + 1] = at2[m] + Len(ms[m + 1].bytes)
              /\ \A j \in 1 .. Len(ms[m + 1].bytes) : rest[at2[m] + j] = ms[m + 1].bytes[j]
  <2>1. /\ m \in r .. Len(ms) - 1 /\ m + 1 \in r + 1 .. Len(ms) /\ m \in r + 1 .. Len(ms)
        /\ m + 1 \in 1 .. Len(ms)
    BY <1>1
  <2>2. at[m + 1] = at[m] + Len(ms[m + 1].bytes) /\ Len(ms[m + 1].bytes) \in Nat
    BY <1>1, <1>3, <2>1
  <2>3. at2[m] = at[m] - Len(b) /\ at2[m + 1] = at[m + 1] - Len(b)
    BY <1>13, <2>1
  <2>4. at[m] \in Len(b) .. Len(q) /\ at[m + 1] \in Len(b) .. Len(q)
    BY <1>7, <2>1
  <2> DEFINE x == at[m]
             y == at[m + 1]
             k == Len(ms[m + 1].bytes)
  <2>5. x \in Nat /\ y \in Nat /\ x >= Len(b) /\ y = x + k /\ y <= Len(q) /\ k \in Nat
    BY <1>2, <2>2, <2>4
  <2>6. at2[m] = x - Len(b) /\ at2[m + 1] = y - Len(b)
    BY <2>3
  <2> HIDE DEF x, y, k
  <2>7. at2[m + 1] = at2[m] + k
    BY <1>2, <2>5, <2>6
  <2>8. ASSUME NEW j \in 1 .. k
        PROVE  rest[at2[m] + j] = ms[m + 1].bytes[j]
    <3>1. at2[m] + j \in 1 .. Len(rest) /\ Len(b) + (at2[m] + j) = x + j
      BY <1>2, <2>5, <2>6
    <3>2. q[x + j] = ms[m + 1].bytes[j]
      BY <1>3, <2>1 DEF x, k
    <3> QED BY <1>2, <3>1, <3>2
  <2> QED BY <2>7, <2>8 DEF k
<1>11. ASSUME NEW m \in r + 1 .. Len(ms), NEW n \in r + 1 .. Len(ms), m <= n
       PROVE  at2[m] <= at2[n]
  <2>1. at[m] <= at[n] /\ at[m] \in Nat /\ at[n] \in Nat
    BY <1>3, <1>11
  <2> QED BY <1>2, <1>13, <2>1
<1>12. Laid(at2, r + 1, ms, rest)
  BY <1>8, <1>9, <1>10, <1>11 DEF Laid
<1> QED BY <1>6, <1>12

\* The bytes at the front of the queue are those of the first message.
LEMMA LaidFront ==
    ASSUME NEW r \in Nat, NEW ms \in Seq(Message), r <= Len(ms), NEW q \in Bytes,
           NEW at, Laid(at, r, ms, q), q # <<>>
    PROVE  /\ r < Len(ms) /\ Len(ms[r + 1].bytes) <= Len(q)
           /\ \A j \in 1 .. Len(ms[r + 1].bytes) : q[j] = ms[r + 1].bytes[j]
<1>1. /\ at \in [r .. Len(ms) -> 0 .. Len(q)]
      /\ at[r] = 0 /\ at[Len(ms)] = Len(q)
      /\ \A m \in r .. Len(ms) - 1 :
            /\ at[m + 1] = at[m] + Len(ms[m + 1].bytes)
            /\ \A j \in 1 .. Len(ms[m + 1].bytes) : q[at[m] + j] = ms[m + 1].bytes[j]
  BY DEF Laid
<1>2. Len(ms) \in Nat /\ \A m \in 1 .. Len(ms) : Len(ms[m].bytes) \in Nat
  BY MessageSeqFacts
<1>3. Len(q) \in Nat /\ Len(q) # 0
  BY LenProperties, EmptySeq DEF Bytes
<1>4. r # Len(ms)
  BY <1>1, <1>3
<1>5. r \in r .. Len(ms) - 1 /\ r + 1 \in r .. Len(ms) /\ r + 1 \in 1 .. Len(ms)
  BY <1>2, <1>4
<1>6. at[r + 1] = Len(ms[r + 1].bytes) /\ at[r + 1] \in 0 .. Len(q)
  BY <1>1, <1>2, <1>5
<1>7. \A j \in 1 .. Len(ms[r + 1].bytes) : q[0 + j] = ms[r + 1].bytes[j]
  BY <1>1, <1>5
<1>8. \A j \in 1 .. Len(ms[r + 1].bytes) : 0 + j = j
  BY <1>2, <1>5
<1> QED BY <1>2, <1>3, <1>4, <1>5, <1>6, <1>7, <1>8

LEMMA CallFacts ==
    ASSUME NEW f \in Calls, NEW junk \in Junk
    PROVE  IsFcall(f) /\ junk \in Nat
<1>1. PICK n \in 1 .. Len(Fcalls) : f \in Fcalls[n]
  BY DEF Calls
<1>2. IsFcall(f)
  BY <1>1, FcallsAssumption
<1>3. junk \in 0 .. Word - 1
  BY FcallsAssumption
<1> QED BY <1>2, <1>3

LEMMA MessageFacts ==
    ASSUME NEW f \in Calls, NEW junk \in Junk, NEW msg, msg = Fcall2msg(f, Size, junk),
           msg # <<>>
    PROVE  /\ msg \in Bytes /\ Len(msg) \in 7 .. Size
           /\ \A i \in 1 .. 4 : msg[i] = Puint(4, Len(msg))[i]
<1>1. IsFcall(f) /\ junk \in Nat /\ Size \in Nat
  BY CallFacts, SizeAssumption
<1> DEFINE q == FlattenSeq(Fields(f, junk))
<1>2. /\ Len(q) \in Nat /\ msg \in Bytes /\ Len(msg) = 7 + Len(q) /\ Len(msg) <= Size
      /\ \A i \in 1 .. 4 : msg[i] = Puint(4, Len(msg))[i]
  BY <1>1, PackedFacts
<1> HIDE DEF q
<1> QED BY <1>1, <1>2

\* The bytes that Send makes of a message: its size field is n, the rest is the
\* message up to last.
LEMMA SentBytes ==
    ASSUME NEW msg \in Bytes, NEW n \in Nat, NEW last \in Nat, 4 <= last, last <= Len(msg)
    PROVE  LET bytes == Puint(4, n) \o SubSeq(msg, 5, last)
           IN  /\ bytes \in Bytes /\ Len(bytes) = last
               /\ \A i \in 1 .. 4 : bytes[i] = Puint(4, n)[i]
               /\ \A i \in 5 .. last : bytes[i] = msg[i]
<1> DEFINE head == Puint(4, n)
           tail == SubSeq(msg, 5, last)
           bytes == head \o tail
<1>1. head \in Bytes /\ Len(head) = 4
  BY PuintFacts
<1>2. /\ tail \in Bytes /\ Len(tail) = last - 4
      /\ \A i \in 1 .. last - 4 : tail[i] = msg[4 + i]
  <2>1. 5 \in Nat /\ 1 <= 5 /\ 5 <= last + 1 /\ (last - 5) + 1 = last - 4 /\ 5 - 1 = 4
    OBVIOUS
  <2> QED BY <2>1, PartFacts
<1> HIDE DEF head, tail
<1>3. /\ bytes \in Bytes /\ Len(bytes) = Len(head) + Len(tail)
      /\ \A i \in 1 .. Len(head) : bytes[i] = head[i]
      /\ \A i \in 1 .. Len(tail) : bytes[Len(head) + i] = tail[i]
  BY <1>1, <1>2, ConcatFacts
<1> HIDE DEF bytes
<1>4. Len(bytes) = last
  BY <1>1, <1>2, <1>3
<1>5. ASSUME NEW i \in 5 .. last PROVE bytes[i] = msg[i]
  <2>1. i - 4 \in 1 .. last - 4 /\ 4 + (i - 4) = i
    OBVIOUS
  <2>2. bytes[4 + (i - 4)] = tail[i - 4]
    BY <1>1, <1>2, <1>3, <2>1
  <2> QED BY <1>2, <2>1, <2>2
<1> QED BY <1>1, <1>3, <1>4, <1>5 DEF bytes, head, tail

LEMMA SizeFacts ==
    /\ SDWord = 4 /\ Size \in Nat /\ Size >= 4
    /\ Size \div 65536 < 32768 /\ (Size + 1) \div 65536 < 65536
BY SizeAssumption, WeightFacts, SMT

\* The size field is what ixp_recvmsg will read.
LEMMA SentSize ==
    ASSUME NEW n \in Nat, n <= Size + 1, NEW bytes \in Bytes, Len(bytes) >= 4,
           \A i \in 1 .. 4 : bytes[i] = Puint(4, n)[i]
    PROVE  UintAt(bytes, 1, SDWord) = n
<1>1. Fits(4, n)
  <2>1. n \div 65536 < 65536
    BY SizeFacts, SMT
  <2> QED BY <2>1, WeightFacts, SMT DEF Fits
<1>2. Available(bytes, 1, 4)
  <2>1. Len(bytes) \in Nat
    BY LenProperties DEF Bytes
  <2> QED BY <2>1 DEF Available
<1>3. \A i \in 1 .. 4 : 1 + i - 1 = i
  OBVIOUS
<1>4. \A i \in 1 .. 4 : bytes[1 + i - 1] = Puint(4, n)[i]
  BY <1>3
<1>5. UintAt(bytes, 1, 4) = n
  BY <1>1, <1>2, <1>4, UintRead
<1> QED BY <1>5, SizeFacts

\* What Send does to the message it packed.
LEMMA SentFacts ==
    ASSUME NEW f \in Calls, NEW junk \in Junk, Fcall2msg(f, Size, junk) # <<>>
    PROVE  LET msg == Fcall2msg(f, Size, junk)
           IN  \A n \in Claims(Len(msg)) :
                LET last == IF n = Len(msg) - 1 THEN n ELSE Len(msg)
                    bytes == Puint(SDWord, n) \o SubSeq(msg, SDWord + 1, last)
                    x == [f |-> f, honest |-> n = Len(msg), bytes |-> bytes]
                IN  x \in Message /\ Sized(x.bytes) /\ Origin(x)
<1> DEFINE msg == Fcall2msg(f, Size, junk)
<1>1. /\ msg \in Bytes /\ Len(msg) \in Nat /\ 7 <= Len(msg) /\ Len(msg) <= Size
      /\ \A i \in 1 .. 4 : msg[i] = Puint(4, Len(msg))[i]
  BY MessageFacts
<1>2. msg # <<>> /\ msg = Fcall2msg(f, Size, junk)
  OBVIOUS
<1> HIDE DEF msg
<1> SUFFICES ASSUME NEW n \in Claims(Len(msg))
             PROVE  LET last == IF n = Len(msg) - 1 THEN n ELSE Len(msg)
                        bytes == Puint(SDWord, n) \o SubSeq(msg, SDWord + 1, last)
                        x == [f |-> f, honest |-> n = Len(msg), bytes |-> bytes]
                    IN  x \in Message /\ Sized(x.bytes) /\ Origin(x)
  BY DEF msg
<1> DEFINE last == IF n = Len(msg) - 1 THEN n ELSE Len(msg)
           bytes == Puint(4, n) \o SubSeq(msg, 5, last)
           x == [f |-> f, honest |-> n = Len(msg), bytes |-> bytes]
<1>3. n \in {Len(msg), 3, Size + 1, Len(msg) - 1, Len(msg) + 1}
  BY SizeFacts DEF Claims
<1>4. /\ n \in Nat /\ n <= Size + 1 /\ last \in Nat /\ 6 <= last /\ last <= Len(msg)
      /\ n = last \/ n < 4 \/ n > Size \/ n = last + 1
      /\ n = Len(msg) => last = Len(msg)
      /\ n = Len(msg) - 1 => last = Len(msg) - 1
      /\ n # Len(msg) /\ n # Len(msg) - 1 => n < 4 \/ n > Size \/ n = last + 1
  BY <1>1, <1>3, SizeFacts
<1> HIDE DEF last
<1>5. /\ bytes \in Bytes /\ Len(bytes) = last
      /\ \A i \in 1 .. 4 : bytes[i] = Puint(4, n)[i]
      /\ \A i \in 5 .. last : bytes[i] = msg[i]
  <2>1. 4 <= last
    BY <1>4
  <2> QED BY <1>1, <1>4, <2>1, SentBytes
<1> HIDE DEF bytes
<1>6. UintAt(bytes, 1, SDWord) = n
  BY <1>4, <1>5, SentSize
<1>7. Sized(bytes)
  <2>1. Len(bytes) \in SDWord .. Size
    BY <1>1, <1>4, <1>5, SizeFacts
  <2>2. n = Len(bytes) \/ n < SDWord \/ n > Size \/ n = Len(bytes) + 1
    BY <1>4, <1>5, SizeFacts
  <2> QED BY <1>5, <1>6, <2>1, <2>2 DEF Sized, Announced, Whole, Refused, Greedy
<1>8. x \in Message /\ x.f = f /\ x.honest = (n = Len(msg)) /\ x.bytes = bytes
  BY <1>5 DEF Message
<1> HIDE DEF x
<1>9. Origin(x)
  <2>0. x.honest => Whole(x.bytes)
    BY <1>4, <1>5, <1>6, <1>8 DEF Whole, Announced
  <2>1. CASE n = Len(msg)
    <3>1. \A i \in 1 .. Len(bytes) : bytes[i] = msg[i]
      <4> SUFFICES ASSUME NEW i \in 1 .. Len(bytes) PROVE bytes[i] = msg[i]
        OBVIOUS
      <4>1. i \in 1 .. 4 \/ i \in 5 .. last
        BY <1>4, <1>5
      <4> QED BY <1>1, <1>5, <2>1, <4>1
    <3>2. bytes = msg
      BY <1>1, <1>4, <1>5, <2>1, <3>1, BytesEqual
    <3> QED BY <1>2, <1>8, <2>0, <2>1, <3>2 DEF Origin
  <2>2. CASE n # Len(msg) /\ n = Len(msg) - 1
    <3>1. /\ ~x.honest /\ Len(x.bytes) = Len(msg) - 1
          /\ \A i \in SDWord + 1 .. Len(x.bytes) : x.bytes[i] = msg[i]
      <4>1. SDWord + 1 = 5 /\ Len(bytes) = last /\ last = Len(msg) - 1
        BY <1>4, <1>5, <2>2, SizeFacts
      <4> QED BY <1>5, <1>8, <2>2, <4>1
    <3> QED BY <1>2, <1>8, <2>0, <3>1 DEF Origin
  <2>3. CASE n # Len(msg) /\ n # Len(msg) - 1
    <3>1. Refused(bytes) \/ Greedy(bytes)
      BY <1>4, <1>5, <1>6, <2>3, SizeFacts DEF Refused, Greedy, Announced
    <3> QED BY <1>2, <1>8, <2>0, <2>3, <3>1 DEF Origin
  <2> QED BY <2>1, <2>2, <2>3
<1>10. SDWord = 4 /\ SDWord + 1 = 5
  BY SizeFacts
<1> QED BY <1>7, <1>8, <1>9, <1>10 DEF x, bytes, last

-----------------------------------------------------------------------------
(* The invariant.                                                          *)

LEMMA BytesFacts ==
    ASSUME NEW s \in Bytes
    PROVE  /\ Len(s) \in Nat
           /\ s # <<>> <=> Len(s) > 0
BY LenProperties, EmptySeq DEF Bytes

LEMMA EmptyBytes ==
    <<>> \in Bytes /\ Len(<<>>) = 0
BY EmptySeq DEF Bytes

LEMMA JoinAssociative ==
    ASSUME NEW x \in Bytes, NEW y \in Bytes, NEW z \in Bytes
    PROVE  (x \o y) \o z = x \o (y \o z)
<1>1. x \in Seq(0 .. Byte - 1) /\ y \in Seq(0 .. Byte - 1) /\ z \in Seq(0 .. Byte - 1)
  BY DEF Bytes
<1> QED BY <1>1, ConcatAssociative

LEMMA QueueFacts ==
    ASSUME NEW b \in Bytes, NEW w \in Bytes, NEW l \in Bytes
    PROVE  /\ b \o (w \o l) \in Bytes /\ Len(b \o (w \o l)) = Len(b) + Len(w) + Len(l)
           /\ w \o l \in Bytes
<1>1. w \o l \in Bytes /\ Len(w \o l) = Len(w) + Len(l) /\ Len(w) \in Nat /\ Len(l) \in Nat
  BY ConcatFacts
<1>2. b \o (w \o l) \in Bytes /\ Len(b \o (w \o l)) = Len(b) + Len(w \o l) /\ Len(b) \in Nat
  BY <1>1, ConcatFacts
<1>3. Len(b \o (w \o l)) = Len(b) + Len(w) + Len(l)
  BY <1>1, <1>2
<1> QED BY <1>1, <1>2, <1>3, Zenon

\* A write moves bytes along the queue.
LEMMA QueueWrite ==
    ASSUME NEW b \in Bytes, NEW w \in Bytes, NEW l \in Bytes, NEW k \in 0 .. Len(l)
    PROVE  b \o ((w \o SubSeq(l, 1, k)) \o SubSeq(l, k + 1, Len(l))) = b \o (w \o l)
<1> DEFINE y == SubSeq(l, 1, k)
           z == SubSeq(l, k + 1, Len(l))
<1>1. y \in Bytes /\ z \in Bytes
  BY CutFacts
<1>2. y \o z = l
  BY CutFacts
<1> HIDE DEF y, z
<1>3. (w \o y) \o z = w \o (y \o z)
  BY <1>1, JoinAssociative
<1>4. b \o ((w \o y) \o z) = b \o (w \o l)
  BY <1>2, <1>3, Zenon
<1> QED BY <1>4 DEF y, z

\* So does a read.
LEMMA QueueRead ==
    ASSUME NEW b \in Bytes, NEW w \in Bytes, NEW l \in Bytes, NEW k \in 0 .. Len(w)
    PROVE  (b \o SubSeq(w, 1, k)) \o (SubSeq(w, k + 1, Len(w)) \o l) = b \o (w \o l)
<1> DEFINE y == SubSeq(w, 1, k)
           z == SubSeq(w, k + 1, Len(w))
<1>1. y \in Bytes /\ z \in Bytes
  BY CutFacts
<1>2. y \o z = w
  BY CutFacts
<1> HIDE DEF y, z
<1>3. z \o l \in Bytes
  BY <1>1, ConcatFacts
<1>4. (b \o y) \o (z \o l) = b \o (y \o (z \o l))
  BY <1>1, <1>3, JoinAssociative
<1>5. (y \o z) \o l = y \o (z \o l)
  BY <1>1, JoinAssociative
<1>6. (b \o y) \o (z \o l) = b \o (w \o l)
  BY <1>2, <1>4, <1>5, Zenon
<1> QED BY <1>6 DEF y, z

\* A message joins the queue at the end.
LEMMA QueueAdd ==
    ASSUME NEW b \in Bytes, NEW w \in Bytes, NEW l \in Bytes
    PROVE  (b \o (w \o <<>>)) \o l = b \o (w \o l)
<1>1. w \o <<>> = w
  BY ConcatEmptySeq DEF Bytes
<1>2. (b \o w) \o l = b \o (w \o l)
  BY JoinAssociative
<1> QED BY <1>1, <1>2, Zenon

LEMMA FrameInit == Init => FrameInv
<1> SUFFICES ASSUME Init PROVE FrameInv
  OBVIOUS
<1>1. /\ sent = <<>> /\ left = <<>> /\ wire = <<>> /\ buf = <<>> /\ received = <<>>
      /\ eof = FALSE /\ state = "size" /\ num = SDWord
  BY DEF Init
<1>2. Len(sent) = 0 /\ Len(received) = 0 /\ Len(buf) = 0
  BY <1>1, EmptySeq
<1>3. TypesOK
  <2>1. sent \in Seq(Message) /\ received \in Seq(Bytes)
    BY <1>1, EmptySeq
  <2>2. buf \in Bytes /\ wire \in Bytes /\ left \in Bytes
    BY <1>1, EmptyBytes
  <2>3. num \in Nat
    BY <1>1, SizeFacts
  <2>4. eof \in BOOLEAN /\ state \in {"size", "body", "failed"}
    BY <1>1, Zenon
  <2> QED BY <2>1, <2>2, <2>3, <2>4 DEF TypesOK
<1>4. ReaderOK
  BY <1>1, <1>2, SizeFacts DEF ReaderOK
<1>5. Queue \in Bytes /\ Len(Queue) = 0
  BY <1>1, EmptyBytes, QueueFacts DEF Queue
<1>6. Laid([m \in 0 .. 0 |-> 0], 0, sent, Queue)
  <2>1. \A m \in 0 .. 0 - 1 : FALSE
    OBVIOUS
  <2> QED BY <1>2, <1>5, <2>1 DEF Laid
<1> QED BY <1>2, <1>3, <1>4, <1>6 DEF FrameInv

\* The number of messages received and sent.
LEMMA Counts ==
    ASSUME TypesOK
    PROVE  Len(received) \in Nat /\ Len(sent) \in Nat
BY LenProperties DEF TypesOK

LEMMA FrameSend ==
    ASSUME FrameInv, Len(sent) < Len(Fcalls), NEW f \in Fcalls[Len(sent) + 1], Send(f)
    PROVE  FrameInv'
<1>1. /\ TypesOK /\ ReaderOK /\ Len(received) \in Nat /\ Len(sent) \in Nat
      /\ Len(received) <= Len(sent) /\ sent \in Seq(Message)
      /\ \A m \in 1 .. Len(sent) : Sized(sent[m].bytes) /\ Origin(sent[m])
      /\ \A m \in 1 .. Len(received) : received[m] = sent[m].bytes /\ Whole(sent[m].bytes)
  BY Counts DEF FrameInv, TypesOK
<1>2. PICK at : Laid(at, Len(received), sent, Queue)
  BY DEF FrameInv
<1>3. f \in Calls
  <2>1. Len(sent) + 1 \in 1 .. Len(Fcalls)
    BY <1>1, FcallsAssumption
  <2> QED BY <2>1 DEF Calls
<1>4. PICK junk \in Junk :
        LET msg == Fcall2msg(f, Size, junk) IN
        /\ msg # <<>>
        /\ \E n \in Claims(Len(msg)) :
            LET last == IF n = Len(msg) - 1 THEN n ELSE Len(msg)
                bytes == Puint(SDWord, n) \o SubSeq(msg, SDWord + 1, last)
            IN  /\ sent' = Append(sent, [f |-> f, honest |-> n = Len(msg), bytes |-> bytes])
                /\ left' = bytes
  BY DEF Send
<1>5. PICK x : x \in Message /\ Sized(x.bytes) /\ Origin(x) /\ sent' = Append(sent, x) /\ left' = x.bytes
  <2> DEFINE msg == Fcall2msg(f, Size, junk)
             last(n) == IF n = Len(msg) - 1 THEN n ELSE Len(msg)
             bytes(n) == Puint(SDWord, n) \o SubSeq(msg, SDWord + 1, last(n))
             x(n) == [f |-> f, honest |-> n = Len(msg), bytes |-> bytes(n)]
  <2>1. PICK n \in Claims(Len(msg)) : sent' = Append(sent, x(n)) /\ left' = bytes(n)
    BY <1>4
  <2>2. x(n) \in Message /\ Sized(x(n).bytes) /\ Origin(x(n))
    BY <1>3, <1>4, SentFacts
  <2>3. x(n).bytes = bytes(n)
    OBVIOUS
  <2> HIDE DEF x, bytes
  <2> QED BY <2>1, <2>2, <2>3
<1>6. left = <<>> /\ UNCHANGED <<wire, eof, state, buf, num, received>>
  BY DEF Send
<1>16. \A m \in 1 .. Len(sent) : sent[m].honest
  <2>1. DOMAIN sent = 1 .. Len(sent)
    BY <1>1, LenProperties
  <2> QED BY <2>1 DEF Send
<1>7. /\ sent' \in Seq(Message) /\ Len(sent') = Len(sent) + 1
      /\ \A m \in 1 .. Len(sent) : sent'[m] = sent[m]
      /\ sent'[Len(sent) + 1] = x
  BY <1>1, <1>5, AppendMessage
<1>8. TypesOK'
  <2>1. x.bytes \in Bytes
    BY <1>5 DEF Sized
  <2> QED BY <1>1, <1>5, <1>6, <1>7, <2>1 DEF TypesOK
<1>9. ReaderOK'
  <2>1. state = "body" => Len(received) + 1 \in 1 .. Len(sent)
    BY <1>1 DEF ReaderOK
  <2> QED BY <1>1, <1>6, <1>7, <2>1 DEF ReaderOK
<1>10. \A m \in 1 .. Len(sent') : Sized(sent'[m].bytes) /\ Origin(sent'[m])
  <2> SUFFICES ASSUME NEW m \in 1 .. Len(sent) + 1
               PROVE  Sized(sent'[m].bytes) /\ Origin(sent'[m])
    BY <1>7
  <2>1. m \in 1 .. Len(sent) \/ m = Len(sent) + 1
    BY <1>1
  <2> QED BY <1>1, <1>5, <1>7, <2>1
<1>11. Len(received') <= Len(sent')
  BY <1>1, <1>6, <1>7
<1>12. \A m \in 1 .. Len(received') : received'[m] = sent'[m].bytes /\ Whole(sent'[m].bytes)
  <2> SUFFICES ASSUME NEW m \in 1 .. Len(received)
               PROVE  received[m] = sent'[m].bytes /\ Whole(sent'[m].bytes)
    BY <1>6
  <2>1. m \in 1 .. Len(sent)
    BY <1>1
  <2> QED BY <1>1, <1>7, <2>1
<1>13. Queue \in Bytes /\ Queue' = Queue \o x.bytes
  <2>1. buf \in Bytes /\ wire \in Bytes /\ left \in Bytes /\ x.bytes \in Bytes
    BY <1>1, <1>5 DEF TypesOK, Sized
  <2>2. Queue \in Bytes
    BY <2>1, QueueFacts DEF Queue
  <2>3. (buf \o (wire \o <<>>)) \o x.bytes = buf \o (wire \o x.bytes)
    BY <2>1, QueueAdd
  <2>4. Queue = buf \o (wire \o <<>>)
    BY <1>6 DEF Queue
  <2>5. Queue' = buf \o (wire \o x.bytes)
    BY <1>5, <1>6 DEF Queue
  <2> QED BY <2>2, <2>3, <2>4, <2>5, Zenon
<1>14. \E at2 : Laid(at2, Len(received), Append(sent, x), Queue \o x.bytes)
  BY <1>1, <1>2, <1>5, <1>13, LaidAppend
<1>15. \E at2 : Laid(at2, Len(received'), sent', Queue')
  BY <1>5, <1>6, <1>13, <1>14, Zenon
<1>17. HonestBut'
  <2>1. (Len(sent) + 1) - 1 = Len(sent)
    BY <1>1
  <2> QED BY <1>7, <1>16, <2>1 DEF HonestBut
<1> QED BY <1>8, <1>9, <1>10, <1>11, <1>12, <1>15, <1>17 DEF FrameInv

\* A step that moves bytes along the queue, or none, leaves the messages alone.
LEMMA FrameMove ==
    ASSUME FrameInv, TypesOK', ReaderOK', UNCHANGED <<sent, received>>, Queue' = Queue
    PROVE  FrameInv'
BY DEF FrameInv, HonestBut

LEMMA PartsFacts ==
    ASSUME NEW type, NEW n \in Int, NEW k \in Int, k \in Parts(type, n), n >= 0
    PROVE  1 <= k /\ k <= n
BY DEF Parts

LEMMA FrameWrite ==
    ASSUME FrameInv, NEW k \in 1 .. Len(left), WriteSome(k)
    PROVE  FrameInv'
<1>1. buf \in Bytes /\ wire \in Bytes /\ left \in Bytes /\ Len(left) \in Nat
  BY BytesFacts DEF FrameInv, TypesOK
<1>2. /\ wire' = wire \o SubSeq(left, 1, k) /\ left' = SubSeq(left, k + 1, Len(left))
      /\ UNCHANGED <<sent, eof, state, buf, num, received>>
  BY DEF WriteSome
<1>3. k \in 0 .. Len(left)
  BY <1>1
<1>4. Queue' = Queue
  <2>1. buf \o ((wire \o SubSeq(left, 1, k)) \o SubSeq(left, k + 1, Len(left))) = buf \o (wire \o left)
    BY <1>1, <1>3, QueueWrite
  <2>2. Queue' = buf \o ((wire \o SubSeq(left, 1, k)) \o SubSeq(left, k + 1, Len(left)))
    BY <1>2 DEF Queue
  <2> QED BY <2>1, <2>2, Zenon DEF Queue
<1>5. TypesOK'
  <2>1. SubSeq(left, 1, k) \in Bytes /\ SubSeq(left, k + 1, Len(left)) \in Bytes
    BY <1>1, <1>3, CutFacts
  <2>2. wire' \in Bytes /\ left' \in Bytes
    BY <1>1, <1>2, <2>1, ConcatFacts
  <2> QED BY <1>2, <2>2 DEF FrameInv, TypesOK
<1>6. ReaderOK'
  BY <1>2 DEF FrameInv, ReaderOK
<1> QED BY <1>2, <1>4, <1>5, <1>6, FrameMove

LEMMA FrameClose ==
    ASSUME FrameInv, CloseStream
    PROVE  FrameInv'
<1>1. UNCHANGED <<sent, left, wire, state, buf, num, received>> /\ eof' = TRUE
  BY DEF CloseStream
<1>2. Queue' = Queue
  BY <1>1 DEF Queue
<1>3. TypesOK'
  BY <1>1 DEF FrameInv, TypesOK
<1>4. ReaderOK'
  BY <1>1 DEF FrameInv, ReaderOK
<1> QED BY <1>1, <1>2, <1>3, <1>4, FrameMove

LEMMA FrameEof ==
    ASSUME FrameInv, ReadEof
    PROVE  FrameInv'
<1>1. UNCHANGED <<sent, left, wire, eof, buf, num, received>> /\ state' = "failed"
  BY DEF ReadEof
<1>2. Queue' = Queue
  BY <1>1 DEF Queue
<1>3. TypesOK'
  BY <1>1 DEF FrameInv, TypesOK
<1>4. ReaderOK'
  BY <1>1 DEF FrameInv, ReaderOK
<1> QED BY <1>1, <1>2, <1>3, <1>4, FrameMove

\* mread never asks for more than is missing, fits or is there.
LEMMA MostFacts ==
    ASSUME TypesOK, ReaderOK
    PROVE  Most \in Nat /\ Most <= num /\ Most <= Size - Len(buf) /\ Most <= Len(wire)
<1> DEFINE a == num
           b == Size - Len(buf)
           c == Len(wire)
           S == {a, b, c}
<1>1. a \in Nat /\ b \in Nat /\ c \in Nat
  BY BytesFacts, SizeFacts DEF TypesOK, ReaderOK
<1> HIDE DEF a, b, c
<1>2. \E x \in S : \A y \in S : x <= y
  BY <1>1
<1>3. Min(S) \in S /\ \A y \in S : Min(S) <= y
  BY <1>2 DEF Min
<1>4. Most = Min(S)
  BY DEF Most, a, b, c
<1> QED BY <1>1, <1>3, <1>4 DEF a, b, c

LEMMA FrameRead ==
    ASSUME FrameInv, NEW k \in 1 .. Size, ReadSome(k)
    PROVE  FrameInv'
<1>1. /\ buf \in Bytes /\ wire \in Bytes /\ left \in Bytes /\ num \in Nat
      /\ Len(buf) \in Nat /\ Len(wire) \in Nat
      /\ TypesOK /\ ReaderOK
  BY BytesFacts DEF FrameInv, TypesOK
<1>2. /\ buf' = buf \o SubSeq(wire, 1, k) /\ wire' = SubSeq(wire, k + 1, Len(wire))
      /\ num' = num - k
      /\ UNCHANGED <<sent, left, eof, state, received>>
  BY DEF ReadSome
<1>3. k \in Nat /\ 1 <= k /\ k <= num /\ k <= Size - Len(buf) /\ k <= Len(wire)
  <2>1. Most \in Nat /\ Most <= num /\ Most <= Size - Len(buf) /\ Most <= Len(wire)
    BY <1>1, MostFacts
  <2>2. k \in Parts(sent[Len(received) + 1].f.type, Most)
    BY DEF ReadSome
  <2>3. 1 <= k /\ k <= Most
    BY <2>1, <2>2, PartsFacts, SizeFacts
  <2> QED BY <1>1, <2>1, <2>3, SizeFacts
<1>4. k \in 0 .. Len(wire)
  BY <1>1, <1>3
<1>5. Queue' = Queue
  <2>1. (buf \o SubSeq(wire, 1, k)) \o (SubSeq(wire, k + 1, Len(wire)) \o left) = buf \o (wire \o left)
    BY <1>1, <1>4, QueueRead
  <2>2. Queue' = (buf \o SubSeq(wire, 1, k)) \o (SubSeq(wire, k + 1, Len(wire)) \o left)
    BY <1>2 DEF Queue
  <2> QED BY <2>1, <2>2, Zenon DEF Queue
<1>6. /\ SubSeq(wire, 1, k) \in Bytes /\ Len(SubSeq(wire, 1, k)) = k
      /\ SubSeq(wire, k + 1, Len(wire)) \in Bytes
  BY <1>1, <1>4, CutFacts
<1>7. buf' \in Bytes /\ Len(buf') = Len(buf) + k /\ wire' \in Bytes
  BY <1>1, <1>2, <1>6, ConcatFacts
<1>8. num' \in Nat /\ num' + Len(buf') = num + Len(buf) /\ Len(buf') <= Size
  BY <1>1, <1>2, <1>3, <1>7, SizeFacts
<1>9. TypesOK'
  BY <1>1, <1>2, <1>7, <1>8 DEF TypesOK
<1>10. ReaderOK'
  BY <1>1, <1>2, <1>8 DEF ReaderOK
<1> QED BY <1>2, <1>5, <1>9, <1>10, FrameMove

\* The four bytes of the size are those of the message being read.
LEMMA FrameTakeSize ==
    ASSUME FrameInv, TakeSize
    PROVE  FrameInv'
<1>1. /\ TypesOK /\ ReaderOK /\ Len(received) \in Nat /\ Len(sent) \in Nat
      /\ Len(received) <= Len(sent) /\ sent \in Seq(Message)
      /\ \A m \in 1 .. Len(sent) : Sized(sent[m].bytes)
      /\ buf \in Bytes /\ wire \in Bytes /\ left \in Bytes /\ num \in Nat
  BY Counts DEF FrameInv, TypesOK
<1>2. PICK at : Laid(at, Len(received), sent, Queue)
  BY DEF FrameInv
<1> DEFINE msize == UintAt(buf, 1, SDWord)
<1>3. /\ state = "size" /\ num = 0 /\ UNCHANGED <<sent, left, wire, eof, buf, received>>
      /\ IF msize < SDWord \/ TooLarge(msize)
         THEN state' = "failed" /\ UNCHANGED num
         ELSE state' = "body" /\ num' = msize - SDWord
  BY DEF TakeSize
<1>4. Len(buf) = 4
  BY <1>1, <1>3, BytesFacts, SizeFacts DEF ReaderOK
<1>5. Queue \in Bytes /\ Len(Queue) >= 4 /\ \A i \in 1 .. 4 : Queue[i] = buf[i]
  <2>1. wire \o left \in Bytes /\ Len(wire \o left) \in Nat
    BY <1>1, ConcatFacts, BytesFacts
  <2>2. /\ Queue \in Bytes /\ Len(Queue) = Len(buf) + Len(wire \o left)
        /\ \A i \in 1 .. Len(buf) : Queue[i] = buf[i]
    BY <1>1, <2>1, ConcatFacts DEF Queue
  <2> QED BY <1>4, <2>1, <2>2
<1> DEFINE bytes == sent[Len(received) + 1].bytes
<1>6. Len(received) < Len(sent) /\ \A j \in 1 .. Len(bytes) : Queue[j] = bytes[j]
  <2>1. Queue # <<>>
    BY <1>5, BytesFacts
  <2> QED BY <1>1, <1>2, <1>5, <2>1, LaidFront
<1>7. Sized(bytes) /\ bytes \in Bytes /\ Len(bytes) \in Nat /\ 4 <= Len(bytes) /\ Len(bytes) <= Size
  <2>1. Sized(bytes)
    BY <1>1, <1>6
  <2> HIDE DEF bytes
  <2> QED BY <2>1, SizeFacts DEF Sized
<1> HIDE DEF bytes, msize
<1>8. \A i \in 1 .. 4 : buf[i] = bytes[i]
  BY <1>5, <1>6, <1>7
<1>9. msize = UintAt(bytes, 1, SDWord)
  <2>1. Available(buf, 1, 4) /\ Available(bytes, 1, 4)
    BY <1>4, <1>7 DEF Available
  <2>2. \A i \in 1 .. 4 : 1 + i - 1 = i
    OBVIOUS
  <2>3. \A i \in 1 .. 4 : buf[1 + i - 1] = bytes[1 + i - 1]
    BY <1>8, <2>2
  <2>4. buf[1 + 1 - 1] = bytes[1 + 1 - 1] /\ buf[1 + 2 - 1] = bytes[1 + 2 - 1]
    BY <2>3
  <2>5. buf[1 + 3 - 1] = bytes[1 + 3 - 1] /\ buf[1 + 4 - 1] = bytes[1 + 4 - 1]
    BY <2>3
  <2>6. UintAt(buf, 1, 4) = UintAt(bytes, 1, 4)
    BY <2>1, <2>4, <2>5 DEF UintAt
  <2> QED BY <2>6, SizeFacts DEF msize
<1>10. Queue' = Queue
  BY <1>3 DEF Queue
<1>11. CASE msize < SDWord \/ TooLarge(msize)
  <2>1. state' = "failed" /\ num' = num
    BY <1>3, <1>11
  <2>2. TypesOK'
    BY <1>1, <1>3, <2>1 DEF TypesOK
  <2>3. ReaderOK'
    BY <1>1, <1>3, <2>1 DEF ReaderOK
  <2> QED BY <1>3, <1>10, <2>2, <2>3, FrameMove
<1>12. CASE ~(msize < SDWord \/ TooLarge(msize))
  <2>1. state' = "body" /\ num' = msize - SDWord
    BY <1>3, <1>12
  <2>2. ~Refused(bytes) /\ msize = Announced(bytes) /\ msize \in 4 .. Size
    <3>1. msize \in Int
      <4>1. \A i \in 1 .. 4 : bytes[i] \in Nat
        <5>1. \A i \in 1 .. Len(bytes) : bytes[i] \in 0 .. Byte - 1
          BY <1>7, ElementOfSeq DEF Bytes
        <5>2. \A i \in 1 .. 4 : i \in 1 .. Len(bytes)
          BY <1>7
        <5>3. \A x \in 0 .. Byte - 1 : x \in Nat
          BY WeightFacts
        <5> QED BY <5>1, <5>2, <5>3
      <4>2. bytes[1 + 1 - 1] \in Nat /\ bytes[1 + 2 - 1] \in Nat /\ bytes[1 + 3 - 1] \in Nat /\ bytes[1 + 4 - 1] \in Nat
        BY <4>1
      <4>3. UintAt(bytes, 1, 4) \in Int
        BY <4>2, WeightFacts, SMT DEF UintAt
      <4> QED BY <1>9, <4>3, SizeFacts
    <3>2. msize = Announced(bytes)
      BY <1>9 DEF Announced
    <3> QED BY <1>12, <3>1, <3>2, SizeFacts DEF Refused, TooLarge
  <2>3. TypesOK'
    <3>1. num' \in Nat
      BY <1>7, <2>1, <2>2, SizeFacts
    <3> QED BY <1>1, <1>3, <2>1, <3>1 DEF TypesOK
  <2>4. ReaderOK'
    <3>1. num' + Len(buf') = Announced(bytes)
      BY <1>3, <1>4, <1>7, <2>1, <2>2, SizeFacts
    <3> QED BY <1>1, <1>3, <1>6, <2>1, <2>2, <3>1 DEF ReaderOK, bytes
  <2> QED BY <1>3, <1>10, <2>3, <2>4, FrameMove
<1> QED BY <1>11, <1>12

LEMMA FrameTakeBody ==
    ASSUME FrameInv, TakeBody
    PROVE  FrameInv'
<1>1. /\ TypesOK /\ ReaderOK /\ Len(received) \in Nat /\ Len(sent) \in Nat
      /\ Len(received) <= Len(sent) /\ sent \in Seq(Message) /\ received \in Seq(Bytes)
      /\ \A m \in 1 .. Len(sent) : Sized(sent[m].bytes) /\ Origin(sent[m])
      /\ \A m \in 1 .. Len(received) : received[m] = sent[m].bytes /\ Whole(sent[m].bytes)
      /\ buf \in Bytes /\ wire \in Bytes /\ left \in Bytes /\ num \in Nat /\ Len(buf) \in Nat
  BY Counts, BytesFacts DEF FrameInv, TypesOK
<1>2. PICK at : Laid(at, Len(received), sent, Queue)
  BY DEF FrameInv
<1>3. /\ state = "body" /\ num = 0 /\ received' = Append(received, buf)
      /\ state' = "size" /\ buf' = <<>> /\ num' = SDWord
      /\ UNCHANGED <<sent, left, wire, eof>>
  BY DEF TakeBody
<1>5. wire \o left \in Bytes
  BY <1>1, ConcatFacts
<1>4. /\ Len(received) < Len(sent) /\ Len(buf) = Len(sent[Len(received) + 1].bytes)
      /\ Whole(sent[Len(received) + 1].bytes)
  <2> DEFINE r == Len(received)
             bytes == sent[r + 1].bytes
  <2>1. r < Len(sent) /\ Len(buf) = Announced(bytes) /\ ~Refused(bytes)
    BY <1>1, <1>3 DEF ReaderOK
  <2>2. Sized(bytes) /\ Origin(sent[r + 1]) /\ Len(bytes) \in Nat
    BY <1>1, <2>1, SizeFacts DEF Sized
  <2>3. CASE r + 1 < Len(sent)
    <3>1. sent[r + 1].honest
      BY <1>1, <2>3 DEF FrameInv, HonestBut
    <3>2. Whole(bytes)
      BY <2>2, <3>1 DEF Origin
    <3> QED BY <2>1, <3>2 DEF Whole
  <2>4. CASE r + 1 = Len(sent)
    <3>1. Len(Queue) = Len(bytes)
      <4>1. r \in r .. Len(sent) - 1
        BY <1>1, <2>4
      <4>2. at[r + 1] = at[r] + Len(bytes) /\ at[r] = 0 /\ at[Len(sent)] = Len(Queue)
        BY <1>2, <4>1 DEF Laid
      <4> HIDE DEF bytes
      <4> QED BY <2>2, <2>4, <4>2
    <3>2. Len(Queue) = Len(buf) + Len(wire \o left) /\ Len(wire \o left) \in Nat
      BY <1>1, <1>5, ConcatFacts DEF Queue
    <3> HIDE DEF bytes, r
    <3>3. ~Greedy(bytes)
      BY <1>1, <2>1, <2>2, <3>1, <3>2 DEF Greedy
    <3>4. Len(buf) = Len(bytes) /\ Whole(bytes)
      BY <2>1, <2>2, <3>3 DEF Sized, Whole
    <3> QED BY <2>1, <3>4 DEF bytes, r
  <2> QED BY <1>1, <2>1, <2>3, <2>4
<1>6. /\ buf = sent[Len(received) + 1].bytes
      /\ \E at2 : Laid(at2, Len(received) + 1, sent, wire \o left)
  <2>1. Laid(at, Len(received), sent, buf \o (wire \o left))
    BY <1>2 DEF Queue
  <2> QED BY <1>1, <1>4, <1>5, <2>1, LaidDrop
<1>7. /\ received' \in Seq(Bytes) /\ Len(received') = Len(received) + 1
      /\ \A m \in 1 .. Len(received) : received'[m] = received[m]
      /\ received'[Len(received) + 1] = buf
  BY <1>1, <1>3, AppendProperties
<1>8. Queue' = wire \o left
  <2>1. <<>> \o (wire \o left) = wire \o left
    BY <1>5, ConcatEmptySeq DEF Bytes
  <2> QED BY <1>3, <2>1, Zenon DEF Queue
<1>9. TypesOK'
  <2>1. buf' \in Bytes
    BY <1>3, EmptyBytes
  <2>2. num' \in Nat
    BY <1>3, SizeFacts
  <2> QED BY <1>1, <1>3, <1>7, <2>1, <2>2 DEF TypesOK
<1>10. ReaderOK'
  <2>1. Len(buf') = 0 /\ num' + Len(buf') = SDWord /\ 0 <= Size
    BY <1>3, EmptyBytes, SizeFacts
  <2> QED BY <1>3, <2>1 DEF ReaderOK
<1>11. Len(received') <= Len(sent')
  BY <1>1, <1>3, <1>4, <1>7
<1>12. \A m \in 1 .. Len(received') : received'[m] = sent'[m].bytes /\ Whole(sent'[m].bytes)
  <2> SUFFICES ASSUME NEW m \in 1 .. Len(received) + 1
               PROVE  received'[m] = sent[m].bytes /\ Whole(sent[m].bytes)
    BY <1>3, <1>7
  <2>1. m \in 1 .. Len(received) \/ m = Len(received) + 1
    BY <1>1
  <2> QED BY <1>1, <1>4, <1>6, <1>7, <2>1
<1>13. \E at2 : Laid(at2, Len(received'), sent', Queue')
  BY <1>3, <1>6, <1>7, <1>8, Zenon
<1>14. \A m \in 1 .. Len(sent') : Sized(sent'[m].bytes) /\ Origin(sent'[m])
  BY <1>1, <1>3
<1>15. HonestBut'
  BY <1>3 DEF FrameInv, HonestBut
<1> QED BY <1>9, <1>10, <1>11, <1>12, <1>13, <1>14, <1>15 DEF FrameInv

LEMMA FrameStutter ==
    ASSUME FrameInv, UNCHANGED vars
    PROVE  FrameInv'
<1>1. UNCHANGED <<sent, left, wire, eof, state, buf, num, received>>
  BY DEF vars
<1>2. Queue' = Queue
  BY <1>1 DEF Queue
<1>3. TypesOK'
  BY <1>1 DEF FrameInv, TypesOK
<1>4. ReaderOK'
  BY <1>1 DEF FrameInv, ReaderOK
<1> QED BY <1>1, <1>2, <1>3, <1>4, FrameMove

LEMMA FrameNext ==
    ASSUME FrameInv, [Next]_vars
    PROVE  FrameInv'
<1>1. CASE Len(sent) < Len(Fcalls) /\ \E f \in Fcalls[Len(sent) + 1] : Send(f)
  BY <1>1, FrameSend
<1>2. CASE \E k \in 1 .. Len(left) : WriteSome(k)
  BY <1>2, FrameWrite
<1>3. CASE CloseStream
  BY <1>3, FrameClose
<1>4. CASE \E k \in 1 .. Size : ReadSome(k)
  BY <1>4, FrameRead
<1>5. CASE ReadEof
  BY <1>5, FrameEof
<1>6. CASE TakeSize
  BY <1>6, FrameTakeSize
<1>7. CASE TakeBody
  BY <1>7, FrameTakeBody
<1>8. CASE UNCHANGED vars
  BY <1>8, FrameStutter
<1> QED BY <1>1, <1>2, <1>3, <1>4, <1>5, <1>6, <1>7, <1>8 DEF Next, Receive

LEMMA FrameAlways == Spec => []FrameInv
BY FrameInit, FrameNext, PTL DEF Spec

LEMMA FrameImplies == FrameInv => Framed
<1> SUFFICES ASSUME FrameInv PROVE Framed
  OBVIOUS
<1>1. /\ TypesOK /\ ReaderOK /\ Len(received) \in Nat /\ Len(sent) \in Nat
      /\ Len(received) <= Len(sent) /\ received \in Seq(Bytes) /\ buf \in Bytes /\ Len(buf) \in Nat
      /\ \A m \in 1 .. Len(sent) : Sized(sent[m].bytes)
      /\ \A m \in 1 .. Len(received) : received[m] = sent[m].bytes
  BY Counts, BytesFacts DEF FrameInv, TypesOK
<1>2. state = "body" => num + Len(buf) <= Size
  <2> SUFFICES ASSUME state = "body" PROVE num + Len(buf) <= Size
    OBVIOUS
  <2> DEFINE bytes == sent[Len(received) + 1].bytes
  <2>1. Len(received) + 1 \in 1 .. Len(sent) /\ num + Len(buf) = Announced(bytes) /\ ~Refused(bytes)
    BY <1>1 DEF ReaderOK
  <2>2. Len(bytes) \in SDWord .. Size /\ Announced(bytes) \in {Len(bytes), Len(bytes) + 1}
    BY <1>1, <2>1 DEF Sized, Whole, Greedy
  <2> HIDE DEF bytes
  <2> QED BY <2>1, <2>2, SizeFacts DEF Refused
<1>3. TypeOK
  BY <1>1, <1>2 DEF TypeOK, TypesOK, ReaderOK, Bytes
<1>4. DOMAIN received = 1 .. Len(received)
  BY <1>1, LenProperties
<1>5. \A m \in DOMAIN received : m <= Len(sent) /\ received[m] = sent[m].bytes
  BY <1>1, <1>4
<1> QED BY <1>3, <1>5 DEF Framed

\* ixp_sendmsg and ixp_recvmsg: whatever is written in parts, read in parts or cut
\* off, the messages received are the messages sent, in order and whole; the
\* reader's buffer is never overrun, and a message that would not fit is refused.
THEOREM FramedCorrect == Spec => []Framed
BY FrameAlways, FrameImplies, PTL

LEMMA UnpackedImplies ==
    ASSUME Size <= Word, FrameInv
    PROVE  Unpacked
<1> SUFFICES ASSUME received # <<>>
             PROVE  LET m == Len(received)
                        statsize == UintAt(received[m], 14, 2)
                    IN  /\ Msg2fcall(received[m]) = IF sent[m].honest THEN {sent[m].f} ELSE {}
                        /\ sent[m].honest /\ sent[m].f.type = "TWStat"
                                => statsize = Len(received[m]) - 15
  BY DEF Unpacked
<1> DEFINE m == Len(received)
           x == sent[m]
<1>1. /\ Len(sent) \in Nat /\ m \in Nat /\ m <= Len(sent)
      /\ received \in Seq(Bytes) /\ sent \in Seq(Message)
  BY Counts DEF FrameInv, TypesOK
<1>2. m \in 1 .. m /\ m \in 1 .. Len(sent)
  <2>1. m # 0
    BY <1>1, EmptySeq
  <2> QED BY <1>1, <2>1
<1>3. received[m] = x.bytes /\ Whole(x.bytes) /\ Sized(x.bytes) /\ Origin(x)
  BY <1>2 DEF FrameInv
<1>4. x \in Message
  BY <1>1, <1>2, ElementOfSeq
<1> HIDE DEF m, x
<1>5. x.f \in Calls /\ x.honest \in BOOLEAN /\ x.bytes \in Bytes
  BY <1>4 DEF Message
<1>6. PICK junk \in Junk :
        /\ Fcall2msg(x.f, Size, junk) # <<>>
        /\ IF x.honest THEN x.bytes = Fcall2msg(x.f, Size, junk)
           ELSE \/ Refused(x.bytes) \/ Greedy(x.bytes)
                \/ /\ Len(x.bytes) = Len(Fcall2msg(x.f, Size, junk)) - 1
                   /\ \A i \in SDWord + 1 .. Len(x.bytes) : x.bytes[i] = Fcall2msg(x.f, Size, junk)[i]
  BY <1>3 DEF Origin
<1> DEFINE f == x.f
           msg == Fcall2msg(f, Size, junk)
<1>7. IsFcall(f) /\ junk \in Nat /\ Size \in Nat /\ msg # <<>>
  BY <1>5, <1>6, CallFacts, SizeAssumption
<1>8. msg \in Bytes /\ Len(msg) \in 7 .. Size
  BY <1>5, <1>7, MessageFacts
<1>9. CASE x.honest
  <2>1. x.bytes = msg
    BY <1>6, <1>9
  <2>2. Cut(msg, msg)
    BY <1>8 DEF Cut, SDWord
  <2>3. Msg2fcall(msg) = {f}
    BY <1>7, <2>2, UnpackFacts
  <2>4. f.type = "TWStat" => UintAt(msg, 14, 2) = Len(msg) - 15
    BY <1>7, StatSize
  <2> HIDE DEF msg
  <2> QED BY <1>3, <1>9, <2>1, <2>3, <2>4 DEF m, x
<1>10. CASE ~x.honest
  <2>0. ~Refused(x.bytes) /\ ~Greedy(x.bytes)
    BY <1>3, SizeFacts DEF Sized, Whole, Refused, Greedy
  <2>1. /\ Len(x.bytes) = Len(msg) - 1
        /\ \A i \in SDWord + 1 .. Len(x.bytes) : x.bytes[i] = msg[i]
    BY <1>6, <1>10, <2>0
  <2>2. Cut(x.bytes, msg) /\ Len(x.bytes) # Len(msg)
    BY <1>5, <1>8, <2>1 DEF Cut
  <2>3. Msg2fcall(x.bytes) = {}
    BY <1>7, <2>2, UnpackFacts
  <2> HIDE DEF msg
  <2> QED BY <1>3, <1>10, <2>3 DEF m, x
<1> QED BY <1>5, <1>9, <1>10

\* What ixp_recvmsg returned unpacks to the fcall that was packed, for any fcalls
\* and any way the stream is split; a message that announces fewer bytes than it
\* needs is refused, and the size in a stat counts what follows it.  That size is
\* a uint16_t: buffers are of at most 2^16 bytes (IXP_MAX_MSG is 8192).
THEOREM UnpackedCorrect ==
    ASSUME Size <= Word
    PROVE  Spec => []Unpacked
<1>1. FrameInv => Unpacked
  BY UnpackedImplies
<1> QED BY <1>1, FrameAlways, PTL
=============================================================================
