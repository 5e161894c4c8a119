--------------------------- MODULE ClientIOProofs ---------------------------
(***************************************************************************)
(* Reading and writing through a shared IxpCFid, for any number of threads *)
(* and calls, any iounit and any file: a foreign one, a buffer of          *)
(* ixp_srv_readbuf and writebuf, or a directory of ixp_srv_readdir, whose  *)
(* loop over a listing of any length is reasoned about by induction.       *)
(***************************************************************************)
EXTENDS ClientIO, SequenceTheorems, WellFoundedInduction, TLAPS

CallType == [kind : {"read", "pread", "write", "pwrite"}, count : Nat,
             base : 0 .. UintMod + MaxCount, again : BOOLEAN]

Busy(t) == pc[t] \in {"chunk", "unlock"}

\* A buffer is within its limit.
SizeOK ==
    file.kind = "buffer" => file.size <= Limit(file.max) /\ file.max < UintMod

BaseOK ==
    /\ iounit \in 0 .. Msize - 24
    /\ offset \in 0 .. UintMod - 1
    /\ holder \in Threads \cup {Nil}
    /\ pc \in [Threads -> {"idle", "lock", "chunk", "unlock"}]
    /\ call \in [Threads -> CallType]
    /\ \A t \in Threads : call[t].count \in 0 .. MaxCount \/ call[t].count = iounit
    /\ len \in [Threads -> Nat]
    /\ ret \in [Threads -> Nat \cup {-1}]
    /\ data \in [Threads -> Seq(Nat)]
    /\ ncalls \in 0 .. MaxCalls
    /\ stream \in Seq(Nat)
    /\ overrun \in BOOLEAN /\ parity \in {0, 1}

\* t writes to the end of an append-only buffer, wherever it says.
ToEnd(t) == file.kind = "buffer" /\ file.append /\ ~Reads(t)

\* What t has transferred so far.  A write to a buffer leaves the end of the
\* buffer where the next chunk goes, which is why a transfer in chunks is
\* contiguous also when the file is append-only.
TransferOK(t) ==
    Busy(t) =>
        /\ holder = t
        /\ len[t] <= call[t].count
        /\ Stored(t) => call[t].base = offset
        /\ pc[t] = "unlock" => ret[t] \in {-1, len[t]}
        /\ \E first \in 0 .. UintMod + MaxCount :
            /\ data[t] = Run(first, len[t])
            /\ first = call[t].base \/ ToEnd(t)
            /\ file.kind = "buffer" /\ ~Reads(t) /\ len[t] > 0 => file.size = first + len[t]

\* The stored offset is how much was transferred, until it wraps.
StreamOK ==
    ~file.append /\ Len(stream) < UintMod =>
        offset = Len(stream) /\ stream = Run(0, Len(stream))

\* A file that is no directory, and whose server reported no more than it was given.
Bytewise == file.kind # "dir" /\ ~overrun

\* The inductive invariant.
IOInv ==
    /\ file \in FileType
    /\ overrun => file.kind # "buffer"
    /\ Bytewise =>
        /\ SizeOK
        /\ BaseOK
        /\ \A t \in Threads : TransferOK(t)
        /\ StreamOK

-----------------------------------------------------------------------------
(* Runs of positions.                                                      *)

\* Run(from, n) is the n positions that begin with from.
LEMMA RunFacts ==
    ASSUME NEW from \in Nat, NEW n \in Nat
    PROVE  /\ Run(from, n) \in Seq(Nat) /\ Len(Run(from, n)) = n
           /\ \A i \in 1 .. n : Run(from, n)[i] = from + i - 1
<1>1. Run(from, n) \in [1 .. n -> Nat]
  BY DEF Run
<1>2. Run(from, n) \in Seq(Nat) /\ Len(Run(from, n)) = n
  BY <1>1, IsASeq, LenProperties
<1> QED BY <1>2 DEF Run

\* Two runs, one behind the other, are one.
LEMMA RunsJoin ==
    ASSUME NEW from \in Nat, NEW m \in Nat, NEW n \in Nat
    PROVE  Run(from, m) \o Run(from + m, n) = Run(from, m + n)
<1> DEFINE a == Run(from, m)
           b == Run(from + m, n)
           c == Run(from, m + n)
<1>1. /\ a \in Seq(Nat) /\ Len(a) = m /\ \A i \in 1 .. m : a[i] = from + i - 1
      /\ b \in Seq(Nat) /\ Len(b) = n /\ \A i \in 1 .. n : b[i] = from + m + i - 1
      /\ c \in Seq(Nat) /\ Len(c) = m + n /\ \A i \in 1 .. m + n : c[i] = from + i - 1
  <2>1. from + m \in Nat /\ m + n \in Nat
    OBVIOUS
  <2> HIDE DEF a, b, c
  <2>2. a \in Seq(Nat) /\ Len(a) = m /\ \A i \in 1 .. m : a[i] = from + i - 1
    BY RunFacts DEF a
  <2>3. b \in Seq(Nat) /\ Len(b) = n /\ \A i \in 1 .. n : b[i] = from + m + i - 1
    BY <2>1, RunFacts DEF b
  <2>4. c \in Seq(Nat) /\ Len(c) = m + n /\ \A i \in 1 .. m + n : c[i] = from + i - 1
    BY <2>1, RunFacts DEF c
  <2> QED BY <2>2, <2>3, <2>4
<1> HIDE DEF a, b, c
<1>2. /\ a \o b \in Seq(Nat) /\ Len(a \o b) = m + n
      /\ \A i \in 1 .. m + n : (a \o b)[i] = IF i <= m THEN a[i] ELSE b[i - m]
  BY <1>1, ConcatProperties
<1>3. ASSUME NEW i \in 1 .. m + n PROVE (a \o b)[i] = c[i]
  <2>1. CASE i <= m
    BY <1>1, <1>2, <2>1
  <2>2. CASE ~(i <= m)
    <3>1. i - m \in 1 .. n
      BY <2>2
    <3> QED BY <1>1, <1>2, <2>2, <3>1
  <2> QED BY <2>1, <2>2
<1>4. a \o b = c
  BY <1>1, <1>2, <1>3, SeqEqual
<1> QED BY <1>4 DEF a, b, c

\* What fits into a uint is stored as it is.
LEMMA SmallMod ==
    ASSUME NEW x \in Nat, x < UintMod
    PROVE  x % UintMod = x
BY SrvFileAssumption

\* Anything stored in a uint is in its range.
LEMMA ModRange ==
    ASSUME NEW x \in Nat
    PROVE  x % UintMod \in 0 .. UintMod - 1
BY SrvFileAssumption

-----------------------------------------------------------------------------
(* Induction.                                                              *)

\* A set of numbers has a least one.
LEMMA LeastNumber ==
    ASSUME NEW S, S \subseteq Nat, S # {}
    PROVE  \E x \in S : \A y \in S : x <= y
<1> DEFINE R == OpToRel(<, Nat)
<1>1. \E x \in S : \A y \in S : ~ (<<y, x>> \in R)
  <2>1. IsWellFoundedOn(R, Nat)
    BY NatLessThanWellFounded
  <2> HIDE DEF R
  <2> QED BY <2>1, WFMin
<1>2. PICK x \in S : \A y \in S : ~ (<<y, x>> \in R)
  BY <1>1
<1>3. \A y \in S : x <= y
  <2> TAKE y \in S
  <2>1. x \in Nat /\ y \in Nat
    OBVIOUS
  <2>2. y < x => <<y, x>> \in R
    BY <2>1 DEF OpToRel
  <2> HIDE DEF R
  <2>3. ~(y < x)
    BY <1>2, <2>2
  <2> QED BY <2>1, <2>3
<1> QED BY <1>3

\* Induction up to n, with a set for what holds of a number.
LEMMA Induction ==
    ASSUME NEW n \in Nat, NEW S, 0 \in S, \A k \in 0 .. n - 1 : k \in S => k + 1 \in S
    PROVE  n \in S
<1> DEFINE T == {k \in 0 .. n : k \notin S}
<1> SUFFICES T = {}
  OBVIOUS
<1> SUFFICES ASSUME T # {} PROVE FALSE
  OBVIOUS
<1>1. PICK x \in T : \A y \in T : x <= y
  <2>1. T \subseteq Nat
    OBVIOUS
  <2> HIDE DEF T
  <2> QED BY <2>1, LeastNumber
<1>2. x \in 0 .. n /\ x \notin S /\ x # 0
  OBVIOUS
<1>3. x - 1 \in 0 .. n - 1 /\ x - 1 \in 0 .. n /\ (x - 1) + 1 = x /\ ~(x <= x - 1)
  BY <1>2
<1>4. x - 1 \in S
  BY <1>1, <1>3
<1> QED BY <1>2, <1>3, <1>4

-----------------------------------------------------------------------------
(* Listings.                                                               *)

\* The sums that Bytes adds up.
LEMMA BytesStates ==
    ASSUME NEW sizes, NEW seq, Len(seq) \in Nat
    PROVE  \E sum : /\ sum[0] = 0 /\ Bytes(sizes, seq) = sum[Len(seq)]
                    /\ \A k \in 0 .. Len(seq) - 1 : sum[k + 1] = sum[k] + sizes[seq[k + 1]]
<1> DEFINE n == Len(seq)
           Sum(g, k) == IF k = 0 THEN 0 ELSE g[k - 1] + sizes[seq[k]]
           Until(g, k) == g = [j \in 0 .. k |-> Sum(g, j)]
           sum == CHOOSE g : Until(g, n)
<1>1. n \in Nat
  OBVIOUS
<1>2. Bytes(sizes, seq) = sum[n]
  BY DEF Bytes
<1>3. \E g : Until(g, n)
  <2> DEFINE S == {k \in 0 .. n : \E g : Until(g, k)}
  <2>1. 0 \in S
    <3>1. Until([j \in 0 .. 0 |-> 0], 0)
      OBVIOUS
    <3>2. 0 \in 0 .. n
      BY <1>1
    <3> HIDE DEF Until
    <3> QED BY <3>1, <3>2
  <2>2. ASSUME NEW k \in 0 .. n - 1, k \in S PROVE k + 1 \in S
    <3>1. PICK g : Until(g, k)
      BY <2>2
    <3> DEFINE h == [j \in 0 .. k + 1 |-> IF j = k + 1 THEN Sum(g, j) ELSE g[j]]
    <3>2. ASSUME NEW j \in 0 .. k + 1 PROVE h[j] = Sum(h, j)
      <4>1. j # 0 => j - 1 \in 0 .. k + 1 /\ j - 1 # k + 1 /\ h[j - 1] = g[j - 1]
        BY <1>1
      <4>2. Sum(h, j) = Sum(g, j)
        BY <4>1
      <4>3. CASE j = k + 1
        BY <4>2, <4>3
      <4>4. CASE j # k + 1
        <5>1. j \in 0 .. k
          BY <1>1, <4>4
        <5>2. g[j] = Sum(g, j)
          BY <3>1, <5>1
        <5> QED BY <4>2, <4>4, <5>2
      <4> QED BY <4>3, <4>4
    <3>3. h = [j \in 0 .. k + 1 |-> h[j]]
      OBVIOUS
    <3> HIDE DEF h, Sum
    <3>4. Until(h, k + 1)
      BY <3>2, <3>3
    <3>5. k + 1 \in 0 .. n
      BY <1>1
    <3> HIDE DEF Until
    <3> QED BY <3>4, <3>5
  <2> HIDE DEF S
  <2>3. n \in S
    BY <1>1, <2>1, <2>2, Induction
  <2> QED BY <2>3 DEF S
<1>4. Until(sum, n)
  <2> HIDE DEF Until
  <2> QED BY <1>3
<1> HIDE DEF sum
<1>5. sum[0] = 0 /\ \A k \in 0 .. n - 1 : sum[k + 1] = sum[k] + sizes[seq[k + 1]]
  <2>1. ASSUME NEW k \in 0 .. n PROVE sum[k] = Sum(sum, k)
    <3> HIDE DEF Sum
    <3> QED BY <1>4
  <2>2. 0 \in 0 .. n
    BY <1>1
  <2>3. ASSUME NEW k \in 0 .. n - 1 PROVE sum[k + 1] = sum[k] + sizes[seq[k + 1]]
    <3>1. k + 1 \in 0 .. n /\ k + 1 # 0 /\ (k + 1) - 1 = k
      BY <1>1
    <3>2. sum[k + 1] = Sum(sum, k + 1)
      BY <2>1, <3>1
    <3> QED BY <3>1, <3>2
  <2> QED BY <2>1, <2>2, <2>3
<1> QED BY <1>2, <1>5

\* Whatever adds up the same is the same sum.
LEMMA BytesUnique ==
    ASSUME NEW sizes, NEW seq, Len(seq) \in Nat, NEW f, f[0] = 0,
           \A k \in 0 .. Len(seq) - 1 : f[k + 1] = f[k] + sizes[seq[k + 1]]
    PROVE  Bytes(sizes, seq) = f[Len(seq)]
<1> DEFINE n == Len(seq)
<1>1. PICK sum : /\ sum[0] = 0 /\ Bytes(sizes, seq) = sum[n]
                 /\ \A k \in 0 .. n - 1 : sum[k + 1] = sum[k] + sizes[seq[k + 1]]
  BY BytesStates
<1> DEFINE S == {k \in 0 .. n : sum[k] = f[k]}
<1>2. n \in Nat
  OBVIOUS
<1>3. 0 \in S
  BY <1>1, <1>2
<1>4. ASSUME NEW k \in 0 .. n - 1, k \in S PROVE k + 1 \in S
  <2>1. k + 1 \in 0 .. n
    BY <1>2
  <2> QED BY <1>1, <1>4, <2>1
<1> HIDE DEF S
<1>5. n \in S
  BY <1>2, <1>3, <1>4, Induction
<1> QED BY <1>1, <1>5 DEF S

\* The bytes that the first n entries take.
Before(sizes, n) == Bytes(sizes, Run(1, n))

\* Each entry adds its size.
LEMMA BeforeStep ==
    ASSUME NEW sizes, NEW n \in Nat
    PROVE  Before(sizes, 0) = 0 /\ Before(sizes, n + 1) = Before(sizes, n) + sizes[n + 1]
<1> DEFINE r == Run(1, n)
           q == Run(1, n + 1)
<1>1. Len(r) = n /\ \A i \in 1 .. n : r[i] = i
  <2>1. Len(r) = n /\ \A i \in 1 .. n : r[i] = 1 + i - 1
    BY RunFacts
  <2> QED BY <2>1
<1>2. Len(q) = n + 1 /\ n + 1 \in Nat /\ \A i \in 1 .. n + 1 : q[i] = i
  <2>1. n + 1 \in Nat
    OBVIOUS
  <2>2. Len(q) = n + 1 /\ \A i \in 1 .. n + 1 : q[i] = 1 + i - 1
    BY <2>1, RunFacts
  <2> QED BY <2>1, <2>2
<1> HIDE DEF r, q
<1>3. PICK sum : /\ sum[0] = 0 /\ Bytes(sizes, q) = sum[Len(q)]
                 /\ \A k \in 0 .. Len(q) - 1 : sum[k + 1] = sum[k] + sizes[q[k + 1]]
  <2>1. Len(q) \in Nat
    BY <1>2
  <2> QED BY <2>1, BytesStates
<1>4. ASSUME NEW k \in 0 .. n PROVE sum[k + 1] = sum[k] + sizes[k + 1]
  BY <1>2, <1>3
<1>5. \A k \in 0 .. Len(r) - 1 : sum[k + 1] = sum[k] + sizes[r[k + 1]]
  BY <1>1, <1>4
<1>6. Bytes(sizes, r) = sum[n]
  BY <1>1, <1>3, <1>5, BytesUnique
<1>7. Before(sizes, 0) = 0
  <2> DEFINE z == Run(1, 0)
  <2>1. Len(z) = 0
    BY RunFacts
  <2> HIDE DEF z
  <2>2. PICK s : s[0] = 0 /\ Bytes(sizes, z) = s[0]
    BY <2>1, BytesStates
  <2> QED BY <2>2 DEF Before, z
<1>8. sum[n + 1] = sum[n] + sizes[n + 1]
  BY <1>4
<1>9. Bytes(sizes, q) = sum[n + 1]
  BY <1>2, <1>3
<1> QED BY <1>6, <1>7, <1>8, <1>9 DEF Before, r, q

\* Sizes are numbers, and so are their sums.
LEMMA BeforeType ==
    ASSUME NEW sizes \in Seq(Nat), NEW n \in 0 .. Len(sizes)
    PROVE  Before(sizes, n) \in Nat
<1> DEFINE S == {k \in 0 .. n : Before(sizes, k) \in Nat}
<1>1. n \in Nat /\ Len(sizes) \in Nat
  OBVIOUS
<1>2. 0 \in S
  BY <1>1, BeforeStep
<1>3. ASSUME NEW k \in 0 .. n - 1, k \in S PROVE k + 1 \in S
  <2>1. k \in Nat /\ k + 1 \in 0 .. n /\ k + 1 \in 1 .. Len(sizes)
    BY <1>1
  <2>2. sizes[k + 1] \in Nat
    BY <2>1, ElementOfSeq
  <2>3. Before(sizes, k + 1) = Before(sizes, k) + sizes[k + 1]
    BY <2>1, BeforeStep
  <2> QED BY <1>3, <2>1, <2>2, <2>3
<1> HIDE DEF S
<1>4. n \in S
  BY <1>1, <1>2, <1>3, Induction
<1> QED BY <1>4 DEF S

\* Entries in the middle of a listing.
LEMMA BytesBetween ==
    ASSUME NEW sizes \in Seq(Nat), NEW m \in Nat, NEW n \in Nat, m + n <= Len(sizes)
    PROVE  Bytes(sizes, Run(m + 1, n)) = Before(sizes, m + n) - Before(sizes, m)
<1> DEFINE r == Run(m + 1, n)
           f == [k \in 0 .. n |-> Before(sizes, m + k) - Before(sizes, m)]
<1>1. Len(r) = n /\ \A i \in 1 .. n : r[i] = m + i
  <2>1. m + 1 \in Nat
    OBVIOUS
  <2>2. Len(r) = n /\ \A i \in 1 .. n : r[i] = (m + 1) + i - 1
    BY <2>1, RunFacts
  <2> QED BY <2>2
<1>2. \A k \in 0 .. n : Before(sizes, m + k) \in Nat /\ m + k \in Nat
  <2>1. \A k \in 0 .. n : m + k \in 0 .. Len(sizes)
    OBVIOUS
  <2> QED BY <2>1, BeforeType
<1>3. f[0] = 0
  <2>1. m + 0 = m /\ 0 \in 0 .. n
    OBVIOUS
  <2>2. Before(sizes, m) \in Nat
    BY <1>2, <2>1
  <2> QED BY <2>1, <2>2
<1>4. ASSUME NEW k \in 0 .. n - 1 PROVE f[k + 1] = f[k] + sizes[r[k + 1]]
  <2>1. k \in 0 .. n /\ k + 1 \in 0 .. n /\ k + 1 \in 1 .. n /\ m + (k + 1) = (m + k) + 1
    OBVIOUS
  <2>2. Before(sizes, (m + k) + 1) = Before(sizes, m + k) + sizes[(m + k) + 1]
    BY <1>2, <2>1, BeforeStep
  <2>3. r[k + 1] = (m + k) + 1
    BY <1>1, <2>1
  <2>4. Before(sizes, m) \in Nat /\ Before(sizes, m + k) \in Nat /\ sizes[(m + k) + 1] \in Nat
    <3>1. m \in 0 .. Len(sizes) /\ (m + k) + 1 \in 1 .. Len(sizes)
      OBVIOUS
    <3> QED BY <1>2, <2>1, <3>1, BeforeType, ElementOfSeq
  <2>5. f[k] = Before(sizes, m + k) - Before(sizes, m)
    BY <2>1
  <2>6. f[k + 1] = Before(sizes, (m + k) + 1) - Before(sizes, m)
    BY <2>1
  <2> HIDE DEF f, r
  <2> QED BY <2>2, <2>3, <2>4, <2>5, <2>6
<1>5. f[n] = Before(sizes, m + n) - Before(sizes, m)
  OBVIOUS
<1> HIDE DEF f, r
<1>6. Bytes(sizes, r) = f[Len(r)]
  <2>1. Len(r) \in Nat /\ \A k \in 0 .. Len(r) - 1 : f[k + 1] = f[k] + sizes[r[k + 1]]
    BY <1>1, <1>4
  <2> QED BY <1>3, <2>1, BytesUnique
<1> QED BY <1>1, <1>5, <1>6 DEF r

\* An entry at the end changes nothing before it.
LEMMA BeforeAppend ==
    ASSUME NEW sizes \in Seq(Nat), NEW x \in Nat, NEW n \in 0 .. Len(sizes)
    PROVE  Before(Append(sizes, x), n) = Before(sizes, n)
<1> DEFINE d == Append(sizes, x)
           S == {k \in 0 .. n : Before(d, k) = Before(sizes, k)}
<1>1. n \in Nat /\ Len(sizes) \in Nat
  OBVIOUS
<1>2. 0 \in S
  <2>1. Before(d, 0) = 0 /\ Before(sizes, 0) = 0
    BY <1>1, BeforeStep
  <2> QED BY <1>1, <2>1
<1>3. ASSUME NEW k \in 0 .. n - 1, k \in S PROVE k + 1 \in S
  <2>1. k \in Nat /\ k + 1 \in 0 .. n /\ k + 1 \in 1 .. Len(sizes)
    BY <1>1
  <2>2. d[k + 1] = sizes[k + 1]
    BY <2>1, AppendProperties
  <2> HIDE DEF d
  <2>3. /\ Before(d, k + 1) = Before(d, k) + d[k + 1]
        /\ Before(sizes, k + 1) = Before(sizes, k) + sizes[k + 1]
    BY <2>1, BeforeStep
  <2> QED BY <1>3, <2>1, <2>2, <2>3
<1> HIDE DEF S
<1>4. n \in S
  BY <1>1, <1>2, <1>3, Induction
<1> QED BY <1>4 DEF S

\* No entry is empty, so sums grow by one at least.
LEMMA BeforeGrows ==
    ASSUME NEW sizes \in Seq(Nat), \A i \in DOMAIN sizes : sizes[i] > 0,
           NEW m \in Nat, NEW n \in Nat, m + n <= Len(sizes)
    PROVE  Before(sizes, m) + n <= Before(sizes, m + n)
<1> DEFINE S == {k \in 0 .. n : Before(sizes, m) + k <= Before(sizes, m + k)}
<1>1. /\ Len(sizes) \in Nat /\ DOMAIN sizes = 1 .. Len(sizes)
      /\ \A k \in 0 .. n : m + k \in 0 .. Len(sizes)
  OBVIOUS
<1>2. \A k \in 0 .. n : Before(sizes, m + k) \in Nat
  BY <1>1, BeforeType
<1>3. Before(sizes, m) \in Nat /\ 0 \in S
  <2>1. m + 0 = m /\ 0 \in 0 .. n
    OBVIOUS
  <2>2. Before(sizes, m) \in Nat
    BY <1>2, <2>1
  <2> QED BY <2>1, <2>2
<1>4. ASSUME NEW k \in 0 .. n - 1, k \in S PROVE k + 1 \in S
  <2>1. m + k \in Nat /\ k + 1 \in 0 .. n /\ k \in 0 .. n /\ (m + k) + 1 \in 1 .. Len(sizes)
        /\ m + (k + 1) = (m + k) + 1
    BY <1>1
  <2>2. sizes[(m + k) + 1] \in Nat /\ sizes[(m + k) + 1] > 0
    BY <1>1, <2>1, ElementOfSeq
  <2>3. Before(sizes, (m + k) + 1) = Before(sizes, m + k) + sizes[(m + k) + 1]
    BY <2>1, BeforeStep
  <2>4. Before(sizes, m) + k <= Before(sizes, m + k) /\ Before(sizes, m + k) \in Nat
    BY <1>2, <1>4, <2>1
  <2>5. Before(sizes, m) + (k + 1) <= Before(sizes, m + (k + 1))
    BY <1>3, <2>1, <2>2, <2>3, <2>4
  <2> QED BY <2>1, <2>5
<1> HIDE DEF S
<1>5. n \in S
  BY <1>3, <1>4, Induction
<1> QED BY <1>5 DEF S

-----------------------------------------------------------------------------
(* ixp_srv_readdir.                                                        *)

\* One entry, and the state before the first.
PackEntry(sizes, from, a, i) ==
    IF sizes[i] = 0 \/ a.full THEN a
    ELSE IF a.offset < from THEN [a EXCEPT !.offset = @ + sizes[i]]
    ELSE IF a.size < sizes[i] THEN [a EXCEPT !.full = TRUE]
    ELSE [a EXCEPT !.offset = @ + sizes[i], !.size = @ - sizes[i], !.packed = Append(@, i)]

\* One state for every entry.
LEMMA PackStates ==
    ASSUME NEW sizes, Len(sizes) \in Nat, NEW from, NEW size
    PROVE  \E after : /\ after[0] = Fresh(size)
                      /\ Readdir(sizes, from, size) = after[Len(sizes)].packed
                      /\ \A k \in 0 .. Len(sizes) - 1 :
                            after[k + 1] = PackEntry(sizes, from, after[k], k + 1)
<1> DEFINE n == Len(sizes)
           Then(g, k) == IF k = 0 THEN Fresh(size) ELSE PackEntry(sizes, from, g[k - 1], k)
           Until(g, k) == g = [j \in 0 .. k |-> Then(g, j)]
           after == CHOOSE g : Until(g, n)
<1>1. n \in Nat
  OBVIOUS
<1>2. Readdir(sizes, from, size) = after[n].packed
  BY DEF Readdir, PackEntry, Fresh
<1>3. \E g : Until(g, n)
  <2> DEFINE S == {k \in 0 .. n : \E g : Until(g, k)}
  <2>1. 0 \in S
    <3>1. Until([j \in 0 .. 0 |-> Fresh(size)], 0)
      OBVIOUS
    <3>2. 0 \in 0 .. n
      BY <1>1
    <3> HIDE DEF Until
    <3> QED BY <3>1, <3>2
  <2>2. ASSUME NEW k \in 0 .. n - 1, k \in S PROVE k + 1 \in S
    <3>1. PICK g : Until(g, k)
      BY <2>2
    <3> DEFINE h == [j \in 0 .. k + 1 |-> IF j = k + 1 THEN Then(g, j) ELSE g[j]]
    <3>2. ASSUME NEW j \in 0 .. k + 1 PROVE h[j] = Then(h, j)
      <4>1. j # 0 => j - 1 \in 0 .. k + 1 /\ j - 1 # k + 1 /\ h[j - 1] = g[j - 1]
        BY <1>1
      <4>2. Then(h, j) = Then(g, j)
        BY <4>1
      <4>3. CASE j = k + 1
        BY <4>2, <4>3
      <4>4. CASE j # k + 1
        <5>1. j \in 0 .. k
          BY <1>1, <4>4
        <5>2. g[j] = Then(g, j)
          BY <3>1, <5>1
        <5> QED BY <4>2, <4>4, <5>2
      <4> QED BY <4>3, <4>4
    <3>3. h = [j \in 0 .. k + 1 |-> h[j]]
      OBVIOUS
    <3> HIDE DEF h, Then
    <3>4. Until(h, k + 1)
      BY <3>2, <3>3
    <3>5. k + 1 \in 0 .. n
      BY <1>1
    <3> HIDE DEF Until
    <3> QED BY <3>4, <3>5
  <2> HIDE DEF S
  <2>3. n \in S
    BY <1>1, <2>1, <2>2, Induction
  <2> QED BY <2>3 DEF S
<1>4. Until(after, n)
  <2> HIDE DEF Until
  <2> QED BY <1>3
<1> HIDE DEF after
<1>5. /\ after[0] = Fresh(size)
      /\ \A k \in 0 .. n - 1 : after[k + 1] = PackEntry(sizes, from, after[k], k + 1)
  <2>1. ASSUME NEW k \in 0 .. n PROVE after[k] = Then(after, k)
    <3> HIDE DEF Then
    <3> QED BY <1>4
  <2>2. 0 \in 0 .. n
    BY <1>1
  <2>3. ASSUME NEW k \in 0 .. n - 1 PROVE after[k + 1] = PackEntry(sizes, from, after[k], k + 1)
    <3>1. k + 1 \in 0 .. n /\ k + 1 # 0 /\ (k + 1) - 1 = k
      BY <1>1
    <3>2. after[k + 1] = Then(after, k + 1)
      BY <2>1, <3>1
    <3> QED BY <3>1, <3>2
  <2> QED BY <2>1, <2>2, <2>3
<1> QED BY <1>2, <1>5

\* The state of the loop before entry i + 1, when it looks for the end of the
\* first m entries: n entries are packed, or one did not fit behind them.
Reached(sizes, m, size, i, a) ==
    IF i <= m
    THEN a = [offset |-> Before(sizes, i), size |-> size, full |-> FALSE, packed |-> <<>>]
    ELSE \E n \in 0 .. i - m :
            /\ Before(sizes, m + n) - Before(sizes, m) <= size
            /\ \/ /\ n = i - m
                  /\ a = [offset |-> Before(sizes, i), full |-> FALSE, packed |-> Run(m + 1, n),
                          size |-> size - (Before(sizes, m + n) - Before(sizes, m))]
               \/ /\ n < i - m
                  /\ a.full /\ a.packed = Run(m + 1, n)
                  /\ Before(sizes, (m + n) + 1) - Before(sizes, m) > size

\* A run and the next.
LEMMA RunAppend ==
    ASSUME NEW from \in Nat, NEW n \in Nat
    PROVE  Append(Run(from, n), from + n) = Run(from, n + 1)
<1> DEFINE a == Run(from, n)
           b == Append(a, from + n)
           c == Run(from, n + 1)
<1>1. a \in Seq(Nat) /\ Len(a) = n /\ \A i \in 1 .. n : a[i] = from + i - 1
  BY RunFacts
<1>2. n + 1 \in Nat /\ from + n \in Nat
  OBVIOUS
<1>3. c \in Seq(Nat) /\ Len(c) = n + 1 /\ \A i \in 1 .. n + 1 : c[i] = from + i - 1
  BY <1>2, RunFacts
<1> HIDE DEF a, c
<1>4. /\ b \in Seq(Nat) /\ Len(b) = n + 1 /\ b[n + 1] = from + n
      /\ \A i \in 1 .. n : b[i] = a[i]
  BY <1>1, <1>2, AppendProperties
<1> HIDE DEF b
<1>5. \A i \in 1 .. Len(b) : b[i] = c[i]
  BY <1>1, <1>3, <1>4
<1>6. b = c
  BY <1>3, <1>4, <1>5, SeqEqual
<1> QED BY <1>6 DEF a, b, c

\* One entry more takes the loop from one such state to the next.
LEMMA ReachedStep ==
    ASSUME NEW sizes \in Seq(Nat), \A i \in DOMAIN sizes : sizes[i] > 0,
           NEW m \in 0 .. Len(sizes), NEW size \in Nat, NEW i \in 0 .. Len(sizes) - 1,
           NEW a, Reached(sizes, m, size, i, a)
    PROVE  Reached(sizes, m, size, i + 1, PackEntry(sizes, Before(sizes, m), a, i + 1))
<1> DEFINE x == sizes[i + 1]
           from == Before(sizes, m)
           here == Before(sizes, i)
           b == PackEntry(sizes, from, a, i + 1)
<1>1. /\ Len(sizes) \in Nat /\ DOMAIN sizes = 1 .. Len(sizes) /\ i + 1 \in 1 .. Len(sizes)
      /\ i \in Nat /\ m \in Nat /\ i \in 0 .. Len(sizes)
  OBVIOUS
<1>2. x \in Nat /\ x > 0 /\ from \in Nat /\ here \in Nat
  BY <1>1, ElementOfSeq, BeforeType
<1>3. Before(sizes, i + 1) = here + x
  BY <1>1, BeforeStep
<1>4. CASE i < m
  <2>1. here < from
    <3>1. i + (m - i) = m /\ m - i \in Nat /\ m - i >= 1 /\ m <= Len(sizes)
      BY <1>1, <1>4
    <3>2. here + (m - i) <= from
      BY <1>1, <3>1, BeforeGrows
    <3> HIDE DEF here, from
    <3> QED BY <1>2, <3>1, <3>2
  <2>2. a = [offset |-> here, size |-> size, full |-> FALSE, packed |-> <<>>]
    BY <1>1, <1>4 DEF Reached
  <2>3. i + 1 <= m
    BY <1>1, <1>4
  <2> HIDE DEF here, from, x
  <2>4. x # 0 /\ ~a.full /\ a.offset < from
    BY <1>2, <2>1, <2>2
  <2>5. b = [a EXCEPT !.offset = @ + x]
    BY <2>4 DEF PackEntry, x
  <2>6. b = [offset |-> here + x, size |-> size, full |-> FALSE, packed |-> <<>>]
    BY <2>2, <2>5
  <2> QED BY <1>3, <2>3, <2>6 DEF Reached, from
<1>5. CASE i >= m
  <2>1. \/ \E n \in 0 .. i - m :
            /\ n = i - m /\ Before(sizes, m + n) - from <= size
            /\ a = [offset |-> here, full |-> FALSE, packed |-> Run(m + 1, n),
                    size |-> size - (Before(sizes, m + n) - from)]
        \/ \E n \in 0 .. i - m :
            /\ n < i - m /\ Before(sizes, m + n) - from <= size
            /\ a.full /\ a.packed = Run(m + 1, n)
            /\ Before(sizes, (m + n) + 1) - from > size
    <3>1. CASE i > m
      <4>1. ~(i <= m)
        BY <1>1, <3>1
      <4>2. \E n \in 0 .. i - m :
            /\ Before(sizes, m + n) - Before(sizes, m) <= size
            /\ \/ /\ n = i - m
                  /\ a = [offset |-> Before(sizes, i), full |-> FALSE, packed |-> Run(m + 1, n),
                          size |-> size - (Before(sizes, m + n) - Before(sizes, m))]
               \/ /\ n < i - m
                  /\ a.full /\ a.packed = Run(m + 1, n)
                  /\ Before(sizes, (m + n) + 1) - Before(sizes, m) > size
        BY <4>1, Zenon DEF Reached
      <4> QED BY <4>2, Zenon
    <3>2. CASE i = m
      <4>1. a = [offset |-> here, size |-> size, full |-> FALSE, packed |-> <<>>]
        BY <1>1, <3>2 DEF Reached
      <4>2. Run(m + 1, 0) = <<>>
        <5>1. m + 1 \in Nat
          BY <1>1
        <5>2. Run(m + 1, 0) \in Seq(Nat) /\ Len(Run(m + 1, 0)) = 0
          BY <5>1, RunFacts
        <5> QED BY <5>2
      <4>3. m + 0 = m /\ 0 \in 0 .. i - m /\ i - m = 0
        BY <1>1, <3>2
      <4> HIDE DEF here, from
      <4>4. from - from = 0 /\ 0 <= size /\ size - 0 = size
        BY <1>2
      <4>5. Before(sizes, m + 0) - from = 0
        BY <4>3, <4>4 DEF from
      <4> QED BY <4>1, <4>2, <4>3, <4>4, <4>5
    <3> QED BY <1>1, <1>5, <3>1, <3>2
  <2>2. CASE \E n \in 0 .. i - m :
            /\ n < i - m /\ Before(sizes, m + n) - from <= size
            /\ a.full /\ a.packed = Run(m + 1, n)
            /\ Before(sizes, (m + n) + 1) - from > size
    <3>1. PICK n \in 0 .. i - m :
            /\ n < i - m /\ Before(sizes, m + n) - from <= size
            /\ a.full /\ a.packed = Run(m + 1, n)
            /\ Before(sizes, (m + n) + 1) - from > size
      BY <2>2
    <3>2. b = a
      BY <3>1 DEF PackEntry
    <3>3. n \in 0 .. (i + 1) - m /\ n < (i + 1) - m /\ ~(i + 1 <= m)
      BY <1>1, <1>5, <3>1
    <3> HIDE DEF b
    <3> QED BY <3>1, <3>2, <3>3 DEF Reached, b
  <2>3. CASE \E n \in 0 .. i - m :
            /\ n = i - m /\ Before(sizes, m + n) - from <= size
            /\ a = [offset |-> here, full |-> FALSE, packed |-> Run(m + 1, n),
                    size |-> size - (Before(sizes, m + n) - from)]
    <3> DEFINE n == i - m
               room == size - (here - from)
    <3>1. n \in Nat /\ m + n = i /\ (m + n) + 1 = i + 1 /\ ~(i + 1 <= m) /\ (m + 1) + n = i + 1
          /\ n \in 0 .. (i + 1) - m /\ n < (i + 1) - m /\ n + 1 = (i + 1) - m
          /\ n + 1 \in 0 .. (i + 1) - m /\ m + (n + 1) = i + 1 /\ m + 1 \in Nat
      BY <1>1, <1>5
    <3>2. /\ here - from <= size
          /\ a = [offset |-> here, full |-> FALSE, packed |-> Run(m + 1, n), size |-> room]
      BY <2>3, <3>1
    <3>3. from <= here
      <4>1. m + n <= Len(sizes)
        BY <1>1, <3>1
      <4>2. from + n <= Before(sizes, m + n)
        BY <1>1, <3>1, <4>1, BeforeGrows
      <4>3. from + n <= here
        BY <3>1, <4>2
      <4> HIDE DEF here, from, n
      <4> QED BY <1>2, <3>1, <4>3
    <3> HIDE DEF here, from, x, n
    <3>4. x # 0 /\ ~a.full /\ ~(a.offset < from) /\ a.size = room /\ room \in Int
      BY <1>2, <3>2, <3>3
    <3>5. CASE room < x
      <4>1. b = [a EXCEPT !.full = TRUE]
        BY <3>4, <3>5 DEF PackEntry, x
      <4>2. b.full /\ b.packed = Run(m + 1, n)
        BY <3>2, <4>1
      <4>3. (here + x) - from > size
        BY <1>2, <3>5
      <4>4. Before(sizes, (m + n) + 1) - from > size /\ Before(sizes, m + n) - from <= size
        BY <1>3, <3>1, <3>2, <4>3 DEF here
      <4> HIDE DEF b, room
      <4> QED BY <3>1, <4>2, <4>4 DEF Reached, b, from
    <3>6. CASE ~(room < x)
      <4>1. b = [a EXCEPT !.offset = @ + x, !.size = @ - x, !.packed = Append(@, i + 1)]
        BY <3>4, <3>6 DEF PackEntry, x
      <4>2. b = [offset |-> here + x, full |-> FALSE, packed |-> Append(Run(m + 1, n), i + 1),
                 size |-> room - x]
        BY <3>2, <4>1
      <4>3. Append(Run(m + 1, n), i + 1) = Run(m + 1, n + 1)
        BY <3>1, RunAppend
      <4>4. /\ room - x = size - ((here + x) - from)
            /\ (here + x) - from <= size
        BY <1>2, <3>6
      <4>5. Before(sizes, m + (n + 1)) = here + x
        BY <1>3, <3>1
      <4> HIDE DEF b, room
      <4> QED BY <1>3, <3>1, <4>2, <4>3, <4>4, <4>5 DEF Reached, b, from
    <3> QED BY <3>5, <3>6
  <2> QED BY <2>1, <2>2, <2>3
<1> QED BY <1>1, <1>4, <1>5

\* ixp_srv_readdir asked for size bytes from the end of the first m entries: it
\* packs the entries that follow, up to the first that does not fit.
LEMMA ReaddirFacts ==
    ASSUME NEW sizes \in Seq(Nat), \A i \in DOMAIN sizes : sizes[i] > 0,
           NEW m \in 0 .. Len(sizes), NEW size \in Nat
    PROVE  \E n \in 0 .. Len(sizes) - m :
            /\ Readdir(sizes, Before(sizes, m), size) = Run(m + 1, n)
            /\ Before(sizes, m + n) - Before(sizes, m) <= size
            /\ m + n < Len(sizes) => Before(sizes, (m + n) + 1) - Before(sizes, m) > size
<1> DEFINE e == Len(sizes)
           from == Before(sizes, m)
<1>1. e \in Nat /\ m \in Nat /\ m <= e
  OBVIOUS
<1>2. PICK a : /\ a[0] = Fresh(size)
               /\ Readdir(sizes, from, size) = a[e].packed
               /\ \A k \in 0 .. e - 1 : a[k + 1] = PackEntry(sizes, from, a[k], k + 1)
  BY <1>1, PackStates
<1> DEFINE S == {k \in 0 .. e : Reached(sizes, m, size, k, a[k])}
<1>3. 0 \in S
  <2>1. Before(sizes, 0) = 0
    BY <1>1, BeforeStep
  <2>2. 0 <= m /\ 0 \in 0 .. e
    BY <1>1
  <2> QED BY <1>2, <2>1, <2>2 DEF Reached, Fresh
<1>4. ASSUME NEW k \in 0 .. e - 1, k \in S PROVE k + 1 \in S
  <2>1. k + 1 \in 0 .. e
    BY <1>1
  <2>2. Reached(sizes, m, size, k + 1, PackEntry(sizes, from, a[k], k + 1))
    BY <1>4, ReachedStep
  <2> QED BY <1>2, <2>1, <2>2
<1> HIDE DEF S
<1>5. e \in S
  BY <1>1, <1>3, <1>4, Induction
<1>6. Reached(sizes, m, size, e, a[e])
  BY <1>5 DEF S
<1>7. CASE e <= m
  <2>1. a[e].packed = <<>> /\ e = m
    BY <1>1, <1>6, <1>7 DEF Reached
  <2>2. m + 1 \in Nat /\ 0 \in 0 .. e - m /\ m + 0 = m /\ ~(m + 0 < e)
    BY <1>1, <2>1
  <2>3. Run(m + 1, 0) \in Seq(Nat) /\ Len(Run(m + 1, 0)) = 0
    BY <2>2, RunFacts
  <2>4. Run(m + 1, 0) = <<>>
    BY <2>3
  <2>5. Before(sizes, m + 0) - from <= size
    <3>1. from \in Nat
      BY BeforeType
    <3> HIDE DEF from
    <3>2. from - from <= size
      BY <3>1
    <3> QED BY <2>2, <3>2 DEF from
  <2> QED BY <1>2, <2>1, <2>2, <2>4, <2>5
<1>8. CASE ~(e <= m)
  <2>1. PICK n \in 0 .. e - m :
            /\ a[e].packed = Run(m + 1, n)
            /\ Before(sizes, m + n) - from <= size
            /\ n < e - m => Before(sizes, (m + n) + 1) - from > size
    <3>1. \E n \in 0 .. e - m :
            /\ Before(sizes, m + n) - from <= size
            /\ \/ /\ n = e - m
                  /\ a[e] = [offset |-> Before(sizes, e), full |-> FALSE, packed |-> Run(m + 1, n),
                             size |-> size - (Before(sizes, m + n) - from)]
               \/ /\ n < e - m
                  /\ a[e].full /\ a[e].packed = Run(m + 1, n)
                  /\ Before(sizes, (m + n) + 1) - from > size
      BY <1>6, <1>8, Zenon DEF Reached
    <3>2. PICK n \in 0 .. e - m :
            /\ Before(sizes, m + n) - from <= size
            /\ \/ /\ n = e - m
                  /\ a[e] = [offset |-> Before(sizes, e), full |-> FALSE, packed |-> Run(m + 1, n),
                             size |-> size - (Before(sizes, m + n) - from)]
               \/ /\ n < e - m
                  /\ a[e].full /\ a[e].packed = Run(m + 1, n)
                  /\ Before(sizes, (m + n) + 1) - from > size
      BY <3>1, Zenon
    <3>3. a[e].packed = Run(m + 1, n)
      BY <3>2
    <3>4. n < e - m => Before(sizes, (m + n) + 1) - from > size
      <4>1. n = e - m => ~(n < e - m)
        BY <1>1
      <4> QED BY <3>2, <4>1, Zenon
    <3> QED BY <3>2, <3>3, <3>4, Zenon
  <2>2. m + n < e => n < e - m
    BY <1>1
  <2> QED BY <1>2, <2>1, <2>2
<1> QED BY <1>7, <1>8
-----------------------------------------------------------------------------
(* The buffer.                                                             *)

\* The new length, place and count w that ixp_srv_writebuf should give.
WrittenOK(size, max, append, pos, count, w) ==
    /\ w.at = (IF append THEN size ELSE pos)
    /\ w.count \in 0 .. count /\ w.len \in Nat
    /\ w.len <= Limit(max)
    /\ IF w.count > 0 THEN w.len = w.at + w.count ELSE w.len = size

\* ixp_srv_writebuf, given a buffer within its limit: the subtraction does not
\* wrap, the sum does not either, and the buffer ends where the write ended.
LEMMA WritebufFacts ==
    ASSUME NEW size \in Nat, NEW max \in Nat, NEW append \in BOOLEAN,
           NEW pos \in Nat, NEW count \in Nat,
           size <= Limit(max), max < UintMod
    PROVE  WrittenOK(size, max, append, pos, count, Writebuf(size, max, append, pos, count))
<1> DEFINE at == IF append THEN size ELSE pos
           room == IF at >= max THEN 0 ELSE Smaller(count, max - at)
           refused == [len |-> size, at |-> at, count |-> 0]
           stored(n) == [len |-> (at + n) % UintMod, at |-> at, count |-> n]
           w == Writebuf(size, max, append, pos, count)
<1>1. UintMod \in Nat /\ UintMod > 2 /\ at \in Nat
  BY SrvFileAssumption
<1>2. CASE pos >= UintMod \/ at > size \/ count = 0
  <2>1. w = refused
    BY <1>2 DEF Writebuf
  <2> QED BY <2>1 DEF WrittenOK, Limit
<1>3. CASE ~(pos >= UintMod \/ at > size \/ count = 0) /\ max # 0
  <2>1. w = stored(room)
    BY <1>3 DEF Writebuf
  <2>2. room \in 0 .. count /\ at + room \in Nat /\ at + room <= max /\ (room = 0 => at = size)
    BY <1>1, <1>3 DEF Smaller, Limit
  <2>3. (at + room) % UintMod = at + room
    BY <1>1, <2>2, SmallMod
  <2> QED BY <1>1, <1>3, <2>1, <2>2, <2>3 DEF WrittenOK, Limit
<1>4. CASE ~(pos >= UintMod \/ at > size \/ count = 0) /\ max = 0
  <2>1. UintMod - 1 - at - 1 \in Nat /\ UintMod - 1 - at - 1 < UintMod
    BY <1>1, <1>4 DEF Limit
  <2>2. (UintMod - 1 - at - 1) % UintMod = UintMod - 1 - at - 1
    BY <2>1, SmallMod
  <2>3. CASE count > UintMod - 1 - at - 1
    <3>1. w = refused
      BY <1>4, <2>2, <2>3 DEF Writebuf
    <3> QED BY <3>1 DEF WrittenOK, Limit
  <2>4. CASE ~(count > UintMod - 1 - at - 1)
    <3>1. w = stored(count)
      BY <1>4, <2>2, <2>4 DEF Writebuf
    <3>2. at + count \in Nat /\ at + count <= UintMod - 2 /\ count > 0
      BY <1>1, <1>4, <2>4
    <3>3. (at + count) % UintMod = at + count
      BY <1>1, <3>2, SmallMod
    <3> QED BY <1>1, <1>4, <3>1, <3>2, <3>3 DEF WrittenOK, Limit
  <2> QED BY <2>3, <2>4
<1> QED BY <1>2, <1>3, <1>4
-----------------------------------------------------------------------------
(* One RPC.                                                                *)

\* What the invariant says of a thread about to make an RPC.
LEMMA AskedFacts ==
    ASSUME IOInv, Bytewise, NEW t \in Threads, pc[t] = "chunk"
    PROVE  /\ len[t] \in Nat /\ call[t].count \in Nat /\ len[t] <= call[t].count
           /\ call[t].base \in Nat /\ At(t) \in Nat /\ At(t) = call[t].base + len[t]
           /\ iounit \in Nat /\ Asked(t) \in Nat /\ len[t] + Asked(t) <= call[t].count
<1>1. call[t] \in CallType /\ len[t] \in Nat /\ iounit \in Nat
  BY ClientIOAssumption DEF IOInv, BaseOK
<1>2. len[t] <= call[t].count
  BY DEF IOInv, TransferOK, Busy
<1>3. call[t].count \in Nat /\ call[t].base \in Nat
  BY <1>1, SrvFileAssumption, ClientIOAssumption DEF CallType
<1> QED BY <1>1, <1>2, <1>3 DEF Asked, At, Smaller

\* What an answer moves, and where to or from.
AnswerOK(t, a) ==
    /\ a.count \in 0 .. Asked(t)
    /\ a.file \in FileType
    /\ a.file.kind = file.kind /\ a.file.append = file.append
    /\ file.kind = "buffer" => a.file.size <= Limit(a.file.max) /\ a.file.max < UintMod
    /\ \E p \in Nat :
        /\ a.data = Run(p, a.count)
        /\ p = (IF ToEnd(t) THEN file.size ELSE At(t))
        /\ file.kind = "buffer" /\ ~Reads(t) =>
            IF a.count > 0 THEN a.file.size = p + a.count ELSE a.file.size = file.size
    /\ file.kind = "buffer" /\ Reads(t) /\ a.count = 0 /\ Asked(t) > 0 => At(t) >= file.size

\* The server answers within what it was asked and moves that run, or it is a
\* foreign one that reports more.
LEMMA AnswerFacts ==
    ASSUME IOInv, Bytewise, NEW t \in Threads, pc[t] = "chunk", NEW a \in Answers(t)
    PROVE  \/ AnswerOK(t, a)
           \/ file.kind = "foreign" /\ a.file = file /\ a.count > Asked(t)
<1>1. /\ At(t) \in Nat /\ Asked(t) \in Nat /\ file \in FileType
      /\ file.size \in Nat /\ file.max \in Nat /\ file.append \in BOOLEAN
  BY AskedFacts DEF IOInv, FileType
<1>2. CASE file.kind = "foreign"
  <2>1. PICK k \in 0 .. Asked(t) \cup Asked(t) + 1 .. Asked(t) + Excess :
            a = [count |-> k, data |-> Run(At(t), Smaller(k, Asked(t))), file |-> file]
    BY <1>1, <1>2, ClientIOAssumption DEF Answers, ForeignAnswers, Smaller
  <2>2. CASE k \in 0 .. Asked(t)
    <3>1. Smaller(k, Asked(t)) = k
      BY <1>1, <2>2 DEF Smaller
    <3> QED BY <1>1, <1>2, <2>1, <2>2, <3>1 DEF AnswerOK, ToEnd
  <2>3. CASE k \in Asked(t) + 1 .. Asked(t) + Excess
    <3>1. k > Asked(t)
      BY <1>1, <2>3, ClientIOAssumption
    <3> QED BY <1>2, <2>1, <3>1
  <2> QED BY <2>1, <2>2, <2>3
<1>3. CASE file.kind = "buffer" /\ Reads(t)
  <2> DEFINE k == Readbuf(file.size, At(t), Asked(t))
  <2>1. a = [count |-> k, data |-> Run(At(t), k), file |-> file]
    BY <1>3 DEF Answers, BufferAnswer
  <2>2. k \in 0 .. Asked(t) /\ (k = 0 /\ Asked(t) > 0 => At(t) >= file.size)
    BY <1>1 DEF Readbuf, Smaller
  <2>3. file.size <= Limit(file.max) /\ file.max < UintMod
    BY <1>3 DEF IOInv, SizeOK
  <2> HIDE DEF k
  <2> QED BY <1>1, <1>3, <2>1, <2>2, <2>3 DEF AnswerOK, ToEnd
<1>4. CASE file.kind = "buffer" /\ ~Reads(t)
  <2> DEFINE w == Writebuf(file.size, file.max, file.append, At(t), Asked(t))
             g == [file EXCEPT !.size = w.len]
  <2>1. a = [count |-> w.count, data |-> Run(w.at, w.count), file |-> g]
    BY <1>4 DEF Answers, BufferAnswer
  <2>2. file.size <= Limit(file.max) /\ file.max < UintMod
    BY <1>4 DEF IOInv, SizeOK
  <2> HIDE DEF w
  <2>0. w = Writebuf(file.size, file.max, file.append, At(t), Asked(t))
    BY DEF w
  <2>3. /\ w.at = (IF file.append THEN file.size ELSE At(t))
        /\ w.count \in 0 .. Asked(t) /\ w.len \in Nat
        /\ w.len <= Limit(file.max)
        /\ IF w.count > 0 THEN w.len = w.at + w.count ELSE w.len = file.size
    <3>1. WrittenOK(file.size, file.max, file.append, At(t), Asked(t), w)
      BY <1>1, <2>2, <2>0, WritebufFacts, Zenon
    <3> QED BY <3>1 DEF WrittenOK, Limit
  <2>4. /\ g \in FileType /\ g.kind = file.kind /\ g.append = file.append
        /\ g.max = file.max /\ g.size = w.len
    BY <1>1, <2>3 DEF FileType
  <2>5. a.count = w.count /\ a.data = Run(w.at, w.count) /\ a.file = g
    BY <2>1
  <2> HIDE DEF g
  <2>6. \E p \in Nat :
            /\ a.data = Run(p, a.count)
            /\ p = (IF ToEnd(t) THEN file.size ELSE At(t))
            /\ file.kind = "buffer" /\ ~Reads(t) =>
                IF a.count > 0 THEN a.file.size = p + a.count ELSE a.file.size = file.size
    BY <1>1, <1>4, <2>3, <2>4, <2>5 DEF ToEnd
  <2>7. a.file.size <= Limit(a.file.max) /\ a.file.max < UintMod
    BY <2>2, <2>3, <2>4, <2>5 DEF Limit
  <2> QED BY <1>4, <2>3, <2>4, <2>5, <2>6, <2>7 DEF AnswerOK
<1> QED BY <1>1, <1>2, <1>3, <1>4 DEF FileType, Bytewise

LEMMA ForeignCounts ==
    ASSUME IOInv, Bytewise, NEW t \in Threads, pc[t] = "chunk", file.kind = "foreign",
           NEW a \in Answers(t)
    PROVE  a.count \in Int
<1>1. Asked(t) \in Nat /\ At(t) \in Nat /\ file.size \in Nat
  BY AskedFacts DEF IOInv, FileType
<1> QED BY <1>1, ClientIOAssumption DEF Answers, ForeignAnswers, Smaller

\* The transfer grows by the answer and stays contiguous.
LEMMA TransferGrows ==
    ASSUME IOInv, Bytewise, NEW t \in Threads, pc[t] = "chunk", NEW a, AnswerOK(t, a)
    PROVE  /\ len[t] + a.count \in Nat /\ len[t] + a.count <= call[t].count
           /\ data[t] \o a.data \in Seq(Nat)
           /\ \E first \in 0 .. UintMod + MaxCount :
                /\ data[t] \o a.data = Run(first, len[t] + a.count)
                /\ first = call[t].base \/ ToEnd(t)
                /\ file.kind = "buffer" /\ ~Reads(t) /\ len[t] + a.count > 0 =>
                        a.file.size = first + (len[t] + a.count)
<1>1. /\ len[t] \in Nat /\ call[t].count \in Nat /\ len[t] <= call[t].count
      /\ call[t].base \in Nat /\ At(t) = call[t].base + len[t]
      /\ Asked(t) \in Nat /\ len[t] + Asked(t) <= call[t].count
      /\ UintMod \in Nat /\ MaxCount \in Nat /\ file.size \in Nat /\ data[t] \in Seq(Nat)
      /\ call[t].base \in 0 .. UintMod + MaxCount
  <2>1. data[t] \in Seq(Nat) /\ call[t] \in CallType /\ file.size \in Nat
    BY DEF IOInv, BaseOK, FileType
  <2> QED BY <2>1, AskedFacts, SrvFileAssumption, ClientIOAssumption DEF CallType
<1>2. a.count \in Nat /\ a.count <= Asked(t)
  BY <1>1 DEF AnswerOK
<1>3. PICK p \in Nat :
        /\ a.data = Run(p, a.count)
        /\ p = (IF ToEnd(t) THEN file.size ELSE At(t))
        /\ file.kind = "buffer" /\ ~Reads(t) =>
            IF a.count > 0 THEN a.file.size = p + a.count ELSE a.file.size = file.size
  BY DEF AnswerOK
<1>4. a.data \in Seq(Nat)
  BY <1>2, <1>3, RunFacts
<1>5. PICK f0 \in 0 .. UintMod + MaxCount :
        /\ data[t] = Run(f0, len[t])
        /\ f0 = call[t].base \/ ToEnd(t)
        /\ file.kind = "buffer" /\ ~Reads(t) /\ len[t] > 0 => file.size = f0 + len[t]
  BY DEF IOInv, TransferOK, Busy
<1>6. file.kind = "buffer" => file.size <= UintMod
  BY <1>1 DEF IOInv, SizeOK, Limit, FileType
<1>7. CASE len[t] = 0
  <2>1. data[t] \o a.data = Run(p, len[t] + a.count) /\ data[t] \o a.data \in Seq(Nat)
    <3>1. Len(data[t]) = 0
      BY <1>1, <1>5, <1>7, RunFacts
    <3>2. data[t] = <<>>
      BY <1>1, <3>1
    <3> QED BY <1>2, <1>3, <1>4, <1>7, <3>2
  <2>2. p \in 0 .. UintMod + MaxCount
    BY <1>1, <1>3, <1>6, <1>7 DEF ToEnd
  <2>3. p = call[t].base \/ ToEnd(t)
    BY <1>1, <1>3, <1>7
  <2>4. file.kind = "buffer" /\ ~Reads(t) /\ len[t] + a.count > 0 =>
            a.file.size = p + (len[t] + a.count)
    BY <1>1, <1>2, <1>3, <1>7
  <2>5. \E first \in 0 .. UintMod + MaxCount :
            /\ data[t] \o a.data = Run(first, len[t] + a.count)
            /\ first = call[t].base \/ ToEnd(t)
            /\ file.kind = "buffer" /\ ~Reads(t) /\ len[t] + a.count > 0 =>
                    a.file.size = first + (len[t] + a.count)
    BY <2>1, <2>2, <2>3, <2>4
  <2>6. len[t] + a.count \in Nat /\ len[t] + a.count <= call[t].count
    BY <1>1, <1>2
  <2> QED BY <2>1, <2>5, <2>6
<1>8. CASE len[t] > 0
  <2>1. p = f0 + len[t]
    BY <1>1, <1>3, <1>5, <1>8 DEF ToEnd
  <2>2. data[t] \o a.data = Run(f0, len[t] + a.count)
    <3>1. f0 \in Nat /\ len[t] \in Nat /\ a.count \in Nat
      BY <1>1, <1>2
    <3>2. Run(f0, len[t]) \o Run(f0 + len[t], a.count) = Run(f0, len[t] + a.count)
      BY <3>1, RunsJoin
    <3> QED BY <1>3, <1>5, <2>1, <3>2
  <2>3. Run(f0, len[t] + a.count) \in Seq(Nat)
    <3>1. f0 \in Nat /\ len[t] + a.count \in Nat
      BY <1>1, <1>2
    <3> QED BY <3>1, RunFacts
  <2>4. file.kind = "buffer" /\ ~Reads(t) /\ len[t] + a.count > 0 =>
            a.file.size = f0 + (len[t] + a.count)
    BY <1>1, <1>2, <1>3, <1>5, <1>8, <2>1
  <2>5. \E first \in 0 .. UintMod + MaxCount :
            /\ data[t] \o a.data = Run(first, len[t] + a.count)
            /\ first = call[t].base \/ ToEnd(t)
            /\ file.kind = "buffer" /\ ~Reads(t) /\ len[t] + a.count > 0 =>
                    a.file.size = first + (len[t] + a.count)
    BY <1>5, <2>2, <2>4
  <2>6. len[t] + a.count \in Nat /\ len[t] + a.count <= call[t].count
    BY <1>1, <1>2
  <2> QED BY <2>2, <2>3, <2>5, <2>6
<1>9. len[t] = 0 \/ len[t] > 0
  BY <1>1
<1> QED BY <1>7, <1>8, <1>9
-----------------------------------------------------------------------------
(* The invariant.                                                          *)

\* The invariant holds when the file is opened.
LEMMA InitIO ==
    Init => IOInv
<1> SUFFICES ASSUME Init PROVE IOInv
  OBVIOUS
<1>1. file \in FileType /\ SizeOK
  BY ClientIOAssumption DEF Init, SizeOK
<1>2. iounit \in 0 .. Msize - 24
  <2>1. PICK a \in Iounits : iounit = Unit(a)
    BY DEF Init
  <2> QED BY <2>1, ClientIOAssumption DEF Unit
<1>3. NoCall \in CallType
  BY SrvFileAssumption, ClientIOAssumption DEF NoCall, CallType
<1>4. BaseOK
  <2>1. overrun \in BOOLEAN
    BY DEF Init
  <2> QED BY <1>2, <1>3, <2>1, SrvFileAssumption, ClientIOAssumption DEF Init, BaseOK, NoCall
<1>5. \A t \in Threads : TransferOK(t)
  BY DEF Init, TransferOK, Busy
<1>6. StreamOK
  <2>1. Len(stream) = 0 /\ Run(0, 0) \in Seq(Nat) /\ Len(Run(0, 0)) = 0
    BY RunFacts DEF Init
  <2>2. Run(0, 0) = <<>>
    BY <2>1
  <2> QED BY <2>1, <2>2 DEF Init, StreamOK
<1>7. ~overrun
  BY DEF Init
<1> QED BY <1>1, <1>4, <1>5, <1>6, <1>7 DEF IOInv

\* A file stays what it is.
LEMMA KindKept ==
    ASSUME IOInv, [Next]_vars
    PROVE  file.kind = "dir" => file' \in FileType /\ file'.kind = "dir"
<1> SUFFICES ASSUME file.kind = "dir" PROVE file' \in FileType /\ file'.kind = "dir"
  OBVIOUS
<1>1. file \in FileType
  BY DEF IOInv
<1>2. ASSUME NEW t \in Threads, Chunk(t) PROVE file' = file
  BY <1>2 DEF Chunk, Answers, DirAnswer
<1>3. ASSUME DirChanges PROVE file' \in FileType /\ file'.kind = "dir"
  <2> DEFINE e == file.entries
  <2>1. e \in Seq(Nat)
    BY <1>1 DEF FileType
  <2>2. PICK changed : /\ file' = [file EXCEPT !.entries = changed]
                       /\ \/ \E n \in 1 .. MaxCount : changed = Append(e, n)
                          \/ \E i \in DOMAIN e : changed = [e EXCEPT ![i] = 0]
    BY <1>3 DEF DirChanges
  <2> HIDE DEF e
  <2>3. changed \in Seq(Nat)
    <3>1. ASSUME NEW n \in 1 .. MaxCount PROVE Append(e, n) \in Seq(Nat)
      BY <2>1, ClientIOAssumption
    <3>2. ASSUME NEW i \in DOMAIN e PROVE [e EXCEPT ![i] = 0] \in Seq(Nat)
      BY <2>1, ExceptSeq
    <3> QED BY <2>2, <3>1, <3>2
  <2> QED BY <1>1, <2>2, <2>3 DEF FileType
<1>4. file' = file \/ DirChanges
  BY <1>2 DEF Next, Step, Lock, NoChunk, Unlock, ChunkFails, ChunkTooLong, Call, ReadAll, vars
<1> QED BY <1>1, <1>3, <1>4

\* A thread that begins nothing disturbs nobody's transfer.
LEMMA OthersKept ==
    ASSUME IOInv, Bytewise, NEW t \in Threads,
           pc' \in [Threads -> {"idle", "lock", "chunk", "unlock"}],
           \A u \in Threads \ {t} : pc'[u] = pc[u] /\ call'[u] = call[u] /\ len'[u] = len[u]
                                    /\ ret'[u] = ret[u] /\ data'[u] = data[u],
           TransferOK(t)',
           \/ file' = file /\ offset' = offset /\ holder' = holder
           \/ Busy(t) /\ pc[t] = "unlock"
           \/ Busy(t) /\ holder' = holder
           \/ holder = Nil
    PROVE  \A u \in Threads : TransferOK(u)'
<1> SUFFICES ASSUME NEW u \in Threads, u # t, Busy(u)' PROVE TransferOK(u)'
  BY DEF TransferOK
<1>1. Busy(u) /\ holder = u
  BY DEF Busy, IOInv, TransferOK
<1>2. ~Busy(t)
  BY <1>1 DEF IOInv, TransferOK
<1>3. file' = file /\ offset' = offset /\ holder' = holder
  BY <1>1, <1>2, ClientIOAssumption
<1>4. TransferOK(u)
  BY DEF IOInv
<1> QED BY <1>1, <1>3, <1>4 DEF TransferOK, Busy, Stored, Reads, ToEnd

\* A call begins.
LEMMA CallIO ==
    ASSUME IOInv, Bytewise, NEW t \in Threads,
           NEW kind \in Kinds, NEW count \in 0 .. MaxCount, NEW base \in 0 .. MaxCount,
           Call(t, kind, count, base)
    PROVE  IOInv'
<1> USE DEF Call
<1>1. file \in FileType /\ SizeOK /\ BaseOK /\ StreamOK
  BY DEF IOInv
<1>2. [kind |-> kind, count |-> count, base |-> base, again |-> FALSE] \in CallType
  BY SrvFileAssumption, ClientIOAssumption DEF CallType
<1>3. BaseOK'
  BY <1>1, <1>2, ClientIOAssumption DEF BaseOK
<1>4. ~Busy(t)'
  BY <1>1 DEF Busy, BaseOK
<1>5. TransferOK(t)'
  BY <1>4 DEF TransferOK
<1>6. \A u \in Threads : TransferOK(u)'
  BY <1>1, <1>3, <1>5, OthersKept DEF BaseOK
<1> QED BY <1>1, <1>3, <1>6 DEF IOInv, SizeOK, StreamOK

\* ixpc begins to read to the end.
LEMMA ReadAllIO ==
    ASSUME IOInv, Bytewise, NEW t \in Threads, ReadAll(t)
    PROVE  IOInv'
<1> USE DEF ReadAll
<1>1. file \in FileType /\ SizeOK /\ BaseOK /\ StreamOK
  BY DEF IOInv
<1>2. [kind |-> "read", count |-> iounit, base |-> 0, again |-> TRUE] \in CallType
  BY <1>1, SrvFileAssumption, ClientIOAssumption DEF CallType, BaseOK
<1>3. BaseOK'
  BY <1>1, <1>2, ClientIOAssumption DEF BaseOK
<1>4. ~Busy(t)'
  BY <1>1 DEF Busy, BaseOK
<1>5. TransferOK(t)'
  BY <1>4 DEF TransferOK
<1>6. \A u \in Threads : TransferOK(u)'
  BY <1>1, <1>3, <1>5, OthersKept DEF BaseOK
<1> QED BY <1>1, <1>3, <1>6 DEF IOInv, SizeOK, StreamOK

\* A call takes the lock and begins where it was told, with nothing transferred.
LEMMA LockIO ==
    ASSUME IOInv, Bytewise, NEW t \in Threads, Lock(t)
    PROVE  IOInv'
<1> USE DEF Lock
<1>1. file \in FileType /\ SizeOK /\ BaseOK /\ StreamOK
  BY DEF IOInv
<1>2. call[t] \in CallType /\ offset \in 0 .. UintMod + MaxCount
  BY <1>1, SrvFileAssumption, ClientIOAssumption DEF BaseOK
<1>3. /\ call' \in [Threads -> CallType]
      /\ \A u \in Threads : call'[u].count = call[u].count /\ call'[u].kind = call[u].kind
      /\ Stored(t) => call'[t].base = offset
      /\ call'[t].base \in 0 .. UintMod + MaxCount
  BY <1>1, <1>2 DEF BaseOK, CallType
<1>4. BaseOK'
  BY <1>1, <1>3 DEF BaseOK
<1>5. TransferOK(t)'
  <2>1. Run(call'[t].base, 0) \in Seq(Nat) /\ Len(Run(call'[t].base, 0)) = 0
    BY <1>3, RunFacts
  <2>2. Run(call'[t].base, 0) = <<>>
    BY <2>1
  <2>3. pc'[t] = "chunk" /\ len'[t] = 0 /\ data'[t] = <<>>
    BY <1>1 DEF BaseOK
  <2>4. call'[t].count \in Nat
    BY <1>3 DEF CallType
  <2> QED BY <1>3, <2>2, <2>3, <2>4 DEF TransferOK, Stored
<1>6. \A u \in Threads \ {t} : pc'[u] = pc[u] /\ call'[u] = call[u] /\ len'[u] = len[u]
                               /\ ret'[u] = ret[u] /\ data'[u] = data[u]
  BY <1>1 DEF BaseOK
<1>7. \A u \in Threads : TransferOK(u)'
  BY <1>4, <1>5, <1>6, OthersKept DEF BaseOK
<1> QED BY <1>1, <1>4, <1>7 DEF IOInv, SizeOK, StreamOK

\* _pread and _pwrite return without another answer.
LEMMA ReturnIO ==
    ASSUME IOInv, Bytewise, NEW t \in Threads,
           ChunkFails(t) \/ ChunkTooLong(t) \/ NoChunk(t)
    PROVE  IOInv'
<1>1. file \in FileType /\ SizeOK /\ BaseOK /\ StreamOK /\ TransferOK(t)
  BY DEF IOInv
<1>2. PICK n \in {-1, len[t]} :
        /\ pc[t] = "chunk" /\ Return(t, n)
        /\ UNCHANGED <<file, iounit, offset, holder, call, len, data, ncalls, stream, overrun, parity>>
  BY DEF ChunkFails, ChunkTooLong, NoChunk
<1>3. BaseOK'
  BY <1>1, <1>2 DEF BaseOK, Return
<1>4. pc'[t] = "unlock" /\ ret'[t] = n
  BY <1>1, <1>2 DEF BaseOK, Return
<1>5. TransferOK(t)'
  BY <1>1, <1>2, <1>4 DEF TransferOK, Busy, Stored, Reads, ToEnd
<1>6. \A u \in Threads \ {t} : pc'[u] = pc[u] /\ call'[u] = call[u] /\ len'[u] = len[u]
                               /\ ret'[u] = ret[u] /\ data'[u] = data[u]
  BY <1>1, <1>2 DEF BaseOK, Return
<1>7. \A u \in Threads : TransferOK(u)'
  BY <1>2, <1>3, <1>5, <1>6, OthersKept DEF BaseOK
<1> QED BY <1>1, <1>2, <1>3, <1>7 DEF IOInv, SizeOK, StreamOK

\* _pread and _pwrite get one more answer.
LEMMA ChunkIO ==
    ASSUME IOInv, Bytewise, NEW t \in Threads, Chunk(t)
    PROVE  IOInv'
<1>1. /\ file \in FileType /\ SizeOK /\ BaseOK /\ StreamOK /\ TransferOK(t)
      /\ pc[t] = "chunk" /\ UNCHANGED <<iounit, offset, holder, call, ncalls, stream>>
      /\ parity' = 1 - parity
  BY DEF IOInv, Chunk
<1>2. PICK a \in Answers(t) :
        /\ Reads(t) => a.count <= Asked(t)
        /\ len' = [len EXCEPT ![t] = @ + a.count]
        /\ data' = [data EXCEPT ![t] = @ \o a.data]
        /\ file' = a.file
        /\ overrun' = (overrun \/ (~Reads(t) /\ a.count > Asked(t)))
        /\ \/ Return(t, len[t] + a.count)
           \/ UNCHANGED <<pc, ret>>
  BY DEF Chunk
<1>0. CASE ~AnswerOK(t, a)
  <2>1. file.kind = "foreign" /\ a.file = file /\ a.count > Asked(t)
    BY <1>0, <1>1, AnswerFacts
  <2>2. Asked(t) \in Nat /\ a.count \in Int
    BY <1>0, <1>1, <2>1, AskedFacts, ForeignCounts
  <2>3. ~Reads(t)
    BY <1>2, <2>1, <2>2
  <2>4. overrun'
    BY <1>2, <2>1, <2>3
  <2> QED BY <1>1, <1>2, <2>1, <2>4 DEF IOInv, Bytewise
<1> SUFFICES ASSUME AnswerOK(t, a) PROVE IOInv'
  BY <1>0
<1>3. AnswerOK(t, a) /\ ~overrun /\ overrun' = FALSE
  <2>1. Asked(t) \in Nat /\ a.count \in 0 .. Asked(t)
    BY <1>1, AskedFacts DEF AnswerOK
  <2>2. ~(a.count > Asked(t))
    BY <2>1
  <2> QED BY <1>2, <2>2 DEF Bytewise
<1>4. /\ len[t] + a.count \in Nat /\ len[t] + a.count <= call[t].count
      /\ data[t] \o a.data \in Seq(Nat)
  BY <1>1, <1>3, TransferGrows
<1>5. PICK first \in 0 .. UintMod + MaxCount :
        /\ data[t] \o a.data = Run(first, len[t] + a.count)
        /\ first = call[t].base \/ ToEnd(t)
        /\ file.kind = "buffer" /\ ~Reads(t) /\ len[t] + a.count > 0 =>
                a.file.size = first + (len[t] + a.count)
  BY <1>1, <1>3, TransferGrows
<1>6. /\ file' \in FileType /\ file'.kind = file.kind /\ file'.append = file.append
      /\ SizeOK'
  BY <1>2, <1>3 DEF AnswerOK, SizeOK
<1>7. /\ len'[t] = len[t] + a.count /\ data'[t] = data[t] \o a.data
      /\ \/ pc'[t] = "unlock" /\ ret'[t] = len[t] + a.count
         \/ pc'[t] = "chunk"
      /\ len' \in [Threads -> Nat] /\ data' \in [Threads -> Seq(Nat)]
      /\ pc' \in [Threads -> {"idle", "lock", "chunk", "unlock"}]
      /\ ret' \in [Threads -> Nat \cup {-1}]
  BY <1>1, <1>2, <1>4 DEF BaseOK, Return
<1>8. BaseOK'
  <2>1. parity' \in {0, 1}
    BY <1>1 DEF BaseOK
  <2> QED BY <1>1, <1>3, <1>7, <2>1 DEF BaseOK
<1>9. TransferOK(t)'
  <2>1. holder = t /\ (Stored(t) => call[t].base = offset)
    BY <1>1 DEF TransferOK, Busy
  <2>2. Reads(t)' = Reads(t) /\ Stored(t)' = Stored(t) /\ ToEnd(t)' = ToEnd(t)
    BY <1>1, <1>6 DEF Reads, Stored, ToEnd
  <2>3. \E f \in 0 .. UintMod + MaxCount :
            /\ data'[t] = Run(f, len'[t])
            /\ f = call'[t].base \/ ToEnd(t)'
            /\ file'.kind = "buffer" /\ ~Reads(t)' /\ len'[t] > 0 => file'.size = f + len'[t]
    BY <1>1, <1>2, <1>5, <1>6, <1>7, <2>2
  <2>4. len'[t] <= call'[t].count /\ (pc'[t] = "unlock" => ret'[t] \in {-1, len'[t]})
    BY <1>1, <1>4, <1>7
  <2>5. holder' = t /\ (Stored(t)' => call'[t].base = offset')
    BY <1>1, <2>1, <2>2
  <2> QED BY <2>3, <2>4, <2>5 DEF TransferOK
<1>10. \A u \in Threads \ {t} : pc'[u] = pc[u] /\ call'[u] = call[u] /\ len'[u] = len[u]
                                /\ ret'[u] = ret[u] /\ data'[u] = data[u]
  BY <1>1, <1>2 DEF BaseOK, Return
<1>11. \A u \in Threads : TransferOK(u)'
  BY <1>1, <1>7, <1>9, <1>10, OthersKept DEF Busy
<1>12. StreamOK'
  BY <1>1, <1>6 DEF StreamOK
<1> QED BY <1>3, <1>6, <1>8, <1>11, <1>12 DEF IOInv

\* The call that Forget leaves behind.
LEMMA ForgetCalls ==
    ASSUME BaseOK, NEW t \in Threads, Forget(t)
    PROVE  /\ call' \in [Threads -> CallType]
           /\ \A u \in Threads : call'[u].count \in 0 .. MaxCount \/ call'[u].count = iounit
           /\ call'[t].kind \in {call[t].kind, "read"}
<1>1. /\ call \in [Threads -> CallType] /\ call[t] \in CallType
      /\ \A u \in Threads : call[u].count \in 0 .. MaxCount \/ call[u].count = iounit
  BY DEF BaseOK
<1>2. NoCall \in CallType /\ NoCall.count = 0 /\ NoCall.kind = "read"
  BY SrvFileAssumption, ClientIOAssumption DEF NoCall, CallType
<1>3. /\ [call[t] EXCEPT !.base = 0] \in CallType
      /\ [call[t] EXCEPT !.base = 0].count = call[t].count
      /\ [call[t] EXCEPT !.base = 0].kind = call[t].kind
  <2>1. 0 \in 0 .. UintMod + MaxCount
    BY SrvFileAssumption, ClientIOAssumption
  <2> QED BY <1>1, <2>1 DEF CallType
<1>4. PICK c \in {NoCall, [call[t] EXCEPT !.base = 0]} : call' = [call EXCEPT ![t] = c]
  BY <1>1 DEF Forget
<1>5. /\ c \in CallType /\ (c.count \in 0 .. MaxCount \/ c.count = iounit)
      /\ c.kind \in {call[t].kind, "read"}
  <2>1. 0 \in 0 .. MaxCount
    BY ClientIOAssumption
  <2>2. CASE c = NoCall
    BY <1>2, <2>1, <2>2
  <2>3. CASE c = [call[t] EXCEPT !.base = 0]
    <3>1. c \in CallType /\ c.count = call[t].count /\ c.kind = call[t].kind
      BY <1>3, <2>3
    <3> QED BY <1>1, <3>1
  <2> QED BY <1>4, <2>2, <2>3
<1> QED BY <1>1, <1>4, <1>5

\* f->offset and the stream advance together.
LEMMA UnlockIO ==
    ASSUME IOInv, Bytewise, NEW t \in Threads, Unlock(t)
    PROVE  IOInv'
<1>1. /\ file \in FileType /\ SizeOK /\ BaseOK /\ StreamOK /\ TransferOK(t)
      /\ pc[t] = "unlock" /\ UNCHANGED <<file, iounit, ncalls, overrun>> /\ holder' = Nil
      /\ UintMod \in Nat /\ UintMod > 2
  BY SrvFileAssumption DEF IOInv, Unlock
<1>2. /\ offset \in Nat /\ len[t] \in Nat /\ ret[t] \in {-1, len[t]} /\ data[t] \in Seq(Nat)
      /\ call[t] \in CallType /\ call[t].base \in Nat
  <2>1. call[t] \in CallType
    BY <1>1 DEF BaseOK
  <2> QED BY <1>1, <2>1, ClientIOAssumption DEF BaseOK, TransferOK, Busy, CallType
<1>3. ASSUME Stored(t), ret[t] > 0
      PROVE  offset' \in 0 .. UintMod - 1 /\ stream' \in Seq(Nat) /\ StreamOK'
  <2>1. ret[t] = len[t] /\ offset' = (offset + len[t]) % UintMod /\ stream' = stream \o data[t]
    BY <1>2, <1>3 DEF Unlock
  <2>2. offset + len[t] \in Nat /\ offset' \in 0 .. UintMod - 1 /\ stream' \in Seq(Nat)
    <3>1. offset + len[t] \in Nat
      BY <1>2
    <3>2. stream \in Seq(Nat) /\ data[t] \in Seq(Nat)
      BY <1>1, <1>2 DEF BaseOK
    <3>3. (offset + len[t]) % UintMod \in 0 .. UintMod - 1
      BY <3>1, ModRange
    <3>4. stream \o data[t] \in Seq(Nat)
      BY <3>2
    <3> QED BY <2>1, <3>1, <3>3, <3>4
  <2>3. ASSUME ~file.append, Len(stream') < UintMod
        PROVE  offset' = Len(stream') /\ stream' = Run(0, Len(stream'))
    <3>1. data[t] = Run(offset, len[t])
      BY <1>1, <1>3, <2>3 DEF TransferOK, Busy, ToEnd
    <3>2. Len(data[t]) = len[t]
      <4>1. offset \in Nat /\ len[t] \in Nat
        BY <1>2
      <4> QED BY <3>1, <4>1, RunFacts
    <3>3. stream \in Seq(Nat) /\ Len(stream) \in Nat /\ Len(stream') = Len(stream) + len[t]
      <4>1. stream \in Seq(Nat) /\ data[t] \in Seq(Nat)
        BY <1>1, <1>2 DEF BaseOK
      <4> QED BY <2>1, <3>2, <4>1, ConcatProperties
    <3>4. offset = Len(stream) /\ stream = Run(0, Len(stream))
      BY <1>1, <1>2, <2>3, <3>3 DEF StreamOK
    <3>5. offset' = Len(stream')
      BY <2>1, <2>2, <2>3, <3>3, <3>4, SmallMod
    <3>6. Run(0, Len(stream)) \o Run(0 + Len(stream), len[t]) = Run(0, Len(stream) + len[t])
      BY <1>2, <3>3, RunsJoin
    <3>7. 0 + Len(stream) = Len(stream)
      BY <3>3
    <3> QED BY <2>1, <3>1, <3>3, <3>4, <3>5, <3>6, <3>7
  <2> QED BY <1>1, <2>2, <2>3 DEF StreamOK
<1>4. ASSUME ~(Stored(t) /\ ret[t] > 0)
      PROVE  offset' \in 0 .. UintMod - 1 /\ stream' \in Seq(Nat) /\ StreamOK'
  BY <1>1, <1>4 DEF Unlock, BaseOK, StreamOK
<1>5. offset' \in 0 .. UintMod - 1 /\ stream' \in Seq(Nat) /\ StreamOK'
  BY <1>3, <1>4
<1>6. /\ pc'[t] \in {"idle", "lock"}
      /\ pc' \in [Threads -> {"idle", "lock", "chunk", "unlock"}]
      /\ len' \in [Threads -> Nat] /\ ret' \in [Threads -> Nat \cup {-1}]
      /\ data' \in [Threads -> Seq(Nat)] /\ parity' \in {0, 1}
  BY <1>1 DEF Unlock, Forget, BaseOK
<1>7. /\ call' \in [Threads -> CallType]
      /\ \A u \in Threads : call'[u].count \in 0 .. MaxCount \/ call'[u].count = iounit
  BY <1>1, ForgetCalls DEF Unlock
<1>8. BaseOK'
  BY <1>1, <1>5, <1>6, <1>7 DEF BaseOK
<1>9. TransferOK(t)'
  BY <1>6 DEF TransferOK, Busy
<1>10. \A u \in Threads \ {t} : pc'[u] = pc[u] /\ call'[u] = call[u] /\ len'[u] = len[u]
                                /\ ret'[u] = ret[u] /\ data'[u] = data[u]
  BY <1>1 DEF BaseOK, Unlock, Forget
<1>11. \A u \in Threads : TransferOK(u)'
  BY <1>1, <1>6, <1>9, <1>10, OthersKept DEF Busy
<1> QED BY <1>1, <1>5, <1>8, <1>11 DEF IOInv, SizeOK

\* Every step preserves the invariant.
LEMMA NextIO ==
    IOInv /\ [Next]_vars => IOInv'
<1> SUFFICES ASSUME IOInv, [Next]_vars PROVE IOInv'
  OBVIOUS
<1>1. CASE file.kind = "dir"
  <2>1. file' \in FileType /\ file'.kind = "dir"
    BY <1>1, KindKept
  <2> QED BY <2>1 DEF IOInv, Bytewise
<1>3. CASE overrun /\ file.kind # "dir"
  <2>1. ASSUME NEW t \in Threads, Chunk(t) PROVE file' = file /\ overrun'
    <3>1. file.kind = "foreign"
      BY <1>3 DEF IOInv, FileType
    <3>2. Answers(t) = ForeignAnswers(t)
      BY <3>1 DEF Answers
    <3>3. PICK a \in ForeignAnswers(t) : file' = a.file /\ overrun'
      BY <1>3, <2>1, <3>2 DEF Chunk
    <3>4. a.file = file
      BY DEF ForeignAnswers
    <3> QED BY <3>3, <3>4
  <2>2. file' = file /\ overrun'
    BY <1>3, <2>1 DEF IOInv, Next, Step, Lock, NoChunk, Unlock, ChunkFails, ChunkTooLong, Call,
                      ReadAll, DirChanges, vars
  <2> QED BY <1>3, <2>2 DEF IOInv, Bytewise
<1>2. CASE Bytewise
  <2>1. ASSUME NEW t \in Threads, Step(t) \/ ChunkFails(t) \/ ChunkTooLong(t) PROVE IOInv'
    BY <1>2, <2>1, LockIO, ChunkIO, ReturnIO, UnlockIO DEF Step
  <2>2. ASSUME NEW t \in Threads, NEW kind \in Kinds, NEW count \in 0 .. MaxCount,
               NEW base \in 0 .. MaxCount, Call(t, kind, count, base)
        PROVE  IOInv'
    BY <1>2, <2>2, CallIO
  <2>3. ASSUME NEW t \in Threads, ReadAll(t) PROVE IOInv'
    BY <1>2, <2>3, ReadAllIO
  <2>4. CASE UNCHANGED vars
    BY <2>4 DEF IOInv, Bytewise, SizeOK, BaseOK, TransferOK, Busy, Stored, Reads, ToEnd, StreamOK,
                vars
  <2>5. ~DirChanges
    BY <1>2 DEF DirChanges, Bytewise
  <2> QED BY <2>1, <2>2, <2>3, <2>4, <2>5 DEF Next
<1> QED BY <1>1, <1>2, <1>3 DEF Bytewise

\* Nothing becomes a directory.
LEMMA NeverDir ==
    ASSUME IOInv, file.kind # "dir", [Next]_vars
    PROVE  file'.kind # "dir"
<1>1. ASSUME NEW t \in Threads, Chunk(t) PROVE file'.kind = file.kind
  <2>1. PICK a \in Answers(t) : pc[t] = "chunk" /\ file' = a.file
    BY <1>1 DEF Chunk
  <2>2. CASE Bytewise
    BY <2>1, <2>2, AnswerFacts DEF AnswerOK
  <2>3. CASE ~Bytewise
    <3>1. file.kind = "foreign"
      BY <2>3 DEF IOInv, Bytewise, FileType
    <3>2. a \in ForeignAnswers(t)
      BY <2>1, <3>1 DEF Answers
    <3>3. a.file = file
      BY <3>2 DEF ForeignAnswers
    <3> QED BY <2>1, <3>3
  <2> QED BY <2>2, <2>3
<1>2. (\E t \in Threads : Chunk(t)) \/ file' = file
  BY DEF Next, Step, Lock, NoChunk, Unlock, ChunkFails, ChunkTooLong, Call, ReadAll, DirChanges,
         vars
<1> QED BY <1>1, <1>2
-----------------------------------------------------------------------------
(* Reading a directory.                                                    *)

\* A directory none of whose entries are removed, and which is small enough
\* for f->offset, a uint32_t, to reach its end.
Listable ==
    /\ file.kind = "dir" /\ ~Removes
    /\ Before(file.entries, Len(file.entries)) < UintMod

\* What t has read so far: the entries that follow those read before.
DirTransferOK(t) ==
    Busy(t) =>
        /\ holder = t
        /\ len[t] <= call[t].count
        /\ call[t].base = offset
        /\ pc[t] = "unlock" => ret[t] \in {-1, len[t]}
        /\ \E n \in 0 .. Len(file.entries) - Len(stream) :
            /\ data[t] = Run(Len(stream), n)
            /\ offset + len[t] = Before(file.entries, Len(stream) + n)

\* The stored offset is where the first entry not yet read begins.
DirOK ==
    /\ BaseOK
    /\ \A i \in DOMAIN file.entries : file.entries[i] > 0
    /\ \A t \in Threads : call[t].kind = "read"
    /\ Len(stream) <= Len(file.entries)
    /\ stream = Run(0, Len(stream))
    /\ offset = Before(file.entries, Len(stream))
    /\ \A t \in Threads : DirTransferOK(t)

DirInv == Listable => DirOK

\* The types of what a listing is read with.
LEMMA ListTypes ==
    ASSUME file \in FileType, DirOK
    PROVE  /\ file.entries \in Seq(Nat) /\ Len(file.entries) \in Nat
           /\ DOMAIN file.entries = 1 .. Len(file.entries)
           /\ stream \in Seq(Nat) /\ Len(stream) \in 0 .. Len(file.entries)
           /\ \A n \in 0 .. Len(file.entries) - Len(stream) :
                /\ n \in Nat /\ Len(stream) + n \in 0 .. Len(file.entries)
                /\ Before(file.entries, Len(stream) + n) \in Nat
<1>1. file.entries \in Seq(Nat) /\ stream \in Seq(Nat)
  BY DEF FileType, DirOK, BaseOK
<1>2. /\ Len(file.entries) \in Nat /\ DOMAIN file.entries = 1 .. Len(file.entries)
      /\ Len(stream) \in Nat
  BY <1>1
<1>3. Len(stream) \in 0 .. Len(file.entries)
  BY <1>2 DEF DirOK
<1>4. \A n \in 0 .. Len(file.entries) - Len(stream) :
        n \in Nat /\ Len(stream) + n \in 0 .. Len(file.entries)
  BY <1>2, <1>3
<1> QED BY <1>1, <1>2, <1>3, <1>4, BeforeType

\* What ixp_srv_readdir answers t: whole entries, the ones that follow, and
\* nothing only at the end or when the next does not fit.
LEMMA DirAnswerFacts ==
    ASSUME file \in FileType, Listable, DirOK, NEW t \in Threads, pc[t] = "chunk",
           NEW a \in Answers(t)
    PROVE  /\ a.file = file /\ len[t] + a.count \in Nat /\ len[t] + a.count <= call[t].count
           /\ a.count \in Nat /\ Asked(t) \in Nat
           /\ \E n \in 0 .. Len(file.entries) - Len(stream) :
                /\ data[t] \o a.data = Run(Len(stream), n)
                /\ offset + (len[t] + a.count) = Before(file.entries, Len(stream) + n)
           /\ len[t] = 0 /\ a.count = 0 /\ Len(stream) < Len(file.entries) =>
                file.entries[Len(stream) + 1] > Asked(t)
<1> DEFINE e == file.entries
           k == Len(stream)
           packed == Readdir(e, At(t), Smaller(Asked(t), iounit))
<1>1. /\ e \in Seq(Nat) /\ Len(e) \in Nat /\ DOMAIN e = 1 .. Len(e) /\ k \in 0 .. Len(e)
      /\ \A i \in DOMAIN e : e[i] > 0
      /\ \A n \in 0 .. Len(e) - k :
            n \in Nat /\ k + n \in 0 .. Len(e) /\ Before(e, k + n) \in Nat
  BY ListTypes DEF DirOK
<1>2. /\ len[t] \in Nat /\ call[t].count \in Nat /\ iounit \in Nat /\ offset \in Nat
      /\ len[t] <= call[t].count /\ call[t].base = offset
  <2>1. call[t] \in CallType /\ len[t] \in Nat /\ iounit \in Nat /\ offset \in Nat
    BY SrvFileAssumption, ClientIOAssumption DEF DirOK, BaseOK
  <2> QED BY <2>1 DEF DirOK, DirTransferOK, Busy, CallType
<1>3. PICK n0 \in 0 .. Len(e) - k :
        data[t] = Run(k, n0) /\ offset + len[t] = Before(e, k + n0)
  BY DEF DirOK, DirTransferOK, Busy
<1> DEFINE m == k + n0
<1>4. /\ Asked(t) \in Nat /\ len[t] + Asked(t) <= call[t].count
      /\ Smaller(Asked(t), iounit) = Asked(t) /\ At(t) = Before(e, m)
  BY <1>2, <1>3 DEF Asked, At, Smaller
<1>5. m \in 0 .. Len(e) /\ m \in Nat /\ n0 \in Nat /\ k \in Nat
  BY <1>1
<1>6. PICK n \in 0 .. Len(e) - m :
        /\ packed = Run(m + 1, n)
        /\ Before(e, m + n) - Before(e, m) <= Asked(t)
        /\ m + n < Len(e) => Before(e, (m + n) + 1) - Before(e, m) > Asked(t)
  <2> HIDE DEF e, m
  <2> QED BY <1>1, <1>4, <1>5, ReaddirFacts, Zenon
<1>7. n \in Nat /\ m + n <= Len(e) /\ n0 + n \in 0 .. Len(e) - k /\ k + (n0 + n) = m + n
      /\ m + n \in 0 .. Len(e)
  BY <1>1, <1>5, <1>6
<1>8. a = [count |-> Bytes(e, packed), data |-> [i \in DOMAIN packed |-> packed[i] - 1],
           file |-> file]
  BY DEF Listable, Answers, DirAnswer
<1>9. Before(e, m) \in Nat /\ Before(e, m + n) \in Nat /\ Before(e, m) + n <= Before(e, m + n)
  <2> HIDE DEF e, m
  <2>1. Before(e, m) + n <= Before(e, m + n)
    BY <1>1, <1>5, <1>7, BeforeGrows
  <2> QED BY <1>1, <1>5, <1>7, <2>1, BeforeType
<1>10. a.count = Before(e, m + n) - Before(e, m)
  <2> HIDE DEF e, m
  <2>1. Bytes(e, Run(m + 1, n)) = Before(e, m + n) - Before(e, m)
    BY <1>1, <1>5, <1>7, BytesBetween
  <2> HIDE DEF packed
  <2> QED BY <1>6, <1>8, <2>1
<1>11. a.data = Run(m, n)
  <2> DEFINE r == Run(m + 1, n)
  <2> HIDE DEF m, packed
  <2>1. DOMAIN r = 1 .. n /\ \A i \in 1 .. n : r[i] - 1 = m + i - 1
    BY <1>5, <1>7 DEF Run
  <2> HIDE DEF r
  <2>2. [i \in DOMAIN r |-> r[i] - 1] = [i \in 1 .. n |-> m + i - 1]
    BY <2>1
  <2> QED BY <1>6, <1>8, <2>2 DEF r, Run
<1>12. a.file = file /\ a.count \in Nat /\ a.count <= Asked(t)
  <2> HIDE DEF e, m, packed
  <2> QED BY <1>6, <1>8, <1>9, <1>10
<1>13. len[t] + a.count \in Nat /\ len[t] + a.count <= call[t].count
  BY <1>2, <1>4, <1>12
<1>14. data[t] \o a.data = Run(k, n0 + n)
  <2>1. Run(k, n0) \o Run(k + n0, n) = Run(k, n0 + n)
    BY <1>5, <1>7, RunsJoin
  <2> HIDE DEF k
  <2> QED BY <1>3, <1>11, <2>1
<1>15. offset + (len[t] + a.count) = Before(e, k + (n0 + n))
  <2> HIDE DEF e, k
  <2>1. offset + len[t] = Before(e, m)
    BY <1>3
  <2> HIDE DEF m
  <2>2. offset + (len[t] + a.count) = Before(e, m + n)
    BY <1>2, <1>9, <1>10, <2>1
  <2> QED BY <1>7, <2>2
<1>16. ASSUME len[t] = 0, a.count = 0, k < Len(e) PROVE e[k + 1] > Asked(t)
  <2>1. n = 0
    <3> HIDE DEF e, m
    <3> QED BY <1>7, <1>9, <1>10, <1>16
  <2>2. n0 = 0
    <3> HIDE DEF e, k
    <3>1. offset = Before(e, k)
      BY DEF DirOK, e, k
    <3>2. Before(e, k) + n0 <= Before(e, k + n0)
      <4>1. k + n0 <= Len(e)
        BY <1>5
      <4> QED BY <1>1, <1>5, <4>1, BeforeGrows
    <3> HIDE DEF m
    <3> QED BY <1>2, <1>3, <1>5, <1>16, <3>1, <3>2
  <2>3. m = k /\ m + n = k /\ (m + n) + 1 = k + 1 /\ m + n < Len(e)
    BY <1>5, <1>16, <2>1, <2>2
  <2>4. Before(e, k + 1) - Before(e, k) > Asked(t)
    BY <1>6, <2>3
  <2>5. Before(e, k + 1) = Before(e, k) + e[k + 1]
    BY <1>5, BeforeStep
  <2>6. Before(e, k) \in Nat /\ e[k + 1] \in Nat
    <3>1. k + 1 \in 1 .. Len(e)
      BY <1>5, <1>16
    <3> HIDE DEF e, k
    <3> QED BY <1>1, <3>1, BeforeType, ElementOfSeq
  <2> HIDE DEF e, k
  <2> QED BY <1>4, <2>4, <2>5, <2>6
<1> HIDE DEF packed
<1> QED BY <1>4, <1>7, <1>12, <1>13, <1>14, <1>15, <1>16

\* No other thread reads while t does, and none is disturbed.
LEMMA DirOthers ==
    ASSUME DirOK, NEW t \in Threads, file' = file,
           \A u \in Threads \ {t} : pc'[u] = pc[u] /\ call'[u] = call[u] /\ len'[u] = len[u]
                                    /\ ret'[u] = ret[u] /\ data'[u] = data[u],
           DirTransferOK(t)',
           \/ offset' = offset /\ holder' = holder /\ stream' = stream
           \/ pc[t] = "unlock"
           \/ holder = Nil
    PROVE  \A u \in Threads : DirTransferOK(u)'
<1> SUFFICES ASSUME NEW u \in Threads, u # t, Busy(u)' PROVE DirTransferOK(u)'
  BY DEF DirTransferOK
<1>1. Busy(u) /\ holder = u /\ DirTransferOK(u)
  BY DEF Busy, DirOK, DirTransferOK
<1>2. ~Busy(t)
  BY <1>1 DEF DirOK, DirTransferOK
<1>3. offset' = offset /\ holder' = holder /\ stream' = stream
  BY <1>1, <1>2, ClientIOAssumption DEF Busy
<1> QED BY <1>1, <1>3 DEF DirTransferOK, Busy

\* The invariant holds when the directory is opened.
LEMMA InitDir ==
    Init => DirInv
<1> SUFFICES ASSUME Init, Listable PROVE DirOK
  BY DEF DirInv
<1>1. file \in FileType /\ \A i \in DOMAIN file.entries : file.entries[i] > 0
  BY ClientIOAssumption DEF Init, Listable
<1>2. file.entries \in Seq(Nat)
  BY <1>1 DEF FileType
<1>3. iounit \in 0 .. Msize - 24
  <2>1. PICK a \in Iounits : iounit = Unit(a)
    BY DEF Init
  <2> QED BY <2>1, ClientIOAssumption DEF Unit
<1>4. NoCall \in CallType
  BY SrvFileAssumption, ClientIOAssumption DEF NoCall, CallType
<1>5. BaseOK
  <2>1. overrun \in BOOLEAN
    BY DEF Init
  <2> QED BY <1>3, <1>4, <2>1, SrvFileAssumption, ClientIOAssumption DEF Init, BaseOK, NoCall
<1>6. \A t \in Threads : DirTransferOK(t) /\ call[t].kind = "read"
  BY DEF Init, DirTransferOK, Busy, NoCall
<1>7. Len(stream) = 0 /\ stream = Run(0, Len(stream))
  <2>1. Len(stream) = 0 /\ Run(0, 0) \in Seq(Nat) /\ Len(Run(0, 0)) = 0
    BY RunFacts DEF Init
  <2>2. Run(0, 0) = <<>>
    BY <2>1
  <2> QED BY <2>1, <2>2 DEF Init
<1>8. offset = Before(file.entries, Len(stream))
  <2>1. Before(file.entries, 0) = 0
    BY BeforeStep
  <2> QED BY <1>7, <2>1 DEF Init
<1>9. Len(stream) <= Len(file.entries)
  BY <1>2, <1>7
<1> QED BY <1>1, <1>5, <1>6, <1>7, <1>8, <1>9 DEF DirOK

\* A call begins: nothing is read yet.
LEMMA CallDir ==
    ASSUME file.kind = "dir", DirOK, NEW t \in Threads,
           \/ \E kind \in Kinds, count \in 0 .. MaxCount, base \in 0 .. MaxCount :
                    Call(t, kind, count, base)
           \/ ReadAll(t)
    PROVE  DirOK'
<1>1. PICK c \in CallType :
        /\ call' = [call EXCEPT ![t] = c] /\ c.kind = "read"
        /\ c.count \in 0 .. MaxCount \/ c.count = iounit
        /\ pc[t] = "idle" /\ pc' = [pc EXCEPT ![t] = "lock"]
        /\ ncalls < MaxCalls /\ ncalls' = ncalls + 1
        /\ UNCHANGED <<file, iounit, offset, holder, len, ret, data, stream, overrun, parity>>
  <2>1. ASSUME NEW kind \in Kinds, NEW count \in 0 .. MaxCount, NEW base \in 0 .. MaxCount,
               Call(t, kind, count, base)
        PROVE  \E c \in CallType :
                /\ call' = [call EXCEPT ![t] = c] /\ c.kind = "read"
                /\ c.count \in 0 .. MaxCount \/ c.count = iounit
                /\ pc[t] = "idle" /\ pc' = [pc EXCEPT ![t] = "lock"]
                /\ ncalls < MaxCalls /\ ncalls' = ncalls + 1
                /\ UNCHANGED <<file, iounit, offset, holder, len, ret, data, stream, overrun, parity>>
    <3> DEFINE c == [kind |-> kind, count |-> count, base |-> base, again |-> FALSE]
    <3>1. c \in CallType /\ c.kind = "read" /\ c.count \in 0 .. MaxCount
      BY <2>1, SrvFileAssumption, ClientIOAssumption DEF CallType, Call
    <3>2. /\ call' = [call EXCEPT ![t] = c]
          /\ pc[t] = "idle" /\ pc' = [pc EXCEPT ![t] = "lock"]
          /\ ncalls < MaxCalls /\ ncalls' = ncalls + 1
          /\ UNCHANGED <<file, iounit, offset, holder, len, ret, data, stream, overrun, parity>>
      BY <2>1 DEF Call
    <3> HIDE DEF c
    <3> QED BY <3>1, <3>2
  <2>2. ASSUME ReadAll(t)
        PROVE  \E c \in CallType :
                /\ call' = [call EXCEPT ![t] = c] /\ c.kind = "read"
                /\ c.count \in 0 .. MaxCount \/ c.count = iounit
                /\ pc[t] = "idle" /\ pc' = [pc EXCEPT ![t] = "lock"]
                /\ ncalls < MaxCalls /\ ncalls' = ncalls + 1
                /\ UNCHANGED <<file, iounit, offset, holder, len, ret, data, stream, overrun, parity>>
    <3> DEFINE c == [kind |-> "read", count |-> iounit, base |-> 0, again |-> TRUE]
    <3>1. c \in CallType /\ c.kind = "read" /\ c.count = iounit
      BY SrvFileAssumption, ClientIOAssumption DEF CallType, DirOK, BaseOK
    <3>2. /\ call' = [call EXCEPT ![t] = c]
          /\ pc[t] = "idle" /\ pc' = [pc EXCEPT ![t] = "lock"]
          /\ ncalls < MaxCalls /\ ncalls' = ncalls + 1
          /\ UNCHANGED <<file, iounit, offset, holder, len, ret, data, stream, overrun, parity>>
      BY <2>2 DEF ReadAll
    <3> HIDE DEF c
    <3> QED BY <3>1, <3>2
  <2> QED BY <2>1, <2>2
<1>2. BaseOK'
  BY <1>1, ClientIOAssumption DEF DirOK, BaseOK
<1>3. DirTransferOK(t)'
  BY <1>1 DEF DirOK, BaseOK, DirTransferOK, Busy
<1>4. \A u \in Threads \ {t} : pc'[u] = pc[u] /\ call'[u] = call[u] /\ len'[u] = len[u]
                               /\ ret'[u] = ret[u] /\ data'[u] = data[u]
  BY <1>1 DEF DirOK, BaseOK
<1>5. \A u \in Threads : DirTransferOK(u)'
  BY <1>1, <1>3, <1>4, DirOthers
<1>6. \A u \in Threads : call'[u].kind = "read"
  BY <1>1 DEF DirOK, BaseOK
<1> QED BY <1>1, <1>2, <1>5, <1>6 DEF DirOK

\* A read takes the lock and begins at the first entry not yet read.
LEMMA LockDir ==
    ASSUME file \in FileType, DirOK, NEW t \in Threads, Lock(t)
    PROVE  DirOK'
<1>1. BaseOK /\ call[t] \in CallType /\ offset \in 0 .. UintMod + MaxCount
  <2>1. BaseOK
    BY DEF DirOK
  <2>2. offset \in 0 .. UintMod - 1 /\ call \in [Threads -> CallType]
    BY <2>1 DEF BaseOK
  <2>3. UintMod \in Nat /\ MaxCount \in Nat
    BY SrvFileAssumption, ClientIOAssumption
  <2>4. offset \in 0 .. UintMod + MaxCount
    BY <2>2, <2>3
  <2> QED BY <2>1, <2>2, <2>4
<1> USE DEF Lock
<1>2. /\ call' \in [Threads -> CallType]
      /\ \A u \in Threads : call'[u].count = call[u].count /\ call'[u].kind = call[u].kind
      /\ call'[t].base = offset
  BY <1>1 DEF BaseOK, DirOK, CallType, Stored
<1>3. BaseOK'
  BY <1>1, <1>2 DEF BaseOK
<1>4. DirTransferOK(t)'
  <2>1. /\ Len(stream) \in Nat /\ Len(file.entries) \in Nat /\ Len(stream) + 0 = Len(stream)
        /\ 0 \in 0 .. Len(file.entries) - Len(stream)
    BY ListTypes
  <2>2. Run(Len(stream), 0) \in Seq(Nat) /\ Len(Run(Len(stream), 0)) = 0
    BY <2>1, RunFacts
  <2>3. Run(Len(stream), 0) = <<>>
    BY <2>2
  <2>4. pc'[t] = "chunk" /\ len'[t] = 0 /\ data'[t] = <<>> /\ holder' = t
    BY <1>1 DEF BaseOK
  <2>5. call'[t].count \in Nat /\ 0 <= call'[t].count
    BY <1>2 DEF CallType
  <2>6. offset + 0 = Before(file.entries, Len(stream) + 0)
    BY <1>1, <2>1 DEF DirOK, BaseOK
  <2>7. \E n \in 0 .. Len(file.entries) - Len(stream) :
            /\ data'[t] = Run(Len(stream), n)
            /\ offset + len'[t] = Before(file.entries, Len(stream) + n)
    BY <2>1, <2>3, <2>4, <2>6
  <2> QED BY <1>2, <2>4, <2>5, <2>7 DEF DirTransferOK
<1>5. \A u \in Threads \ {t} : pc'[u] = pc[u] /\ call'[u] = call[u] /\ len'[u] = len[u]
                               /\ ret'[u] = ret[u] /\ data'[u] = data[u]
  BY <1>1 DEF BaseOK
<1>6. \A u \in Threads : DirTransferOK(u)'
  BY <1>4, <1>5, DirOthers
<1> QED BY <1>2, <1>3, <1>6 DEF DirOK

\* _pread returns without another answer.
LEMMA ReturnDir ==
    ASSUME DirOK, NEW t \in Threads,
           ChunkFails(t) \/ ChunkTooLong(t) \/ NoChunk(t)
    PROVE  DirOK'
<1>1. BaseOK /\ DirTransferOK(t)
  BY DEF DirOK
<1>2. PICK n \in {-1, len[t]} :
        /\ pc[t] = "chunk" /\ Return(t, n)
        /\ UNCHANGED <<file, iounit, offset, holder, call, len, data, ncalls, stream, overrun, parity>>
  BY DEF ChunkFails, ChunkTooLong, NoChunk
<1>3. BaseOK'
  BY <1>1, <1>2 DEF BaseOK, Return
<1>4. pc'[t] = "unlock" /\ ret'[t] = n
  BY <1>1, <1>2 DEF BaseOK, Return
<1>5. DirTransferOK(t)'
  BY <1>1, <1>2, <1>4 DEF DirTransferOK, Busy
<1>6. \A u \in Threads \ {t} : pc'[u] = pc[u] /\ call'[u] = call[u] /\ len'[u] = len[u]
                               /\ ret'[u] = ret[u] /\ data'[u] = data[u]
  BY <1>1, <1>2 DEF BaseOK, Return
<1>7. \A u \in Threads : DirTransferOK(u)'
  BY <1>2, <1>5, <1>6, DirOthers
<1> QED BY <1>2, <1>3, <1>7 DEF DirOK

\* _pread gets one more answer.
LEMMA ChunkDir ==
    ASSUME file \in FileType, Listable, DirOK, NEW t \in Threads, Chunk(t)
    PROVE  DirOK'
<1>1. /\ BaseOK /\ DirTransferOK(t)
      /\ pc[t] = "chunk" /\ UNCHANGED <<iounit, offset, holder, call, ncalls, stream>>
      /\ parity' = 1 - parity
  BY DEF DirOK, Chunk
<1>2. PICK a \in Answers(t) :
        /\ len' = [len EXCEPT ![t] = @ + a.count]
        /\ data' = [data EXCEPT ![t] = @ \o a.data]
        /\ file' = a.file
        /\ overrun' = (overrun \/ (~Reads(t) /\ a.count > Asked(t)))
        /\ \/ Return(t, len[t] + a.count)
           \/ UNCHANGED <<pc, ret>>
  BY DEF Chunk
<1>3. /\ a.file = file /\ len[t] + a.count \in Nat /\ len[t] + a.count <= call[t].count
      /\ \E n \in 0 .. Len(file.entries) - Len(stream) :
            /\ data[t] \o a.data = Run(Len(stream), n)
            /\ offset + (len[t] + a.count) = Before(file.entries, Len(stream) + n)
  BY <1>1, DirAnswerFacts
<1>4. data[t] \o a.data \in Seq(Nat)
  <2>1. PICK n \in 0 .. Len(file.entries) - Len(stream) : data[t] \o a.data = Run(Len(stream), n)
    BY <1>3
  <2>2. n \in Nat /\ Len(stream) \in Nat
    BY ListTypes
  <2> QED BY <2>1, <2>2, RunFacts
<1>5. /\ len'[t] = len[t] + a.count /\ data'[t] = data[t] \o a.data
      /\ \/ pc'[t] = "unlock" /\ ret'[t] = len[t] + a.count
         \/ pc'[t] = "chunk"
      /\ len' \in [Threads -> Nat] /\ data' \in [Threads -> Seq(Nat)]
      /\ pc' \in [Threads -> {"idle", "lock", "chunk", "unlock"}]
      /\ ret' \in [Threads -> Nat \cup {-1}]
  BY <1>1, <1>2, <1>3, <1>4 DEF BaseOK, Return
<1>6. BaseOK'
  <2>1. parity' \in {0, 1}
    BY <1>1 DEF BaseOK
  <2>2. overrun' \in BOOLEAN
    BY <1>2
  <2> QED BY <1>1, <1>5, <2>1, <2>2 DEF BaseOK
<1>7. DirTransferOK(t)'
  <2>1. holder' = t /\ call'[t].base = offset'
    BY <1>1 DEF DirTransferOK, Busy
  <2>2. len'[t] <= call'[t].count /\ (pc'[t] = "unlock" => ret'[t] \in {-1, len'[t]})
    BY <1>1, <1>3, <1>5
  <2>3. file' = file /\ stream' = stream /\ offset' = offset
    BY <1>1, <1>2, <1>3
  <2>4. \E n \in 0 .. Len(file'.entries) - Len(stream') :
            /\ data'[t] = Run(Len(stream'), n)
            /\ offset' + len'[t] = Before(file'.entries, Len(stream') + n)
    BY <1>3, <1>5, <2>3
  <2> QED BY <2>1, <2>2, <2>4 DEF DirTransferOK
<1>8. \A u \in Threads \ {t} : pc'[u] = pc[u] /\ call'[u] = call[u] /\ len'[u] = len[u]
                               /\ ret'[u] = ret[u] /\ data'[u] = data[u]
  BY <1>1, <1>2 DEF BaseOK, Return
<1>9. \A u \in Threads : DirTransferOK(u)'
  BY <1>1, <1>2, <1>3, <1>7, <1>8, DirOthers
<1> QED BY <1>1, <1>2, <1>3, <1>6, <1>9 DEF DirOK

\* f->offset passes the entries that were read and reaches the next.
LEMMA UnlockDir ==
    ASSUME file \in FileType, Listable, DirOK, NEW t \in Threads, Unlock(t)
    PROVE  DirOK'
<1> DEFINE e == file.entries
           k == Len(stream)
<1>1. /\ BaseOK /\ DirTransferOK(t) /\ pc[t] = "unlock"
      /\ UNCHANGED <<file, iounit, ncalls, overrun>> /\ holder' = Nil
      /\ Forget(t) /\ Stored(t)
  BY DEF DirOK, Unlock, Stored
<1>2. /\ e \in Seq(Nat) /\ Len(e) \in Nat /\ k \in Nat /\ k <= Len(e) /\ stream \in Seq(Nat)
      /\ \A i \in DOMAIN e : e[i] > 0
      /\ \A n \in 0 .. Len(e) - k :
            n \in Nat /\ k + n \in 0 .. Len(e) /\ Before(e, k + n) \in Nat
  <2>1. /\ e \in Seq(Nat) /\ Len(e) \in Nat /\ k \in 0 .. Len(e) /\ stream \in Seq(Nat)
        /\ \A n \in 0 .. Len(e) - k :
              n \in Nat /\ k + n \in 0 .. Len(e) /\ Before(e, k + n) \in Nat
    BY ListTypes
  <2>2. \A i \in DOMAIN e : e[i] > 0
    BY DEF DirOK
  <2> HIDE DEF e, k
  <2> QED BY <2>1, <2>2
<1>3. PICK n \in 0 .. Len(e) - k : data[t] = Run(k, n) /\ offset + len[t] = Before(e, k + n)
  BY <1>1 DEF DirTransferOK, Busy
<1>4. offset \in Nat /\ len[t] \in Nat /\ ret[t] \in {-1, len[t]} /\ n \in Nat
  BY <1>1, <1>2, SrvFileAssumption DEF BaseOK, DirTransferOK, Busy
<1>5. Before(e, k + n) < UintMod /\ Before(e, k + n) \in Nat
  <2> DEFINE m == k + n
             r == Len(e) - m
  <2>1. m \in Nat /\ r \in Nat /\ m + r = Len(e) /\ m + r <= Len(e)
    <3> HIDE DEF e, k
    <3> QED BY <1>2
  <2>2. Before(e, m) \in Nat /\ Before(e, Len(e)) \in Nat
    <3>1. m \in 0 .. Len(e) /\ Len(e) \in 0 .. Len(e)
      BY <1>2
    <3> HIDE DEF m, e
    <3> QED BY <1>2, <3>1, BeforeType
  <2>3. Before(e, Len(e)) < UintMod
    BY DEF Listable
  <2> HIDE DEF m, r, e
  <2>4. Before(e, m) + r <= Before(e, m + r)
    BY <1>2, <2>1, BeforeGrows
  <2>5. Before(e, m) + r <= Before(e, Len(e))
    BY <2>1, <2>4
  <2>6. Before(e, m) < UintMod
    BY <2>1, <2>2, <2>3, <2>5, SrvFileAssumption
  <2> QED BY <2>2, <2>6 DEF m
<1>6. /\ offset' \in 0 .. UintMod - 1 /\ stream' \in Seq(Nat) /\ Len(stream') <= Len(e)
      /\ stream' = Run(0, Len(stream')) /\ offset' = Before(e, Len(stream'))
  <2>1. CASE ret[t] > 0
    <3>1. offset' = (offset + len[t]) % UintMod /\ stream' = stream \o data[t]
      BY <1>1, <1>4, <2>1 DEF Unlock
    <3>2. offset' = Before(e, k + n)
      <4> HIDE DEF e, k
      <4>1. Before(e, k + n) % UintMod = Before(e, k + n)
        BY <1>5, SmallMod
      <4> QED BY <1>3, <3>1, <4>1
    <3>3. Run(0, k) \o Run(0 + k, n) = Run(0, k + n)
      BY <1>2, <1>4, RunsJoin
    <3>4. 0 + k = k /\ k + n \in Nat /\ k + n <= Len(e)
      BY <1>2, <1>4
    <3>5. stream = Run(0, k)
      BY DEF DirOK
    <3> HIDE DEF k
    <3>6. stream' = Run(0, k + n)
      BY <1>3, <3>1, <3>3, <3>4, <3>5
    <3>7. Run(0, k + n) \in Seq(Nat) /\ Len(Run(0, k + n)) = k + n
      BY <3>4, RunFacts
    <3>8. Len(stream') = k + n /\ stream' \in Seq(Nat)
      BY <3>6, <3>7
    <3> HIDE DEF e
    <3>9. offset' \in 0 .. UintMod - 1
      BY <1>5, <3>2, SrvFileAssumption
    <3> QED BY <3>2, <3>4, <3>6, <3>8, <3>9
  <2>2. CASE ~(ret[t] > 0)
    BY <1>1, <1>2, <2>2 DEF Unlock, BaseOK, DirOK
  <2> QED BY <2>1, <2>2
<1> HIDE DEF e, k
<1>7. /\ pc'[t] \in {"idle", "lock"}
      /\ pc' \in [Threads -> {"idle", "lock", "chunk", "unlock"}]
      /\ len' \in [Threads -> Nat] /\ ret' \in [Threads -> Nat \cup {-1}]
      /\ data' \in [Threads -> Seq(Nat)] /\ parity' \in {0, 1}
  BY <1>1 DEF Forget, BaseOK
<1>8. /\ call' \in [Threads -> CallType]
      /\ \A u \in Threads : call'[u].count \in 0 .. MaxCount \/ call'[u].count = iounit
      /\ call'[t].kind \in {call[t].kind, "read"}
  BY <1>1, ForgetCalls
<1>9. BaseOK'
  BY <1>1, <1>6, <1>7, <1>8 DEF BaseOK
<1>10. DirTransferOK(t)'
  BY <1>7 DEF DirTransferOK, Busy
<1>11. \A u \in Threads \ {t} : pc'[u] = pc[u] /\ call'[u] = call[u] /\ len'[u] = len[u]
                                /\ ret'[u] = ret[u] /\ data'[u] = data[u]
  BY <1>1 DEF BaseOK, Forget
<1>12. \A u \in Threads : DirTransferOK(u)'
  BY <1>1, <1>10, <1>11, DirOthers
<1>13. \A u \in Threads : call'[u].kind = "read"
  BY <1>8, <1>11 DEF DirOK
<1> QED BY <1>1, <1>6, <1>9, <1>12, <1>13 DEF DirOK, e

\* The directory grows at its end, behind whatever was read.
LEMMA DirGrows ==
    ASSUME file \in FileType, DirInv, DirChanges, Listable'
    PROVE  DirOK'
<1> DEFINE e == file.entries
           d == file'.entries
<1>1. e \in Seq(Nat) /\ Len(e) \in Nat /\ DOMAIN e = 1 .. Len(e)
  BY DEF FileType
<1>2. PICK x \in 1 .. MaxCount : d = Append(e, x)
  BY DEF DirChanges, Listable, FileType
<1>3. /\ d \in Seq(Nat) /\ Len(d) = Len(e) + 1 /\ d[Len(e) + 1] = x /\ x \in Nat /\ x > 0
      /\ \A i \in 1 .. Len(e) : d[i] = e[i]
      /\ DOMAIN d = 1 .. Len(e) + 1
  <2>1. x \in Nat /\ x > 0
    BY ClientIOAssumption
  <2> HIDE DEF e, d
  <2> QED BY <1>1, <1>2, <2>1, AppendProperties
<1>4. UNCHANGED <<iounit, offset, holder, pc, call, len, ret, data, ncalls, stream, overrun, parity>>
  BY DEF DirChanges
<1>5. file.kind = "dir" /\ ~Removes /\ Before(d, Len(d)) < UintMod
  BY DEF DirChanges, Listable
<1> HIDE DEF d
<1>6. \A n \in 0 .. Len(e) : Before(d, n) = Before(e, n)
  <2> HIDE DEF e
  <2> QED BY <1>1, <1>2, <1>3, BeforeAppend
<1>7. Listable
  <2> HIDE DEF e
  <2>1. Len(e) \in 0 .. Len(e)
    BY <1>1
  <2>2. Before(e, Len(e)) \in Nat
    BY <1>1, <2>1, BeforeType
  <2>3. Before(d, Len(e) + 1) = Before(d, Len(e)) + d[Len(e) + 1]
    BY <1>1, BeforeStep
  <2>4. Before(d, Len(d)) = Before(e, Len(e)) + x
    BY <1>3, <1>6, <2>1, <2>3
  <2>5. Before(e, Len(e)) < UintMod
    BY <1>3, <1>5, <2>2, <2>4, SrvFileAssumption
  <2> QED BY <1>5, <2>5 DEF Listable, e
<1>8. DirOK
  BY <1>7 DEF DirInv
<1>9. Len(stream) \in Nat /\ Len(stream) <= Len(e)
  BY <1>8, ListTypes
<1>10. BaseOK'
  <2>1. BaseOK
    BY <1>8 DEF DirOK
  <2> QED BY <1>4, <2>1 DEF BaseOK
<1>11. \A i \in DOMAIN d : d[i] > 0
  <2>1. \A i \in 1 .. Len(e) : e[i] > 0
    BY <1>1, <1>8 DEF DirOK
  <2> HIDE DEF e
  <2> QED BY <1>1, <1>3, <2>1
<1>12. ASSUME NEW t \in Threads, Busy(t)' PROVE DirTransferOK(t)'
  <2>1. Busy(t) /\ DirTransferOK(t)
    BY <1>4, <1>8, <1>12 DEF Busy, DirOK
  <2>2. PICK n \in 0 .. Len(e) - Len(stream) :
            data[t] = Run(Len(stream), n) /\ offset + len[t] = Before(e, Len(stream) + n)
    BY <2>1 DEF DirTransferOK
  <2> HIDE DEF e
  <2>3. Len(stream) + n \in 0 .. Len(e) /\ n \in 0 .. Len(d) - Len(stream)
    BY <1>1, <1>3, <1>9
  <2>4. offset + len[t] = Before(d, Len(stream) + n)
    BY <1>6, <2>2, <2>3
  <2>5. \E j \in 0 .. Len(d) - Len(stream) :
            data[t] = Run(Len(stream), j) /\ offset + len[t] = Before(d, Len(stream) + j)
    BY <2>2, <2>3, <2>4
  <2> QED BY <1>4, <2>1, <2>5 DEF DirTransferOK, d
<1>13. offset = Before(d, Len(stream))
  <2>1. offset = Before(e, Len(stream))
    BY <1>8 DEF DirOK
  <2>2. Len(stream) \in 0 .. Len(e)
    BY <1>1, <1>9
  <2> HIDE DEF e
  <2> QED BY <1>6, <2>1, <2>2
<1>14. Len(stream) <= Len(d)
  <2> HIDE DEF e
  <2> QED BY <1>1, <1>3, <1>9
<1>15. (\A t \in Threads : call[t].kind = "read") /\ stream = Run(0, Len(stream))
  BY <1>8 DEF DirOK
<1>16. \A t \in Threads : DirTransferOK(t)'
  BY <1>12 DEF DirTransferOK
<1> QED BY <1>4, <1>10, <1>11, <1>13, <1>14, <1>15, <1>16 DEF DirOK, d

\* Every step preserves the invariant of directories.
LEMMA NextDir ==
    IOInv /\ DirInv /\ [Next]_vars => DirInv'
<1> SUFFICES ASSUME IOInv, DirInv, [Next]_vars, Listable' PROVE DirOK'
  BY DEF DirInv
<1>1. file \in FileType /\ file.kind = "dir"
  BY NeverDir DEF IOInv, Listable
<1>2. CASE DirChanges
  BY <1>1, <1>2, DirGrows
<1>3. CASE ~DirChanges
  <2>1. file' = file
    <3>1. ASSUME NEW t \in Threads, Chunk(t) PROVE file' = file
      BY <1>1, <3>1 DEF Chunk, Answers, DirAnswer
    <3> QED BY <1>3, <3>1 DEF Next, Step, Lock, NoChunk, Unlock, ChunkFails, ChunkTooLong,
                                   Call, ReadAll, vars
  <2>2. Listable /\ DirOK
    BY <2>1 DEF Listable, DirInv
  <2>3. ASSUME NEW t \in Threads, Step(t) \/ ChunkFails(t) \/ ChunkTooLong(t) PROVE DirOK'
    BY <1>1, <2>2, <2>3, LockDir, ChunkDir, ReturnDir, UnlockDir DEF Step
  <2>4. ASSUME NEW t \in Threads, NEW kind \in Kinds, NEW count \in 0 .. MaxCount,
               NEW base \in 0 .. MaxCount, Call(t, kind, count, base)
        PROVE  DirOK'
    BY <1>1, <2>2, <2>4, CallDir
  <2>5. ASSUME NEW t \in Threads, ReadAll(t) PROVE DirOK'
    BY <1>1, <2>2, <2>5, CallDir
  <2>6. CASE UNCHANGED vars
    BY <2>2, <2>6 DEF DirOK, BaseOK, DirTransferOK, Busy, vars
  <2> QED BY <1>3, <2>3, <2>4, <2>5, <2>6 DEF Next
<1> QED BY <1>2, <1>3
-----------------------------------------------------------------------------
(* Theorems.                                                               *)

\* The inductive invariants hold for any number of threads and calls of
\* ixp_read, ixp_pread, ixp_write and ixp_pwrite.
THEOREM InvariantIO == Spec => [](IOInv /\ DirInv)
<1>1. Init => IOInv /\ DirInv
  BY InitIO, InitDir
<1>2. IOInv /\ DirInv /\ [Next]_vars => (IOInv /\ DirInv)'
  BY NextIO, NextDir
<1> QED BY <1>1, <1>2, PTL DEF Spec

\* What a call transfers from or to a file that is no directory.
LEMMA BytesContiguous ==
    ASSUME IOInv, Bytewise
    PROVE  Contiguous
<1>1. BaseOK /\ \A t \in Threads : TransferOK(t)
  BY DEF IOInv
<1>2. TypeOK
  BY <1>1 DEF TypeOK, BaseOK, CallType
<1>3. ASSUME NEW t \in Threads, pc[t] \in {"chunk", "unlock"}
      PROVE  /\ \E first \in 0 .. UintMod + MaxCount :
                  data[t] = Run(first, Len(data[t])) /\ Covers(t, first)
             /\ len[t] <= call[t].count
             /\ pc[t] = "unlock" => ret[t] \in {-1, len[t]}
  <2>1. PICK first \in 0 .. UintMod + MaxCount :
          data[t] = Run(first, len[t]) /\ (first = call[t].base \/ ToEnd(t))
    BY <1>1, <1>3 DEF TransferOK, Busy
  <2>2. first \in Nat /\ len[t] \in Nat
    BY <1>1, SrvFileAssumption, ClientIOAssumption DEF BaseOK
  <2>3. Len(data[t]) = len[t]
    BY <2>1, <2>2, RunFacts
  <2>4. data[t] = Run(first, Len(data[t])) /\ Covers(t, first)
    BY <2>1, <2>3 DEF Covers, ToEnd, Bytewise
  <2> QED BY <1>1, <1>3, <2>4 DEF TransferOK, Busy
<1> QED BY <1>2, <1>3 DEF Contiguous

\* What a call reads from a directory: the entries that begin at f->offset.
LEMMA EntriesContiguous ==
    ASSUME file \in FileType, Listable, DirOK
    PROVE  Contiguous
<1> DEFINE e == file.entries
           k == Len(stream)
<1>1. BaseOK /\ file.kind = "dir" /\ \A t \in Threads : DirTransferOK(t)
  BY DEF DirOK, Listable
<1>2. TypeOK
  BY <1>1 DEF TypeOK, BaseOK, CallType
<1>3. /\ e \in Seq(Nat) /\ Len(e) \in Nat /\ k \in 0 .. Len(e)
      /\ \A n \in 0 .. Len(e) - k :
            n \in Nat /\ k + n \in 0 .. Len(e) /\ Before(e, k + n) \in Nat
  BY ListTypes
<1>4. offset = Before(e, k) /\ offset \in Nat /\ offset < UintMod
  BY <1>1, SrvFileAssumption DEF DirOK, BaseOK
<1>5. k \in 0 .. UintMod + MaxCount
  <2>1. \A i \in DOMAIN e : e[i] > 0
    BY DEF DirOK
  <2> HIDE DEF e, k
  <2>2. k \in Nat /\ 0 + k = k /\ 0 + k <= Len(e)
    BY <1>3
  <2>3. Before(e, 0) + k <= Before(e, 0 + k)
    BY <1>3, <2>1, <2>2, BeforeGrows
  <2>4. Before(e, 0) = 0
    BY BeforeStep
  <2>5. k <= offset
    BY <1>4, <2>2, <2>3, <2>4
  <2> QED BY <1>4, <2>2, <2>5, SrvFileAssumption, ClientIOAssumption
<1>6. ASSUME NEW t \in Threads, pc[t] \in {"chunk", "unlock"}
      PROVE  /\ \E first \in 0 .. UintMod + MaxCount :
                  data[t] = Run(first, Len(data[t])) /\ Covers(t, first)
             /\ len[t] <= call[t].count
             /\ pc[t] = "unlock" => ret[t] \in {-1, len[t]}
  <2>1. DirTransferOK(t) /\ Busy(t)
    BY <1>1, <1>6 DEF Busy
  <2>2. PICK n \in 0 .. Len(e) - k : data[t] = Run(k, n) /\ offset + len[t] = Before(e, k + n)
    BY <2>1 DEF DirTransferOK
  <2>3. call[t].base = offset /\ len[t] \in Nat
    BY <1>1, <2>1 DEF DirTransferOK, BaseOK
  <2> HIDE DEF e, k
  <2>4. k \in Nat /\ n \in Nat /\ k + n <= Len(e) /\ Before(e, k + n) \in Nat
    <3>1. n \in Nat /\ k + n \in 0 .. Len(e) /\ Before(e, k + n) \in Nat
      BY <1>3
    <3> QED BY <1>3, <3>1
  <2>5. Len(data[t]) = n
    BY <2>2, <2>4, RunFacts
  <2>6. Bytes(e, Run(k + 1, n)) = Before(e, k + n) - Before(e, k)
    BY <1>3, <2>4, BytesBetween
  <2>7. len[t] = Before(e, k + n) - Before(e, k)
    BY <1>4, <2>2, <2>3, <2>4
  <2>8. data[t] = Run(k, Len(data[t])) /\ Covers(t, k)
    BY <1>1, <1>4, <2>2, <2>3, <2>5, <2>6, <2>7 DEF Covers, Before, e
  <2>9. \E first \in 0 .. UintMod + MaxCount :
            data[t] = Run(first, Len(data[t])) /\ Covers(t, first)
    BY <1>5, <2>8
  <2> QED BY <1>6, <2>1, <2>9 DEF DirTransferOK
<1> QED BY <1>2, <1>6 DEF Contiguous

\* What ixp_read, ixp_pread, ixp_write and ixp_pwrite transfer is one contiguous
\* run of the file, as long as they report, for every number of threads sharing
\* the fid, every iounit and every server; of a directory whole entries, for
\* listings of any length, as long as none is removed and its bytes fit into
\* f->offset.  A server that reports having read more than it was asked for makes
\* the call fail; one that reports more written ends the guarantee.
THEOREM ContiguousCorrect ==
    Spec => []((file.kind = "dir" => Listable) /\ ~overrun => Contiguous)
<1>1. IOInv /\ DirInv => ((file.kind = "dir" => Listable) /\ ~overrun => Contiguous)
  <2> SUFFICES ASSUME IOInv, DirInv, file.kind = "dir" => Listable, ~overrun PROVE Contiguous
    OBVIOUS
  <2>1. CASE file.kind = "dir"
    <3>1. file \in FileType /\ Listable /\ DirOK
      BY <2>1 DEF IOInv, DirInv
    <3> QED BY <3>1, EntriesContiguous
  <2>2. CASE file.kind # "dir"
    BY <2>2, BytesContiguous DEF Bytewise
  <2> QED BY <2>1, <2>2
<1> QED BY <1>1, InvariantIO, PTL

\* ixp_srv_writebuf keeps a buffer within its limit, so that its subtraction and
\* its sum never wrap, and the buffer ends with the last byte a write reports.
THEOREM BufferExactCorrect == Spec => []BufferExact
<1>1. IOInv => BufferExact
  <2> SUFFICES ASSUME IOInv, file.kind = "buffer" PROVE BufferExact
    BY DEF BufferExact
  <2>1. SizeOK /\ BaseOK /\ file \in FileType /\ \A t \in Threads : TransferOK(t)
    BY DEF IOInv, Bytewise
  <2>2. ASSUME NEW t \in Threads, pc[t] = "unlock", ~Reads(t), ret[t] > 0
        PROVE  Last(data[t]) = file.size - 1
    <3>1. len[t] \in Nat /\ ret[t] \in {-1, len[t]} /\ file.size \in Nat
      BY <2>1, <2>2 DEF BaseOK, TransferOK, Busy, FileType
    <3>2. len[t] > 0
      BY <2>2, <3>1
    <3>3. PICK first \in 0 .. UintMod + MaxCount :
            data[t] = Run(first, len[t]) /\ file.size = first + len[t]
      BY <2>1, <2>2, <3>2 DEF TransferOK, Busy
    <3>4. first \in Nat
      BY <3>3, SrvFileAssumption, ClientIOAssumption
    <3>5. Len(data[t]) = len[t] /\ data[t][len[t]] = first + len[t] - 1
      <4>1. len[t] \in 1 .. len[t]
        BY <3>1, <3>2
      <4>2. /\ Len(Run(first, len[t])) = len[t]
            /\ \A i \in 1 .. len[t] : Run(first, len[t])[i] = first + i - 1
        BY <3>1, <3>4, RunFacts
      <4> QED BY <3>3, <4>1, <4>2
    <3> QED BY <3>1, <3>3, <3>4, <3>5 DEF Last
  <2> QED BY <2>1, <2>2 DEF BufferExact, SizeOK
<1> QED BY <1>1, InvariantIO, PTL

\* f->offset, a uint32_t, has not wrapped, and no entry was removed.
OffsetExact == IF file.kind = "dir" THEN Listable ELSE Len(stream) < UintMod

\* The ixp_reads and ixp_writes of all threads go through the file in order,
\* every byte once, and through a directory, every entry once, although it
\* grows, as long as f->offset has not wrapped and no entry is removed.
THEOREM StreamInOrderCorrect == Spec => [](OffsetExact => StreamInOrder)
<1>1. IOInv /\ DirInv => (OffsetExact => StreamInOrder)
  <2> SUFFICES ASSUME IOInv, DirInv, OffsetExact, ~file.append, ~overrun, NEW i \in DOMAIN stream
               PROVE  LET last == IF i = 1 THEN -1 ELSE stream[i - 1]
                          removed == IF file.kind = "dir"
                                     THEN {e \in DOMAIN file.entries : file.entries[e] = 0}
                                     ELSE {}
                      IN  /\ stream[i] > last
                          /\ \A k \in last + 1 .. stream[i] - 1 : k + 1 \in removed
    BY DEF StreamInOrder
  <2>1. stream \in Seq(Nat) /\ stream = Run(0, Len(stream))
    <3>1. CASE file.kind = "dir"
      BY <3>1 DEF DirInv, DirOK, BaseOK, OffsetExact
    <3>2. CASE file.kind # "dir"
      BY <3>2 DEF IOInv, Bytewise, BaseOK, StreamOK, OffsetExact
    <3> QED BY <3>1, <3>2
  <2>2. Len(stream) \in Nat /\ i \in 1 .. Len(stream)
    BY <2>1
  <2>3. \A j \in 1 .. Len(stream) : stream[j] = j - 1
    <3>1. 0 \in Nat /\ \A j \in 1 .. Len(stream) : Run(0, Len(stream))[j] = 0 + j - 1
      BY <2>2, RunFacts
    <3> QED BY <2>1, <3>1
  <2>4. stream[i] = i - 1 /\ (i # 1 => stream[i - 1] = i - 2)
    BY <2>2, <2>3
  <2> QED BY <2>2, <2>4
<1> QED BY <1>1, InvariantIO, PTL
-----------------------------------------------------------------------------
(* The end of a file.                                                      *)

\* A read of something that returns nothing got an answer that was empty.
LEMMA EmptyAnswer ==
    ASSUME BaseOK, [Next]_vars, NEW t \in Threads,
           pc[t] = "chunk", pc'[t] = "unlock", Reads(t), ret'[t] = 0, call[t].count > 0
    PROVE  \E a \in Answers(t) : /\ len[t] + a.count = 0
                                 /\ a.count < Asked(t) \/ len[t] + a.count >= call[t].count
<1>1. len[t] \in Nat /\ call[t].count \in Nat
  BY DEF BaseOK, CallType
<1>2. CASE Chunk(t)
  <2>1. PICK a \in Answers(t) :
          IF a.count < Asked(t) \/ len[t] + a.count >= call[t].count
          THEN Return(t, len[t] + a.count)
          ELSE UNCHANGED <<pc, ret>>
    BY <1>2 DEF Chunk
  <2>2. /\ a.count < Asked(t) \/ len[t] + a.count >= call[t].count
        /\ ret'[t] = len[t] + a.count
    BY <2>1 DEF Return, BaseOK
  <2> QED BY <2>2
<1>3. ~NoChunk(t)
  <2> SUFFICES ASSUME NoChunk(t) PROVE FALSE
    OBVIOUS
  <2>1. ret'[t] = len[t] /\ ~(len[t] < call[t].count)
    BY DEF NoChunk, Return, BaseOK, MoreChunks
  <2> QED BY <1>1, <2>1
<1>4. ~ChunkFails(t) /\ ~ChunkTooLong(t)
  BY DEF ChunkFails, ChunkTooLong, Return, BaseOK
<1>5. ~Lock(t) /\ ~Unlock(t)
  BY DEF Lock, Unlock
<1>6. ASSUME NEW u \in Threads, u # t PROVE ~Step(u) /\ ~ChunkFails(u) /\ ~ChunkTooLong(u)
  BY <1>6 DEF Step, Lock, Chunk, NoChunk, ChunkFails, ChunkTooLong, Unlock, Forget, Return, BaseOK
<1>7. ASSUME NEW u \in Threads, NEW kind \in Kinds, NEW count \in 0 .. MaxCount,
             NEW base \in 0 .. MaxCount
      PROVE  ~Call(u, kind, count, base)
  BY DEF Call, BaseOK
<1>8. ASSUME NEW u \in Threads PROVE ~ReadAll(u)
  BY DEF ReadAll, BaseOK
<1>9. ~DirChanges /\ ~UNCHANGED vars
  BY DEF DirChanges, vars
<1> QED BY <1>2, <1>3, <1>4, <1>5, <1>6, <1>7, <1>8, <1>9 DEF Next, Step

\* A read that returns nothing was at the end of the buffer.
LEMMA NothingLeft ==
    ASSUME IOInv, file.kind = "buffer", [Next]_vars, NEW t \in Threads,
           pc[t] = "chunk", pc'[t] = "unlock", Reads(t), ret'[t] = 0, call[t].count > 0
    PROVE  call[t].base >= file.size
<1>0. Bytewise
  BY DEF IOInv, Bytewise
<1>1. /\ len[t] \in Nat /\ call[t].count \in Nat /\ call[t].base \in Nat
      /\ At(t) = call[t].base + len[t] /\ Asked(t) \in Nat /\ BaseOK
  BY <1>0, AskedFacts DEF IOInv
<1>2. PICK a \in Answers(t) : /\ len[t] + a.count = 0
                              /\ a.count < Asked(t) \/ len[t] + a.count >= call[t].count
  BY <1>1, EmptyAnswer
<1>3. AnswerOK(t, a)
  BY <1>0, AnswerFacts
<1>4. a.count \in Nat
  BY <1>1, <1>3 DEF AnswerOK
<1>5. len[t] = 0 /\ a.count = 0 /\ Asked(t) > 0
  BY <1>1, <1>2, <1>4
<1>6. At(t) >= file.size
  BY <1>3, <1>5 DEF AnswerOK
<1> QED BY <1>1, <1>5, <1>6

\* A read that returns nothing was at the end of the directory, or before an
\* entry that does not fit.
LEMMA NothingFits ==
    ASSUME file \in FileType, Listable, DirOK, [Next]_vars, NEW t \in Threads,
           pc[t] = "chunk", pc'[t] = "unlock", Reads(t), ret'[t] = 0, call[t].count > 0,
           NEW i \in DOMAIN file.entries, i > Len(stream)
    PROVE  \E j \in Len(stream) + 1 .. i : file.entries[j] > Smaller(call[t].count, iounit)
<1>1. BaseOK
  BY DEF DirOK
<1>2. PICK a \in Answers(t) : len[t] + a.count = 0
  BY <1>1, EmptyAnswer
<1>3. /\ a.count \in Nat
      /\ len[t] = 0 /\ a.count = 0 /\ Len(stream) < Len(file.entries) =>
            file.entries[Len(stream) + 1] > Asked(t)
  BY DirAnswerFacts
<1>4. len[t] = 0 /\ a.count = 0
  <2>1. len[t] \in Nat
    BY <1>1 DEF BaseOK
  <2> QED BY <1>2, <1>3, <2>1
<1>5. Len(stream) < Len(file.entries) /\ Len(stream) + 1 \in Len(stream) + 1 .. i
  <2>1. /\ Len(file.entries) \in Nat /\ DOMAIN file.entries = 1 .. Len(file.entries)
        /\ Len(stream) \in 0 .. Len(file.entries)
    BY ListTypes
  <2> QED BY <2>1
<1>6. Asked(t) = Smaller(call[t].count, iounit)
  <2>1. call[t].count - len[t] = call[t].count
    BY <1>1, <1>4 DEF BaseOK, CallType
  <2> QED BY <2>1 DEF Asked
<1> QED BY <1>3, <1>4, <1>5, <1>6

\* ixp_read returns nothing, which ixpc takes for the end of the file, only at
\* the end of a buffer, whatever was written meanwhile, and at the end of a
\* directory or before an entry larger than the read, while the directory grows;
\* of a directory as long as its offsets are exact (see OffsetExact).
THEOREM EndIsEndCorrect == Spec /\ [](file.kind = "dir" => Listable) => EndIsEnd
<1>1. IOInv /\ DirInv /\ (file.kind = "dir" => Listable) /\ [Next]_vars =>
        [\A t \in Threads :
            pc[t] = "chunk" /\ pc'[t] = "unlock" /\ Reads(t) /\ ret'[t] = 0 /\ call[t].count > 0 =>
                CASE file.kind = "foreign" -> TRUE
                  [] file.kind = "buffer" -> call[t].base >= file.size
                  [] file.kind = "dir" ->
                        \A i \in DOMAIN file.entries : i > Len(stream) /\ file.entries[i] > 0 =>
                            \E j \in Len(stream) + 1 .. i :
                                file.entries[j] > Smaller(call[t].count, iounit)]_vars
  <2> SUFFICES ASSUME IOInv, DirInv, file.kind = "dir" => Listable, [Next]_vars,
                      NEW t \in Threads, pc[t] = "chunk", pc'[t] = "unlock", Reads(t),
                      ret'[t] = 0, call[t].count > 0
               PROVE  CASE file.kind = "foreign" -> TRUE
                        [] file.kind = "buffer" -> call[t].base >= file.size
                        [] file.kind = "dir" ->
                              \A i \in DOMAIN file.entries :
                                i > Len(stream) /\ file.entries[i] > 0 =>
                                  \E j \in Len(stream) + 1 .. i :
                                    file.entries[j] > Smaller(call[t].count, iounit)
    BY Zenon
  <2>1. file \in FileType /\ file.kind \in {"foreign", "buffer", "dir"}
    BY DEF IOInv, FileType
  <2>2. CASE file.kind = "foreign"
    BY <2>2
  <2>3. CASE file.kind = "buffer"
    BY <2>3, NothingLeft
  <2>4. CASE file.kind = "dir"
    <3>1. Listable /\ DirOK
      BY <2>4 DEF DirInv
    <3>2. ASSUME NEW i \in DOMAIN file.entries, i > Len(stream)
          PROVE  \E j \in Len(stream) + 1 .. i :
                    file.entries[j] > Smaller(call[t].count, iounit)
      BY <2>1, <3>1, <3>2, NothingFits
    <3> QED BY <2>4, <3>2
  <2> QED BY <2>1, <2>2, <2>3, <2>4
<1> QED BY <1>1, InvariantIO, PTL DEF Spec, EndIsEnd
=============================================================================
