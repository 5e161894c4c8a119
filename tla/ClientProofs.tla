---------------------------- MODULE ClientProofs ----------------------------
(***************************************************************************)
(* Every fid of the client has one owner, for any number of threads.       *)
(*                                                                         *)
(* The inductive invariant is TypeOK with OneOwner and AllFidsKnown, here  *)
(* said of single fids (Owners) because the provers do better with that    *)
(* than with unions.  OneOwner alone is not preserved: that a fid above    *)
(* lastfid is nobody's needs the bound on all three kinds of fids, and     *)
(* that putfid may lower lastfid needs that nobody else has that fid.      *)
(*                                                                         *)
(* That a walk asks for a fresh number rests on a second invariant,        *)
(* ServedHeld: what exists at the server is held by somebody here.         *)
(***************************************************************************)
EXTENDS Client, SequenceTheorems, TLAPS

\* The fid is one that getfid handed out.
Issued(f) == RootFid < f /\ f <= lastfid

Apart ==
    /\ \A s, t \in Threads : s # t /\ Busy(s) /\ Busy(t) => fid[s] # fid[t]
    /\ \A t \in Threads : Busy(t) =>
            Issued(fid[t]) /\ fid[t] \notin handles /\ fid[t] \notin leaked
    /\ \A f \in handles : Issued(f) /\ f \notin leaked
    /\ \A f \in leaked : Issued(f)

FreeApart ==
    /\ \A i, j \in DOMAIN freefid : freefid[i] = freefid[j] => i = j
    /\ \A i \in DOMAIN freefid :
        /\ Issued(freefid[i])
        /\ freefid[i] \notin handles /\ freefid[i] \notin leaked
        /\ \A t \in Threads : Busy(t) => fid[t] # freefid[i]

Known ==
    \A f \in Nat : Issued(f) =>
        \/ f \in handles \/ f \in leaked
        \/ \E i \in DOMAIN freefid : freefid[i] = f
        \/ \E t \in Threads : Busy(t) /\ fid[t] = f

Owners == Apart /\ FreeApart /\ Known

IInv == TypeOK /\ Owners

-----------------------------------------------------------------------------
\* The elementwise form says the same as the two properties.
LEMMA OwnersMeaning == TypeOK /\ Owners => OneOwner /\ AllFidsKnown
<1> SUFFICES ASSUME TypeOK, Owners PROVE OneOwner /\ AllFidsKnown
    OBVIOUS
<1> USE DEF TypeOK, Owners
<1>1. \A f : f \in InUse <=> f \in handles \/ \E t \in Threads : Busy(t) /\ fid[t] = f
    BY DEF InUse, Own
<1>2. \A f : f \in Put <=> \E i \in DOMAIN freefid : freefid[i] = f
    BY DEF Put
<1>3. \A s, t \in Threads : s # t => Own(s) \cap Own(t) = {}
    BY DEF Apart, Own
<1>4. \A t \in Threads : Own(t) \cap handles = {}
    BY DEF Apart, Own
<1>5. \A i, j \in DOMAIN freefid : freefid[i] = freefid[j] => i = j
    BY DEF FreeApart
<1>6. Put \cap InUse = {}
  <2> SUFFICES ASSUME NEW f, f \in Put, f \in InUse PROVE FALSE
      OBVIOUS
  <2>1. PICK i \in DOMAIN freefid : freefid[i] = f
      BY <1>2
  <2> QED
      BY <1>1, <2>1 DEF FreeApart
<1>7. leaked \cap (Put \cup InUse) = {}
  <2> SUFFICES ASSUME NEW f, f \in leaked, f \in Put \/ f \in InUse PROVE FALSE
      OBVIOUS
  <2>1. CASE f \in Put
      BY <1>2, <2>1 DEF FreeApart
  <2>2. CASE f \in InUse
      BY <1>1, <2>2 DEF Apart
  <2> QED
      BY <2>1, <2>2
<1>8. \A f \in Put \cup InUse \cup leaked : RootFid < f /\ f <= lastfid
  <2>1. \A f \in Put : Issued(f)
      BY <1>2 DEF FreeApart
  <2>2. ASSUME NEW f \in InUse PROVE Issued(f)
    <3>1. CASE f \in handles
        BY <3>1 DEF Apart
    <3>2. CASE \E t \in Threads : Busy(t) /\ fid[t] = f
        BY <3>2 DEF Apart
    <3> QED
        BY <3>1, <3>2, <1>1
  <2>3. \A f \in leaked : Issued(f)
      BY DEF Apart
  <2> QED
      BY <2>1, <2>2, <2>3 DEF Issued
<1>9. OneOwner
    BY <1>3, <1>4, <1>5, <1>6, <1>7, <1>8 DEF OneOwner
<1>10. AllFidsKnown
  <2> SUFFICES ASSUME NEW f \in RootFid + 1 .. lastfid
               PROVE  f \in Put \cup InUse \cup leaked
      BY DEF AllFidsKnown
  <2>1. f \in Nat /\ Issued(f)
      BY DEF Issued, RootFid
  <2> QED
      BY <2>1, <1>1, <1>2 DEF Known
<1> QED
    BY <1>9, <1>10

LEMMA Start == Init => IInv
<1> SUFFICES ASSUME Init PROVE IInv
    OBVIOUS
<1>1. TypeOK
  <2>1. lastfid \in Nat \ {0} /\ 0 \in Nat \ {RootFid}
      BY DEF Init, RootFid
  <2>2. freefid \in Seq(Nat)
      BY DEF Init
  <2> QED
      BY <2>1, <2>2 DEF Init, TypeOK, Ops
<1>2. Apart
    BY DEF Init, Apart, Busy
<1>3. FreeApart
    BY DEF Init, FreeApart
<1>4. Known
    BY DEF Init, Known, Issued, RootFid
<1> QED
    BY <1>1, <1>2, <1>3, <1>4 DEF IInv, Owners

\* A step that changes no owner, as long as a thread is busy or not as before.
LEMMA SameOwners ==
    ASSUME TypeOK, Owners, UNCHANGED <<fid, lastfid, freefid, handles, leaked>>,
           \A t \in Threads : Busy(t)' <=> Busy(t)
    PROVE  Owners'
BY DEF Owners, Apart, FreeApart, Known, Issued, TypeOK

\* The steps of an operation that leave its fid with the thread.
Keeps(t) ==
    WalkOk(t) \/ WalkRefused(t) \/ ThenClunk(t) \/ Removed(t) \/ Clunked(t) \/ RpcDown(t)
    \/ RpcLost(t)

LEMMA KeepsOwners ==
    ASSUME IInv, NEW t \in Threads, Keeps(t)
    PROVE  IInv'
<1> USE DEF IInv
<1>2. UNCHANGED <<mount, op, fid, lastfid, freefid, handles, leaked, down>>
    BY DEF Keeps, WalkOk, WalkRefused, ThenClunk, Removed, Clunked, RpcDown, RpcLost
<1>1. TypeOK'
  <2>1. served' \in {served, served \cup {fid[t]}, served \ {fid[t]}} /\ lost' \in {lost, lost + 1}
      BY DEF Keeps, WalkOk, WalkRefused, ThenClunk, Removed, Clunked, RpcDown, RpcLost
  <2>2. pc' \in [Threads -> {"idle", "walk", "clunk", "putfid"} \cup Ops]
      BY DEF Keeps, WalkOk, WalkRefused, ThenClunk, Removed, Clunked, RpcDown, RpcLost, TypeOK
  <2>3. served' \subseteq Nat /\ lost' \in Nat
      BY <2>1 DEF TypeOK
  <2> QED
      BY <2>2, <2>3, <1>2 DEF TypeOK
<1>3. \A s \in Threads : Busy(s)' <=> Busy(s)
  <2>1. Busy(t)
      BY DEF Keeps, WalkOk, WalkRefused, ThenClunk, Removed, Clunked, RpcDown, RpcLost, Busy
  <2>2. PICK c \in {"putfid", "clunk"} \cup Ops : pc' = [pc EXCEPT ![t] = c]
      BY DEF Keeps, WalkOk, WalkRefused, ThenClunk, Removed, Clunked, RpcDown, RpcLost,
             TypeOK
  <2>3. c # "idle"
      BY DEF Ops
  <2> QED
      BY <2>1, <2>2, <2>3 DEF Busy, TypeOK
<1> QED
    BY <1>1, <1>2, <1>3, SameOwners

LEMMA BeginOwners ==
    ASSUME IInv, NEW t \in Threads, NEW o \in Ops, Begin(t, o)
    PROVE  IInv'
<1> USE DEF IInv, TypeOK
<1>1. \A s \in Threads : Busy(s)' <=> Busy(s) \/ s = t
    BY DEF Begin, Busy
<1>2. ~Busy(t)
    BY DEF Begin, Busy
<1>3. CASE freefid # <<>>
  <2>1. /\ fid' = [fid EXCEPT ![t] = Head(freefid)]
        /\ freefid' = Tail(freefid)
        /\ UNCHANGED <<lastfid, handles, leaked>>
      BY <1>3 DEF Begin, GetFid
  <2>2. /\ 1 \in DOMAIN freefid /\ Head(freefid) = freefid[1]
        /\ Len(Tail(freefid)) = Len(freefid) - 1
        /\ DOMAIN Tail(freefid) = 1 .. Len(freefid) - 1
        /\ DOMAIN freefid = 1 .. Len(freefid)
        /\ Len(freefid) \in Nat
        /\ \A i \in DOMAIN Tail(freefid) : Tail(freefid)[i] = freefid[i + 1]
        /\ Tail(freefid) \in Seq(Nat)
      BY <1>3, HeadTailProperties
  <2>3. freefid[1] \in Nat /\ freefid[1] # RootFid
      BY <2>2 DEF Owners, FreeApart, Issued, RootFid
  <2>4. TypeOK'
      BY <2>1, <2>2, <2>3 DEF Begin, Ops
  <2>5. fid'[t] = freefid[1] /\ \A s \in Threads : s # t => fid'[s] = fid[s]
      BY <2>1, <2>2
  <2>6. Apart'
    <3>1. \A s \in Threads : Busy(s) => fid[s] # freefid[1]
        BY <2>2 DEF Owners, FreeApart
    <3>2. Issued(freefid[1]) /\ freefid[1] \notin handles /\ freefid[1] \notin leaked
        BY <2>2 DEF Owners, FreeApart
    <3>3. \A f : Issued(f)' <=> Issued(f)
        BY <2>1 DEF Issued
    <3>4. (\A r, s \in Threads : r # s /\ Busy(r) /\ Busy(s) => fid[r] # fid[s])'
        BY <3>1, <1>1, <2>5 DEF Owners, Apart
    <3>5. (\A s \in Threads : Busy(s) =>
                Issued(fid[s]) /\ fid[s] \notin handles /\ fid[s] \notin leaked)'
        BY <3>2, <3>3, <1>1, <2>5, <2>1 DEF Owners, Apart
    <3> QED
        BY <3>3, <3>4, <3>5, <2>1 DEF Owners, Apart
  <2>7. FreeApart'
    <3>1. \A i \in DOMAIN freefid' : i + 1 \in DOMAIN freefid /\ i + 1 # 1
                                     /\ freefid'[i] = freefid[i + 1]
        BY <2>1, <2>2
    <3>2. \A i \in DOMAIN freefid' : freefid'[i] # freefid[1]
        BY <3>1, <2>2 DEF Owners, FreeApart
    <3>3. \A i, j \in DOMAIN freefid' : freefid'[i] = freefid'[j] => i = j
      <4> SUFFICES ASSUME NEW i \in DOMAIN freefid', NEW j \in DOMAIN freefid',
                          freefid'[i] = freefid'[j]
                   PROVE  i = j
          OBVIOUS
      <4>1. i + 1 = j + 1
          BY <3>1 DEF Owners, FreeApart
      <4>2. i \in Int /\ j \in Int
          BY <2>1, <2>2
      <4> QED
          BY <4>1, <4>2
    <3>4. ASSUME NEW i \in DOMAIN freefid'
          PROVE  /\ Issued(freefid[i])' /\ freefid'[i] \notin handles'
                 /\ freefid'[i] \notin leaked'
                 /\ \A s \in Threads : Busy(s)' => fid'[s] # freefid'[i]
        BY <3>1, <3>2, <3>4, <1>1, <2>1, <2>5 DEF Owners, FreeApart, Issued
    <3> QED
        BY <3>3, <3>4 DEF FreeApart
  <2>8. Known'
    <3> SUFFICES ASSUME NEW f \in Nat, Issued(f)'
                 PROVE  (\/ f \in handles \/ f \in leaked
                         \/ \E i \in DOMAIN freefid : freefid[i] = f
                         \/ \E s \in Threads : Busy(s) /\ fid[s] = f)'
        BY DEF Known
    <3>1. Issued(f)
        BY <2>1 DEF Issued
    <3>2. CASE \E i \in DOMAIN freefid : freefid[i] = f
      <4>1. PICK i \in DOMAIN freefid : freefid[i] = f
          BY <3>2
      <4>2. CASE i = 1
          BY <4>1, <4>2, <2>5, <1>1
      <4>3. CASE i # 1
        <5>1. i - 1 \in DOMAIN Tail(freefid) /\ Tail(freefid)[i - 1] = freefid[i]
            BY <4>3, <2>2
        <5> QED
            BY <5>1, <4>1, <2>1
      <4> QED
          BY <4>2, <4>3
    <3>3. CASE \E s \in Threads : Busy(s) /\ fid[s] = f
        BY <3>3, <1>1, <1>2, <2>5
    <3> QED
        BY <3>1, <3>2, <3>3, <2>1 DEF Owners, Known
  <2> QED
      BY <2>4, <2>6, <2>7, <2>8 DEF Owners
<1>4. CASE freefid = <<>>
  <2>1. /\ lastfid' = lastfid + 1
        /\ fid' = [fid EXCEPT ![t] = lastfid + 1]
        /\ UNCHANGED <<freefid, handles, leaked>>
      BY <1>4 DEF Begin, GetFid
  <2>2. /\ fid'[t] = lastfid + 1
        /\ \A s \in Threads : s # t => fid'[s] = fid[s]
        /\ lastfid + 1 \in Nat \ {0, RootFid}
      BY <2>1 DEF RootFid
  <2>3. TypeOK'
      BY <2>1, <2>2 DEF Begin, Ops
  <2>4. \A f \in Nat : Issued(f) => Issued(f)' /\ f # lastfid + 1
      BY <2>1, <2>2 DEF Issued
  <2>5. Issued(fid[t])'
    <3>1. RootFid < fid'[t] /\ fid'[t] <= lastfid'
        BY <2>1, <2>2 DEF RootFid
    <3> QED
        BY <3>1 DEF Issued
  <2>6. DOMAIN freefid = {}
      BY <1>4
  <2>7. Apart'
    <3>1. \A s \in Threads : Busy(s) => fid[s] \in Nat /\ Issued(fid[s])
        BY DEF Owners, Apart
    <3>2. (\A r, s \in Threads : r # s /\ Busy(r) /\ Busy(s) => fid[r] # fid[s])'
        BY <3>1, <1>1, <2>2, <2>4 DEF Owners, Apart
    <3>3. lastfid + 1 \notin handles /\ lastfid + 1 \notin leaked
        BY <2>4 DEF Owners, Apart
    <3>4. (\A s \in Threads : Busy(s) =>
                Issued(fid[s]) /\ fid[s] \notin handles /\ fid[s] \notin leaked)'
      <4> SUFFICES ASSUME NEW s \in Threads, Busy(s)'
                   PROVE  (Issued(fid[s]) /\ fid[s] \notin handles /\ fid[s] \notin leaked)'
          OBVIOUS
      <4>1. CASE s = t
          BY <4>1, <2>1, <2>2, <2>5, <3>3 DEF Issued
      <4>2. CASE s # t
          BY <4>2, <1>1, <2>1, <2>2, <2>4, <3>1 DEF Owners, Apart, Issued
      <4> QED
          BY <4>1, <4>2
    <3>5. (\A f \in handles : Issued(f) /\ f \notin leaked)' /\ (\A f \in leaked : Issued(f))'
        BY <2>1, <2>4 DEF Owners, Apart
    <3> QED
        BY <3>2, <3>4, <3>5 DEF Apart
  <2>8. FreeApart'
      BY <2>6, <2>1 DEF FreeApart
  <2>9. Known'
    <3> SUFFICES ASSUME NEW f \in Nat, Issued(f)'
                 PROVE  (\/ f \in handles \/ f \in leaked
                         \/ \E i \in DOMAIN freefid : freefid[i] = f
                         \/ \E s \in Threads : Busy(s) /\ fid[s] = f)'
        BY DEF Known
    <3>1. Issued(f) \/ f = lastfid + 1
        BY <2>1 DEF Issued
    <3>2. CASE f = lastfid + 1
        BY <3>2, <1>1, <2>2
    <3>3. CASE Issued(f)
        BY <3>3, <1>1, <1>2, <2>1, <2>2, <2>6 DEF Owners, Known
    <3> QED
        BY <3>1, <3>2, <3>3
  <2> QED
      BY <2>3, <2>7, <2>8, <2>9 DEF Owners
<1> QED
    BY <1>3, <1>4

\* ixp_close takes the fid from the application.
LEMMA CloseOwners ==
    ASSUME IInv, NEW t \in Threads, NEW f \in handles, Close(t, f)
    PROVE  IInv'
<1> USE DEF IInv, TypeOK
<1>1. /\ \A s \in Threads : Busy(s)' <=> Busy(s) \/ s = t
      /\ ~Busy(t)
      /\ fid'[t] = f /\ \A s \in Threads : s # t => fid'[s] = fid[s]
    BY DEF Close, Busy
<1>2. handles' = handles \ {f} /\ UNCHANGED <<lastfid, freefid, leaked>>
    BY DEF Close
<1>3. Issued(f) /\ f \in Nat /\ f # RootFid
    BY DEF Owners, Apart, Issued, RootFid
<1>4. TypeOK'
    BY <1>2, <1>3 DEF Close
<1>5. \A g : Issued(g)' <=> Issued(g)
    BY <1>2 DEF Issued
<1>6. Apart'
    BY <1>1, <1>2, <1>3, <1>5 DEF Owners, Apart
<1>7. FreeApart'
    BY <1>1, <1>2, <1>5 DEF Owners, FreeApart
<1>8. Known'
    BY <1>1, <1>2, <1>5 DEF Owners, Known
<1> QED
    BY <1>4, <1>6, <1>7, <1>8 DEF Owners

\* The caller gets the IxpCFid it opened.
LEMMA OpenedOwners ==
    ASSUME IInv, NEW t \in Threads, Opened(t)
    PROVE  IInv'
<1> USE DEF IInv, TypeOK
<1>1. /\ \A s \in Threads : Busy(s)' <=> Busy(s) /\ s # t
      /\ Busy(t)
      /\ handles' = handles \cup {fid[t]} /\ UNCHANGED <<fid, lastfid, freefid, leaked>>
    BY DEF Opened, Busy
<1>2. TypeOK'
    BY <1>1 DEF Opened
<1>3. \A g : Issued(g)' <=> Issued(g)
    BY <1>1 DEF Issued
<1>4. Apart'
    BY <1>1, <1>3 DEF Owners, Apart
<1>5. FreeApart'
    BY <1>1, <1>3 DEF Owners, FreeApart
<1>6. Known'
    BY <1>1, <1>3 DEF Owners, Known
<1> QED
    BY <1>2, <1>4, <1>5, <1>6 DEF Owners

\* A failed clunk forgets the fid.
LEMMA ClunkFailsOwners ==
    ASSUME IInv, NEW t \in Threads, ClunkFails(t)
    PROVE  IInv'
<1> USE DEF IInv, TypeOK
<1>1. /\ \A s \in Threads : Busy(s)' <=> Busy(s) /\ s # t
      /\ Busy(t)
      /\ leaked' = leaked \cup {fid[t]} /\ UNCHANGED <<fid, lastfid, freefid, handles>>
    BY DEF ClunkFails, Busy
<1>2. TypeOK'
    BY <1>1 DEF ClunkFails
<1>3. \A g : Issued(g)' <=> Issued(g)
    BY <1>1 DEF Issued
<1>4. Apart'
    BY <1>1, <1>3 DEF Owners, Apart
<1>5. FreeApart'
    BY <1>1, <1>3 DEF Owners, FreeApart
<1>6. Known'
    BY <1>1, <1>3 DEF Owners, Known
<1> QED
    BY <1>2, <1>4, <1>5, <1>6 DEF Owners

LEMMA PutFidOwners ==
    ASSUME IInv, NEW t \in Threads, PutFid(t)
    PROVE  IInv'
<1> USE DEF IInv, TypeOK
<1>1. /\ \A s \in Threads : Busy(s)' <=> Busy(s) /\ s # t
      /\ Busy(t)
      /\ UNCHANGED <<fid, handles, leaked>>
    BY DEF PutFid, Busy
<1>2. Issued(fid[t]) /\ fid[t] \in Nat
    BY <1>1 DEF Owners, Apart
<1>3. CASE fid[t] = lastfid
  <2>1. lastfid' = lastfid - 1 /\ UNCHANGED freefid
      BY <1>3 DEF PutFid
  <2>2. lastfid' \in Nat \ {0}
      BY <2>1, <1>2, <1>3 DEF Issued, RootFid
  <2>3. TypeOK'
      BY <2>1, <2>2 DEF PutFid
  <2>4. \A g \in Nat : Issued(g)' <=> Issued(g) /\ g # fid[t]
      BY <2>1, <1>3 DEF Issued, RootFid
  <2>5. Apart'
      BY <1>1, <2>4 DEF Owners, Apart
  <2>6. FreeApart'
    <3>1. \A i \in DOMAIN freefid : freefid[i] \in Nat
        OBVIOUS
    <3> QED
        BY <3>1, <1>1, <2>1, <2>4 DEF Owners, FreeApart
  <2>7. Known'
      BY <1>1, <2>1, <2>4 DEF Owners, Known
  <2> QED
      BY <2>3, <2>5, <2>6, <2>7 DEF Owners
<1>4. CASE fid[t] # lastfid
  <2>1. freefid' = <<fid[t]>> \o freefid /\ UNCHANGED lastfid
      BY <1>4 DEF PutFid
  <2>2. /\ freefid' \in Seq(Nat)
        /\ Len(freefid) \in Nat /\ DOMAIN freefid = 1 .. Len(freefid)
        /\ DOMAIN freefid' = 1 .. Len(freefid) + 1
        /\ freefid'[1] = fid[t]
        /\ \A i \in 2 .. Len(freefid) + 1 : freefid'[i] = freefid[i - 1]
      BY <2>1
  <2>3. TypeOK'
      BY <2>1, <2>2 DEF PutFid
  <2>4. \A g : Issued(g)' <=> Issued(g)
      BY <2>1 DEF Issued
  <2>5. Apart'
      BY <1>1, <2>4 DEF Owners, Apart
  <2>6. \A i \in DOMAIN freefid' : i = 1 \/ i - 1 \in DOMAIN freefid
      BY <2>2
  <2>7. \A i \in DOMAIN freefid : freefid[i] # fid[t]
      BY <1>1 DEF Owners, FreeApart
  <2>8. FreeApart'
    <3>1. \A i, j \in DOMAIN freefid' : freefid'[i] = freefid'[j] => i = j
      <4> SUFFICES ASSUME NEW i \in DOMAIN freefid', NEW j \in DOMAIN freefid',
                          freefid'[i] = freefid'[j]
                   PROVE  i = j
          OBVIOUS
      <4>1. CASE i = 1 \/ j = 1
          BY <4>1, <2>2, <2>6, <2>7
      <4>2. CASE i # 1 /\ j # 1
        <5>1. i - 1 = j - 1
            BY <4>2, <2>2, <2>6 DEF Owners, FreeApart
        <5> QED
            BY <5>1, <2>2
      <4> QED
          BY <4>1, <4>2
    <3>2. ASSUME NEW i \in DOMAIN freefid'
          PROVE  /\ Issued(freefid[i])' /\ freefid'[i] \notin handles'
                 /\ freefid'[i] \notin leaked'
                 /\ \A s \in Threads : Busy(s)' => fid'[s] # freefid'[i]
      <4>1. CASE i = 1
          BY <4>1, <1>1, <1>2, <2>1, <2>2 DEF Owners, Apart, Issued
      <4>2. CASE i # 1
        <5>1. i - 1 \in DOMAIN freefid /\ freefid'[i] = freefid[i - 1]
            BY <4>2, <2>2, <2>6
        <5> QED
            BY <5>1, <1>1, <2>1 DEF Owners, FreeApart, Issued
      <4> QED
          BY <4>1, <4>2
    <3> QED
        BY <3>1, <3>2 DEF FreeApart
  <2>9. Known'
    <3> SUFFICES ASSUME NEW g \in Nat, Issued(g)'
                 PROVE  (\/ g \in handles \/ g \in leaked
                         \/ \E i \in DOMAIN freefid : freefid[i] = g
                         \/ \E s \in Threads : Busy(s) /\ fid[s] = g)'
        BY DEF Known
    <3>1. CASE g = fid[t]
        BY <3>1, <2>2
    <3>2. CASE \E i \in DOMAIN freefid : freefid[i] = g
      <4>1. PICK i \in DOMAIN freefid : freefid[i] = g
          BY <3>2
      <4>2. i + 1 \in 2 .. Len(freefid) + 1 /\ (i + 1) - 1 = i
          BY <2>2
      <4>3. i + 1 \in DOMAIN freefid' /\ freefid'[i + 1] = freefid[i]
          BY <4>2, <2>2
      <4> QED
          BY <4>1, <4>3
    <3> QED
        BY <3>1, <3>2, <1>1, <2>4 DEF Owners, Known
  <2> QED
      BY <2>3, <2>5, <2>8, <2>9 DEF Owners
<1> QED
    BY <1>3, <1>4

\* ixp_unmount leaves no fid that was handed out.
LEMMA UnmountOwners ==
    ASSUME IInv, Unmount
    PROVE  IInv'
<1>1. /\ lastfid' = RootFid /\ freefid' = <<>>
      /\ handles' = {} /\ leaked' = {} /\ served' = {}
      /\ mount' = "freed" /\ down' = TRUE
      /\ UNCHANGED <<pc, op, fid, lost>>
      /\ \A t \in Threads : ~Busy(t)
    BY DEF Unmount
<1>2. TypeOK'
  <2>1. RootFid \in Nat \ {0} /\ <<>> \in Seq(Nat)
      BY DEF RootFid
  <2> QED
      BY <1>1, <2>1 DEF IInv, TypeOK
<1>3. \A t \in Threads : ~Busy(t)'
    BY <1>1 DEF Busy
<1>4. Apart'
    BY <1>1, <1>3 DEF Apart
<1>5. FreeApart'
    BY <1>1 DEF FreeApart
<1>6. \A f \in Nat : ~Issued(f)'
    BY <1>1 DEF Issued, RootFid
<1>7. Known'
    BY <1>6 DEF Known
<1> QED
    BY <1>2, <1>4, <1>5, <1>7 DEF IInv, Owners

-----------------------------------------------------------------------------
LEMMA Steps == IInv /\ [Next]_vars => IInv'
<1> SUFFICES ASSUME IInv, [Next]_vars PROVE IInv'
    OBVIOUS
<1>1. CASE Version \/ AttachOk \/ AttachFail \/ GoDown \/ UNCHANGED vars
  <2>1. UNCHANGED <<pc, op, fid, lastfid, freefid, handles, leaked, lost>>
      BY <1>1 DEF Version, AttachOk, AttachFail, GoDown, vars
  <2>2. /\ mount' \in {"version", "attach", "up", "failed", "freed"}
        /\ down' \in BOOLEAN
      BY <1>1 DEF Version, AttachOk, AttachFail, GoDown, vars, IInv, TypeOK
  <2>5. served' \subseteq Nat
    <3>1. served' = served \/ served' = {RootFid}
        BY <1>1 DEF Version, AttachOk, AttachFail, GoDown, vars
    <3>2. served \subseteq Nat
        BY DEF IInv, TypeOK
    <3>3. RootFid \in Nat
        BY DEF RootFid
    <3> QED
        BY <3>1, <3>2, <3>3
  <2>3. TypeOK'
      BY <2>1, <2>2, <2>5 DEF IInv, TypeOK
  <2>4. \A t \in Threads : Busy(t)' <=> Busy(t)
      BY <2>1 DEF Busy
  <2> QED
      BY <2>1, <2>3, <2>4, SameOwners DEF IInv
<1>2. ASSUME NEW t \in Threads, Step(t) PROVE IInv'
  <2>1. Keeps(t) \/ Opened(t) \/ ClunkFails(t) \/ PutFid(t)
      BY <1>2 DEF Step, Keeps
  <2> QED
      BY <2>1, KeepsOwners, OpenedOwners, ClunkFailsOwners, PutFidOwners
<1>3. ASSUME NEW t \in Threads, NEW o \in Ops, Begin(t, o) PROVE IInv'
    BY <1>3, BeginOwners
<1>4. ASSUME NEW t \in Threads, NEW f \in handles, Close(t, f) PROVE IInv'
    BY <1>4, CloseOwners
<1>5. CASE Unmount
    BY <1>5, UnmountOwners
<1> QED
    BY <1>1, <1>2, <1>3, <1>4, <1>5 DEF Next

\* TypeOK and the elementwise invariant hold in every reachable state.
THEOREM Invariance == Spec => []IInv
BY Start, Steps, PTL DEF Spec

\* getfid and putfid, called by any number of threads and in any order, never
\* give a fid two owners.
THEOREM FidsCorrect == Spec => [](TypeOK /\ OneOwner)
<1>1. IInv => TypeOK /\ OneOwner
    BY OwnersMeaning DEF IInv
<1> QED
    BY <1>1, Invariance, PTL

\* They lose no fid: one up to lastfid is in use, on the free list, or was
\* given up by a failed clunk.
THEOREM AllFidsKnownCorrect == Spec => []AllFidsKnown
<1>1. IInv => AllFidsKnown
    BY OwnersMeaning DEF IInv
<1> QED
    BY <1>1, Invariance, PTL

-----------------------------------------------------------------------------
(* The server's fids.                                                      *)

\* Somebody knows of f as a fid the server has: a handle, a fid given up after
\* a clunk, or an operation between its walk and the last word about the fid.
Held(f) ==
    \/ f = RootFid \/ f \in handles \/ f \in leaked
    \/ \E t \in Threads : fid[t] = f /\ pc[t] \in Ops \cup {"clunk"}

ServedHeld == lost = 0 /\ ~down => \A f \in served : Held(f)

LEMMA HeldStep ==
    ASSUME IInv, ServedHeld, NEW t \in Threads, Step(t)
    PROVE  ServedHeld'
<1> SUFFICES ASSUME lost' = 0, ~down', NEW f \in served' PROVE Held(f)'
    BY DEF ServedHeld
<1>1. lost = 0 /\ ~down /\ UNCHANGED <<fid, op>> /\ ~RpcLost(t) /\ ~RpcDown(t)
  <2>1. lost \in Nat
      BY DEF IInv, TypeOK
  <2> QED
      BY <2>1 DEF Step, WalkOk, WalkRefused, Opened, ThenClunk, Removed, Clunked, ClunkFails,
             RpcDown, RpcLost, PutFid
<1>2. /\ pc \in [Threads -> {"idle", "walk", "clunk", "putfid"} \cup Ops] /\ op[t] \in Ops
      /\ fid \in [Threads -> Nat \ {RootFid}]
    BY DEF IInv, TypeOK
<1>3. \A g \in served : Held(g)
    BY <1>1 DEF ServedHeld
<1>4. CASE WalkOk(t)
  <2>1. /\ pc' = [pc EXCEPT ![t] = op[t]] /\ UNCHANGED <<handles, leaked>>
        /\ served' = served \cup {fid[t]}
      BY <1>4 DEF WalkOk
  <2>2. pc'[t] \in Ops /\ \A s \in Threads : s # t => pc'[s] = pc[s]
      BY <1>2, <2>1
  <2>3. pc[t] \notin Ops \cup {"clunk"}
      BY <1>4 DEF WalkOk, Ops
  <2> QED
      BY <1>1, <1>3, <2>1, <2>2, <2>3 DEF Held
<1>5. CASE WalkRefused(t) \/ PutFid(t)
  <2>1. pc[t] \notin Ops \cup {"clunk"} /\ UNCHANGED <<handles, leaked, served>>
      BY <1>5 DEF WalkRefused, PutFid, Ops
  <2>2. \A s \in Threads : s # t => pc'[s] = pc[s]
      BY <1>2, <1>5 DEF WalkRefused, PutFid
  <2> QED
      BY <1>1, <1>3, <2>1, <2>2 DEF Held
<1>6. CASE Opened(t)
  <2>1. UNCHANGED <<leaked, served>> /\ handles' = handles \cup {fid[t]}
      BY <1>6 DEF Opened
  <2>2. \A s \in Threads : s # t => pc'[s] = pc[s]
      BY <1>2, <1>6 DEF Opened
  <2> QED
      BY <1>1, <1>3, <2>1, <2>2 DEF Held
<1>7. CASE ThenClunk(t)
  <2>1. UNCHANGED <<leaked, served, handles>> /\ pc'[t] = "clunk"
      BY <1>2, <1>7 DEF ThenClunk
  <2>2. \A s \in Threads : s # t => pc'[s] = pc[s]
      BY <1>2, <1>7 DEF ThenClunk
  <2> QED
      BY <1>1, <1>3, <2>1, <2>2 DEF Held
<1>8. CASE Removed(t) \/ Clunked(t)
  <2>1. UNCHANGED <<leaked, handles>> /\ served' = served \ {fid[t]}
      BY <1>8 DEF Removed, Clunked
  <2>2. \A s \in Threads : s # t => pc'[s] = pc[s]
      BY <1>2, <1>8 DEF Removed, Clunked
  <2> QED
      BY <1>1, <1>3, <2>1, <2>2 DEF Held
<1>9. CASE ClunkFails(t)
  <2>1. UNCHANGED handles /\ leaked' = leaked \cup {fid[t]} /\ served' \subseteq served
      BY <1>9 DEF ClunkFails
  <2>2. \A s \in Threads : s # t => pc'[s] = pc[s]
      BY <1>2, <1>9 DEF ClunkFails
  <2> QED
      BY <1>1, <1>3, <2>1, <2>2 DEF Held
<1> QED
    BY <1>1, <1>4, <1>5, <1>6, <1>7, <1>8, <1>9 DEF Step

LEMMA HeldNext == IInv /\ ServedHeld /\ [Next]_vars => ServedHeld'
<1> SUFFICES ASSUME IInv, ServedHeld, [Next]_vars PROVE ServedHeld'
    OBVIOUS
<1>1. CASE Version \/ AttachFail \/ GoDown \/ Unmount \/ UNCHANGED vars
    BY <1>1 DEF Version, AttachFail, GoDown, Unmount, vars, ServedHeld, Held
<1>2. CASE AttachOk
    BY <1>2 DEF AttachOk, ServedHeld, Held
<1>3. ASSUME NEW t \in Threads, Step(t) PROVE ServedHeld'
    BY <1>3, HeldStep
<1>4. ASSUME NEW t \in Threads, NEW o \in Ops, Begin(t, o) PROVE ServedHeld'
  <2>1. /\ pc[t] = "idle" /\ UNCHANGED <<handles, leaked, served, down, lost>>
        /\ \A s \in Threads : s # t => pc'[s] = pc[s] /\ fid'[s] = fid[s]
      BY <1>4 DEF Begin, GetFid, IInv, TypeOK
  <2>2. "idle" \notin Ops \cup {"clunk"}
      BY DEF Ops
  <2> QED
      BY <2>1, <2>2 DEF ServedHeld, Held
<1>5. ASSUME NEW t \in Threads, NEW f \in handles, Close(t, f) PROVE ServedHeld'
  <2>1. /\ pc[t] = "idle" /\ UNCHANGED <<leaked, served, down, lost>>
        /\ handles' = handles \ {f} /\ pc'[t] = "clunk" /\ fid'[t] = f
        /\ \A s \in Threads : s # t => pc'[s] = pc[s] /\ fid'[s] = fid[s]
      BY <1>5 DEF Close, IInv, TypeOK
  <2>2. "idle" \notin Ops \cup {"clunk"}
      BY DEF Ops
  <2> QED
      BY <2>1, <2>2 DEF ServedHeld, Held
<1> QED
    BY <1>1, <1>2, <1>3, <1>4, <1>5 DEF Next

\* No walk asks for a number that exists at the server, as long as no reply was
\* lost: a fid is put back only once the server has dropped it, and one whose
\* clunk failed is given up.
THEOREM WalkIsFreshCorrect == Spec => []WalkIsFresh
<1>1. Init => ServedHeld
    BY DEF Init, ServedHeld
<1>2. IInv /\ ServedHeld => WalkIsFresh
  <2> SUFFICES ASSUME IInv, ServedHeld, lost = 0, ~down,
                      NEW t \in Threads, pc[t] = "walk", fid[t] \in served
               PROVE  FALSE
      BY DEF WalkIsFresh
  <2>1. Held(fid[t]) /\ Busy(t) /\ pc[t] \notin Ops \cup {"clunk"}
      BY DEF ServedHeld, Busy, Ops
  <2>2. fid[t] # RootFid /\ fid[t] \notin handles /\ fid[t] \notin leaked
      BY <2>1 DEF IInv, TypeOK, Owners, Apart
  <2>3. PICK s \in Threads : fid[s] = fid[t] /\ pc[s] \in Ops \cup {"clunk"}
      BY <2>1, <2>2 DEF Held
  <2>4. s # t /\ Busy(s)
      BY <2>1, <2>3 DEF Busy, Ops
  <2> QED
      BY <2>1, <2>3, <2>4 DEF IInv, Owners, Apart
<1> QED
    BY <1>1, <1>2, HeldNext, Invariance, PTL DEF Spec
=============================================================================
