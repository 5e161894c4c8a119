---------------------------- MODULE Conn9Proofs ----------------------------
(***************************************************************************)
(* The server side of a connection, for any number of requests, tags and   *)
(* fids: every request is answered once, the tag map and the reference     *)
(* count are right, and a hangup flushes every request before it clunks    *)
(* the fids.                                                               *)
(*                                                                         *)
(* The client does not reuse a tag in use (~DupTags).  The theorems speak  *)
(* of a connection up to the step in which a write fails inside the answer *)
(* to a flush (torn): there the code answers that flush a second time.     *)
(***************************************************************************)
EXTENDS Conn9, SequenceTheorems, FiniteSetTheorems, TLAPS

FlushIds == {FlushOf(r) : r \in RealIds}
ClunkIds == {ClunkOf(f) : f \in Fids}

MsgTypes == {"version", "other", "attach", "clunk", "flush", "create", "open",
             "read", "remove", "stat", "walk", "write", "wstat"}

Ixp9Reqs ==
    [type : MsgTypes, tag : Tags \cup {Nil, NoTag}, fid : Fids \cup {Nil},
     newfid : Fids \cup {Nil}, oldtag : Tags \cup {Nil}, arg : Modes \cup {0, 1},
     pfid : Fids \cup {Nil, Stale}, pnew : Fids \cup {Nil, Stale}, poldreq : RealIds \cup {Nil}]

Outs == {"ok", "error", "dir", "file", "partial"}

FrameSet ==
    [op : {"handle"}, r : Ids] \cup [op : {"respond", "reply"}, r : Ids, out : Outs]
    \cup [op : {"finish"}, r : Ids, locked : BOOLEAN]
    \cup [op : {"cleanup"}, flushes : SUBSET FlushIds, clunks : SUBSET ClunkIds]

-----------------------------------------------------------------------------
(* The inductive invariant.                                                *)

\* What the client sent, or cleanupconn made up.
WireOK(r, q) ==
    /\ q.oldtag \in IF q.type = "flush" THEN Tags ELSE {Nil}
    /\ q.newfid \in IF q.type = "walk" THEN Fids ELSE {Nil}
    /\ q.fid \in IF q.type \in {"version", "other", "flush"} THEN {Nil} ELSE Fids
    /\ q.type \in {"open", "create"} => q.arg \in Modes
    /\ r \in RealIds => q.tag \in Tags
    /\ r \in FlushIds => q.tag = NoTag /\ q.type = "flush"
    /\ r \in ClunkIds => q.tag = NoTag /\ q.type = "clunk" /\ r = ClunkOf(q.fid)

\* Its pointers: one that is not stale leads to a fid that exists.
PointersOK(q) ==
    /\ q.pfid \in {Nil, Stale, q.fid} /\ (q.fid = Nil => q.pfid = Nil)
    /\ q.pnew \in {Nil, Stale, q.newfid} /\ (q.newfid = Nil => q.pnew = Nil)
    /\ q.pfid \in Fids => fids[q.pfid] # Nil
    /\ q.pnew \in Fids => fids[q.pnew] # Nil
    /\ q.poldreq # Nil => q.type = "flush" /\ q.poldreq[2] <= nreq

\* The requests there are.  A flush came after the request it is about, so that
\* flushes of flushes do not go round in a circle.
ReqsOK ==
    /\ DOMAIN reqs \subseteq Ids
    /\ conn => DOMAIN reqs \subseteq RealIds
    /\ \A r \in DOMAIN reqs :
        reqs[r] \in Ixp9Reqs /\ WireOK(r, reqs[r]) /\ PointersOK(reqs[r])
    /\ \A r \in DOMAIN reqs : r \in RealIds => r[2] <= nreq
    /\ \A r, s \in DOMAIN reqs :
        r \in RealIds /\ s \in RealIds /\ reqs[s].oldtag = reqs[r].tag => r[2] < s[2]
    /\ \A r, s \in DOMAIN reqs : reqs[s].poldreq = r => reqs[r].tag = reqs[s].oldtag

Finishing(r) == \E i \in DOMAIN stack : stack[i].op = "finish" /\ stack[i].r = r

\* A request is found under its tag until its answer takes it out.
TagsOK ==
    /\ tagmap \in [Tags -> RealIds \cup {Nil}]
    /\ \A t \in Tags : tagmap[t] # Nil => tagmap[t] \in DOMAIN reqs /\ reqs[tagmap[t]].tag = t
    /\ \A r \in DOMAIN reqs : r \in RealIds => tagmap[reqs[r].tag] = r \/ Finishing(r)
    /\ \A i \in DOMAIN stack : stack[i].op = "finish" /\ stack[i].r \in RealIds =>
        tagmap[reqs[stack[i].r].tag] = Nil

\* The calls in progress: at the bottom the ixp_respond whose write failed and
\* the cleanupconn it called, above them one handlereq or ixp_respond, and
\* nested calls of ixp_respond only for flushed requests.
ShapeOK ==
    /\ stack \in Seq(FrameSet)
    /\ \A i \in DOMAIN stack : i # 1 => stack[i].op \in {"reply", "finish", "cleanup"}
    /\ \A i \in DOMAIN stack : stack[i].op = "finish" =>
        IF stack[i].locked THEN ~conn /\ i = Len(stack) ELSE i = 1
    /\ \A i \in DOMAIN stack : stack[i].op = "cleanup" =>
        ~conn /\ (i = Len(stack) \/ (i = Len(stack) - 1 /\ stack[Len(stack)].op = "finish"))

AnswersOK ==
    /\ \A i, j \in DOMAIN stack :
        stack[i].op # "cleanup" /\ stack[j].op # "cleanup" /\ stack[i].r = stack[j].r => i = j
    /\ \A i \in DOMAIN stack : stack[i].op # "cleanup" => stack[i].r \in DOMAIN reqs
    /\ \A i, j \in DOMAIN stack : stack[i].op = "cleanup" =>
        /\ stack[i].flushes \subseteq DOMAIN reqs /\ stack[i].clunks \subseteq DOMAIN reqs
        /\ stack[j].op # "cleanup" =>
            stack[j].r \notin stack[i].flushes /\ stack[j].r \notin stack[i].clunks

\* Below the top an ixp_respond to a flush waits for the call above it, which
\* answers an older request under the tag that is flushed.
WaitingOK ==
    \A j \in DOMAIN stack : stack[j].op = "reply" /\ j # 1 =>
        /\ reqs[stack[j].r].type = "flush"
        /\ reqs[stack[j - 1].r].tag = reqs[stack[j].r].oldtag
        /\ \A i \in 1 .. j - 1 :
            /\ stack[i].op \in {"respond", "reply", "finish"} /\ stack[i].r \in RealIds
            /\ stack[j].r \in RealIds => stack[i].r[2] < stack[j].r[2]

NestedOK ==
    /\ WaitingOK
    /\ stack # <<>> /\ stack[1].op = "reply" /\ reqs[stack[1].r].type = "flush" =>
        tagmap[reqs[stack[1].r].oldtag] = Nil

FlushedOK == flushed \subseteq RealIds /\ \A r \in flushed : r[2] <= nreq /\ r \notin DOMAIN reqs

StackOK == ShapeOK /\ AnswersOK /\ NestedOK

BaseOK ==
    /\ conn \in BOOLEAN /\ freed \in BOOLEAN
    /\ nreq \in 0 .. MaxReqs
    /\ fids \in [Fids -> Fid9s \cup {Nil}]

\* cleanupconn's own reference, and one for every fid and request.
InCleanup == \E i \in DOMAIN stack : stack[i].op = "cleanup"
Counted ==
    (IF conn \/ InCleanup THEN 1 ELSE 0) + Cardinality(OpenFids) + Cardinality(DOMAIN reqs)

RefOK == ref = Counted /\ (freed <=> ref = 0)

ConnInv ==
    /\ BaseOK
    /\ ReqsOK
    /\ TagsOK
    /\ StackOK
    /\ FlushedOK
    /\ RefOK

-----------------------------------------------------------------------------
(* How a connection winds down.                                            *)

UnderWay(r) == \E c \in Frames : c.op # "cleanup" /\ c.r = r
Sending(r) == \E c \in Frames : c.op \in {"reply", "finish"} /\ c.r = r

\* The flush cleanupconn made up for r is still to take effect: it is waiting in
\* cleanupconn, being handled, or with the application.
ToFlush(r) == FlushOf(r) \in DOMAIN reqs /\ ~Sending(FlushOf(r))

ToClunk(r) == \E c \in Frames : c.op = "cleanup" /\ r \in c.clunks

\* cleanupconn has handled all its flushes.
Drained == \A c \in Frames : c.op = "cleanup" => c.flushes = {}

\* A made-up flush is for the tag of its request.
PairedOK ==
    \A r \in DOMAIN reqs : r \in RealIds /\ FlushOf(r) \in DOMAIN reqs =>
        reqs[FlushOf(r)].oldtag = reqs[r].tag

HandlingOK == \A c \in Frames : c.op = "handle" /\ c.r \in RealIds => conn

\* After a hangup every request of the client is being answered or will be flushed,
FlushesOK == ~conn => \A r \in DOMAIN reqs : r \in RealIds => UnderWay(r) \/ ToFlush(r)

\* and the fids are not clunked before cleanupconn has handled all its flushes.
ClunksOK == \A k \in DOMAIN reqs : k \in ClunkIds => ToClunk(k) \/ Drained

WindOK == PairedOK /\ HandlingOK /\ FlushesOK /\ ClunksOK

-----------------------------------------------------------------------------
(* Names of requests, and stacks.                                          *)

LEMMA IdFacts ==
    /\ \A n \in 1 .. MaxReqs : Real(n) \in RealIds /\ Real(n)[2] = n
    /\ \A r \in RealIds : r[2] \in 1 .. MaxReqs /\ r = Real(r[2]) /\ r \in Ids
    /\ \A r, s \in RealIds : r[2] = s[2] => r = s
    /\ \A r \in RealIds : FlushOf(r) \in FlushIds /\ Real(FlushOf(r)[2]) = r
    /\ \A r, s \in RealIds : FlushOf(r) = FlushOf(s) => r = s
    /\ \A f \in Fids : ClunkOf(f) \in ClunkIds /\ ClunkOf(f)[2] = f
    /\ \A f, g \in Fids : ClunkOf(f) = ClunkOf(g) => f = g
    /\ Ids = RealIds \cup FlushIds \cup ClunkIds
    /\ \A r \in Ids : ~(r \in RealIds /\ r \in FlushIds) /\ ~(r \in RealIds /\ r \in ClunkIds)
                      /\ ~(r \in FlushIds /\ r \in ClunkIds)
    /\ Nil \notin RealIds
<1>1. \A n : Real(n)[1] = "req" /\ Real(n)[2] = n
  BY DEF Real
<1>2. \A r : FlushOf(r)[1] = "flush" /\ FlushOf(r)[2] = r[2]
  BY DEF FlushOf
<1>3. \A f : ClunkOf(f)[1] = "clunk" /\ ClunkOf(f)[2] = f
  BY DEF ClunkOf
<1>4. Ids = RealIds \cup FlushIds \cup ClunkIds
  BY DEF Ids, FlushIds, ClunkIds
<1>5. \A r \in RealIds : r[2] \in 1 .. MaxReqs /\ r = Real(r[2])
  BY <1>1 DEF RealIds
<1>6. "req" # "flush" /\ "req" # "clunk" /\ "flush" # "clunk"
  OBVIOUS
<1> QED BY <1>1, <1>2, <1>3, <1>4, <1>5, <1>6, ConnAssumption DEF RealIds, FlushIds, ClunkIds

LEMMA IdsFinite == IsFiniteSet(Ids) /\ IsFiniteSet(RealIds) /\ IsFiniteSet(FlushIds)
                   /\ IsFiniteSet(ClunkIds)
<1>1. IsFiniteSet(1 .. MaxReqs)
  BY ConnAssumption, FS_Interval
<1>2. IsFiniteSet(RealIds)
  <2> DEFINE g == [n \in 1 .. MaxReqs |-> Real(n)]
  <2>1. g \in Surjection(1 .. MaxReqs, RealIds)
    BY DEF RealIds, Surjection
  <2> HIDE DEF g
  <2> QED BY <1>1, <2>1, FS_Surjection
<1>3. IsFiniteSet(FlushIds)
  <2> DEFINE g == [r \in RealIds |-> FlushOf(r)]
  <2>1. g \in Surjection(RealIds, FlushIds)
    BY DEF FlushIds, Surjection
  <2> HIDE DEF g
  <2> QED BY <1>2, <2>1, FS_Surjection
<1>4. IsFiniteSet(ClunkIds)
  <2> DEFINE g == [f \in Fids |-> ClunkOf(f)]
  <2>1. g \in Surjection(Fids, ClunkIds)
    BY DEF ClunkIds, Surjection
  <2> HIDE DEF g
  <2> QED BY <2>1, FS_Surjection, ConnAssumption
<1> QED BY <1>2, <1>3, <1>4, FS_Union DEF Ids, FlushIds, ClunkIds

\* The innermost call goes on, calls another, or returns.
LEMMA ReplaceFact ==
    ASSUME NEW T, NEW s \in Seq(T), s # <<>>, NEW f \in T
    PROVE  /\ <<f>> \o Tail(s) \in Seq(T) /\ Len(<<f>> \o Tail(s)) = Len(s)
           /\ (<<f>> \o Tail(s))[1] = f
           /\ \A i \in 1 .. Len(s) : i # 1 => (<<f>> \o Tail(s))[i] = s[i]
OBVIOUS

LEMMA CallFact ==
    ASSUME NEW T, NEW s \in Seq(T), s # <<>>, NEW f \in T, NEW g \in T
    PROVE  /\ <<f, g>> \o Tail(s) \in Seq(T) /\ Len(<<f, g>> \o Tail(s)) = Len(s) + 1
           /\ (<<f, g>> \o Tail(s))[1] = f /\ (<<f, g>> \o Tail(s))[2] = g
           /\ \A i \in 1 .. Len(s) + 1 : i \notin {1, 2} =>
                i - 1 \in 1 .. Len(s) /\ i - 1 # 1 /\ (<<f, g>> \o Tail(s))[i] = s[i - 1]
OBVIOUS

LEMMA ReturnFact ==
    ASSUME NEW T, NEW s \in Seq(T), s # <<>>
    PROVE  /\ Tail(s) \in Seq(T) /\ Len(Tail(s)) = Len(s) - 1
           /\ \A i \in 1 .. Len(s) - 1 : i + 1 \in 1 .. Len(s) /\ Tail(s)[i] = s[i + 1]
OBVIOUS

-----------------------------------------------------------------------------
(* What a step does to the calls in progress.                              *)

\* What was sent, of the requests that remain.
SameWire ==
    \A r \in DOMAIN reqs' :
        /\ r \in DOMAIN reqs
        /\ reqs'[r].type = reqs[r].type /\ reqs'[r].tag = reqs[r].tag
        /\ reqs'[r].fid = reqs[r].fid /\ reqs'[r].newfid = reqs[r].newfid
        /\ reqs'[r].oldtag = reqs[r].oldtag /\ reqs'[r].arg = reqs[r].arg

LEMMA StackFacts ==
    ASSUME StackOK
    PROVE  /\ stack \in Seq(FrameSet) /\ Len(stack) \in Nat /\ DOMAIN stack = 1 .. Len(stack)
           /\ stack # <<>> => /\ 1 \in DOMAIN stack /\ Head(stack) = stack[1]
                              /\ Len(stack) # 0
BY DEF StackOK, ShapeOK

LEMMA NilNoId == Nil \notin Ids /\ Nil \notin RealIds
BY ConnAssumption DEF Ids

LEMMA InCleanupReplace ==
    ASSUME stack \in Seq(FrameSet), stack # <<>>, NEW f \in FrameSet, stack' = Replace(f),
           stack[1].op # "cleanup", f.op # "cleanup"
    PROVE  InCleanup' <=> InCleanup
<1>1. /\ Len(stack') = Len(stack) /\ stack'[1] = f /\ stack' \in Seq(FrameSet)
      /\ \A i \in 1 .. Len(stack) : i # 1 => stack'[i] = stack[i]
  BY ReplaceFact DEF Replace
<1>2. DOMAIN stack = 1 .. Len(stack) /\ DOMAIN stack' = 1 .. Len(stack)
  BY <1>1
<1> QED BY <1>1, <1>2 DEF InCleanup

LEMMA InCleanupTail ==
    ASSUME stack \in Seq(FrameSet), stack # <<>>, stack' = Tail(stack), stack[1].op # "cleanup"
    PROVE  InCleanup' <=> InCleanup
<1>1. /\ stack' \in Seq(FrameSet) /\ Len(stack') = Len(stack) - 1 /\ Len(stack) \in Nat
      /\ \A i \in 1 .. Len(stack) - 1 : i + 1 \in 1 .. Len(stack) /\ stack'[i] = stack[i + 1]
  BY ReturnFact
<1>2. DOMAIN stack = 1 .. Len(stack) /\ DOMAIN stack' = 1 .. Len(stack) - 1
  BY <1>1
<1>3. ASSUME InCleanup PROVE InCleanup'
  <2>1. PICK i \in DOMAIN stack : stack[i].op = "cleanup"
    BY <1>3 DEF InCleanup
  <2>2. i - 1 \in 1 .. Len(stack) - 1 /\ i - 1 + 1 = i
    BY <1>1, <1>2, <2>1
  <2> QED BY <1>1, <1>2, <2>1, <2>2 DEF InCleanup
<1> QED BY <1>1, <1>2, <1>3 DEF InCleanup

\* The answers to flushes that wait keep waiting while the innermost call goes on.
LEMMA WaitingKept ==
    ASSUME StackOK, SameWire, DOMAIN reqs' = DOMAIN reqs, stack # <<>>, stack[1].op # "cleanup",
           NEW f \in FrameSet, f.op \in {"respond", "reply", "finish"}, f.r = stack[1].r,
           stack' = Replace(f)
    PROVE  WaitingOK'
<1>1. /\ stack'[1] = f /\ DOMAIN stack' = DOMAIN stack /\ DOMAIN stack = 1 .. Len(stack)
      /\ \A i \in DOMAIN stack : i # 1 => stack'[i] = stack[i]
  BY StackFacts, ReplaceFact DEF Replace
<1> SUFFICES ASSUME NEW j \in DOMAIN stack, stack'[j].op = "reply", j # 1
             PROVE  /\ reqs'[stack'[j].r].type = "flush"
                    /\ reqs'[stack'[j - 1].r].tag = reqs'[stack'[j].r].oldtag
                    /\ \A i \in 1 .. j - 1 :
                        /\ stack'[i].op \in {"respond", "reply", "finish"}
                        /\ stack'[i].r \in RealIds
                        /\ stack'[j].r \in RealIds => stack'[i].r[2] < stack'[j].r[2]
  BY <1>1 DEF WaitingOK
<1>2. stack[j].op = "reply" /\ stack'[j] = stack[j]
  BY <1>1
<1>3. /\ reqs[stack[j].r].type = "flush"
      /\ reqs[stack[j - 1].r].tag = reqs[stack[j].r].oldtag
      /\ \A i \in 1 .. j - 1 :
            /\ stack[i].op \in {"respond", "reply", "finish"} /\ stack[i].r \in RealIds
            /\ stack[j].r \in RealIds => stack[i].r[2] < stack[j].r[2]
  BY <1>2 DEF StackOK, NestedOK, WaitingOK
<1>4. j - 1 \in 1 .. j - 1 /\ \A i \in 1 .. j - 1 : i \in DOMAIN stack
  BY <1>1
<1>5. \A i \in 1 .. j - 1 : /\ stack'[i].r = stack[i].r
                            /\ stack'[i].op \in {"respond", "reply", "finish"}
  BY <1>1, <1>3, <1>4
<1>6. stack[j].r \in DOMAIN reqs /\ stack[j - 1].r \in DOMAIN reqs
  BY <1>2, <1>3, <1>4 DEF StackOK, AnswersOK
<1> QED BY <1>2, <1>3, <1>4, <1>5, <1>6 DEF SameWire

\* handlereq passes the request to ixp_respond, or ixp_respond comes to its reply.
LEMMA GoesOn ==
    ASSUME StackOK, TagsOK, SameWire, DOMAIN reqs' = DOMAIN reqs, UNCHANGED <<conn, tagmap>>,
           stack # <<>>, stack[1].op \in {"handle", "respond"},
           NEW f \in FrameSet, f.op \in {"respond", "reply"}, f.r = stack[1].r,
           f.op = "reply" /\ reqs[f.r].type = "flush" => tagmap[reqs[f.r].oldtag] = Nil,
           stack' = Replace(f)
    PROVE  StackOK' /\ TagsOK'
<1>1. /\ stack' \in Seq(FrameSet) /\ Len(stack') = Len(stack) /\ stack'[1] = f
      /\ DOMAIN stack' = DOMAIN stack /\ DOMAIN stack = 1 .. Len(stack) /\ 1 \in DOMAIN stack
      /\ \A i \in DOMAIN stack : i # 1 => stack'[i] = stack[i]
  BY StackFacts, ReplaceFact DEF Replace
<1>2. \A i \in DOMAIN stack : stack[i].op # "cleanup" => stack[i].r \in DOMAIN reqs
  BY DEF StackOK, AnswersOK
<1>3. ShapeOK'
  BY <1>1 DEF StackOK, ShapeOK
<1>4. AnswersOK'
  BY <1>1 DEF StackOK, AnswersOK
<1>5. NestedOK'
  <2>1. WaitingOK'
    BY WaitingKept
  <2>2. f.r \in DOMAIN reqs
    BY <1>1, <1>2
  <2> QED BY <1>1, <2>1, <2>2 DEF NestedOK, SameWire
<1>6. TagsOK'
  <2>1. \A r : Finishing(r)' <=> Finishing(r)
    BY <1>1 DEF Finishing
  <2>2. \A i \in DOMAIN stack' : stack'[i].op = "finish" =>
            stack[i].op = "finish" /\ stack'[i].r = stack[i].r /\ stack[i].r \in DOMAIN reqs
    BY <1>1, <1>2
  <2> QED BY <1>1, <2>1, <2>2 DEF TagsOK, SameWire
<1> QED BY <1>3, <1>4, <1>5, <1>6 DEF StackOK

\* The innermost call returns: handlereq leaves the request to the application,
\* ixp_respond has freed it, or cleanupconn is through.
LEMMA Returns ==
    ASSUME StackOK, TagsOK, SameWire, UNCHANGED <<conn, tagmap>>,
           stack # <<>>, stack' = Tail(stack),
           \/ stack[1].op \in {"handle", "cleanup"} /\ DOMAIN reqs' = DOMAIN reqs
           \/ stack[1].op = "finish" /\ DOMAIN reqs' = DOMAIN reqs \ {stack[1].r}
    PROVE  StackOK' /\ TagsOK'
<1>1. /\ stack' \in Seq(FrameSet) /\ Len(stack') = Len(stack) - 1
      /\ DOMAIN stack' = 1 .. Len(stack) - 1 /\ DOMAIN stack = 1 .. Len(stack)
      /\ 1 \in DOMAIN stack /\ Len(stack) \in Nat
      /\ \A i \in DOMAIN stack' : i + 1 \in DOMAIN stack /\ i + 1 # 1 /\ stack'[i] = stack[i + 1]
  BY StackFacts, ReturnFact
<1>2. \A i \in DOMAIN stack : stack[i].op # "cleanup" => stack[i].r \in DOMAIN reqs
  BY DEF StackOK, AnswersOK
<1>3. \A i \in DOMAIN stack' : stack'[i].op # "cleanup" => stack'[i].r \in DOMAIN reqs'
  BY <1>1, <1>2 DEF StackOK, AnswersOK
<1>4. ShapeOK'
  <2>1. \A i \in DOMAIN stack' : stack'[i].op \in {"reply", "finish", "cleanup"}
    BY <1>1 DEF StackOK, ShapeOK
  <2>2. ASSUME NEW i \in DOMAIN stack', stack'[i].op = "finish"
        PROVE  stack'[i].locked /\ ~conn' /\ i = Len(stack')
    BY <1>1, <2>2 DEF StackOK, ShapeOK
  <2>3. ASSUME NEW i \in DOMAIN stack', stack'[i].op = "cleanup"
        PROVE  /\ ~conn'
               /\ \/ i = Len(stack')
                  \/ i = Len(stack') - 1 /\ stack'[Len(stack')].op = "finish"
    <3>1. ~conn /\ (i + 1 = Len(stack) \/ (i + 1 = Len(stack) - 1 /\ stack[Len(stack)].op = "finish"))
      BY <1>1, <2>3 DEF StackOK, ShapeOK
    <3>2. i + 1 = Len(stack) - 1 => stack'[Len(stack')] = stack[Len(stack)]
      BY <1>1
    <3> QED BY <1>1, <3>1, <3>2
  <2> QED BY <1>1, <2>1, <2>2, <2>3 DEF ShapeOK
<1>5. AnswersOK'
  <2>1. ASSUME NEW i \in DOMAIN stack', NEW j \in DOMAIN stack',
               stack'[i].op # "cleanup", stack'[j].op # "cleanup", stack'[i].r = stack'[j].r
        PROVE  i = j
    <3>1. i + 1 = j + 1
      BY <1>1, <2>1 DEF StackOK, AnswersOK
    <3> QED BY <1>1, <3>1
  <2>2. ASSUME NEW i \in DOMAIN stack', stack'[i].op = "cleanup"
        PROVE  /\ stack'[i].flushes \subseteq DOMAIN reqs' /\ stack'[i].clunks \subseteq DOMAIN reqs'
               /\ \A j \in DOMAIN stack' : stack'[j].op # "cleanup" =>
                    stack'[j].r \notin stack'[i].flushes /\ stack'[j].r \notin stack'[i].clunks
    BY <1>1, <2>2 DEF StackOK, AnswersOK
  <2> QED BY <1>3, <2>1, <2>2 DEF AnswersOK
<1>6. \A j \in DOMAIN stack : stack[j].op = "reply" /\ j # 1 =>
        /\ reqs[stack[j].r].type = "flush"
        /\ reqs[stack[j - 1].r].tag = reqs[stack[j].r].oldtag
        /\ \A i \in 1 .. j - 1 :
                /\ stack[i].op \in {"respond", "reply", "finish"} /\ stack[i].r \in RealIds
                /\ stack[j].r \in RealIds => stack[i].r[2] < stack[j].r[2]
  BY DEF StackOK, NestedOK, WaitingOK
<1>7. NestedOK'
  <2>1. ASSUME NEW j \in DOMAIN stack', stack'[j].op = "reply", j # 1
        PROVE  /\ reqs'[stack'[j].r].type = "flush"
               /\ reqs'[stack'[j - 1].r].tag = reqs'[stack'[j].r].oldtag
               /\ \A i \in 1 .. j - 1 :
                    /\ stack'[i].op \in {"respond", "reply", "finish"} /\ stack'[i].r \in RealIds
                    /\ stack'[j].r \in RealIds => stack'[i].r[2] < stack'[j].r[2]
    <3>1. stack[j + 1].op = "reply" /\ stack'[j] = stack[j + 1] /\ j + 1 \in DOMAIN stack /\ j + 1 # 1
      BY <1>1, <2>1
    <3>2. /\ reqs[stack[j + 1].r].type = "flush"
          /\ reqs[stack[j + 1 - 1].r].tag = reqs[stack[j + 1].r].oldtag
          /\ \A i \in 1 .. j + 1 - 1 :
                /\ stack[i].op \in {"respond", "reply", "finish"} /\ stack[i].r \in RealIds
                /\ stack[j + 1].r \in RealIds => stack[i].r[2] < stack[j + 1].r[2]
      BY <1>6, <3>1
    <3>3. /\ j - 1 \in 1 .. j - 1 /\ j + 1 - 1 = j - 1 + 1
          /\ \A i \in 1 .. j - 1 : i \in DOMAIN stack' /\ i + 1 \in 1 .. j + 1 - 1
      BY <1>1, <2>1
    <3>4. \A i \in 1 .. j - 1 : /\ stack'[i] = stack[i + 1]
                                /\ stack'[i].op \in {"respond", "reply", "finish"}
      BY <1>1, <3>2, <3>3
    <3>5. stack'[j].r \in DOMAIN reqs' /\ stack'[j - 1].r \in DOMAIN reqs'
      BY <1>3, <2>1, <3>3, <3>4
    <3> QED BY <3>1, <3>2, <3>3, <3>4, <3>5 DEF SameWire
  <2>2. ASSUME stack' # <<>>, stack'[1].op = "reply", reqs'[stack'[1].r].type = "flush"
        PROVE  tagmap'[reqs'[stack'[1].r].oldtag] = Nil
    <3>1. 1 \in DOMAIN stack' /\ 2 \in DOMAIN stack /\ stack'[1] = stack[2]
      BY <1>1, <2>2
    <3>2. /\ reqs[stack[1].r].tag = reqs[stack[2].r].oldtag
          /\ stack[1].op \in {"respond", "reply", "finish"} /\ stack[1].r \in RealIds
      <4>1. stack[2].op = "reply" /\ 2 # 1 /\ 2 - 1 = 1 /\ 1 \in 1 .. 2 - 1
        BY <2>2, <3>1
      <4> QED BY <1>6, <3>1, <4>1
    <3>3. tagmap[reqs[stack[1].r].tag] = Nil
      BY <1>1, <3>2 DEF TagsOK
    <3>4. stack'[1].r \in DOMAIN reqs'
      BY <1>3, <2>2, <3>1
    <3> QED BY <3>1, <3>2, <3>3, <3>4 DEF SameWire
  <2> QED BY <2>1, <2>2 DEF NestedOK, WaitingOK
<1>8. TagsOK'
  <2>1. ASSUME NEW t \in Tags, tagmap[t] # Nil
        PROVE  tagmap[t] \in DOMAIN reqs' /\ reqs'[tagmap[t]].tag = t
    <3>1. tagmap[t] \in DOMAIN reqs /\ reqs[tagmap[t]].tag = t /\ tagmap[t] \in RealIds
      BY <2>1 DEF TagsOK
    <3>2. stack[1].op = "finish" => stack[1].r # tagmap[t]
      BY <1>1, <2>1, <3>1 DEF TagsOK
    <3> QED BY <3>1, <3>2 DEF SameWire
  <2>2. ASSUME NEW r \in DOMAIN reqs', r \in RealIds
        PROVE  tagmap[reqs'[r].tag] = r \/ Finishing(r)'
    <3>1. r \in DOMAIN reqs /\ reqs'[r].tag = reqs[r].tag
      BY <2>2 DEF SameWire
    <3>2. CASE Finishing(r)
      <4>1. PICK i \in DOMAIN stack : stack[i].op = "finish" /\ stack[i].r = r
        BY <3>2 DEF Finishing
      <4>2. i # 1
        BY <2>2, <4>1
      <4>3. i - 1 \in DOMAIN stack' /\ stack'[i - 1] = stack[i]
        <5>1. i - 1 \in DOMAIN stack' /\ i - 1 + 1 = i
          BY <1>1, <4>2
        <5> QED BY <1>1, <5>1
      <4> QED BY <4>1, <4>3 DEF Finishing
    <3> QED BY <2>2, <3>1, <3>2 DEF TagsOK
  <2>3. ASSUME NEW i \in DOMAIN stack', stack'[i].op = "finish", stack'[i].r \in RealIds
        PROVE  tagmap[reqs'[stack'[i].r].tag] = Nil
    BY <1>1, <1>3, <2>3 DEF TagsOK, SameWire
  <2> QED BY <2>1, <2>2, <2>3 DEF TagsOK
<1> QED BY <1>4, <1>5, <1>7, <1>8 DEF StackOK

-----------------------------------------------------------------------------
(* References and requests.                                                *)

LEMMA CardFacts ==
    ASSUME ReqsOK
    PROVE  /\ IsFiniteSet(OpenFids) /\ Cardinality(OpenFids) \in Nat
           /\ IsFiniteSet(DOMAIN reqs) /\ Cardinality(DOMAIN reqs) \in Nat
<1>1. OpenFids \in SUBSET Fids /\ DOMAIN reqs \in SUBSET Ids
  BY DEF OpenFids, ReqsOK
<1> QED BY <1>1, IdsFinite, ConnAssumption, FS_Subset, FS_CardinalityType

\* A connection that something refers to is not freed.
LEMMA RefKept ==
    ASSUME RefOK, ReqsOK, ReqsOK', UNCHANGED freed, ref' = Counted',
           conn \/ InCleanup \/ DOMAIN reqs # {},
           conn' \/ InCleanup' \/ DOMAIN reqs' # {}
    PROVE  RefOK'
<1>1. /\ Cardinality(OpenFids) \in Nat
      /\ IsFiniteSet(DOMAIN reqs) /\ Cardinality(DOMAIN reqs) \in Nat
  BY CardFacts
<1>2. ref # 0
  <2>1. DOMAIN reqs # {} => Cardinality(DOMAIN reqs) # 0
    BY <1>1, FS_EmptySet
  <2> QED BY <1>1, <2>1 DEF RefOK, Counted
<1>3. /\ Cardinality(OpenFids') \in Nat
      /\ IsFiniteSet(DOMAIN reqs') /\ Cardinality(DOMAIN reqs') \in Nat
  <2>1. OpenFids' \in SUBSET Fids /\ DOMAIN reqs' \in SUBSET Ids
    BY DEF OpenFids, ReqsOK
  <2> QED BY <2>1, IdsFinite, ConnAssumption, FS_Subset, FS_CardinalityType
<1>4. ref' # 0
  <2>1. DOMAIN reqs' # {} => Cardinality(DOMAIN reqs') # 0
    BY <1>3, FS_EmptySet
  <2> QED BY <1>3, <2>1 DEF Counted
<1> QED BY <1>2, <1>4 DEF RefOK

\* Only pointers changed.
LEMMA SameReqs ==
    ASSUME ReqsOK, SameWire, UNCHANGED nreq, conn' => conn,
           \A r \in DOMAIN reqs' : reqs'[r] \in Ixp9Reqs /\ PointersOK(reqs[r])',
           \A r \in DOMAIN reqs', s \in DOMAIN reqs' :
                reqs'[s].poldreq = r => reqs[r].tag = reqs[s].oldtag
    PROVE  ReqsOK'
<1>1. \A r \in DOMAIN reqs' : WireOK(r, reqs[r])'
  BY DEF ReqsOK, SameWire, WireOK
<1> QED BY <1>1 DEF ReqsOK, SameWire

\* handlereq sets the pointers of a request.
LEMMA ResolvedFact ==
    ASSUME NEW r, NEW q \in Ixp9Reqs, WireOK(r, q), PointersOK(q), TagsOK, ReqsOK
    PROVE  /\ Resolved(q) \in Ixp9Reqs
           /\ Resolved(q).type = q.type /\ Resolved(q).tag = q.tag /\ Resolved(q).fid = q.fid
           /\ Resolved(q).newfid = q.newfid /\ Resolved(q).oldtag = q.oldtag
           /\ Resolved(q).arg = q.arg
           /\ Resolved(q).pfid \in {Nil, q.fid} /\ Resolved(q).pnew \in {Nil, q.newfid}
           /\ Resolved(q).pfid # Nil => HasFid(q) \/ (q.type = "attach" /\ ~Rejected(q))
           /\ Resolved(q).pnew # Nil => q.type = "walk" /\ ~Rejected(q) /\ HasFid(q)
                                        /\ Resolved(q).pfid # Nil
           /\ Resolved(q).poldreq # Nil =>
                /\ q.type = "flush" /\ Resolved(q).poldreq = tagmap[q.oldtag]
                /\ tagmap[q.oldtag] \in DOMAIN reqs /\ tagmap[q.oldtag] \in RealIds
                /\ reqs[tagmap[q.oldtag]].tag = q.oldtag /\ tagmap[q.oldtag][2] <= nreq
<1>1. CASE q.type = "attach"
  <2>1. Resolved(q) = [q EXCEPT !.pfid = IF Rejected(q) THEN Nil ELSE q.fid]
    BY <1>1 DEF Resolved
  <2>2. q.pnew = Nil /\ q.newfid = Nil /\ q.poldreq = Nil /\ r \notin ClunkIds
    BY <1>1 DEF WireOK, PointersOK
  <2> HIDE DEF Resolved
  <2> QED BY <1>1, <2>1, <2>2 DEF Ixp9Reqs
<1>2. CASE q.type = "flush"
  <2>1. Resolved(q) = [q EXCEPT !.poldreq = tagmap[q.oldtag]]
    BY <1>2 DEF Resolved
  <2>2. q.pnew = Nil /\ q.pfid = Nil /\ r \notin ClunkIds /\ q.oldtag \in Tags
    BY <1>2 DEF WireOK, PointersOK
  <2>3. /\ tagmap[q.oldtag] \in RealIds \cup {Nil}
        /\ tagmap[q.oldtag] # Nil =>
            /\ tagmap[q.oldtag] \in DOMAIN reqs /\ tagmap[q.oldtag] \in RealIds
            /\ reqs[tagmap[q.oldtag]].tag = q.oldtag /\ tagmap[q.oldtag][2] <= nreq
    BY <2>2 DEF TagsOK, ReqsOK
  <2> QED BY <1>2, <2>1, <2>2, <2>3 DEF Ixp9Reqs
<1>3. CASE q.type \notin {"attach", "flush"}
  <2>1. Resolved(q) = [q EXCEPT !.pfid = IF HasFid(q) THEN q.fid ELSE Nil,
                                !.pnew = IF q.type = "walk" /\ ~Rejected(q) THEN q.newfid ELSE Nil]
    BY <1>3 DEF Resolved
  <2>2. q.type = "walk" /\ ~Rejected(q) => HasFid(q)
    BY <1>3 DEF Rejected
  <2>3. HasFid(q) => q.fid # Nil
    BY DEF HasFid
  <2>4. q.poldreq = Nil
    BY <1>3 DEF PointersOK
  <2> HIDE DEF HasFid, Rejected
  <2> QED BY <1>3, <2>1, <2>2, <2>3, <2>4 DEF Ixp9Reqs
<1> QED BY <1>1, <1>2, <1>3

-----------------------------------------------------------------------------
(* handlereq.                                                              *)

LEMMA TopFacts ==
    ASSUME ConnInv, stack # <<>>, stack[1].op # "cleanup"
    PROVE  /\ stack[1].r \in DOMAIN reqs /\ stack[1].r \in Ids
           /\ reqs[stack[1].r] \in Ixp9Reqs /\ WireOK(stack[1].r, reqs[stack[1].r])
           /\ PointersOK(reqs[stack[1].r])
           /\ Head(stack) = stack[1]
BY StackFacts DEF ConnInv, ReqsOK, StackOK, AnswersOK

LEMMA HandleReqs ==
    ASSUME ConnInv, NEW r \in DOMAIN reqs, reqs' = [reqs EXCEPT ![r] = Resolved(reqs[r])],
           UNCHANGED <<conn, nreq>>,
           \A f \in Fids : fids[f] # Nil => fids'[f] # Nil,
           ~Rejected(reqs[r]) => \A f \in Creates(reqs[r]) : fids'[f] # Nil
    PROVE  SameWire /\ DOMAIN reqs' = DOMAIN reqs /\ ReqsOK'
<1> DEFINE q == reqs[r]
<1>1. q \in Ixp9Reqs /\ WireOK(r, q) /\ PointersOK(q) /\ TagsOK /\ ReqsOK
  BY DEF ConnInv, ReqsOK
<1>2. PICK p \in Ixp9Reqs :
      /\ p = Resolved(q)
      /\ p.type = q.type /\ p.tag = q.tag /\ p.fid = q.fid
      /\ p.newfid = q.newfid /\ p.oldtag = q.oldtag /\ p.arg = q.arg
      /\ p.pfid \in {Nil, q.fid} /\ p.pnew \in {Nil, q.newfid}
      /\ p.pfid # Nil => HasFid(q) \/ (q.type = "attach" /\ ~Rejected(q))
      /\ p.pnew # Nil => q.type = "walk" /\ ~Rejected(q) /\ HasFid(q) /\ p.pfid # Nil
      /\ p.poldreq # Nil =>
            /\ q.type = "flush" /\ p.poldreq = tagmap[q.oldtag]
            /\ tagmap[q.oldtag] \in DOMAIN reqs /\ tagmap[q.oldtag] \in RealIds
            /\ reqs[tagmap[q.oldtag]].tag = q.oldtag /\ tagmap[q.oldtag][2] <= nreq
  BY <1>1, ResolvedFact
<1>3. DOMAIN reqs' = DOMAIN reqs /\ reqs'[r] = p /\ \A s \in DOMAIN reqs : s # r => reqs'[s] = reqs[s]
  BY <1>2
<1>4. SameWire
  BY <1>2, <1>3 DEF SameWire
<1>5. q.fid \in Fids \cup {Nil} /\ q.newfid \in Fids \cup {Nil}
  BY <1>1 DEF Ixp9Reqs
<1>6. p.pfid # Nil => fids'[p.pfid] # Nil
  <2>1. CASE HasFid(q)
    BY <1>2, <1>5, <2>1 DEF HasFid
  <2>2. CASE q.type = "attach" /\ ~Rejected(q)
    BY <1>2, <2>2 DEF Creates
  <2> QED BY <1>2, <2>1, <2>2
<1>7. p.pnew # Nil => fids'[p.pnew] # Nil
  <2> SUFFICES ASSUME p.pnew # Nil PROVE fids'[p.pnew] # Nil
    OBVIOUS
  <2>1. q.type = "walk" /\ ~Rejected(q) /\ HasFid(q) /\ p.pnew = q.newfid
    BY <1>2
  <2>2. CASE q.newfid = q.fid
    BY <1>5, <2>1, <2>2 DEF HasFid
  <2>3. CASE q.newfid # q.fid
    BY <2>1, <2>3 DEF Creates
  <2> QED BY <2>2, <2>3
<1>8. PointersOK(p)'
  BY <1>2, <1>3, <1>5, <1>6, <1>7, ConnAssumption DEF PointersOK, Ixp9Reqs
<1>9. \A s \in DOMAIN reqs : s # r => PointersOK(reqs[s])'
  <2> SUFFICES ASSUME NEW s \in DOMAIN reqs, s # r PROVE PointersOK(reqs[s])'
    OBVIOUS
  <2>1. reqs[s] \in Ixp9Reqs /\ PointersOK(reqs[s]) /\ reqs'[s] = reqs[s]
    BY <1>3 DEF ConnInv, ReqsOK
  <2> QED BY <2>1 DEF PointersOK
<1>10. \A s \in DOMAIN reqs' : reqs'[s] \in Ixp9Reqs /\ PointersOK(reqs[s])'
  <2>1. PointersOK(reqs[r])'
    BY <1>3, <1>8 DEF PointersOK
  <2> QED BY <1>1, <1>2, <1>3, <1>9, <2>1 DEF ReqsOK
<1>11. \A t, s \in DOMAIN reqs' : reqs'[s].poldreq = t => reqs[t].tag = reqs[s].oldtag
  <2> SUFFICES ASSUME NEW t \in DOMAIN reqs, NEW s \in DOMAIN reqs, reqs'[s].poldreq = t
               PROVE  reqs[t].tag = reqs[s].oldtag
    BY <1>3
  <2>1. CASE s # r
    BY <1>3, <2>1 DEF ConnInv, ReqsOK
  <2>2. CASE s = r
    <3>1. t # Nil
      <4>1. p.poldreq \in RealIds \cup {Nil} /\ reqs'[s].poldreq = p.poldreq
        BY <1>2, <1>3, <2>2 DEF Ixp9Reqs
      <4>2. t \in Ids
        BY DEF ConnInv, ReqsOK
      <4> QED BY <4>1, <4>2, NilNoId
    <3> QED BY <1>2, <1>3, <2>2, <3>1
  <2> QED BY <2>1, <2>2
<1> QED BY <1>1, <1>3, <1>4, <1>10, <1>11, SameReqs

LEMMA HandleRejectInv ==
    ASSUME ConnInv, HandleReject
    PROVE  ConnInv'
<1> DEFINE r == stack[1].r
<1>1. stack # <<>> /\ stack[1].op = "handle"
  BY StackFacts DEF HandleReject, Top, ConnInv
<1>2. r \in DOMAIN reqs /\ r \in Ids /\ Head(stack) = stack[1]
  BY <1>1, TopFacts
<1>3. /\ reqs' = [reqs EXCEPT ![r] = Resolved(reqs[r])] /\ Rejected(reqs[r])
      /\ stack' = Replace(Respond(r, "error"))
      /\ UNCHANGED <<conn, freed, ref, tagmap, fids, nreq, flushed>>
  BY <1>2 DEF HandleReject
<1>4. SameWire /\ DOMAIN reqs' = DOMAIN reqs /\ ReqsOK'
  BY <1>2, <1>3, HandleReqs
<1>5. Respond(r, "error") \in FrameSet /\ Respond(r, "error").op = "respond" /\ Respond(r, "error").r = r
  BY <1>2 DEF Respond, FrameSet, Outs
<1>6. StackOK' /\ TagsOK'
  BY <1>1, <1>3, <1>4, <1>5, GoesOn DEF ConnInv
<1>7. BaseOK' /\ FlushedOK'
  BY <1>3, <1>4 DEF ConnInv, BaseOK, FlushedOK
<1>8. InCleanup' <=> InCleanup
  BY <1>1, <1>3, <1>5, InCleanupReplace DEF ConnInv, StackOK, ShapeOK
<1>9. RefOK'
  <2>1. OpenFids' = OpenFids
    BY <1>3 DEF OpenFids
  <2>2. ref' = Counted'
    BY <1>3, <1>4, <1>8, <2>1 DEF ConnInv, RefOK, Counted
  <2> QED BY <1>2, <1>3, <1>4, <2>2, RefKept DEF ConnInv
<1> QED BY <1>4, <1>6, <1>7, <1>9 DEF ConnInv

LEMMA CreatesFact ==
    ASSUME NEW r, NEW q \in Ixp9Reqs, WireOK(r, q), ~Rejected(q)
    PROVE  /\ Creates(q) \subseteq Fids /\ \A f \in Creates(q) : fids[f] = Nil
           /\ Creates(q) = {} \/ \E f : Creates(q) = {f}
<1>1. CASE q.type = "attach"
  BY <1>1 DEF Creates, Rejected, WireOK
<1>2. CASE q.type = "walk"
  <2>1. ~Forbidden(q, fids[q.fid])
    BY <1>2 DEF Rejected
  <2>2. q.newfid # q.fid => fids[q.newfid] = Nil
    BY <1>2, <2>1 DEF Forbidden
  <2> QED BY <1>2, <2>2 DEF Creates, WireOK
<1>3. CASE q.type \notin {"attach", "walk"}
  BY <1>3 DEF Creates
<1> QED BY <1>1, <1>2, <1>3

LEMMA OutcomesFact == \A type : Outcomes(type) \subseteq Outs
BY DEF Outcomes, Outs

LEMMA HandleAcceptInv ==
    ASSUME ConnInv, HandleAccept
    PROVE  ConnInv'
<1> DEFINE r == stack[1].r
           q == reqs[r]
           made == Creates(q)
<1>1. stack # <<>> /\ stack[1].op = "handle"
  BY StackFacts DEF HandleAccept, Top, ConnInv
<1>2. r \in DOMAIN reqs /\ r \in Ids /\ Head(stack) = stack[1] /\ q \in Ixp9Reqs /\ WireOK(r, q)
  BY <1>1, TopFacts
<1>3. /\ ~Rejected(q) /\ reqs' = [reqs EXCEPT ![r] = Resolved(reqs[r])]
      /\ fids' = [f \in Fids |-> IF f \in made THEN NewFid ELSE fids[f]]
      /\ ref' = ref + Cardinality(made)
      /\ (\E out \in Outs : stack' = Replace(Respond(r, out))) \/ stack' = Tail(stack)
      /\ UNCHANGED <<conn, freed, tagmap, nreq, flushed>>
  BY <1>2, OutcomesFact DEF HandleAccept, Outs
<1>4. made \subseteq Fids /\ (\A f \in made : fids[f] = Nil) /\ (made = {} \/ \E f : made = {f})
  BY <1>2, <1>3, CreatesFact
<1> HIDE DEF made
<1>5. NewFid \in Fid9s /\ NewFid # Nil
  <2>1. NewFid \in Fid9s
    BY DEF NewFid, Fid9s
  <2> QED BY <2>1, ConnAssumption
<1>6. SameWire /\ DOMAIN reqs' = DOMAIN reqs /\ ReqsOK'
  <2>1. \A f \in Fids : fids[f] # Nil => fids'[f] # Nil
    BY <1>3, <1>5
  <2>2. \A f \in Creates(reqs[r]) : fids'[f] # Nil
    BY <1>3, <1>4, <1>5 DEF made
  <2> QED BY <1>2, <1>3, <2>1, <2>2, HandleReqs
<1>7. BaseOK' /\ FlushedOK'
  BY <1>3, <1>5, <1>6 DEF ConnInv, BaseOK, FlushedOK
<1>8. StackOK' /\ TagsOK' /\ (InCleanup' <=> InCleanup)
  <2>1. CASE stack' = Tail(stack)
    BY <1>1, <1>3, <1>6, <2>1, Returns, InCleanupTail, StackFacts DEF ConnInv
  <2>2. ASSUME NEW out \in Outs, stack' = Replace(Respond(r, out))
        PROVE  StackOK' /\ TagsOK' /\ (InCleanup' <=> InCleanup)
    <3>1. Respond(r, out) \in FrameSet /\ Respond(r, out).op = "respond" /\ Respond(r, out).r = r
      BY <1>2 DEF Respond, FrameSet
    <3> QED BY <1>1, <1>3, <1>6, <2>2, <3>1, GoesOn, InCleanupReplace, StackFacts DEF ConnInv
  <2> QED BY <1>3, <2>1, <2>2
<1>9. RefOK'
  <2>1. OpenFids' = OpenFids \cup made
    BY <1>3, <1>4, <1>5 DEF OpenFids
  <2>2. IsFiniteSet(OpenFids) /\ Cardinality(OpenFids) \in Nat /\ Cardinality(DOMAIN reqs) \in Nat
    BY CardFacts DEF ConnInv
  <2>3. Cardinality(OpenFids') = Cardinality(OpenFids) + Cardinality(made) /\ Cardinality(made) \in Nat
    <3>1. CASE made = {}
      BY <2>1, <2>2, <3>1, FS_EmptySet
    <3>2. ASSUME NEW f, made = {f}
          PROVE  /\ Cardinality(OpenFids') = Cardinality(OpenFids) + Cardinality(made)
                 /\ Cardinality(made) \in Nat
      <4>1. f \notin OpenFids /\ Cardinality(made) = 1
        BY <1>4, <3>2, FS_Singleton DEF OpenFids
      <4> QED BY <2>1, <2>2, <3>2, <4>1, FS_AddElement
    <3> QED BY <1>4, <3>1, <3>2
  <2>4. ref' = Counted'
    BY <1>3, <1>6, <1>8, <2>2, <2>3 DEF ConnInv, RefOK, Counted
  <2> QED BY <1>2, <1>3, <1>6, <2>4, RefKept DEF ConnInv
<1> QED BY <1>6, <1>7, <1>8, <1>9 DEF ConnInv

-----------------------------------------------------------------------------
(* ixp_respond.                                                            *)

LEMMA OrphanFact ==
    ASSUME ReqsOK, NEW gone, reqs' = Orphan(reqs, gone)
    PROVE  /\ DOMAIN reqs' = DOMAIN reqs
           /\ \A r \in DOMAIN reqs :
                /\ reqs'[r] \in Ixp9Reqs
                /\ reqs'[r].type = reqs[r].type /\ reqs'[r].tag = reqs[r].tag
                /\ reqs'[r].fid = reqs[r].fid /\ reqs'[r].newfid = reqs[r].newfid
                /\ reqs'[r].oldtag = reqs[r].oldtag /\ reqs'[r].arg = reqs[r].arg
                /\ reqs'[r].pfid = IF reqs[r].pfid \in gone THEN Stale ELSE reqs[r].pfid
                /\ reqs'[r].pnew = IF reqs[r].pnew \in gone THEN Stale ELSE reqs[r].pnew
                /\ reqs'[r].poldreq = reqs[r].poldreq
<1>1. DOMAIN reqs' = DOMAIN reqs
  BY DEF Orphan
<1> QED
  <2> SUFFICES ASSUME NEW r \in DOMAIN reqs
               PROVE  /\ reqs'[r] \in Ixp9Reqs
                      /\ reqs'[r].type = reqs[r].type /\ reqs'[r].tag = reqs[r].tag
                      /\ reqs'[r].fid = reqs[r].fid /\ reqs'[r].newfid = reqs[r].newfid
                      /\ reqs'[r].oldtag = reqs[r].oldtag /\ reqs'[r].arg = reqs[r].arg
                      /\ reqs'[r].pfid = IF reqs[r].pfid \in gone THEN Stale ELSE reqs[r].pfid
                      /\ reqs'[r].pnew = IF reqs[r].pnew \in gone THEN Stale ELSE reqs[r].pnew
                      /\ reqs'[r].poldreq = reqs[r].poldreq
    BY <1>1
  <2>1. reqs[r] \in Ixp9Reqs
    BY DEF ReqsOK
  <2>2. PICK a \in Fids \cup {Nil, Stale}, b \in Fids \cup {Nil, Stale} :
            /\ a = IF reqs[r].pfid \in gone THEN Stale ELSE reqs[r].pfid
            /\ b = IF reqs[r].pnew \in gone THEN Stale ELSE reqs[r].pnew
    BY <2>1 DEF Ixp9Reqs
  <2>3. reqs'[r] = [reqs[r] EXCEPT !.pfid = a, !.pnew = b]
    BY <2>1, <2>2 DEF Orphan, Ixp9Reqs
  <2> QED BY <2>1, <2>2, <2>3 DEF Ixp9Reqs

\* Wherever a stale pointer leads, it is to a fid that exists or to none.
LEMMA AimsFact ==
    ASSUME NEW q \in Ixp9Reqs, PointersOK(q), NEW a \in Aims(q)
    PROVE  /\ a \in Ixp9Reqs /\ a.type = q.type /\ a.oldtag = q.oldtag /\ a.arg = q.arg
           /\ a.pfid \in Fids \cup {Nil} /\ (a.pfid \in Fids => fids[a.pfid] # Nil)
<1>1. PICK p \in Leads(q.pfid) \X Leads(q.pnew) : a = [q EXCEPT !.pfid = p[1], !.pnew = p[2]]
  BY DEF Aims
<1>2. p[1] \in Leads(q.pfid) /\ p[2] \in Leads(q.pnew)
  OBVIOUS
<1>3. /\ p[1] \in Fids \cup {Nil} /\ (p[1] \in Fids => fids[p[1]] # Nil)
      /\ p[2] \in Fids \cup {Nil}
  BY <1>2, ConnAssumption DEF Leads, OpenFids, Ixp9Reqs, PointersOK
<1> QED BY <1>1, <1>3 DEF Ixp9Reqs

LEMMA UpdatedFact ==
    ASSUME BaseOK, NEW q, q.type \in {"open", "create"} => q.arg \in Modes,
           q.pfid \in Fids \cup {Nil}, q.pfid \in Fids => fids[q.pfid] # Nil, NEW out
    PROVE  /\ Updated(q, out) \in [Fids -> Fid9s \cup {Nil}]
           /\ \A f \in Fids : Updated(q, out)[f] = Nil <=> fids[f] = Nil
<1> SUFFICES ASSUME NEW f \in Fids
             PROVE  /\ Updated(q, out)[f] \in Fid9s \cup {Nil}
                    /\ Updated(q, out)[f] = Nil <=> fids[f] = Nil
  BY DEF Updated
<1> DEFINE u == Updated(q, out)[f]
<1>1. fids[f] \in Fid9s \cup {Nil} /\ Nil \notin Fid9s
  BY ConnAssumption DEF BaseOK
<1>2. CASE fids[f] = Nil
  BY <1>1, <1>2 DEF Updated
<1>3. CASE /\ fids[f] # Nil /\ q.type \in {"open", "create"} /\ f = q.pfid
           /\ out # "error"
  <2>1. u = [omode |-> q.arg, dir |-> IF out = "ok" THEN fids[f].dir ELSE out = "dir"]
    BY <1>3 DEF Updated
  <2>2. q.arg \in Modes /\ (IF out = "ok" THEN fids[f].dir ELSE out = "dir") \in BOOLEAN
    BY <1>1, <1>3 DEF Fid9s
  <2>3. u \in Fid9s
    BY <2>1, <2>2 DEF Fid9s
  <2> QED BY <1>1, <1>3, <2>3
<1>4. CASE /\ fids[f] # Nil /\ q.type = "attach" /\ f = q.pfid /\ out # "error"
  <2>1. u = [fids[f] EXCEPT !.dir = (out = "dir")]
    BY <1>4 DEF Updated
  <2>2. u \in Fid9s
    BY <1>1, <1>4, <2>1 DEF Fid9s
  <2> QED BY <1>1, <1>4, <2>2
<1>5. CASE /\ fids[f] # Nil /\ q.type = "walk" /\ f = q.pnew /\ out \in {"dir", "file"}
  <2>1. u = [fids[f] EXCEPT !.dir = IF q.arg = 0 /\ q.pfid # Nil THEN fids[q.pfid].dir
                                    ELSE out = "dir"]
    BY <1>5 DEF Updated
  <2>2. q.pfid # Nil => fids[q.pfid] # Nil /\ q.pfid \in Fids
    OBVIOUS
  <2>3. (IF q.arg = 0 /\ q.pfid # Nil THEN fids[q.pfid].dir ELSE out = "dir") \in BOOLEAN
    BY <2>2 DEF BaseOK, Fid9s
  <2>4. u \in Fid9s
    BY <1>1, <1>5, <2>1, <2>3 DEF Fid9s
  <2> QED BY <1>1, <1>5, <2>4
<1>6. CASE /\ fids[f] # Nil
           /\ ~(q.type \in {"open", "create"} /\ f = q.pfid /\ out # "error")
           /\ ~(q.type = "attach" /\ f = q.pfid /\ out # "error")
           /\ ~(q.type = "walk" /\ f = q.pnew /\ out \in {"dir", "file"})
  <2>1. u = fids[f]
    BY <1>6 DEF Updated
  <2> QED BY <1>1, <2>1
<1> QED BY <1>2, <1>3, <1>4, <1>5, <1>6

LEMMA DestroysFact ==
    ASSUME NEW q, NEW out
    PROVE  /\ Destroys(q, out) \subseteq OpenFids
           /\ Destroys(q, out) = {} \/ \E f \in OpenFids : Destroys(q, out) = {f}
<1> DEFINE f == CASE q.type \in {"clunk", "remove"} -> q.pfid
                  [] q.type = "attach" /\ out = "error" -> q.pfid
                  [] q.type = "walk" /\ out \in {"error", "partial"} /\ q.fid # q.newfid -> q.pnew
                  [] OTHER -> Nil
<1>1. Destroys(q, out) = {f} \cap OpenFids
  BY DEF Destroys
<1> HIDE DEF f
<1> QED BY <1>1

LEMMA RespondBodyInv ==
    ASSUME ConnInv, RespondBody
    PROVE  ConnInv'
<1>1. stack # <<>> /\ stack[1].op = "respond"
  BY StackFacts DEF RespondBody, Top, ConnInv
<1>2. PICK r \in DOMAIN reqs : /\ r = stack[1].r /\ r \in Ids /\ Head(stack) = stack[1]
                               /\ reqs[r] \in Ixp9Reqs /\ WireOK(r, reqs[r]) /\ PointersOK(reqs[r])
  BY <1>1, TopFacts
<1>3. PICK out \in Outs : out = stack[1].out
  <2>1. stack[1] \in FrameSet
    BY <1>1, StackFacts DEF ConnInv
  <2> QED BY <1>1, <2>1 DEF FrameSet
<1>40. PICK q \in Aims(reqs[r]) :
        /\ q.type = "flush" => tagmap[q.oldtag] = Nil
        /\ fids' = [f \in Fids |-> IF f \in Destroys(q, out) THEN Nil ELSE Updated(q, out)[f]]
        /\ reqs' = Orphan(reqs, Destroys(q, out))
        /\ ref' = ref - Cardinality(Destroys(q, out))
        /\ stack' = Replace(Reply(r, out))
        /\ UNCHANGED <<conn, freed, tagmap, nreq, flushed>>
  BY <1>2, <1>3 DEF RespondBody
<1>41. /\ q.type = reqs[r].type /\ q.oldtag = reqs[r].oldtag /\ q.arg = reqs[r].arg
       /\ q.pfid \in Fids \cup {Nil} /\ (q.pfid \in Fids => fids[q.pfid] # Nil)
  BY <1>2, AimsFact
<1>4. PICK gone \in SUBSET OpenFids :
        /\ gone = Destroys(q, out)
        /\ gone = {} \/ \E f \in OpenFids : gone = {f}
  BY DestroysFact
<1>5. /\ reqs[r].type = "flush" => tagmap[reqs[r].oldtag] = Nil
      /\ fids' = [f \in Fids |-> IF f \in gone THEN Nil ELSE Updated(q, out)[f]]
      /\ reqs' = Orphan(reqs, gone)
      /\ ref' = ref - Cardinality(gone)
      /\ stack' = Replace(Reply(r, out))
      /\ UNCHANGED <<conn, freed, tagmap, nreq, flushed>>
  BY <1>4, <1>40, <1>41
<1>6. /\ Updated(q, out) \in [Fids -> Fid9s \cup {Nil}]
      /\ \A f \in Fids : Updated(q, out)[f] = Nil <=> fids[f] = Nil
  <2>1. q.type \in {"open", "create"} => q.arg \in Modes
    BY <1>2, <1>41 DEF WireOK
  <2> QED BY <1>41, <2>1, UpdatedFact DEF ConnInv
<1>7. SameWire /\ DOMAIN reqs' = DOMAIN reqs
  BY <1>5, OrphanFact DEF ConnInv, SameWire
<1>8. ReqsOK'
  <2>1. ASSUME NEW s \in DOMAIN reqs'
        PROVE  reqs'[s] \in Ixp9Reqs /\ PointersOK(reqs[s])'
    <3>1. s \in DOMAIN reqs /\ reqs[s] \in Ixp9Reqs /\ PointersOK(reqs[s])
      BY <1>7 DEF ConnInv, ReqsOK
    <3>2. /\ reqs'[s] \in Ixp9Reqs /\ reqs'[s].type = reqs[s].type
          /\ reqs'[s].fid = reqs[s].fid /\ reqs'[s].newfid = reqs[s].newfid
          /\ reqs'[s].pfid = IF reqs[s].pfid \in gone THEN Stale ELSE reqs[s].pfid
          /\ reqs'[s].pnew = IF reqs[s].pnew \in gone THEN Stale ELSE reqs[s].pnew
          /\ reqs'[s].poldreq = reqs[s].poldreq
      BY <1>5, <3>1, OrphanFact DEF ConnInv
    <3>3. gone \subseteq Fids
      BY DEF OpenFids
    <3>4. \A f \in Fids : f \notin gone /\ fids[f] # Nil => fids'[f] # Nil
      BY <1>5, <1>6
    <3> QED BY <1>5, <3>1, <3>2, <3>3, <3>4, ConnAssumption DEF PointersOK
  <2>2. \A t, s \in DOMAIN reqs' : reqs'[s].poldreq = t => reqs[t].tag = reqs[s].oldtag
    BY <1>5, <1>7, OrphanFact DEF ConnInv, ReqsOK
  <2> QED BY <1>5, <1>7, <2>1, <2>2, SameReqs DEF ConnInv
<1>9. BaseOK' /\ FlushedOK'
  BY <1>5, <1>6, <1>7 DEF ConnInv, BaseOK, FlushedOK
<1>10. Reply(r, out) \in FrameSet /\ Reply(r, out).op = "reply" /\ Reply(r, out).r = r
  BY <1>2 DEF Reply, FrameSet
<1>11. StackOK' /\ TagsOK' /\ (InCleanup' <=> InCleanup)
  BY <1>1, <1>2, <1>5, <1>7, <1>10, GoesOn, InCleanupReplace, StackFacts DEF ConnInv
<1>12. RefOK'
  <2>1. OpenFids' = OpenFids \ gone
    BY <1>5, <1>6 DEF OpenFids
  <2>2. IsFiniteSet(OpenFids) /\ Cardinality(OpenFids) \in Nat /\ Cardinality(DOMAIN reqs) \in Nat
    BY CardFacts DEF ConnInv
  <2>3. Cardinality(OpenFids') = Cardinality(OpenFids) - Cardinality(gone) /\ Cardinality(gone) \in Nat
    <3>1. CASE gone = {}
      BY <2>1, <2>2, <3>1, FS_EmptySet
    <3>2. ASSUME NEW f \in OpenFids, gone = {f}
          PROVE  /\ Cardinality(OpenFids') = Cardinality(OpenFids) - Cardinality(gone)
                 /\ Cardinality(gone) \in Nat
      <4>1. Cardinality(OpenFids \ {f}) = Cardinality(OpenFids) - 1
        BY <2>2, FS_RemoveElement
      <4>2. Cardinality(gone) = 1
        BY <3>2, FS_Singleton
      <4> QED BY <2>1, <3>2, <4>1, <4>2
    <3> QED BY <1>4, <3>1, <3>2
  <2>4. ref' = Counted'
    BY <1>5, <1>7, <1>11, <2>2, <2>3 DEF ConnInv, RefOK, Counted
  <2> QED BY <1>2, <1>5, <1>7, <1>8, <2>4, RefKept DEF ConnInv
<1> QED BY <1>8, <1>9, <1>11, <1>12 DEF ConnInv

\* A reference is dropped.
LEMMA RefDropped ==
    ASSUME ConnInv, ReqsOK', Decref(ref), Counted' = Counted - 1
    PROVE  RefOK' /\ freed' \in BOOLEAN
<1>1. Counted' \in Nat
  <2>1. OpenFids' \in SUBSET Fids /\ DOMAIN reqs' \in SUBSET Ids
    BY DEF OpenFids, ReqsOK
  <2>2. Cardinality(OpenFids') \in Nat /\ Cardinality(DOMAIN reqs') \in Nat
    BY <2>1, IdsFinite, ConnAssumption, FS_Subset, FS_CardinalityType
  <2> QED BY <2>2 DEF Counted
<1>2. Counted \in Nat
  BY CardFacts DEF ConnInv, Counted
<1>3. ref = Counted /\ ref' = ref - 1 /\ freed' = (ref = 1)
  BY DEF ConnInv, RefOK, Decref
<1>4. ref' = Counted' /\ (ref = 1 <=> ref' = 0)
  BY <1>1, <1>2, <1>3
<1>5. freed' \in BOOLEAN /\ (freed' <=> ref = 1)
  BY <1>3
<1> QED BY <1>4, <1>5 DEF RefOK

LEMMA FinishRespondInv ==
    ASSUME ConnInv, FinishRespond
    PROVE  ConnInv'
<1>1. stack # <<>> /\ stack[1].op = "finish"
  BY StackFacts DEF FinishRespond, Top, ConnInv
<1>2. PICK r \in DOMAIN reqs : r = stack[1].r /\ Head(stack) = stack[1]
  BY <1>1, TopFacts
<1>3. /\ reqs' = [s \in DOMAIN reqs \ {r} |-> reqs[s]] /\ Decref(ref)
      /\ stack' = Tail(stack) /\ UNCHANGED <<conn, tagmap, fids, nreq, flushed>>
  BY <1>2 DEF FinishRespond, Without
<1>4. SameWire /\ DOMAIN reqs' = DOMAIN reqs \ {r} /\ \A s \in DOMAIN reqs' : reqs'[s] = reqs[s]
  BY <1>3 DEF SameWire
<1>5. StackOK' /\ TagsOK' /\ (InCleanup' <=> InCleanup)
  BY <1>1, <1>2, <1>3, <1>4, Returns, InCleanupTail, StackFacts DEF ConnInv
<1>6. ReqsOK'
  <2>1. \A s \in DOMAIN reqs' : reqs'[s] \in Ixp9Reqs /\ PointersOK(reqs[s])'
    BY <1>3, <1>4 DEF ConnInv, ReqsOK, PointersOK
  <2>2. \A t, s \in DOMAIN reqs' : reqs'[s].poldreq = t => reqs[t].tag = reqs[s].oldtag
    BY <1>4 DEF ConnInv, ReqsOK
  <2> QED BY <1>3, <1>4, <2>1, <2>2, SameReqs DEF ConnInv
<1>7. RefOK' /\ freed' \in BOOLEAN
  <2>1. IsFiniteSet(DOMAIN reqs) /\ Cardinality(DOMAIN reqs) \in Nat /\ Cardinality(OpenFids) \in Nat
    BY CardFacts DEF ConnInv
  <2>2. Cardinality(DOMAIN reqs') = Cardinality(DOMAIN reqs) - 1
    BY <1>4, <2>1, FS_RemoveElement
  <2>3. OpenFids' = OpenFids
    BY <1>3 DEF OpenFids
  <2>4. Counted' = Counted - 1
    BY <1>3, <1>5, <2>1, <2>2, <2>3 DEF Counted
  <2> QED BY <1>3, <1>6, <2>4, RefDropped
<1>8. BaseOK' /\ FlushedOK'
  BY <1>3, <1>4, <1>7 DEF ConnInv, BaseOK, FlushedOK
<1> QED BY <1>5, <1>6, <1>7, <1>8 DEF ConnInv

-----------------------------------------------------------------------------
(* cleanupconn.                                                            *)

\* There is one cleanupconn, and the connection is gone when it runs.
LEMMA TopCleanup ==
    ASSUME ConnInv, stack # <<>>, stack[1].op = "cleanup"
    PROVE  /\ ~conn /\ Head(stack) = stack[1] /\ 1 \in DOMAIN stack
           /\ \A i \in DOMAIN stack : i # 1 => i = 2 /\ Len(stack) = 2 /\ stack[i].op = "finish"
           /\ stack[1].flushes \in SUBSET FlushIds /\ stack[1].clunks \in SUBSET ClunkIds
           /\ stack[1].flushes \subseteq DOMAIN reqs /\ stack[1].clunks \subseteq DOMAIN reqs
<1>1. /\ stack \in Seq(FrameSet) /\ Len(stack) \in Nat /\ DOMAIN stack = 1 .. Len(stack)
      /\ 1 \in DOMAIN stack /\ Head(stack) = stack[1]
  BY StackFacts DEF ConnInv
<1>2. stack[1] \in FrameSet
  BY <1>1
<1>3. stack[1].flushes \in SUBSET FlushIds /\ stack[1].clunks \in SUBSET ClunkIds
  BY <1>2 DEF FrameSet
<1>4. ~conn /\ (1 = Len(stack) \/ (1 = Len(stack) - 1 /\ stack[Len(stack)].op = "finish"))
  BY <1>1 DEF ConnInv, StackOK, ShapeOK
<1>5. stack[1].flushes \subseteq DOMAIN reqs /\ stack[1].clunks \subseteq DOMAIN reqs
  BY <1>1 DEF ConnInv, StackOK, AnswersOK
<1> QED BY <1>1, <1>3, <1>4, <1>5

LEMMA CleanupDoneInv ==
    ASSUME ConnInv, CleanupDone
    PROVE  ConnInv'
<1>1. stack # <<>> /\ stack[1].op = "cleanup"
  BY StackFacts DEF CleanupDone, Top, ConnInv
<1>2. /\ ~conn /\ Head(stack) = stack[1] /\ 1 \in DOMAIN stack
      /\ \A i \in DOMAIN stack : i # 1 => stack[i].op = "finish"
  BY <1>1, TopCleanup
<1>3. Decref(ref) /\ stack' = Tail(stack) /\ UNCHANGED <<conn, tagmap, fids, reqs, nreq, flushed>>
  BY DEF CleanupDone
<1>4. SameWire /\ DOMAIN reqs' = DOMAIN reqs
  BY <1>3 DEF SameWire
<1>5. StackOK' /\ TagsOK'
  BY <1>1, <1>3, <1>4, Returns DEF ConnInv
<1>6. InCleanup /\ ~InCleanup'
  <2>1. \A i \in DOMAIN stack' : i + 1 \in DOMAIN stack /\ i + 1 # 1 /\ stack'[i] = stack[i + 1]
    BY <1>1, <1>3, StackFacts, ReturnFact DEF ConnInv
  <2> QED BY <1>1, <1>2, <2>1 DEF InCleanup
<1>7. ReqsOK'
  BY <1>3 DEF ConnInv, ReqsOK, PointersOK
<1>8. RefOK' /\ freed' \in BOOLEAN
  <2>1. Cardinality(DOMAIN reqs) \in Nat /\ Cardinality(OpenFids) \in Nat
    BY CardFacts DEF ConnInv
  <2>2. OpenFids' = OpenFids
    BY <1>3 DEF OpenFids
  <2>3. Counted' = Counted - 1
    BY <1>2, <1>3, <1>6, <2>1, <2>2 DEF Counted
  <2> QED BY <1>3, <1>7, <2>3, RefDropped
<1>9. BaseOK' /\ FlushedOK'
  BY <1>3, <1>8 DEF ConnInv, BaseOK, FlushedOK
<1> QED BY <1>5, <1>7, <1>8, <1>9 DEF ConnInv

LEMMA CalledFacts ==
    ASSUME stack \in Seq(FrameSet), stack # <<>>, NEW f \in FrameSet, NEW g \in FrameSet,
           stack' = <<f, g>> \o Tail(stack), stack[1].op # "finish",
           f.op \notin {"finish", "cleanup"}, g.op # "finish",
           g.op = "cleanup" <=> stack[1].op = "cleanup"
    PROVE  (InCleanup' <=> InCleanup) /\ \A r : Finishing(r)' <=> Finishing(r)
<1>1. /\ stack' \in Seq(FrameSet) /\ Len(stack') = Len(stack) + 1 /\ stack'[1] = f /\ stack'[2] = g
      /\ Len(stack) \in Nat /\ Len(stack) # 0
      /\ \A i \in 1 .. Len(stack) + 1 : i \notin {1, 2} =>
            i - 1 \in 1 .. Len(stack) /\ i - 1 # 1 /\ stack'[i] = stack[i - 1]
  BY CallFact
<1>2. /\ DOMAIN stack = 1 .. Len(stack) /\ DOMAIN stack' = 1 .. Len(stack) + 1
      /\ 1 \in DOMAIN stack' /\ 2 \in DOMAIN stack' /\ 1 \in DOMAIN stack
  BY <1>1
<1>3. \A i \in DOMAIN stack : i # 1 => i + 1 \in DOMAIN stack' /\ stack'[i + 1] = stack[i]
  <2> SUFFICES ASSUME NEW i \in DOMAIN stack, i # 1
               PROVE  i + 1 \in DOMAIN stack' /\ stack'[i + 1] = stack[i]
    OBVIOUS
  <2>1. i + 1 \in 1 .. Len(stack) + 1 /\ i + 1 \notin {1, 2} /\ i + 1 - 1 = i
    BY <1>1, <1>2
  <2> QED BY <1>1, <1>2, <2>1
<1>4. \A i \in DOMAIN stack' : i \notin {1, 2} => i - 1 \in DOMAIN stack /\ stack'[i] = stack[i - 1]
  BY <1>1, <1>2
<1>5. InCleanup' <=> InCleanup
  <2>1. ASSUME InCleanup PROVE InCleanup'
    <3>1. PICK i \in DOMAIN stack : stack[i].op = "cleanup"
      BY <2>1 DEF InCleanup
    <3>2. CASE i = 1
      BY <1>1, <1>2, <3>1, <3>2 DEF InCleanup
    <3>3. CASE i # 1
      BY <1>3, <3>1, <3>3 DEF InCleanup
    <3> QED BY <3>2, <3>3
  <2>2. ASSUME InCleanup' PROVE InCleanup
    <3>1. PICK i \in DOMAIN stack' : stack'[i].op = "cleanup"
      BY <2>2 DEF InCleanup
    <3>2. CASE i \in {1, 2}
      BY <1>1, <1>2, <3>1, <3>2 DEF InCleanup
    <3>3. CASE i \notin {1, 2}
      BY <1>4, <3>1, <3>3 DEF InCleanup
    <3> QED BY <3>2, <3>3
  <2> QED BY <2>1, <2>2
<1>6. \A r : Finishing(r)' <=> Finishing(r)
  <2> SUFFICES ASSUME NEW r PROVE Finishing(r)' <=> Finishing(r)
    OBVIOUS
  <2>1. ASSUME Finishing(r) PROVE Finishing(r)'
    <3>1. PICK i \in DOMAIN stack : stack[i].op = "finish" /\ stack[i].r = r
      BY <2>1 DEF Finishing
    <3> QED BY <1>3, <3>1 DEF Finishing
  <2>2. ASSUME Finishing(r)' PROVE Finishing(r)
    <3>1. PICK i \in DOMAIN stack' : stack'[i].op = "finish" /\ stack'[i].r = r
      BY <2>2 DEF Finishing
    <3>2. i \notin {1, 2}
      BY <1>1, <3>1
    <3> QED BY <1>4, <3>1, <3>2 DEF Finishing
  <2> QED BY <2>1, <2>2
<1> QED BY <1>5, <1>6

LEMMA CleanupNextInv ==
    ASSUME ConnInv, CleanupNext
    PROVE  ConnInv'
<1>1. stack # <<>> /\ stack[1].op = "cleanup"
  BY StackFacts DEF CleanupNext, Top, ConnInv
<1>2. /\ ~conn /\ Head(stack) = stack[1] /\ 1 \in DOMAIN stack
      /\ \A i \in DOMAIN stack : i # 1 => i = 2 /\ Len(stack) = 2 /\ stack[i].op = "finish"
      /\ stack[1].flushes \in SUBSET FlushIds /\ stack[1].clunks \in SUBSET ClunkIds
      /\ stack[1].flushes \subseteq DOMAIN reqs /\ stack[1].clunks \subseteq DOMAIN reqs
  BY <1>1, TopCleanup
<1>3. UNCHANGED <<conn, freed, ref, tagmap, fids, reqs, nreq, flushed>>
  BY DEF CleanupNext
<1>4. PICK r \in stack[1].flushes \cup stack[1].clunks,
           fl \in SUBSET stack[1].flushes, cl \in SUBSET stack[1].clunks :
        r \notin fl /\ r \notin cl /\ stack' = <<Handle(r), Cleanup(fl, cl)>> \o Tail(stack)
  <2>1. \A r : ~(r \in stack[1].flushes /\ r \in stack[1].clunks)
    BY <1>2, IdFacts
  <2>2. CASE \E r \in stack[1].flushes :
            stack' = <<Handle(r), Cleanup(stack[1].flushes \ {r}, stack[1].clunks)>> \o Tail(stack)
    <3>1. PICK r \in stack[1].flushes :
            stack' = <<Handle(r), Cleanup(stack[1].flushes \ {r}, stack[1].clunks)>> \o Tail(stack)
      BY <2>2
    <3> WITNESS r \in stack[1].flushes \cup stack[1].clunks,
                stack[1].flushes \ {r} \in SUBSET stack[1].flushes,
                stack[1].clunks \in SUBSET stack[1].clunks
    <3> QED BY <2>1, <3>1
  <2>3. CASE \E r \in stack[1].clunks :
            stack' = <<Handle(r), Cleanup({}, stack[1].clunks \ {r})>> \o Tail(stack)
    <3>1. PICK r \in stack[1].clunks :
            stack' = <<Handle(r), Cleanup({}, stack[1].clunks \ {r})>> \o Tail(stack)
      BY <2>3
    <3> WITNESS r \in stack[1].flushes \cup stack[1].clunks, {} \in SUBSET stack[1].flushes,
                stack[1].clunks \ {r} \in SUBSET stack[1].clunks
    <3> QED BY <3>1
  <2> QED BY <1>2, <2>2, <2>3 DEF CleanupNext
<1>5. PICK h \in FrameSet : h = Handle(r) /\ h.op = "handle" /\ h.r = r
  <2>1. r \in Ids
    BY <1>2 DEF Ids, FlushIds, ClunkIds
  <2>2. Handle(r) \in FrameSet /\ Handle(r).op = "handle" /\ Handle(r).r = r
    BY <2>1 DEF Handle, FrameSet
  <2> QED BY <2>2
<1>6. PICK c \in FrameSet : c = Cleanup(fl, cl) /\ c.op = "cleanup" /\ c.flushes = fl /\ c.clunks = cl
  <2>1. fl \in SUBSET FlushIds /\ cl \in SUBSET ClunkIds
    BY <1>2
  <2>2. /\ Cleanup(fl, cl) \in FrameSet /\ Cleanup(fl, cl).op = "cleanup"
        /\ Cleanup(fl, cl).flushes = fl /\ Cleanup(fl, cl).clunks = cl
    BY <2>1 DEF Cleanup, FrameSet
  <2> QED BY <2>2
<1>7. r \in DOMAIN reqs
  BY <1>2
<1>8. /\ stack' \in Seq(FrameSet) /\ Len(stack') = Len(stack) + 1
      /\ stack'[1] = h /\ stack'[2] = c /\ Len(stack) \in {1, 2}
      /\ DOMAIN stack' = 1 .. Len(stack) + 1
      /\ \A i \in DOMAIN stack' : i \notin {1, 2} =>
            i = 3 /\ Len(stack) = 2 /\ 2 \in DOMAIN stack /\ stack'[i] = stack[2] /\ stack[2].op = "finish"
  <2>1. stack \in Seq(FrameSet) /\ Len(stack) \in Nat /\ DOMAIN stack = 1 .. Len(stack) /\ Len(stack) # 0
    BY <1>1, StackFacts DEF ConnInv
  <2>2. /\ stack' \in Seq(FrameSet) /\ Len(stack') = Len(stack) + 1
        /\ stack'[1] = h /\ stack'[2] = c
        /\ \A i \in 1 .. Len(stack) + 1 : i \notin {1, 2} =>
            i - 1 \in 1 .. Len(stack) /\ i - 1 # 1 /\ stack'[i] = stack[i - 1]
    BY <1>1, <1>4, <1>5, <1>6, <2>1, CallFact
  <2>3. Len(stack) \in DOMAIN stack
    BY <2>1
  <2> QED BY <1>2, <2>1, <2>2, <2>3
<1>9. (InCleanup' <=> InCleanup) /\ \A s : Finishing(s)' <=> Finishing(s)
  BY <1>1, <1>4, <1>5, <1>6, CalledFacts, StackFacts DEF ConnInv
<1>10. ShapeOK'
  <2>1. ASSUME 2 \in DOMAIN stack, stack[2].op = "finish", Len(stack) = 2
        PROVE  stack[2].locked
    BY <2>1 DEF ConnInv, StackOK, ShapeOK
  <2> QED BY <1>2, <1>3, <1>5, <1>6, <1>8, <2>1 DEF ShapeOK
<1>11. AnswersOK'
  <2>1. ASSUME 2 \in DOMAIN stack, stack[2].op = "finish"
        PROVE  /\ stack[2].r \in DOMAIN reqs
               /\ stack[2].r \notin stack[1].flushes /\ stack[2].r \notin stack[1].clunks
    BY <1>1, <1>2, <2>1 DEF ConnInv, StackOK, AnswersOK
  <2>2. fl \subseteq DOMAIN reqs /\ cl \subseteq DOMAIN reqs
    BY <1>2
  <2>3. \A i \in DOMAIN stack' : stack'[i].op = "cleanup" => i = 2
    BY <1>5, <1>8
  <2>4. \A i \in DOMAIN stack' : stack'[i].op # "cleanup" =>
            \/ i = 1 /\ stack'[i].r = r
            \/ /\ i = 3 /\ stack'[i].r = stack[2].r /\ stack[2].r \in DOMAIN reqs
               /\ stack[2].r # r /\ stack[2].r \notin fl /\ stack[2].r \notin cl
    BY <1>4, <1>5, <1>6, <1>8, <2>1
  <2>5. \A i \in DOMAIN stack' : stack'[i].op # "cleanup" =>
            stack'[i].r \in DOMAIN reqs /\ stack'[i].r \notin fl /\ stack'[i].r \notin cl
    BY <1>4, <1>7, <2>4
  <2>6. \A i, j \in DOMAIN stack' : stack'[i].op # "cleanup" /\ stack'[j].op # "cleanup"
            /\ stack'[i].r = stack'[j].r => i = j
    BY <2>4
  <2> QED BY <1>3, <1>6, <1>8, <2>2, <2>3, <2>5, <2>6 DEF AnswersOK
<1>12. NestedOK'
  <2>1. \A j \in DOMAIN stack' : stack'[j].op # "reply"
    BY <1>5, <1>6, <1>8
  <2>2. stack'[1].op # "reply"
    BY <1>5, <1>8
  <2> QED BY <2>1, <2>2 DEF NestedOK, WaitingOK
<1>13. TagsOK'
  <2>1. \A i \in DOMAIN stack' : stack'[i].op = "finish" =>
            2 \in DOMAIN stack /\ stack'[i] = stack[2] /\ stack[2].op = "finish"
    BY <1>5, <1>6, <1>8
  <2> QED BY <1>3, <1>9, <2>1 DEF ConnInv, TagsOK
<1>14. BaseOK' /\ FlushedOK' /\ ReqsOK'
  BY <1>3 DEF ConnInv, BaseOK, FlushedOK, ReqsOK, PointersOK
<1>15. RefOK'
  <2>1. OpenFids' = OpenFids
    BY <1>3 DEF OpenFids
  <2> QED BY <1>3, <1>9, <2>1 DEF ConnInv, RefOK, Counted
<1> QED BY <1>10, <1>11, <1>12, <1>13, <1>14, <1>15 DEF ConnInv, StackOK

-----------------------------------------------------------------------------
(* ixp_respond, continued: flushes and the reply.                          *)

LEMMA RespondFlushInv ==
    ASSUME ConnInv, RespondFlush
    PROVE  ConnInv'
<1>1. stack # <<>> /\ stack[1].op = "respond"
  BY StackFacts DEF RespondFlush, Top, ConnInv
<1>2. PICK x \in DOMAIN reqs : /\ x = stack[1].r /\ x \in Ids /\ Head(stack) = stack[1]
                               /\ reqs[x] \in Ixp9Reqs /\ WireOK(x, reqs[x])
  BY <1>1, TopFacts
<1>3. PICK out \in Outs : out = stack[1].out
  <2>1. stack[1] \in FrameSet
    BY <1>1, StackFacts DEF ConnInv
  <2> QED BY <1>1, <2>1 DEF FrameSet
<1>4. /\ reqs[x].type = "flush" /\ reqs[x].oldtag \in Tags /\ tagmap[reqs[x].oldtag] # Nil
      /\ stack' = <<Respond(tagmap[reqs[x].oldtag], "error"), Reply(x, out)>> \o Tail(stack)
      /\ UNCHANGED <<conn, freed, ref, tagmap, fids, reqs, nreq, flushed>>
  BY <1>2, <1>3 DEF RespondFlush, WireOK
<1>5. PICK y \in DOMAIN reqs : y = tagmap[reqs[x].oldtag] /\ y \in RealIds
                               /\ reqs[y].tag = reqs[x].oldtag /\ y \in Ids
  BY <1>4, IdFacts DEF ConnInv, TagsOK
<1>6. x \in RealIds => y[2] < x[2]
  BY <1>5 DEF ConnInv, ReqsOK
<1>7. y[2] \in Nat /\ (x \in RealIds => x[2] \in Nat) /\ y # x
  BY <1>5, <1>6, IdFacts
<1>8. PICK f \in FrameSet : f = Respond(y, "error") /\ f.op = "respond" /\ f.r = y
  <2>1. /\ Respond(y, "error") \in FrameSet /\ Respond(y, "error").op = "respond"
        /\ Respond(y, "error").r = y
    BY <1>5 DEF Respond, FrameSet, Outs
  <2> QED BY <2>1
<1>9. PICK g \in FrameSet : g = Reply(x, out) /\ g.op = "reply" /\ g.r = x
  <2>1. Reply(x, out) \in FrameSet /\ Reply(x, out).op = "reply" /\ Reply(x, out).r = x
    BY <1>2 DEF Reply, FrameSet
  <2> QED BY <2>1
<1>10. /\ stack \in Seq(FrameSet) /\ Len(stack) \in Nat /\ DOMAIN stack = 1 .. Len(stack)
       /\ 1 \in DOMAIN stack /\ Len(stack) # 0
  BY <1>1, StackFacts DEF ConnInv
<1>11. /\ stack' \in Seq(FrameSet) /\ Len(stack') = Len(stack) + 1 /\ stack'[1] = f /\ stack'[2] = g
       /\ DOMAIN stack' = 1 .. Len(stack) + 1
       /\ \A i \in DOMAIN stack' : i \notin {1, 2} =>
            i - 1 \in DOMAIN stack /\ i - 1 # 1 /\ stack'[i] = stack[i - 1]
  <2>1. /\ stack' \in Seq(FrameSet) /\ Len(stack') = Len(stack) + 1
        /\ stack'[1] = f /\ stack'[2] = g
        /\ \A i \in 1 .. Len(stack) + 1 : i \notin {1, 2} =>
            i - 1 \in 1 .. Len(stack) /\ i - 1 # 1 /\ stack'[i] = stack[i - 1]
    BY <1>1, <1>4, <1>5, <1>8, <1>9, <1>10, CallFact
  <2> QED BY <1>10, <2>1
<1>12. (InCleanup' <=> InCleanup) /\ \A s : Finishing(s)' <=> Finishing(s)
  BY <1>1, <1>4, <1>5, <1>8, <1>9, <1>10, CalledFacts
<1>13. ASSUME NEW j \in DOMAIN stack, stack[j].op = "reply", j # 1
       PROVE  /\ reqs[stack[j].r].type = "flush"
              /\ reqs[stack[j - 1].r].tag = reqs[stack[j].r].oldtag
              /\ \A i \in 1 .. j - 1 :
                    /\ stack[i].op \in {"respond", "reply", "finish"} /\ stack[i].r \in RealIds
                    /\ stack[j].r \in RealIds => stack[i].r[2] < stack[j].r[2]
              /\ x \in RealIds /\ (stack[j].r \in RealIds => y[2] < stack[j].r[2])
  <2>1. /\ reqs[stack[j].r].type = "flush"
        /\ reqs[stack[j - 1].r].tag = reqs[stack[j].r].oldtag
        /\ \A i \in 1 .. j - 1 :
                    /\ stack[i].op \in {"respond", "reply", "finish"} /\ stack[i].r \in RealIds
                    /\ stack[j].r \in RealIds => stack[i].r[2] < stack[j].r[2]
    BY <1>13 DEF ConnInv, StackOK, NestedOK, WaitingOK
  <2>2. 1 \in 1 .. j - 1
    BY <1>10, <1>13
  <2>3. x \in RealIds /\ (stack[j].r \in RealIds => x[2] < stack[j].r[2])
    BY <1>2, <2>1, <2>2
  <2>4. stack[j].r \in RealIds => stack[j].r[2] \in Nat
    BY IdFacts
  <2> QED BY <1>6, <1>7, <2>1, <2>3, <2>4
<1>14. \A i \in DOMAIN stack : i # 1 /\ stack[i].op # "cleanup" => stack[i].r # y /\ stack[i].r # x
  <2> SUFFICES ASSUME NEW i \in DOMAIN stack, i # 1, stack[i].op # "cleanup"
               PROVE  stack[i].r # y /\ stack[i].r # x
    OBVIOUS
  <2>1. stack[i].op \in {"reply", "finish"} /\ stack[i].r # x
    BY <1>1, <1>2, <1>10 DEF ConnInv, StackOK, ShapeOK, AnswersOK
  <2>2. CASE stack[i].op = "finish"
    BY <1>4, <1>5, <2>1, <2>2 DEF ConnInv, TagsOK
  <2>3. CASE stack[i].op = "reply"
    BY <1>5, <1>7, <1>13, <2>1, <2>3
  <2> QED BY <2>1, <2>2, <2>3
<1>15. ShapeOK'
  <2>1. ASSUME NEW i \in DOMAIN stack' PROVE i # 1 => stack'[i].op \in {"reply", "finish", "cleanup"}
    BY <1>9, <1>11 DEF ConnInv, StackOK, ShapeOK
  <2>2. ASSUME NEW i \in DOMAIN stack', stack'[i].op = "finish"
        PROVE  stack'[i].locked /\ ~conn' /\ i = Len(stack')
    <3>1. i \notin {1, 2}
      BY <1>8, <1>9, <1>11, <2>2
    <3>2. stack[i - 1].locked /\ ~conn /\ i - 1 = Len(stack)
      BY <1>11, <2>2, <3>1 DEF ConnInv, StackOK, ShapeOK
    <3> QED BY <1>4, <1>10, <1>11, <3>1, <3>2
  <2>3. ASSUME NEW i \in DOMAIN stack', stack'[i].op = "cleanup"
        PROVE  /\ ~conn'
               /\ \/ i = Len(stack')
                  \/ i = Len(stack') - 1 /\ stack'[Len(stack')].op = "finish"
    <3>1. i \notin {1, 2}
      BY <1>8, <1>9, <1>11, <2>3
    <3>2. ~conn /\ (i - 1 = Len(stack) \/ (i - 1 = Len(stack) - 1 /\ stack[Len(stack)].op = "finish"))
      BY <1>11, <2>3, <3>1 DEF ConnInv, StackOK, ShapeOK
    <3>3. i - 1 = Len(stack) - 1 => stack'[Len(stack')] = stack[Len(stack)]
      <4>1. i - 1 = Len(stack) - 1 => Len(stack') \in DOMAIN stack' /\ Len(stack') \notin {1, 2}
                                      /\ Len(stack') - 1 = Len(stack)
        BY <1>10, <1>11, <3>1
      <4> QED BY <1>11, <4>1
    <3> QED BY <1>4, <1>10, <1>11, <3>2, <3>3
  <2> QED BY <1>11, <2>1, <2>2, <2>3 DEF ShapeOK
<1>16. AnswersOK'
  <2>1. \A i \in DOMAIN stack' : stack'[i].op # "cleanup" =>
            \/ i = 1 /\ stack'[i].r = y
            \/ i = 2 /\ stack'[i].r = x
            \/ /\ i \notin {1, 2} /\ i - 1 \in DOMAIN stack /\ stack'[i] = stack[i - 1]
               /\ stack'[i].r # y /\ stack'[i].r # x
    BY <1>8, <1>9, <1>11, <1>14
  <2>2. \A i \in DOMAIN stack' : stack'[i].op # "cleanup" => stack'[i].r \in DOMAIN reqs
    BY <1>11, <2>1 DEF ConnInv, StackOK, AnswersOK
  <2>3. ASSUME NEW i \in DOMAIN stack', NEW j \in DOMAIN stack',
               stack'[i].op # "cleanup", stack'[j].op # "cleanup", stack'[i].r = stack'[j].r
        PROVE  i = j
    <3>1. CASE i \in {1, 2} \/ j \in {1, 2}
      BY <1>7, <2>1, <2>3, <3>1
    <3>2. CASE i \notin {1, 2} /\ j \notin {1, 2}
      <4>1. i - 1 = j - 1
        BY <1>11, <2>3, <3>2 DEF ConnInv, StackOK, AnswersOK
      <4> QED BY <1>10, <1>11, <4>1
    <3> QED BY <3>1, <3>2
  <2>4. ASSUME NEW i \in DOMAIN stack', stack'[i].op = "cleanup"
        PROVE  /\ stack'[i].flushes \subseteq DOMAIN reqs /\ stack'[i].clunks \subseteq DOMAIN reqs
               /\ \A j \in DOMAIN stack' : stack'[j].op # "cleanup" =>
                    stack'[j].r \notin stack'[i].flushes /\ stack'[j].r \notin stack'[i].clunks
    <3>1. i \notin {1, 2}
      BY <1>8, <1>9, <1>11, <2>4
    <3>2. i - 1 \in DOMAIN stack /\ stack'[i] = stack[i - 1] /\ stack[i - 1].op = "cleanup"
      BY <1>11, <2>4, <3>1
    <3>3. /\ stack[i - 1].flushes \subseteq DOMAIN reqs /\ stack[i - 1].clunks \subseteq DOMAIN reqs
          /\ \A j \in DOMAIN stack : stack[j].op # "cleanup" =>
                stack[j].r \notin stack[i - 1].flushes /\ stack[j].r \notin stack[i - 1].clunks
      BY <3>2 DEF ConnInv, StackOK, AnswersOK
    <3>4. stack[i - 1].flushes \subseteq FlushIds /\ stack[i - 1].clunks \subseteq ClunkIds
      <4>1. stack[i - 1] \in FrameSet
        BY <1>10, <3>2
      <4> QED BY <3>2, <4>1 DEF FrameSet
    <3>5. y \notin stack[i - 1].flushes /\ y \notin stack[i - 1].clunks
      BY <1>5, <3>4, IdFacts
    <3>6. x \notin stack[i - 1].flushes /\ x \notin stack[i - 1].clunks
      BY <1>1, <1>2, <1>10, <3>3
    <3> QED BY <1>11, <2>1, <3>2, <3>3, <3>5, <3>6
  <2> QED BY <1>4, <2>2, <2>3, <2>4 DEF AnswersOK
<1>17. NestedOK'
  <2>1. ASSUME NEW j \in DOMAIN stack', stack'[j].op = "reply", j # 1
        PROVE  /\ reqs[stack'[j].r].type = "flush"
               /\ reqs[stack'[j - 1].r].tag = reqs[stack'[j].r].oldtag
               /\ \A i \in 1 .. j - 1 :
                    /\ stack'[i].op \in {"respond", "reply", "finish"} /\ stack'[i].r \in RealIds
                    /\ stack'[j].r \in RealIds => stack'[i].r[2] < stack'[j].r[2]
    <3>1. CASE j = 2
      <4>1. stack'[j].r = x /\ stack'[j - 1] = f /\ \A i \in 1 .. j - 1 : stack'[i] = f
        BY <1>9, <1>11, <3>1
      <4> QED BY <1>4, <1>5, <1>6, <1>8, <4>1
    <3>2. CASE j # 2
      <4>1. /\ j - 1 \in DOMAIN stack /\ j - 1 # 1 /\ stack'[j] = stack[j - 1]
            /\ stack[j - 1].op = "reply" /\ j - 1 - 1 \in 1 .. j - 1 - 1
        BY <1>10, <1>11, <2>1, <3>2
      <4>2. /\ reqs[stack[j - 1].r].type = "flush"
            /\ reqs[stack[j - 1 - 1].r].tag = reqs[stack[j - 1].r].oldtag
            /\ \A i \in 1 .. j - 1 - 1 :
                    /\ stack[i].op \in {"respond", "reply", "finish"} /\ stack[i].r \in RealIds
                    /\ stack[j - 1].r \in RealIds => stack[i].r[2] < stack[j - 1].r[2]
            /\ x \in RealIds /\ (stack[j - 1].r \in RealIds => y[2] < stack[j - 1].r[2])
        BY <1>13, <4>1
      <4>3. stack'[j - 1].r = stack[j - 1 - 1].r
        <5>1. CASE j = 3
          BY <1>2, <1>9, <1>11, <5>1
        <5>2. CASE j # 3
          <6>1. j - 1 \in DOMAIN stack' /\ j - 1 \notin {1, 2}
            BY <1>10, <1>11, <2>1, <3>2, <5>2
          <6> QED BY <1>11, <6>1
        <5> QED BY <5>1, <5>2
      <4>4. ASSUME NEW i \in 1 .. j - 1
            PROVE  /\ stack'[i].op \in {"respond", "reply", "finish"} /\ stack'[i].r \in RealIds
                   /\ stack[j - 1].r \in RealIds => stack'[i].r[2] < stack[j - 1].r[2]
        <5>1. CASE i = 1
          BY <1>5, <1>8, <1>11, <4>2, <5>1
        <5>2. CASE i = 2
          <6>1. 1 \in 1 .. j - 1 - 1
            BY <4>1, <1>10
          <6> QED BY <1>2, <1>9, <1>11, <4>2, <5>2, <6>1
        <5>3. CASE i \notin {1, 2}
          <6>1. i - 1 \in 1 .. j - 1 - 1 /\ i \in DOMAIN stack'
            BY <1>10, <1>11, <2>1, <5>3
          <6> QED BY <1>11, <4>2, <5>3, <6>1
        <5> QED BY <5>1, <5>2, <5>3
      <4> QED BY <4>1, <4>2, <4>3, <4>4
    <3> QED BY <3>1, <3>2
  <2>2. stack'[1].op # "reply"
    BY <1>8, <1>11
  <2> QED BY <1>4, <2>1, <2>2 DEF NestedOK, WaitingOK
<1>18. TagsOK'
  <2>1. \A i \in DOMAIN stack' : stack'[i].op = "finish" =>
            i - 1 \in DOMAIN stack /\ stack'[i] = stack[i - 1] /\ stack[i - 1].op = "finish"
    BY <1>8, <1>9, <1>11
  <2> QED BY <1>4, <1>12, <2>1 DEF ConnInv, TagsOK
<1>19. BaseOK' /\ FlushedOK' /\ ReqsOK'
  BY <1>4 DEF ConnInv, BaseOK, FlushedOK, ReqsOK, PointersOK
<1>20. RefOK'
  <2>1. OpenFids' = OpenFids
    BY <1>4 DEF OpenFids
  <2> QED BY <1>4, <1>12, <2>1 DEF ConnInv, RefOK, Counted
<1> QED BY <1>15, <1>16, <1>17, <1>18, <1>19, <1>20 DEF ConnInv, StackOK

\* While the client is connected only flushes nest.
LEMMA Connected ==
    ASSUME ConnInv, conn
    PROVE  \A i \in DOMAIN stack : /\ stack[i].op # "cleanup"
                                   /\ stack[i].op = "finish" => i = 1
                                   /\ i # 1 => stack[i].op = "reply"
BY DEF ConnInv, StackOK, ShapeOK

\* The map without the tag of a request that is being answered.
LEMMA TagRemovedFact ==
    ASSUME ConnInv, stack # <<>>, stack[1].op = "reply", NEW tm, tm = TagRemoved(reqs[stack[1].r].tag)
    PROVE  /\ tm \in [Tags -> RealIds \cup {Nil}]
           /\ \A t \in Tags : tm[t] \in {Nil, tagmap[t]}
           /\ \A t \in Tags : tm[t] # Nil => tm[t] \in DOMAIN reqs /\ reqs[tm[t]].tag = t
           /\ \A s \in DOMAIN reqs : s \in RealIds => tm[reqs[s].tag] = s \/ Finishing(s) \/ s = stack[1].r
           /\ stack[1].r \in RealIds => tm[reqs[stack[1].r].tag] = Nil
<1>1. PICK r \in DOMAIN reqs : r = stack[1].r /\ r \in Ids /\ WireOK(r, reqs[r])
  BY TopFacts
<1>2. tagmap \in [Tags -> RealIds \cup {Nil}] /\ NoTag \notin Tags
  BY ConnAssumption DEF ConnInv, TagsOK
<1>3. r \in RealIds => reqs[r].tag \in Tags /\ tm = [tagmap EXCEPT ![reqs[r].tag] = Nil]
  BY <1>1, <1>2 DEF WireOK, TagRemoved
<1>4. r \notin RealIds => tm = tagmap
  <2>1. r \notin RealIds => reqs[r].tag = NoTag
    BY <1>1, IdFacts DEF WireOK
  <2> QED BY <1>1, <2>1 DEF TagRemoved
<1>5. ~Finishing(r)
  <2>1. \A i \in DOMAIN stack : stack[i].op = "finish" /\ stack[i].r = r => i = 1
    BY <1>1, StackFacts DEF ConnInv, StackOK, AnswersOK
  <2> QED BY <2>1 DEF Finishing
<1>6. r \in RealIds => tagmap[reqs[r].tag] = r
  BY <1>5 DEF ConnInv, TagsOK
<1>7. \A t \in Tags : tm[t] \in {Nil, tagmap[t]} /\ (r \in RealIds => tm[t] # r)
  <2> SUFFICES ASSUME NEW t \in Tags PROVE tm[t] \in {Nil, tagmap[t]} /\ (r \in RealIds => tm[t] # r)
    OBVIOUS
  <2>1. tagmap[t] = r => reqs[r].tag = t
    BY <1>1, IdFacts, NilNoId DEF ConnInv, TagsOK
  <2>2. CASE r \in RealIds
    BY <1>2, <1>3, <2>1, <2>2, NilNoId
  <2>3. CASE r \notin RealIds
    BY <1>4, <2>3
  <2> QED BY <2>2, <2>3
<1>8. tm \in [Tags -> RealIds \cup {Nil}]
  BY <1>2, <1>3, <1>4
<1>9. ASSUME NEW s \in DOMAIN reqs, s \in RealIds, s # r, ~Finishing(s)
      PROVE  tm[reqs[s].tag] = s
  <2>1. tagmap[reqs[s].tag] = s /\ reqs[s].tag \in Tags
    BY <1>9 DEF ConnInv, TagsOK, ReqsOK, WireOK
  <2>2. r \in RealIds => reqs[s].tag # reqs[r].tag
    BY <1>6, <1>9, <2>1
  <2> QED BY <1>2, <1>3, <1>4, <2>1, <2>2
<1> QED BY <1>1, <1>2, <1>3, <1>7, <1>8, <1>9 DEF ConnInv, TagsOK

LEMMA ReplySentInv ==
    ASSUME ConnInv, ReplySent
    PROVE  ConnInv'
<1>1. stack # <<>> /\ stack[1].op = "reply"
  BY StackFacts DEF ReplySent, Top, ConnInv
<1>2. PICK r \in DOMAIN reqs : /\ r = stack[1].r /\ r \in Ids /\ Head(stack) = stack[1]
                               /\ reqs[r] \in Ixp9Reqs /\ WireOK(r, reqs[r]) /\ PointersOK(reqs[r])
  BY <1>1, TopFacts
<1>3. /\ tagmap' = TagRemoved(reqs[r].tag)
      /\ flushed' = IF conn /\ reqs[r].type = "flush" /\ reqs[r].poldreq # Nil
                    THEN flushed \cup {reqs[r].poldreq} ELSE flushed
      /\ stack' = Replace(Finish(r, FALSE))
      /\ UNCHANGED <<conn, freed, ref, fids, reqs, nreq>>
  BY <1>2 DEF ReplySent
<1>4. PICK f \in FrameSet : f = Finish(r, FALSE) /\ f.op = "finish" /\ f.r = r /\ f.locked = FALSE
  <2>1. /\ Finish(r, FALSE) \in FrameSet /\ Finish(r, FALSE).op = "finish" /\ Finish(r, FALSE).r = r
        /\ Finish(r, FALSE).locked = FALSE
    BY <1>2 DEF Finish, FrameSet
  <2> QED BY <2>1
<1>5. /\ stack' \in Seq(FrameSet) /\ Len(stack') = Len(stack) /\ stack'[1] = f
      /\ DOMAIN stack' = DOMAIN stack /\ DOMAIN stack = 1 .. Len(stack) /\ 1 \in DOMAIN stack
      /\ \A i \in DOMAIN stack : i # 1 => stack'[i] = stack[i]
  <2>1. /\ StackOK /\ stack \in Seq(FrameSet) /\ Len(stack) \in Nat
        /\ DOMAIN stack = 1 .. Len(stack) /\ 1 \in DOMAIN stack
    BY <1>1, StackFacts DEF ConnInv
  <2>2. stack' = <<f>> \o Tail(stack)
    BY <1>3, <1>4 DEF Replace
  <2>3. /\ stack' \in Seq(FrameSet) /\ Len(stack') = Len(stack) /\ stack'[1] = f
        /\ \A i \in 1 .. Len(stack) : i # 1 => stack'[i] = stack[i]
    BY <1>1, <2>1, <2>2, ReplaceFact
  <2> QED BY <2>1, <2>3
<1>6. /\ tagmap' \in [Tags -> RealIds \cup {Nil}]
      /\ \A t \in Tags : tagmap'[t] \in {Nil, tagmap[t]}
      /\ \A t \in Tags : tagmap'[t] # Nil => tagmap'[t] \in DOMAIN reqs /\ reqs[tagmap'[t]].tag = t
      /\ \A s \in DOMAIN reqs : s \in RealIds => tagmap'[reqs[s].tag] = s \/ Finishing(s) \/ s = r
      /\ r \in RealIds => tagmap'[reqs[r].tag] = Nil
  BY <1>1, <1>2, <1>3, TagRemovedFact
<1>7. ShapeOK'
  <2>1. /\ \A i \in DOMAIN stack : i # 1 => stack[i].op \in {"reply", "finish", "cleanup"}
        /\ \A i \in DOMAIN stack : stack[i].op = "finish" =>
            IF stack[i].locked THEN ~conn /\ i = Len(stack) ELSE i = 1
        /\ \A i \in DOMAIN stack : stack[i].op = "cleanup" =>
            ~conn /\ (i = Len(stack) \/ (i = Len(stack) - 1 /\ stack[Len(stack)].op = "finish"))
    BY DEF ConnInv, StackOK, ShapeOK
  <2>2. \A i \in DOMAIN stack' : i # 1 => stack'[i].op \in {"reply", "finish", "cleanup"}
    BY <1>5, <2>1
  <2>3. \A i \in DOMAIN stack' : stack'[i].op = "finish" =>
            IF stack'[i].locked THEN ~conn /\ i = Len(stack') ELSE i = 1
    BY <1>4, <1>5, <2>1
  <2>4. ASSUME NEW i \in DOMAIN stack', stack'[i].op = "cleanup"
        PROVE  ~conn /\ (i = Len(stack') \/ (i = Len(stack') - 1 /\ stack'[Len(stack')].op = "finish"))
    <3>1. i # 1 /\ stack[i].op = "cleanup" /\ Len(stack) \in Nat
      BY <1>4, <1>5, <2>4, StackFacts DEF ConnInv
    <3>2. i = Len(stack) - 1 => Len(stack) \in DOMAIN stack /\ Len(stack) # 1
      BY <1>5, <3>1
    <3> QED BY <1>5, <2>1, <3>1, <3>2
  <2> QED BY <1>3, <1>5, <2>2, <2>3, <2>4 DEF ShapeOK
<1>8. AnswersOK'
  <2>1. \A i \in DOMAIN stack : /\ stack'[i].op = "cleanup" <=> stack[i].op = "cleanup"
                                /\ stack[i].op # "cleanup" => stack'[i].r = stack[i].r
                                /\ stack[i].op = "cleanup" => stack'[i] = stack[i]
    BY <1>1, <1>2, <1>4, <1>5
  <2>2. /\ \A i, j \in DOMAIN stack : stack[i].op # "cleanup" /\ stack[j].op # "cleanup"
            /\ stack[i].r = stack[j].r => i = j
        /\ \A i \in DOMAIN stack : stack[i].op # "cleanup" => stack[i].r \in DOMAIN reqs
        /\ \A i, j \in DOMAIN stack : stack[i].op = "cleanup" =>
            /\ stack[i].flushes \subseteq DOMAIN reqs /\ stack[i].clunks \subseteq DOMAIN reqs
            /\ stack[j].op # "cleanup" =>
                stack[j].r \notin stack[i].flushes /\ stack[j].r \notin stack[i].clunks
    BY DEF ConnInv, StackOK, AnswersOK
  <2>3. \A i, j \in DOMAIN stack' : stack'[i].op # "cleanup" /\ stack'[j].op # "cleanup"
            /\ stack'[i].r = stack'[j].r => i = j
    BY <1>5, <2>1, <2>2
  <2>4. \A i \in DOMAIN stack' : stack'[i].op # "cleanup" => stack'[i].r \in DOMAIN reqs
    BY <1>5, <2>1, <2>2
  <2>5. \A i, j \in DOMAIN stack' : stack'[i].op = "cleanup" =>
            /\ stack'[i].flushes \subseteq DOMAIN reqs /\ stack'[i].clunks \subseteq DOMAIN reqs
            /\ stack'[j].op # "cleanup" =>
                stack'[j].r \notin stack'[i].flushes /\ stack'[j].r \notin stack'[i].clunks
    BY <1>5, <2>1, <2>2
  <2> QED BY <1>3, <2>3, <2>4, <2>5 DEF AnswersOK
<1>9. NestedOK'
  <2>1. WaitingOK'
    BY <1>1, <1>2, <1>3, <1>4, WaitingKept DEF ConnInv, SameWire
  <2>2. stack'[1].op # "reply"
    BY <1>4, <1>5
  <2> QED BY <2>1, <2>2 DEF NestedOK
<1>10. TagsOK'
  <2>1. \A s : Finishing(s) \/ s = r => Finishing(s)'
    BY <1>1, <1>4, <1>5 DEF Finishing
  <2>2. ASSUME NEW i \in DOMAIN stack', stack'[i].op = "finish", stack'[i].r \in RealIds
        PROVE  tagmap'[reqs'[stack'[i].r].tag] = Nil
    <3>1. CASE i = 1
      BY <1>3, <1>4, <1>5, <1>6, <2>2, <3>1
    <3>2. CASE i # 1
      <4>1. tagmap[reqs[stack[i].r].tag] = Nil /\ stack[i].r \in DOMAIN reqs
        BY <1>5, <2>2, <3>2 DEF ConnInv, TagsOK, StackOK, AnswersOK
      <4>2. reqs[stack[i].r].tag \in Tags
        BY <1>5, <2>2, <3>2, <4>1 DEF ConnInv, ReqsOK, WireOK
      <4> QED BY <1>3, <1>5, <1>6, <3>2, <4>1, <4>2
    <3> QED BY <3>1, <3>2
  <2> QED BY <1>3, <1>6, <2>1, <2>2 DEF TagsOK
<1>11. FlushedOK'
  <2>1. CASE conn /\ reqs[r].type = "flush" /\ reqs[r].poldreq # Nil
    <3>1. PICK y \in RealIds : y = reqs[r].poldreq /\ y[2] <= nreq
      BY <1>2, <2>1 DEF Ixp9Reqs, PointersOK
    <3>2. tagmap[reqs[r].oldtag] = Nil
      BY <1>1, <1>2, <2>1 DEF ConnInv, StackOK, NestedOK
    <3>3. y \notin DOMAIN reqs
      <4> SUFFICES ASSUME y \in DOMAIN reqs PROVE FALSE
        OBVIOUS
      <4>1. reqs[y].tag = reqs[r].oldtag
        BY <1>2, <3>1 DEF ConnInv, ReqsOK
      <4>2. Finishing(y)
        BY <3>2, <4>1, NilNoId DEF ConnInv, TagsOK
      <4> QED BY <1>1, <2>1, <4>2, Connected DEF Finishing
    <3> QED BY <1>3, <2>1, <3>1, <3>3 DEF ConnInv, FlushedOK
  <2>2. CASE ~(conn /\ reqs[r].type = "flush" /\ reqs[r].poldreq # Nil)
    BY <1>3, <2>2 DEF ConnInv, FlushedOK
  <2> QED BY <2>1, <2>2
<1>12. InCleanup' <=> InCleanup
  BY <1>1, <1>3, <1>4, StackFacts, InCleanupReplace DEF ConnInv
<1>13. RefOK'
  <2>1. OpenFids' = OpenFids
    BY <1>3 DEF OpenFids
  <2> QED BY <1>3, <1>12, <2>1 DEF ConnInv, RefOK, Counted
<1>14. BaseOK' /\ ReqsOK'
  BY <1>3 DEF ConnInv, BaseOK, ReqsOK, PointersOK
<1> QED BY <1>7, <1>8, <1>9, <1>10, <1>11, <1>13, <1>14 DEF ConnInv, StackOK

\* A call begins.
LEMMA CallBegins ==
    ASSUME NEW f \in FrameSet, stack' = <<f>>, f.op \in {"handle", "respond"}, f.r \in DOMAIN reqs'
    PROVE  StackOK' /\ ~InCleanup' /\ \A s : ~Finishing(s)'
<1>1. stack' \in Seq(FrameSet) /\ Len(stack') = 1 /\ DOMAIN stack' = {1} /\ stack'[1] = f
  OBVIOUS
<1>2. ShapeOK' /\ AnswersOK' /\ NestedOK'
  BY <1>1 DEF ShapeOK, AnswersOK, NestedOK, WaitingOK
<1> QED BY <1>1, <1>2 DEF StackOK, InCleanup, Finishing

LEMMA HandlerRespondsInv ==
    ASSUME ConnInv, NEW r, NEW out, HandlerResponds(r, out)
    PROVE  ConnInv'
<1>1. /\ stack = <<>> /\ r \in DOMAIN reqs /\ out \in Outs /\ r \in Ids
      /\ stack' = <<Respond(r, out)>> /\ UNCHANGED <<conn, freed, ref, tagmap, fids, reqs, nreq, flushed>>
  BY OutcomesFact DEF HandlerResponds, Held, Push, ConnInv, ReqsOK
<1>2. Respond(r, out) \in FrameSet /\ Respond(r, out).op = "respond" /\ Respond(r, out).r = r
  BY <1>1 DEF Respond, FrameSet
<1>3. StackOK' /\ ~InCleanup' /\ (\A s : ~Finishing(s)')
  BY <1>1, <1>2, CallBegins
<1>4. ~InCleanup /\ (\A s : ~Finishing(s))
  BY <1>1 DEF InCleanup, Finishing
<1>5. TagsOK'
  <2>1. \A i \in DOMAIN stack' : stack'[i].op # "finish"
    BY <1>3 DEF Finishing
  <2> QED BY <1>1, <1>3, <1>4, <2>1 DEF ConnInv, TagsOK
<1>6. BaseOK' /\ FlushedOK' /\ ReqsOK'
  BY <1>1 DEF ConnInv, BaseOK, FlushedOK, ReqsOK, PointersOK
<1>7. RefOK'
  <2>1. OpenFids' = OpenFids
    BY <1>1 DEF OpenFids
  <2> QED BY <1>1, <1>3, <1>4, <2>1 DEF ConnInv, RefOK, Counted
<1> QED BY <1>3, <1>5, <1>6, <1>7 DEF ConnInv

-----------------------------------------------------------------------------
(* Requests come in.                                                       *)

LEMMA InputsFact ==
    ASSUME NEW m \in Inputs, NEW tag \in Tags, NEW r \in RealIds
    PROVE  /\ [m EXCEPT !.tag = tag] \in Ixp9Reqs
           /\ WireOK(r, [m EXCEPT !.tag = tag])
           /\ [m EXCEPT !.tag = tag].tag = tag
           /\ [m EXCEPT !.tag = tag].oldtag = m.oldtag
           /\ [m EXCEPT !.tag = tag].type = m.type
           /\ [m EXCEPT !.tag = tag].fid = m.fid
           /\ [m EXCEPT !.tag = tag].newfid = m.newfid
           /\ [m EXCEPT !.tag = tag].pfid = Nil /\ [m EXCEPT !.tag = tag].pnew = Nil
           /\ [m EXCEPT !.tag = tag].poldreq = Nil
<1>1. PICK type \in MsgTypes, f \in Fids \cup {Nil}, g \in Fids \cup {Nil}, o \in Tags \cup {Nil},
           a \in Modes \cup {0, 1} :
        /\ m = Msg(type, Nil, f, g, o, a)
        /\ o \in IF type = "flush" THEN Tags ELSE {Nil}
        /\ g \in IF type = "walk" THEN Fids ELSE {Nil}
        /\ f \in IF type \in {"version", "other", "flush"} THEN {Nil} ELSE Fids
        /\ type \in {"open", "create"} => a \in Modes
  <2>1. \/ m \in {Msg("version", Nil, Nil, Nil, Nil, 0), Msg("other", Nil, Nil, Nil, Nil, 0)}
        \/ \E type \in {"attach", "clunk", "read", "write", "remove", "stat"}, f \in Fids :
                m = Msg(type, Nil, f, Nil, Nil, 0)
        \/ \E type \in {"open", "create"}, f \in Fids, a \in Modes : m = Msg(type, Nil, f, Nil, Nil, a)
        \/ \E f \in Fids, bad \in {0, 1} : m = Msg("wstat", Nil, f, Nil, Nil, bad)
        \/ \E f \in Fids, g \in Fids, n \in {0, 1} : m = Msg("walk", Nil, f, g, Nil, n)
        \/ \E o \in Tags : m = Msg("flush", Nil, Nil, Nil, o, 0)
    BY DEF Inputs
  <2> QED BY <2>1 DEF MsgTypes
<1>2. /\ m.oldtag = o /\ m.fid = f /\ m.newfid = g /\ m.type = type /\ m.arg = a
      /\ m.pfid = Nil /\ m.pnew = Nil /\ m.poldreq = Nil
  BY <1>1 DEF Msg
<1>3. m \in Ixp9Reqs
  BY <1>1 DEF Msg, Ixp9Reqs
<1>4. PICK q : q = [m EXCEPT !.tag = tag]
  OBVIOUS
<1>5. /\ q \in Ixp9Reqs /\ q.tag = tag /\ q.oldtag = m.oldtag /\ q.type = m.type /\ q.arg = m.arg
      /\ q.fid = m.fid /\ q.newfid = m.newfid /\ q.pfid = m.pfid /\ q.pnew = m.pnew
      /\ q.poldreq = m.poldreq
  BY <1>3, <1>4 DEF Ixp9Reqs
<1>6. WireOK(r, q)
  BY <1>1, <1>2, <1>5, IdFacts DEF WireOK
<1> QED BY <1>2, <1>4, <1>5, <1>6

LEMMA ReceiveInv ==
    ASSUME ~DupTags, ConnInv, NEW m \in Inputs, NEW tag \in Tags, Receive(m, tag)
    PROVE  ConnInv'
<1>1. /\ stack = <<>> /\ conn /\ nreq < MaxReqs /\ Conforms(m, tag) /\ tagmap[tag] = Nil
      /\ nreq' = nreq + 1 /\ ref' = ref + 1
      /\ tagmap' = [tagmap EXCEPT ![tag] = Real(nreq')]
      /\ stack' = Push(Handle(Real(nreq')))
      /\ reqs' = With(reqs, [r \in {Real(nreq')} |-> [m EXCEPT !.tag = tag]])
      /\ UNCHANGED <<conn, freed, fids, flushed>>
  BY DEF Receive
<1>2. nreq \in Nat /\ MaxReqs \in Nat /\ nreq + 1 \in 1 .. MaxReqs
  BY <1>1, ConnAssumption DEF ConnInv, BaseOK
<1>3. PICK n \in RealIds : n = Real(nreq + 1) /\ n[2] = nreq + 1 /\ n \in Ids
  BY <1>2, IdFacts
<1>4. PICK q \in Ixp9Reqs :
        /\ q = [m EXCEPT !.tag = tag] /\ WireOK(n, q)
        /\ q.tag = tag /\ q.oldtag = m.oldtag /\ q.pfid = Nil /\ q.pnew = Nil /\ q.poldreq = Nil
  BY InputsFact
<1>5. n \notin DOMAIN reqs
  BY <1>2, <1>3 DEF ConnInv, ReqsOK
<1>6. /\ DOMAIN reqs' = DOMAIN reqs \cup {n} /\ reqs'[n] = q
      /\ \A s \in DOMAIN reqs : s # n /\ reqs'[s] = reqs[s]
  <2>1. reqs' = With(reqs, [r \in {n} |-> q])
    BY <1>1, <1>3, <1>4
  <2> QED BY <1>5, <2>1 DEF With
<1>7. m.oldtag # tag /\ \A s \in DOMAIN reqs : reqs[s].oldtag # tag
  BY <1>1 DEF Conforms, Live
<1>8. Handle(n) \in FrameSet /\ Handle(n).op = "handle" /\ Handle(n).r = n /\ stack' = <<Handle(n)>>
  BY <1>1, <1>3 DEF Handle, FrameSet, Push
<1>9. StackOK' /\ ~InCleanup' /\ (\A s : ~Finishing(s)')
  BY <1>6, <1>8, CallBegins
<1>10. \A s \in DOMAIN reqs : s \in RealIds => s[2] <= nreq /\ s[2] \in Nat /\ tagmap[reqs[s].tag] = s
  <2>1. \A s : ~Finishing(s)
    BY <1>1 DEF Finishing
  <2> QED BY <2>1, IdFacts DEF ConnInv, ReqsOK, TagsOK
<1>11. ReqsOK'
  <2>1. DOMAIN reqs' \subseteq Ids /\ (conn' => DOMAIN reqs' \subseteq RealIds)
    BY <1>1, <1>3, <1>6 DEF ConnInv, ReqsOK
  <2>2. ASSUME NEW s \in DOMAIN reqs'
        PROVE  /\ reqs'[s] \in Ixp9Reqs /\ WireOK(s, reqs'[s]) /\ PointersOK(reqs[s])'
               /\ s \in RealIds => s[2] <= nreq'
    <3>1. CASE s = n
      <4>1. reqs'[s] = q /\ s[2] = nreq'
        BY <1>1, <1>3, <1>6, <3>1
      <4>2. PointersOK(q)'
        BY <1>4, ConnAssumption DEF PointersOK
      <4>3. PointersOK(reqs[s])'
        BY <4>1, <4>2 DEF PointersOK
      <4>4. s \in RealIds => s[2] <= nreq'
        BY <1>1, <1>2, <4>1
      <4> QED BY <1>4, <3>1, <4>1, <4>3, <4>4
    <3>2. CASE s # n
      <4>1. s \in DOMAIN reqs /\ reqs'[s] = reqs[s]
        BY <1>6, <3>2
      <4>2. reqs[s] \in Ixp9Reqs /\ WireOK(s, reqs[s]) /\ PointersOK(reqs[s])
        BY <4>1 DEF ConnInv, ReqsOK
      <4>3. reqs[s].poldreq # Nil => reqs[s].poldreq[2] \in Nat
        BY <4>2, IdFacts DEF Ixp9Reqs
      <4> QED BY <1>1, <1>2, <1>10, <4>1, <4>2, <4>3 DEF PointersOK
    <3> QED BY <3>1, <3>2
  <2>3. ASSUME NEW t \in DOMAIN reqs', NEW s \in DOMAIN reqs', t \in RealIds, s \in RealIds,
               reqs'[s].oldtag = reqs'[t].tag
        PROVE  t[2] < s[2]
    <3>1. CASE s = n
      <4>1. t # n
        BY <1>4, <1>6, <1>7, <2>3, <3>1
      <4>2. t[2] <= nreq /\ t[2] \in Nat
        BY <1>6, <1>10, <2>3, <4>1
      <4> QED BY <1>2, <1>3, <3>1, <4>2
    <3>2. CASE s # n /\ t = n
      BY <1>4, <1>6, <1>7, <2>3, <3>2
    <3>3. CASE s # n /\ t # n
      BY <1>6, <2>3, <3>3 DEF ConnInv, ReqsOK
    <3> QED BY <3>1, <3>2, <3>3
  <2>4. ASSUME NEW t \in DOMAIN reqs', NEW s \in DOMAIN reqs', reqs'[s].poldreq = t
        PROVE  reqs'[t].tag = reqs'[s].oldtag
    <3>1. s # n
      BY <1>4, <1>6, <2>1, <2>4, NilNoId
    <3>2. s \in DOMAIN reqs /\ reqs'[s] = reqs[s] /\ PointersOK(reqs[s])
      BY <1>6, <3>1 DEF ConnInv, ReqsOK
    <3>3. t # n
      BY <1>2, <1>3, <2>1, <2>4, <3>2, NilNoId DEF PointersOK
    <3> QED BY <1>6, <2>4, <3>2, <3>3 DEF ConnInv, ReqsOK
  <2> QED BY <2>1, <2>2, <2>3, <2>4 DEF ReqsOK, WireOK
<1>12. TagsOK'
  <2>1. tagmap \in [Tags -> RealIds \cup {Nil}]
    BY DEF ConnInv, TagsOK
  <2>2. tagmap' \in [Tags -> RealIds \cup {Nil}] /\ tagmap'[tag] = n
        /\ \A t \in Tags : t # tag => tagmap'[t] = tagmap[t]
    BY <1>1, <1>3, <2>1
  <2>3. \A t \in Tags : tagmap'[t] # Nil => tagmap'[t] \in DOMAIN reqs' /\ reqs'[tagmap'[t]].tag = t
    <3>1. \A t \in Tags : tagmap[t] # Nil => tagmap[t] \in DOMAIN reqs /\ reqs[tagmap[t]].tag = t
      BY DEF ConnInv, TagsOK
    <3> SUFFICES ASSUME NEW t \in Tags, tagmap'[t] # Nil
                 PROVE  tagmap'[t] \in DOMAIN reqs' /\ reqs'[tagmap'[t]].tag = t
      OBVIOUS
    <3>2. CASE t = tag
      BY <1>4, <1>6, <2>2, <3>2
    <3>3. CASE t # tag
      BY <1>6, <2>2, <3>1, <3>3
    <3> QED BY <3>2, <3>3
  <2>4. ASSUME NEW s \in DOMAIN reqs', s \in RealIds PROVE tagmap'[reqs'[s].tag] = s
    <3>1. CASE s = n
      BY <1>4, <1>6, <2>2, <3>1
    <3>2. CASE s # n
      <4>1. s \in DOMAIN reqs /\ reqs'[s] = reqs[s] /\ tagmap[reqs[s].tag] = s /\ reqs[s].tag \in Tags
        BY <1>6, <1>10, <2>4, <3>2 DEF ConnInv, ReqsOK, WireOK
      <4>2. reqs[s].tag # tag
        BY <1>1, <2>4, <4>1, NilNoId
      <4> QED BY <2>2, <4>1, <4>2
    <3> QED BY <3>1, <3>2
  <2>5. \A i \in DOMAIN stack' : stack'[i].op # "finish"
    BY <1>9 DEF Finishing
  <2> QED BY <2>2, <2>3, <2>4, <2>5 DEF TagsOK
<1>13. FlushedOK'
  <2> SUFFICES ASSUME NEW s \in flushed PROVE s \in RealIds /\ s[2] <= nreq' /\ s \notin DOMAIN reqs'
    BY <1>1 DEF FlushedOK
  <2>1. s \in RealIds /\ s[2] <= nreq /\ s[2] \in Nat /\ s \notin DOMAIN reqs
    BY IdFacts DEF ConnInv, FlushedOK
  <2> QED BY <1>1, <1>2, <1>3, <1>6, <2>1
<1>14. RefOK'
  <2>1. OpenFids' = OpenFids
    BY <1>1 DEF OpenFids
  <2>2. IsFiniteSet(DOMAIN reqs) /\ Cardinality(DOMAIN reqs) \in Nat /\ Cardinality(OpenFids) \in Nat
    BY CardFacts DEF ConnInv
  <2>3. Cardinality(DOMAIN reqs') = Cardinality(DOMAIN reqs) + 1
    <3>1. Cardinality(DOMAIN reqs \cup {n}) = Cardinality(DOMAIN reqs) + 1
      BY <1>5, <2>2, FS_AddElement
    <3> QED BY <1>6, <3>1
  <2>4. ref' = Counted'
    BY <1>1, <2>1, <2>2, <2>3 DEF ConnInv, RefOK, Counted
  <2> QED BY <1>1, <1>11, <2>4, RefKept DEF ConnInv
<1>15. BaseOK'
  BY <1>1, <1>2 DEF ConnInv, BaseOK
<1> QED BY <1>9, <1>11, <1>12, <1>13, <1>14, <1>15 DEF ConnInv

-----------------------------------------------------------------------------
(* The hangup.                                                             *)

\* What cleanupconn makes up, of the tag map tm.
Made(tm) == IF ref > 1 THEN MadeUp(tm) ELSE [r \in {} |-> Nil]

LEMMA MadeFacts ==
    ASSUME ConnInv, conn, NEW tm \in [Tags -> RealIds \cup {Nil}],
           \A t \in Tags : tm[t] # Nil => tm[t] \in DOMAIN reqs
    PROVE  /\ DOMAIN Made(tm) \subseteq {FlushOf(tm[t]) : t \in {u \in Tags : tm[u] # Nil}}
                                          \cup {ClunkOf(f) : f \in OpenFids}
           /\ ref > 1 => DOMAIN Made(tm) = {FlushOf(tm[t]) : t \in {u \in Tags : tm[u] # Nil}}
                                          \cup {ClunkOf(f) : f \in OpenFids}
           /\ \A r \in DOMAIN Made(tm) : r \in Ids /\ r \notin RealIds /\ Made(tm)[r] \in Ixp9Reqs
           /\ \A r \in DOMAIN Made(tm) : r \in ClunkIds =>
                /\ Made(tm)[r].type = "clunk" /\ Made(tm)[r].tag = NoTag
                /\ Made(tm)[r].fid \in OpenFids /\ Made(tm)[r].fid = Made(tm)[r].pfid
                /\ r = ClunkOf(Made(tm)[r].fid) /\ Made(tm)[r].newfid = Nil /\ Made(tm)[r].pnew = Nil
                /\ Made(tm)[r].oldtag = Nil /\ Made(tm)[r].poldreq = Nil
           /\ \A r \in DOMAIN Made(tm) : r \in FlushIds =>
                /\ Made(tm)[r].type = "flush" /\ Made(tm)[r].tag = NoTag
                /\ Made(tm)[r].fid = Nil /\ Made(tm)[r].pfid = Nil
                /\ Made(tm)[r].newfid = Nil /\ Made(tm)[r].pnew = Nil
                /\ Made(tm)[r].poldreq = Nil
                /\ Real(r[2]) \in DOMAIN reqs /\ Real(r[2]) \in RealIds
                /\ Made(tm)[r].oldtag = reqs[Real(r[2])].tag /\ Made(tm)[r].oldtag \in Tags
<1>1. PICK C \in SUBSET ClunkIds : C = {ClunkOf(f) : f \in OpenFids}
  BY DEF OpenFids, ClunkIds
<1>2. PICK F \in SUBSET FlushIds : F = {FlushOf(r) : r \in {tm[t] : t \in Tags} \ {Nil}}
  BY DEF FlushIds
<1>3. F = {FlushOf(tm[t]) : t \in {u \in Tags : tm[u] # Nil}}
  BY <1>2
<1>4. PICK M : M = [r \in C \cup F |->
            IF r \in C
            THEN [Msg("clunk", NoTag, r[2], Nil, Nil, 0) EXCEPT !.pfid = r[2]]
            ELSE Msg("flush", NoTag, Nil, Nil, reqs[Real(r[2])].tag, 0)]
  OBVIOUS
<1>5. MadeUp(tm) = M
  BY <1>1, <1>2, <1>4 DEF MadeUp
<1>6. ASSUME NEW r \in C
      PROVE  /\ M[r] \in Ixp9Reqs /\ M[r].type = "clunk" /\ M[r].tag = NoTag /\ r \in Ids
             /\ M[r].fid \in OpenFids /\ M[r].fid = M[r].pfid
             /\ r = ClunkOf(M[r].fid) /\ M[r].newfid = Nil /\ M[r].pnew = Nil
             /\ M[r].oldtag = Nil /\ M[r].poldreq = Nil
  <2>1. PICK f \in OpenFids : r = ClunkOf(f)
    BY <1>1, <1>6
  <2>2. f \in Fids /\ r[2] = f /\ r \in ClunkIds
    BY <2>1, IdFacts DEF OpenFids
  <2>3. M[r] = [Msg("clunk", NoTag, f, Nil, Nil, 0) EXCEPT !.pfid = f]
    BY <1>4, <1>6, <2>2
  <2>4. PICK q : q = Msg("clunk", NoTag, f, Nil, Nil, 0)
    OBVIOUS
  <2>5. /\ q \in Ixp9Reqs /\ q.type = "clunk" /\ q.tag = NoTag /\ q.fid = f /\ q.newfid = Nil
        /\ q.pnew = Nil /\ q.oldtag = Nil /\ q.poldreq = Nil
    BY <2>2, <2>4 DEF Msg, Ixp9Reqs, MsgTypes
  <2>6. M[r] = [q EXCEPT !.pfid = f]
    BY <2>3, <2>4
  <2>7. r \in Ids
    BY <2>2, IdFacts
  <2> QED BY <2>1, <2>2, <2>5, <2>6, <2>7 DEF Ixp9Reqs
<1>7. ASSUME NEW r \in F
      PROVE  /\ M[r] \in Ixp9Reqs /\ M[r].type = "flush" /\ M[r].tag = NoTag /\ r \in Ids
             /\ M[r].fid = Nil /\ M[r].pfid = Nil
             /\ M[r].newfid = Nil /\ M[r].pnew = Nil
             /\ M[r].poldreq = Nil
             /\ Real(r[2]) \in DOMAIN reqs /\ Real(r[2]) \in RealIds
             /\ M[r].oldtag = reqs[Real(r[2])].tag /\ M[r].oldtag \in Tags
  <2>1. PICK t \in Tags : tm[t] # Nil /\ r = FlushOf(tm[t])
    BY <1>3, <1>7
  <2>2. tm[t] \in DOMAIN reqs /\ tm[t] \in RealIds /\ Real(r[2]) = tm[t] /\ r \in FlushIds
    BY <2>1, IdFacts
  <2>3. PICK o \in Tags : o = reqs[Real(r[2])].tag
    BY <2>2 DEF ConnInv, ReqsOK, WireOK
  <2>4. r \notin C /\ r \in Ids
    BY <1>1, <2>2, IdFacts
  <2>5. M[r] = Msg("flush", NoTag, Nil, Nil, o, 0)
    BY <1>4, <2>3, <2>4
  <2>6. /\ M[r] \in Ixp9Reqs /\ M[r].type = "flush" /\ M[r].tag = NoTag
        /\ M[r].fid = Nil /\ M[r].pfid = Nil /\ M[r].newfid = Nil /\ M[r].pnew = Nil
        /\ M[r].poldreq = Nil /\ M[r].oldtag = o
    BY <2>5 DEF Msg, Ixp9Reqs, MsgTypes
  <2> QED BY <2>2, <2>3, <2>4, <2>6
<1>8. DOMAIN M = C \cup F
  BY <1>4
<1>9. /\ \A r \in DOMAIN M : r \in ClunkIds => r \in C
      /\ \A r \in DOMAIN M : r \in FlushIds => r \in F
      /\ \A r \in DOMAIN M : r \in Ids /\ r \notin RealIds
  BY <1>1, <1>2, <1>8, IdFacts
<1>10. CASE ref > 1
  <2>1. Made(tm) = M
    BY <1>5, <1>10 DEF Made
  <2> QED BY <1>1, <1>3, <1>6, <1>7, <1>8, <1>9, <2>1
<1>11. CASE ~(ref > 1)
  <2>1. DOMAIN Made(tm) = {}
    BY <1>11 DEF Made
  <2> QED BY <1>11, <2>1
<1> QED BY <1>10, <1>11

\* What the hangup does to the requests: it adds the made-up ones.
LEMMA HangupReqs ==
    ASSUME ConnInv, conn, NEW tm \in [Tags -> RealIds \cup {Nil}],
           \A t \in Tags : tm[t] # Nil => tm[t] \in DOMAIN reqs,
           NEW below, Hangup(tm, below), UNCHANGED <<freed, fids, nreq, flushed>>
    PROVE  /\ ~conn' /\ tagmap' = tm /\ ReqsOK' /\ FlushedOK' /\ BaseOK'
           /\ DOMAIN reqs' = DOMAIN reqs \cup DOMAIN Made(tm)
           /\ \A r \in DOMAIN reqs : reqs'[r] = reqs[r]
           /\ \A r \in DOMAIN Made(tm) : reqs'[r] = Made(tm)[r] /\ r \notin DOMAIN reqs
           /\ \A r \in DOMAIN reqs' : r \in RealIds <=> r \in DOMAIN reqs
           /\ stack' = <<Cleanup(DOMAIN Made(tm) \cap FlushIds, DOMAIN Made(tm) \cap ClunkIds)>> \o below
           /\ ref' = 1 + Cardinality(OpenFids') + Cardinality(DOMAIN reqs')
<1> DEFINE made == Made(tm)
<1>1. /\ \A r \in DOMAIN made : r \in Ids /\ r \notin RealIds /\ made[r] \in Ixp9Reqs
      /\ \A r \in DOMAIN made : r \in ClunkIds =>
            /\ made[r].type = "clunk" /\ made[r].tag = NoTag
            /\ made[r].fid \in OpenFids /\ made[r].fid = made[r].pfid
            /\ r = ClunkOf(made[r].fid) /\ made[r].newfid = Nil /\ made[r].pnew = Nil
            /\ made[r].oldtag = Nil /\ made[r].poldreq = Nil
      /\ \A r \in DOMAIN made : r \in FlushIds =>
            /\ made[r].type = "flush" /\ made[r].tag = NoTag
            /\ made[r].fid = Nil /\ made[r].pfid = Nil
            /\ made[r].newfid = Nil /\ made[r].pnew = Nil
            /\ made[r].poldreq = Nil
            /\ made[r].oldtag \in Tags
  BY MadeFacts
<1>2. /\ ~conn' /\ tagmap' = tm /\ reqs' = With(reqs, made)
      /\ ref' = ref + Cardinality(DOMAIN made)
      /\ stack' = <<Cleanup({r \in DOMAIN made : made[r].type = "flush"},
                            {r \in DOMAIN made : made[r].type = "clunk"})>> \o below
  BY DEF Hangup, Made
<1> HIDE DEF made
<1>3. DOMAIN reqs \subseteq RealIds
  BY DEF ConnInv, ReqsOK
<1>4. /\ DOMAIN reqs' = DOMAIN reqs \cup DOMAIN made
      /\ \A r \in DOMAIN reqs : reqs'[r] = reqs[r]
      /\ \A r \in DOMAIN made : reqs'[r] = made[r] /\ r \notin DOMAIN reqs
  <2>1. \A r \in DOMAIN reqs : r \notin DOMAIN made
    BY <1>1, <1>3
  <2> QED BY <1>2, <2>1 DEF With
<1>5. \A r \in DOMAIN reqs' : r \in RealIds <=> r \in DOMAIN reqs
  BY <1>1, <1>3, <1>4
<1>6. \A r \in DOMAIN made : r \in FlushIds \/ r \in ClunkIds
  BY <1>1, IdFacts
<1>7. stack' = <<Cleanup(DOMAIN made \cap FlushIds, DOMAIN made \cap ClunkIds)>> \o below
  <2>1. {r \in DOMAIN made : made[r].type = "flush"} = DOMAIN made \cap FlushIds
    BY <1>1, <1>6
  <2>2. {r \in DOMAIN made : made[r].type = "clunk"} = DOMAIN made \cap ClunkIds
    BY <1>1, <1>6
  <2> QED BY <1>2, <2>1, <2>2
<1>8. OpenFids' = OpenFids
  BY DEF OpenFids
<1>9. ref' = 1 + Cardinality(OpenFids') + Cardinality(DOMAIN reqs')
  <2>1. IsFiniteSet(DOMAIN reqs) /\ Cardinality(DOMAIN reqs) \in Nat /\ Cardinality(OpenFids) \in Nat
    BY CardFacts DEF ConnInv
  <2>2. DOMAIN made \in SUBSET Ids
    BY <1>1
  <2>3. IsFiniteSet(DOMAIN made) /\ Cardinality(DOMAIN made) \in Nat
    BY <2>2, IdsFinite, FS_Subset, FS_CardinalityType
  <2>4. DOMAIN reqs \cap DOMAIN made = {}
    BY <1>4
  <2>5. Cardinality(DOMAIN reqs \cup DOMAIN made) = Cardinality(DOMAIN reqs) + Cardinality(DOMAIN made)
    <3>1. Cardinality(DOMAIN reqs \cap DOMAIN made) = 0
      BY <2>4, FS_EmptySet
    <3>2. Cardinality(DOMAIN reqs \cup DOMAIN made) =
            Cardinality(DOMAIN reqs) + Cardinality(DOMAIN made) - Cardinality(DOMAIN reqs \cap DOMAIN made)
      BY <2>1, <2>3, FS_Union
    <3> QED BY <2>1, <2>3, <3>1, <3>2
  <2>6. ref = 1 + Cardinality(OpenFids) + Cardinality(DOMAIN reqs)
    BY DEF ConnInv, RefOK, Counted
  <2> QED BY <1>2, <1>4, <1>8, <2>1, <2>3, <2>5, <2>6
<1>10. ReqsOK'
  <2>1. DOMAIN reqs' \subseteq Ids
    BY <1>1, <1>4 DEF ConnInv, ReqsOK
  <2>2. ASSUME NEW r \in DOMAIN reqs, reqs'[r] = reqs[r]
        PROVE  reqs'[r] \in Ixp9Reqs /\ WireOK(r, reqs'[r]) /\ PointersOK(reqs[r])'
    <3>1. reqs[r] \in Ixp9Reqs /\ WireOK(r, reqs[r]) /\ PointersOK(reqs[r])
      BY DEF ConnInv, ReqsOK
    <3> QED BY <2>2, <3>1 DEF PointersOK
  <2>3. ASSUME NEW r \in DOMAIN made, reqs'[r] = made[r]
        PROVE  reqs'[r] \in Ixp9Reqs /\ WireOK(r, reqs'[r]) /\ PointersOK(reqs[r])'
    <3>1. CASE r \in FlushIds
      <4>1. WireOK(r, made[r])
        BY <1>1, <3>1, IdFacts DEF WireOK
      <4>2. PointersOK(reqs[r])'
        BY <1>1, <2>3, <3>1, ConnAssumption DEF PointersOK
      <4> QED BY <1>1, <2>3, <4>1, <4>2
    <3>2. CASE r \in ClunkIds
      <4>1. WireOK(r, made[r])
        BY <1>1, <3>2, IdFacts DEF WireOK, OpenFids
      <4>2. PointersOK(reqs[r])'
        BY <1>1, <2>3, <3>2, ConnAssumption DEF PointersOK, OpenFids
      <4> QED BY <1>1, <2>3, <4>1, <4>2
    <3> QED BY <1>6, <3>1, <3>2
  <2>4. \A r \in DOMAIN reqs' : reqs'[r] \in Ixp9Reqs /\ WireOK(r, reqs'[r]) /\ PointersOK(reqs[r])'
    BY <1>4, <2>2, <2>3
  <2>5. \A t, s \in DOMAIN reqs' : reqs'[s].poldreq = t => reqs'[t].tag = reqs'[s].oldtag
    <3> SUFFICES ASSUME NEW t \in DOMAIN reqs', NEW s \in DOMAIN reqs', reqs'[s].poldreq = t
                 PROVE  reqs'[t].tag = reqs'[s].oldtag
      OBVIOUS
    <3>1. t \in RealIds
      BY <2>1, <2>4, NilNoId DEF Ixp9Reqs
    <3>2. s \in DOMAIN reqs
      <4>1. s \in DOMAIN made => reqs'[s].poldreq = Nil
        BY <1>1, <1>4, <1>6
      <4> QED BY <1>4, <2>1, <4>1, NilNoId
    <3> QED BY <1>4, <1>5, <3>1, <3>2 DEF ConnInv, ReqsOK
  <2>6. \A r \in DOMAIN reqs' : r \in RealIds => r[2] <= nreq'
    BY <1>5 DEF ConnInv, ReqsOK
  <2>7. \A r, s \in DOMAIN reqs' :
            r \in RealIds /\ s \in RealIds /\ reqs'[s].oldtag = reqs'[r].tag => r[2] < s[2]
    BY <1>4, <1>5 DEF ConnInv, ReqsOK
  <2> QED BY <1>2, <2>1, <2>4, <2>5, <2>6, <2>7 DEF ReqsOK, WireOK
<1>11. FlushedOK'
  BY <1>5 DEF ConnInv, FlushedOK
<1>12. BaseOK'
  BY <1>2 DEF ConnInv, BaseOK, Hangup
<1> QED BY <1>2, <1>4, <1>5, <1>7, <1>9, <1>10, <1>11, <1>12 DEF made

LEMMA PairFact ==
    ASSUME NEW T, NEW a \in T, NEW b \in T
    PROVE  /\ <<a, b>> \in Seq(T) /\ Len(<<a, b>>) = 2 /\ DOMAIN <<a, b>> = {1, 2}
           /\ <<a, b>>[1] = a /\ <<a, b>>[2] = b /\ <<a>> \o <<b>> = <<a, b>>
<1>1. <<a, b>> \in Seq(T) /\ Len(<<a, b>>) = 2 /\ <<a, b>>[1] = a /\ <<a, b>>[2] = b
  OBVIOUS
<1>2. DOMAIN <<a, b>> = 1 .. 2
  BY <1>1
<1>3. 1 .. 2 = {1, 2}
  OBVIOUS
<1>4. <<a>> \o <<b>> = <<a, b>>
  <2>1. <<a>> \in Seq(T) /\ <<b>> \in Seq(T) /\ Len(<<a>>) = 1 /\ Len(<<b>>) = 1
    OBVIOUS
  <2>2. <<a>> \o <<b>> \in Seq(T) /\ Len(<<a>> \o <<b>>) = 2
    BY <2>1
  <2>3. (<<a>> \o <<b>>)[1] = a /\ (<<a>> \o <<b>>)[2] = b
    BY <2>1
  <2>4. \A i \in 1 .. 2 : (<<a>> \o <<b>>)[i] = <<a, b>>[i]
    BY <1>1, <1>3, <2>3
  <2> QED BY <1>1, <2>2, <2>4, SeqEqual
<1> QED BY <1>1, <1>2, <1>3, <1>4

\* cleanupconn begins, alone or above the ixp_respond whose write failed.
LEMMA CleanupBegins ==
    ASSUME ReqsOK', ~conn', UNCHANGED freed, ConnInv, conn,
           NEW F \in SUBSET FlushIds, NEW C \in SUBSET ClunkIds,
           F \subseteq DOMAIN reqs', C \subseteq DOMAIN reqs',
           ref' = 1 + Cardinality(OpenFids') + Cardinality(DOMAIN reqs'),
           \/ stack' = <<Cleanup(F, C)>>
           \/ \E r \in RealIds : r \in DOMAIN reqs' /\ stack' = <<Cleanup(F, C), Finish(r, TRUE)>>
    PROVE  /\ StackOK' /\ RefOK'
           /\ \A i \in DOMAIN stack' : stack'[i].op = "finish" =>
                i = 2 /\ stack' = <<Cleanup(F, C), Finish(stack'[i].r, TRUE)>>
<1>1. PICK c \in FrameSet : c = Cleanup(F, C) /\ c.op = "cleanup" /\ c.flushes = F /\ c.clunks = C
  <2>1. /\ Cleanup(F, C) \in FrameSet /\ Cleanup(F, C).op = "cleanup"
        /\ Cleanup(F, C).flushes = F /\ Cleanup(F, C).clunks = C
    BY DEF Cleanup, FrameSet
  <2> QED BY <2>1
<1>2. ASSUME stack' = <<c>>
      PROVE  StackOK' /\ InCleanup' /\ \A i \in DOMAIN stack' : stack'[i].op # "finish"
  <2>1. stack' \in Seq(FrameSet) /\ Len(stack') = 1 /\ DOMAIN stack' = {1} /\ stack'[1] = c
    BY <1>2
  <2>2. ShapeOK' /\ AnswersOK' /\ NestedOK'
    BY <1>1, <2>1 DEF ShapeOK, AnswersOK, NestedOK, WaitingOK
  <2> QED BY <1>1, <2>1, <2>2 DEF StackOK, InCleanup
<1>3. ASSUME NEW r \in RealIds, r \in DOMAIN reqs', stack' = <<c, Finish(r, TRUE)>>
      PROVE  /\ StackOK' /\ InCleanup'
             /\ \A i \in DOMAIN stack' : stack'[i].op = "finish" => i = 2 /\ stack'[i].r = r
  <2>1. PICK f \in FrameSet : f = Finish(r, TRUE) /\ f.op = "finish" /\ f.r = r /\ f.locked = TRUE
    <3>1. /\ Finish(r, TRUE) \in FrameSet /\ Finish(r, TRUE).op = "finish" /\ Finish(r, TRUE).r = r
          /\ Finish(r, TRUE).locked = TRUE
      BY IdFacts DEF Finish, FrameSet
    <3> QED BY <3>1
  <2>2. /\ stack' \in Seq(FrameSet) /\ Len(stack') = 2 /\ DOMAIN stack' = {1, 2}
        /\ stack'[1] = c /\ stack'[2] = f
    <3>1. stack' = <<c, f>>
      BY <1>3, <2>1
    <3>2. /\ <<c, f>> \in Seq(FrameSet) /\ Len(<<c, f>>) = 2 /\ DOMAIN <<c, f>> = {1, 2}
          /\ <<c, f>>[1] = c /\ <<c, f>>[2] = f
      BY PairFact
    <3> QED BY <3>1, <3>2
  <2>3. r \notin F /\ r \notin C
    BY <1>3, IdFacts
  <2>4. ShapeOK'
    <3>1. \A i \in DOMAIN stack' : i # 1 => stack'[i].op \in {"reply", "finish", "cleanup"}
      BY <2>1, <2>2
    <3>2. \A i \in DOMAIN stack' : stack'[i].op = "finish" => stack'[i].locked /\ i = Len(stack')
      BY <1>1, <2>1, <2>2
    <3>3. \A i \in DOMAIN stack' : stack'[i].op = "cleanup" =>
            i = Len(stack') - 1 /\ stack'[Len(stack')].op = "finish"
      <4>1. \A i \in DOMAIN stack' : stack'[i].op = "cleanup" => i = 1
        BY <2>1, <2>2
      <4>2. Len(stack') - 1 = 1
        BY <2>2
      <4>3. stack'[Len(stack')].op = "finish"
        BY <2>1, <2>2
      <4> QED BY <4>1, <4>2, <4>3
    <3> QED BY <2>2, <3>1, <3>2, <3>3 DEF ShapeOK
  <2>5. AnswersOK'
    <3>1. \A i \in DOMAIN stack' : IF i = 1 THEN stack'[i] = c ELSE i = 2 /\ stack'[i] = f
      BY <2>2
    <3>2. \A i \in DOMAIN stack' : stack'[i].op # "cleanup" => i = 2 /\ stack'[i].r = r
      BY <1>1, <2>1, <3>1
    <3>3. \A i \in DOMAIN stack' : stack'[i].op = "cleanup" => stack'[i] = c
      BY <2>1, <3>1
    <3>4. \A i, j \in DOMAIN stack' : stack'[i].op = "cleanup" =>
            /\ stack'[i].flushes \subseteq DOMAIN reqs' /\ stack'[i].clunks \subseteq DOMAIN reqs'
            /\ stack'[j].op # "cleanup" =>
                stack'[j].r \notin stack'[i].flushes /\ stack'[j].r \notin stack'[i].clunks
      BY <1>1, <2>3, <3>2, <3>3
    <3>5. \A i \in DOMAIN stack' : stack'[i].op # "cleanup" => stack'[i].r \in DOMAIN reqs'
      BY <1>3, <3>2
    <3>6. \A i, j \in DOMAIN stack' : stack'[i].op # "cleanup" /\ stack'[j].op # "cleanup" => i = j
      BY <3>2
    <3> QED BY <3>4, <3>5, <3>6 DEF AnswersOK
  <2>6. NestedOK'
    BY <1>1, <2>1, <2>2 DEF NestedOK, WaitingOK
  <2> QED BY <1>1, <2>1, <2>2, <2>4, <2>5, <2>6 DEF StackOK, InCleanup
<1>4. StackOK' /\ InCleanup'
  BY <1>1, <1>2, <1>3
<1>5. \A i \in DOMAIN stack' : stack'[i].op = "finish" =>
                i = 2 /\ stack' = <<Cleanup(F, C), Finish(stack'[i].r, TRUE)>>
  BY <1>1, <1>2, <1>3
<1>6. RefOK'
  <2>1. ref' = Counted'
    BY <1>4 DEF Counted
  <2> QED BY <1>4, <2>1, RefKept DEF ConnInv
<1> QED BY <1>4, <1>5, <1>6

LEMMA DisconnectInv ==
    ASSUME ConnInv, Disconnect
    PROVE  ConnInv'
<1>1. stack = <<>> /\ conn /\ Hangup(tagmap, <<>>) /\ UNCHANGED <<freed, fids, nreq, flushed>>
  BY DEF Disconnect
<1>2. /\ tagmap \in [Tags -> RealIds \cup {Nil}]
      /\ \A t \in Tags : tagmap[t] # Nil => tagmap[t] \in DOMAIN reqs
  BY DEF ConnInv, TagsOK
<1>3. PICK F \in SUBSET FlushIds, C \in SUBSET ClunkIds :
        F = DOMAIN Made(tagmap) \cap FlushIds /\ C = DOMAIN Made(tagmap) \cap ClunkIds
  OBVIOUS
<1>4. /\ ~conn' /\ tagmap' = tagmap /\ ReqsOK' /\ FlushedOK' /\ BaseOK'
      /\ DOMAIN reqs' = DOMAIN reqs \cup DOMAIN Made(tagmap)
      /\ \A r \in DOMAIN reqs : reqs'[r] = reqs[r]
      /\ \A r \in DOMAIN reqs' : r \in RealIds <=> r \in DOMAIN reqs
      /\ stack' = <<Cleanup(F, C)>> \o <<>>
      /\ ref' = 1 + Cardinality(OpenFids') + Cardinality(DOMAIN reqs')
  BY <1>1, <1>2, <1>3, HangupReqs
<1>5. stack' = <<Cleanup(F, C)>> /\ F \subseteq DOMAIN reqs' /\ C \subseteq DOMAIN reqs'
  BY <1>3, <1>4
<1>6. StackOK' /\ RefOK' /\ (\A i \in DOMAIN stack' : stack'[i].op # "finish")
  <2>1. Len(stack') = 1
    BY <1>5
  <2>2. StackOK' /\ RefOK' /\ \A i \in DOMAIN stack' : stack'[i].op = "finish" => i = 2
    BY <1>1, <1>4, <1>5, CleanupBegins
  <2> QED BY <1>5, <2>2
<1>7. TagsOK'
  <2>1. \A r \in DOMAIN reqs : r \in RealIds => tagmap[reqs[r].tag] = r
    BY <1>1 DEF ConnInv, TagsOK, Finishing
  <2>2. \A t \in Tags : tagmap[t] # Nil => reqs[tagmap[t]].tag = t
    BY DEF ConnInv, TagsOK
  <2> QED BY <1>2, <1>4, <1>6, <2>1, <2>2 DEF TagsOK
<1> QED BY <1>4, <1>6, <1>7 DEF ConnInv

LEMMA ReplyFailsFacts ==
    ASSUME ConnInv, ~torn', ReplyFails
    PROVE  \E r \in DOMAIN reqs :
            /\ DOMAIN stack = {1} /\ stack # <<>> /\ stack[1].op = "reply" /\ stack[1].r = r
            /\ conn /\ r \in RealIds
            /\ Hangup(TagRemoved(reqs[r].tag), <<Finish(r, TRUE)>>)
            /\ UNCHANGED <<freed, fids, nreq, flushed>>
<1>1. stack # <<>> /\ stack[1].op = "reply" /\ conn
  BY StackFacts DEF ReplyFails, Top, ConnInv, WriteMayFail
<1>2. PICK r \in DOMAIN reqs : r = stack[1].r /\ Head(stack) = stack[1] /\ r \in RealIds
  BY <1>1, TopFacts DEF ConnInv, ReqsOK
<1>3. /\ stack \in Seq(FrameSet) /\ Len(stack) \in Nat /\ DOMAIN stack = 1 .. Len(stack)
      /\ 1 \in DOMAIN stack /\ Len(stack) # 0
  BY <1>1, StackFacts DEF ConnInv
<1>4. \A i \in DOMAIN stack : i = 1
  <2> SUFFICES ASSUME NEW i \in DOMAIN stack, i # 1 PROVE FALSE
    OBVIOUS
  <2>1. stack[i].op = "reply" /\ i > 1
    BY <1>1, <1>3, Connected
  <2> QED BY <2>1 DEF ReplyFails, InFlush
<1>5. Len(stack) = 1
  <2>1. Len(stack) \in DOMAIN stack
    BY <1>3
  <2> QED BY <1>4, <2>1
<1>6. Tail(stack) = <<>>
  <2>1. Tail(stack) \in Seq(FrameSet) /\ Len(Tail(stack)) = 0
    BY <1>1, <1>3, <1>5, ReturnFact
  <2> QED BY <2>1, EmptySeq
<1>7. Replace(Finish(r, TRUE)) = <<Finish(r, TRUE)>>
  <2> DEFINE f == Finish(r, TRUE)
  <2>1. f \in {f} /\ <<f>> \in Seq({f})
    OBVIOUS
  <2> HIDE DEF f
  <2>2. <<f>> \o <<>> = <<f>>
    BY <2>1
  <2> QED BY <1>6, <2>2 DEF Replace, f
<1> QED BY <1>1, <1>2, <1>3, <1>4, <1>7 DEF ReplyFails

LEMMA ReplyFailsInv ==
    ASSUME ConnInv, ~torn', ReplyFails
    PROVE  ConnInv'
<1>1. PICK r \in DOMAIN reqs :
            /\ DOMAIN stack = {1} /\ stack # <<>> /\ stack[1].op = "reply" /\ stack[1].r = r
            /\ conn /\ r \in RealIds
            /\ Hangup(TagRemoved(reqs[r].tag), <<Finish(r, TRUE)>>)
            /\ UNCHANGED <<freed, fids, nreq, flushed>>
  BY ReplyFailsFacts
<1>2. PICK tm \in [Tags -> RealIds \cup {Nil}] :
        /\ tm = TagRemoved(reqs[r].tag)
        /\ \A t \in Tags : tm[t] # Nil => tm[t] \in DOMAIN reqs /\ reqs[tm[t]].tag = t
        /\ \A s \in DOMAIN reqs : s \in RealIds => tm[reqs[s].tag] = s \/ Finishing(s) \/ s = r
        /\ tm[reqs[r].tag] = Nil
  BY <1>1, TagRemovedFact
<1>3. PICK F \in SUBSET FlushIds, C \in SUBSET ClunkIds :
        F = DOMAIN Made(tm) \cap FlushIds /\ C = DOMAIN Made(tm) \cap ClunkIds
  OBVIOUS
<1>4. /\ ~conn' /\ tagmap' = tm /\ ReqsOK' /\ FlushedOK' /\ BaseOK'
      /\ DOMAIN reqs' = DOMAIN reqs \cup DOMAIN Made(tm)
      /\ \A s \in DOMAIN reqs : reqs'[s] = reqs[s]
      /\ \A s \in DOMAIN reqs' : s \in RealIds <=> s \in DOMAIN reqs
      /\ stack' = <<Cleanup(F, C)>> \o <<Finish(r, TRUE)>>
      /\ ref' = 1 + Cardinality(OpenFids') + Cardinality(DOMAIN reqs')
  <2>1. \A t \in Tags : tm[t] # Nil => tm[t] \in DOMAIN reqs
    BY <1>2
  <2>2. Hangup(tm, <<Finish(r, TRUE)>>)
    BY <1>1, <1>2
  <2> QED BY <1>1, <1>3, <2>1, <2>2, HangupReqs
<1>5. /\ stack' = <<Cleanup(F, C), Finish(r, TRUE)>>
      /\ F \subseteq DOMAIN reqs' /\ C \subseteq DOMAIN reqs' /\ r \in DOMAIN reqs'
  <2>1. stack' = <<Cleanup(F, C), Finish(r, TRUE)>>
    <3> DEFINE a == Cleanup(F, C)
               b == Finish(r, TRUE)
    <3>1. a \in {a, b} /\ b \in {a, b}
      OBVIOUS
    <3>2. stack' = <<a>> \o <<b>>
      BY <1>4
    <3> HIDE DEF a, b
    <3>3. stack' = <<a, b>>
      BY <3>1, <3>2, PairFact
    <3> QED BY <3>3 DEF a, b
  <2> QED BY <1>3, <1>4, <2>1
<1>6. StackOK' /\ RefOK' /\ \A i \in DOMAIN stack' : stack'[i].op = "finish" => i = 2
  <2>1. \E q \in RealIds : q \in DOMAIN reqs' /\ stack' = <<Cleanup(F, C), Finish(q, TRUE)>>
    BY <1>1, <1>5
  <2>2. ReqsOK' /\ ~conn' /\ UNCHANGED freed /\ conn
        /\ F \subseteq DOMAIN reqs' /\ C \subseteq DOMAIN reqs'
        /\ ref' = 1 + Cardinality(OpenFids') + Cardinality(DOMAIN reqs')
    BY <1>1, <1>4, <1>5
  <2> QED BY <2>1, <2>2, CleanupBegins
<1>7. stack'[2].op = "finish" /\ stack'[2].r = r /\ 2 \in DOMAIN stack'
  BY <1>5 DEF Finish
<1>8. TagsOK'
  <2>1. \A s : ~Finishing(s)
    BY <1>1, Connected DEF Finishing
  <2>2. \A s \in DOMAIN reqs' : s \in RealIds => tm[reqs'[s].tag] = s \/ Finishing(s)'
    BY <1>2, <1>4, <1>7, <2>1 DEF Finishing
  <2>3. \A i \in DOMAIN stack' : stack'[i].op = "finish" => tm[reqs'[stack'[i].r].tag] = Nil
    BY <1>2, <1>4, <1>6, <1>7
  <2> QED BY <1>2, <1>4, <2>2, <2>3 DEF TagsOK
<1> QED BY <1>4, <1>6, <1>8 DEF ConnInv

-----------------------------------------------------------------------------
(* The first theorems.                                                     *)

LEMMA InitInv == Init => ConnInv
<1> SUFFICES ASSUME Init PROVE ConnInv
  OBVIOUS
<1>1. DOMAIN reqs = {} /\ OpenFids = {} /\ stack = <<>> /\ DOMAIN stack = {}
  BY DEF Init, OpenFids
<1>2. BaseOK
  <2>1. 0 \in 0 .. MaxReqs
    BY ConnAssumption
  <2>2. fids \in [Fids -> Fid9s \cup {Nil}]
    BY DEF Init
  <2> QED BY <2>1, <2>2 DEF Init, BaseOK
<1>3. ReqsOK /\ TagsOK /\ FlushedOK
  BY <1>1 DEF Init, ReqsOK, TagsOK, FlushedOK
<1>4. StackOK
  <2>1. stack \in Seq(FrameSet)
    BY <1>1
  <2> QED BY <1>1, <2>1 DEF StackOK, ShapeOK, AnswersOK, NestedOK, WaitingOK
<1>5. RefOK
  <2>1. Cardinality(OpenFids) = 0 /\ Cardinality(DOMAIN reqs) = 0
    BY <1>1, FS_EmptySet
  <2> QED BY <2>1 DEF Init, RefOK, Counted
<1> QED BY <1>2, <1>3, <1>4, <1>5 DEF ConnInv

LEMMA StutterInv ==
    ASSUME ConnInv, UNCHANGED vars
    PROVE  ConnInv'
<1>1. BaseOK' /\ ReqsOK' /\ FlushedOK'
  BY DEF vars, ConnInv, BaseOK, ReqsOK, PointersOK, FlushedOK
<1>2. TagsOK'
  BY DEF vars, ConnInv, TagsOK, Finishing
<1>3. StackOK'
  BY DEF vars, ConnInv, StackOK, ShapeOK, AnswersOK, NestedOK, WaitingOK
<1>4. RefOK'
  BY DEF vars, ConnInv, RefOK, Counted, OpenFids, InCleanup
<1> QED BY <1>1, <1>2, <1>3, <1>4 DEF ConnInv

LEMMA NextInv ==
    ASSUME ~DupTags, ~torn', ConnInv, [Next]_vars
    PROVE  ConnInv'
<1>1. ASSUME NEW m \in Inputs, NEW tag \in Tags, Receive(m, tag) PROVE ConnInv'
  BY <1>1, ReceiveInv
<1>2. CASE Disconnect
  BY <1>2, DisconnectInv
<1>3. CASE CleanupNext
  BY <1>3, CleanupNextInv
<1>4. CASE CleanupDone
  BY <1>4, CleanupDoneInv
<1>5. CASE HandleReject
  BY <1>5, HandleRejectInv
<1>6. CASE HandleAccept
  BY <1>6, HandleAcceptInv
<1>7. CASE RespondBody
  BY <1>7, RespondBodyInv
<1>8. CASE RespondFlush
  BY <1>8, RespondFlushInv
<1>9. CASE ReplySent
  BY <1>9, ReplySentInv
<1>10. CASE ReplyFails
  BY <1>10, ReplyFailsInv
<1>11. CASE FinishRespond
  BY <1>11, FinishRespondInv
<1>12. ASSUME NEW r, NEW out, HandlerResponds(r, out) PROVE ConnInv'
  BY <1>12, HandlerRespondsInv
<1>13. CASE UNCHANGED vars
  BY <1>13, StutterInv
<1> QED BY <1>1, <1>2, <1>3, <1>4, <1>5, <1>6, <1>7, <1>8, <1>9, <1>10, <1>11, <1>12, <1>13
         DEF Next, Run

\* A write that failed inside the answer to a flush stays one that did.
LEMMA TornStays ==
    ASSUME [Next]_vars, torn \in BOOLEAN
    PROVE  torn' \in BOOLEAN /\ (torn => torn')
<1>1. UNCHANGED torn \/ torn' = (torn \/ InFlush)
  <2>1. ASSUME NEW m \in Inputs, NEW tag \in Tags, Receive(m, tag) PROVE UNCHANGED torn
    BY <2>1 DEF Receive
  <2>2. ASSUME NEW r, NEW out, HandlerResponds(r, out) PROVE UNCHANGED torn
    BY <2>2 DEF HandlerResponds
  <2>3. CASE Disconnect \/ UNCHANGED vars
    BY <2>3 DEF Disconnect, vars
  <2>4. CASE Run
    BY <2>4 DEF Run, CleanupNext, CleanupDone, HandleReject, HandleAccept, RespondBody,
                RespondFlush, ReplySent, ReplyFails, FinishRespond
  <2> QED BY <2>1, <2>2, <2>3, <2>4 DEF Next
<1> QED BY <1>1

LEMMA Invariant == ~DupTags => (Spec => [](torn \in BOOLEAN /\ (torn \/ ConnInv)))
<1> SUFFICES ASSUME ~DupTags PROVE Spec => [](torn \in BOOLEAN /\ (torn \/ ConnInv))
  OBVIOUS
<1>1. Init => torn \in BOOLEAN
  BY DEF Init
<1>2. torn \in BOOLEAN /\ (torn \/ ConnInv) /\ [Next]_vars
        => (torn \in BOOLEAN /\ (torn \/ ConnInv))'
  BY NextInv, TornStays
<1> QED BY <1>1, <1>2, InitInv, PTL DEF Spec

\* The tag map and the table of requests agree: whatever the application keeps
\* can be found by its tag, and what is found exists.
THEOREM TagMapCorrect == ~DupTags => (Spec => [](torn \/ TagMapComplete))
<1> SUFFICES ASSUME ~DupTags PROVE Spec => [](torn \/ TagMapComplete)
  OBVIOUS
<1>1. torn \in BOOLEAN /\ ConnInv => TagMapComplete
  <2> SUFFICES ASSUME torn \in BOOLEAN, ConnInv PROVE TagMapComplete
    OBVIOUS
  <2>1. ref \in Nat
    BY CardFacts DEF ConnInv, RefOK, Counted
  <2>2. \A r \in DOMAIN reqs : reqs[r].tag \in Tags \cup {NoTag}
    <3> SUFFICES ASSUME NEW r \in DOMAIN reqs
                 PROVE  reqs[r].tag \in Tags \cup {NoTag}
      OBVIOUS
    <3>1. r \in Ids /\ reqs[r] \in Ixp9Reqs /\ WireOK(r, reqs[r])
      BY DEF ConnInv, ReqsOK
    <3>2. r \in RealIds \/ r \in FlushIds \/ r \in ClunkIds
      BY <3>1, IdFacts
    <3> QED BY <3>1, <3>2 DEF WireOK, Ixp9Reqs
  <2>3. TypeOK
    BY <2>1, <2>2 DEF ConnInv, BaseOK, ReqsOK, TagsOK, FlushedOK, TypeOK
  <2>4. \A r \in RealIds : Held(r) => tagmap[reqs[r].tag] = r
    <3> SUFFICES ASSUME NEW r \in RealIds, Held(r) PROVE tagmap[reqs[r].tag] = r
      OBVIOUS
    <3>1. r \in DOMAIN reqs /\ ~Finishing(r)
      BY DEF Held, InCall, Finishing
    <3> QED BY <3>1 DEF ConnInv, TagsOK
  <2> QED BY <2>3, <2>4 DEF TagMapComplete, ConnInv, TagsOK
<1> QED BY <1>1, Invariant, PTL

\* The connection is counted right and freed exactly when nothing refers to it,
\* not even a call in progress.
THEOREM RefCountCorrect == ~DupTags => (Spec => [](torn \/ RefCount))
<1> SUFFICES ASSUME ~DupTags PROVE Spec => [](torn \/ RefCount)
  OBVIOUS
<1>1. ConnInv => RefCount
  <2> SUFFICES ASSUME ConnInv PROVE RefCount
    OBVIOUS
  <2>1. (\E c \in Frames : c.op = "cleanup") <=> InCleanup
    BY DEF Frames, InCleanup
  <2>2. /\ IsFiniteSet(DOMAIN reqs) /\ Cardinality(DOMAIN reqs) \in Nat
        /\ Cardinality(OpenFids) \in Nat
    BY CardFacts DEF ConnInv
  <2>3. ref = 0 => stack = <<>>
    <3> SUFFICES ASSUME ref = 0, stack # <<>> PROVE FALSE
      OBVIOUS
    <3>1. Cardinality(DOMAIN reqs) = 0 /\ ~InCleanup
      BY <2>2 DEF ConnInv, RefOK, Counted
    <3>2. DOMAIN reqs = {}
      BY <2>2, <3>1, FS_EmptySet
    <3>3. 1 \in DOMAIN stack
      BY StackFacts DEF ConnInv
    <3> QED BY <3>1, <3>2, <3>3 DEF ConnInv, StackOK, AnswersOK, InCleanup
  <2> QED BY <2>1, <2>3 DEF RefCount, ConnInv, RefOK, Counted
<1> QED BY <1>1, Invariant, PTL

\* No request is answered twice at once, or after it was freed.
THEOREM OneAnswerCorrect == ~DupTags => (Spec => [](torn \/ OneAnswer))
<1> SUFFICES ASSUME ~DupTags PROVE Spec => [](torn \/ OneAnswer)
  OBVIOUS
<1>1. ConnInv => OneAnswer
  BY StackFacts DEF ConnInv, StackOK, AnswersOK, OneAnswer, Answering, Again
<1> QED BY <1>1, Invariant, PTL

\* When a flush has been answered, the flushed request is gone.
THEOREM NoReplyAfterFlushCorrect == ~DupTags => (Spec => [](torn \/ NoReplyAfterFlush))
<1> SUFFICES ASSUME ~DupTags PROVE Spec => [](torn \/ NoReplyAfterFlush)
  OBVIOUS
<1>1. ConnInv => NoReplyAfterFlush
  BY DEF ConnInv, FlushedOK, NoReplyAfterFlush
<1> QED BY <1>1, Invariant, PTL

-----------------------------------------------------------------------------
(* Winding down.                                                           *)

Below == {stack[i] : i \in DOMAIN stack \ {1}}

LEMMA BelowFacts ==
    ASSUME ConnInv, stack # <<>>
    PROVE  /\ Frames = {stack[1]} \cup Below
           /\ \A c \in Below : c.op \in {"reply", "finish", "cleanup"}
           /\ stack[1].op = "cleanup" => \A c \in Below : c.op = "finish"
           /\ stack[1].op # "cleanup" =>
                \A c \in Below : IF c.op = "cleanup"
                                 THEN stack[1].r \notin c.flushes /\ stack[1].r \notin c.clunks
                                 ELSE c.r # stack[1].r
<1>1. 1 \in DOMAIN stack
  BY StackFacts DEF ConnInv
<1>2. Frames = {stack[1]} \cup Below
  BY <1>1 DEF Frames, Below
<1>3. \A c \in Below : c.op \in {"reply", "finish", "cleanup"}
  BY DEF Below, ConnInv, StackOK, ShapeOK
<1>4. stack[1].op = "cleanup" => \A c \in Below : c.op = "finish"
  BY TopCleanup DEF Below
<1>5. stack[1].op # "cleanup" =>
        \A c \in Below : IF c.op = "cleanup"
                         THEN stack[1].r \notin c.flushes /\ stack[1].r \notin c.clunks
                         ELSE c.r # stack[1].r
  BY <1>1 DEF Below, ConnInv, StackOK, AnswersOK
<1> QED BY <1>2, <1>3, <1>4, <1>5

LEMMA FramesReplace ==
    ASSUME ConnInv, stack # <<>>, NEW f \in FrameSet, stack' = Replace(f)
    PROVE  Frames' = {f} \cup Below
<1>1. /\ stack \in Seq(FrameSet) /\ DOMAIN stack = 1 .. Len(stack) /\ 1 \in DOMAIN stack
  BY StackFacts DEF ConnInv
<1>2. /\ stack' \in Seq(FrameSet) /\ Len(stack') = Len(stack) /\ stack'[1] = f
      /\ \A i \in 1 .. Len(stack) : i # 1 => stack'[i] = stack[i]
  BY <1>1, ReplaceFact DEF Replace
<1>3. DOMAIN stack' = DOMAIN stack
  BY <1>1, <1>2
<1> QED BY <1>1, <1>2, <1>3 DEF Frames, Below

LEMMA FramesCall ==
    ASSUME ConnInv, stack # <<>>, NEW f \in FrameSet, NEW g \in FrameSet,
           stack' = <<f, g>> \o Tail(stack)
    PROVE  Frames' = {f, g} \cup Below
<1>1. /\ stack \in Seq(FrameSet) /\ Len(stack) \in Nat /\ DOMAIN stack = 1 .. Len(stack)
      /\ 1 \in DOMAIN stack
  BY StackFacts DEF ConnInv
<1>2. /\ stack' \in Seq(FrameSet) /\ Len(stack') = Len(stack) + 1 /\ stack'[1] = f /\ stack'[2] = g
      /\ \A i \in 1 .. Len(stack) + 1 : i \notin {1, 2} =>
            i - 1 \in 1 .. Len(stack) /\ i - 1 # 1 /\ stack'[i] = stack[i - 1]
  BY <1>1, CallFact
<1>3. DOMAIN stack' = 1 .. Len(stack) + 1 /\ 1 \in DOMAIN stack' /\ 2 \in DOMAIN stack'
  BY <1>1, <1>2
<1>4. \A i \in DOMAIN stack \ {1} : i + 1 \in DOMAIN stack' /\ stack'[i + 1] = stack[i]
  <2> SUFFICES ASSUME NEW i \in DOMAIN stack \ {1}
               PROVE  i + 1 \in DOMAIN stack' /\ stack'[i + 1] = stack[i]
    OBVIOUS
  <2>1. i + 1 \in 1 .. Len(stack) + 1 /\ i + 1 \notin {1, 2} /\ i + 1 - 1 = i
    BY <1>1
  <2> QED BY <1>2, <1>3, <2>1
<1>5. \A i \in DOMAIN stack' : i \notin {1, 2} => i - 1 \in DOMAIN stack \ {1} /\ stack'[i] = stack[i - 1]
  BY <1>1, <1>2, <1>3
<1>6. ASSUME NEW c \in Frames' PROVE c \in {f, g} \cup Below
  <2>1. PICK i \in DOMAIN stack' : c = stack'[i]
    BY DEF Frames
  <2> QED BY <1>2, <1>5, <2>1 DEF Below
<1>7. ASSUME NEW c \in {f, g} \cup Below PROVE c \in Frames'
  <2>1. CASE c \in {f, g}
    BY <1>2, <1>3, <2>1 DEF Frames
  <2>2. CASE c \in Below
    <3>1. PICK i \in DOMAIN stack \ {1} : c = stack[i]
      BY <2>2 DEF Below
    <3> QED BY <1>4, <3>1 DEF Frames
  <2> QED BY <1>7, <2>1, <2>2
<1> QED BY <1>6, <1>7

LEMMA FramesReturn ==
    ASSUME ConnInv, stack # <<>>, stack' = Tail(stack)
    PROVE  Frames' = Below
<1>1. /\ stack \in Seq(FrameSet) /\ Len(stack) \in Nat /\ DOMAIN stack = 1 .. Len(stack)
      /\ 1 \in DOMAIN stack
  BY StackFacts DEF ConnInv
<1>2. /\ stack' \in Seq(FrameSet) /\ Len(stack') = Len(stack) - 1
      /\ \A i \in 1 .. Len(stack) - 1 : i + 1 \in 1 .. Len(stack) /\ stack'[i] = stack[i + 1]
  BY <1>1, ReturnFact
<1>3. DOMAIN stack' = 1 .. Len(stack) - 1
  BY <1>1, <1>2
<1>4. \A i \in DOMAIN stack \ {1} : i - 1 \in DOMAIN stack' /\ stack'[i - 1] = stack[i]
  <2> SUFFICES ASSUME NEW i \in DOMAIN stack \ {1}
               PROVE  i - 1 \in DOMAIN stack' /\ stack'[i - 1] = stack[i]
    OBVIOUS
  <2>1. i - 1 \in 1 .. Len(stack) - 1 /\ i - 1 + 1 = i
    BY <1>1
  <2> QED BY <1>2, <1>3, <2>1
<1>5. \A i \in DOMAIN stack' : i + 1 \in DOMAIN stack \ {1} /\ stack'[i] = stack[i + 1]
  BY <1>1, <1>2, <1>3
<1> QED BY <1>4, <1>5 DEF Frames, Below

LEMMA FinishingFrames ==
    /\ \A r : Finishing(r) <=> \E c \in Frames : c.op = "finish" /\ c.r = r
    /\ \A r : Finishing(r)' <=> \E c \in Frames' : c.op = "finish" /\ c.r = r
BY DEF Finishing, Frames

\* What is left of the invariant once a step is known to lose no flush or clunk.
LEMMA WindKept ==
    ASSUME ConnInv, WindOK, SameWire, UNCHANGED conn, HandlingOK',
           \A r \in DOMAIN reqs' : r \in RealIds /\ UnderWay(r) => UnderWay(r)' \/ conn,
           \A r \in DOMAIN reqs' : r \in RealIds /\ ToFlush(r) => ToFlush(r)' \/ UnderWay(r)',
           \A k \in DOMAIN reqs' : k \in ClunkIds /\ ToClunk(k) => ToClunk(k)' \/ Drained',
           Drained => Drained'
    PROVE  WindOK'
<1>1. PairedOK'
  BY DEF WindOK, SameWire, PairedOK
<1>2. FlushesOK'
  BY DEF WindOK, SameWire, FlushesOK
<1>3. ClunksOK'
  BY DEF WindOK, SameWire, ClunksOK
<1> QED BY <1>1, <1>2, <1>3 DEF WindOK

\* handlereq passes a request on to ixp_respond, or leaves it to the application.
LEMMA HandledWind ==
    ASSUME ConnInv, WindOK, stack # <<>>, stack[1].op = "handle",
           SameWire, DOMAIN reqs' = DOMAIN reqs, UNCHANGED conn,
           \/ \E out \in Outs : stack' = Replace(Respond(stack[1].r, out))
           \/ stack' = Tail(stack)
    PROVE  WindOK'
<1>1. PICK r \in DOMAIN reqs : r = stack[1].r /\ r \in Ids
  BY TopFacts
<1>2. PICK top, B : /\ top = stack[1] /\ top.op = "handle" /\ top.r = r
                    /\ B = Below /\ Frames = {top} \cup B
                    /\ \A c \in B : c.op \in {"reply", "finish", "cleanup"}
  BY <1>1, BelowFacts
<1>3. \/ \E f \in FrameSet : f.op = "respond" /\ f.r = r /\ Frames' = {f} \cup B
      \/ Frames' = B
  <2>1. ASSUME NEW out \in Outs, stack' = Replace(Respond(r, out))
        PROVE  \E f \in FrameSet : f.op = "respond" /\ f.r = r /\ Frames' = {f} \cup B
    <3>1. Respond(r, out) \in FrameSet /\ Respond(r, out).op = "respond" /\ Respond(r, out).r = r
      BY <1>1 DEF Respond, FrameSet
    <3> QED BY <1>2, <2>1, <3>1, FramesReplace
  <2>2. ASSUME stack' = Tail(stack) PROVE Frames' = B
    BY <1>2, <2>2, FramesReturn
  <2> QED BY <1>1, <2>1, <2>2
<1>4. \A c \in Frames' : c \in B \/ (c.op = "respond" /\ c.r = r)
  BY <1>3
<1>5. B \subseteq Frames'
  BY <1>3
<1>6. HandlingOK'
  BY <1>2, <1>4 DEF HandlingOK
<1>7. \A s : s \in RealIds /\ UnderWay(s) => UnderWay(s)' \/ conn
  <2> SUFFICES ASSUME NEW s, s \in RealIds, UnderWay(s), ~conn PROVE UnderWay(s)'
    OBVIOUS
  <2>1. PICK c \in Frames : c.op # "cleanup" /\ c.r = s
    BY DEF UnderWay
  <2>2. c # top
    BY <1>2, <2>1 DEF WindOK, HandlingOK
  <2> QED BY <1>2, <1>5, <2>1, <2>2 DEF UnderWay
<1>8. \A s : ToFlush(s) => ToFlush(s)'
  <2>1. \A s : Sending(s)' => Sending(s)
    BY <1>2, <1>4 DEF Sending
  <2> QED BY <2>1 DEF ToFlush
<1>9. \A k : ToClunk(k) => ToClunk(k)'
  BY <1>2, <1>5 DEF ToClunk
<1>10. Drained => Drained'
  BY <1>2, <1>4 DEF Drained
<1> QED BY <1>6, <1>7, <1>8, <1>9, <1>10, WindKept

LEMMA HandleRejectWind ==
    ASSUME ConnInv, WindOK, HandleReject
    PROVE  WindOK'
<1>1. stack # <<>> /\ stack[1].op = "handle"
  BY StackFacts DEF HandleReject, Top, ConnInv
<1>2. stack[1].r \in DOMAIN reqs /\ Head(stack) = stack[1]
  BY <1>1, TopFacts
<1>3. /\ reqs' = [reqs EXCEPT ![stack[1].r] = Resolved(reqs[stack[1].r])] /\ Rejected(reqs[stack[1].r])
      /\ stack' = Replace(Respond(stack[1].r, "error"))
      /\ UNCHANGED <<conn, freed, ref, tagmap, fids, nreq, flushed>>
  BY <1>2 DEF HandleReject
<1>4. SameWire /\ DOMAIN reqs' = DOMAIN reqs
  BY <1>2, <1>3, HandleReqs
<1>5. \E out \in Outs : stack' = Replace(Respond(stack[1].r, out))
  BY <1>3 DEF Outs
<1> QED BY <1>1, <1>3, <1>4, <1>5, HandledWind

LEMMA HandleAcceptWind ==
    ASSUME ConnInv, WindOK, HandleAccept
    PROVE  WindOK'
<1>1. stack # <<>> /\ stack[1].op = "handle"
  BY StackFacts DEF HandleAccept, Top, ConnInv
<1>2. PICK r \in DOMAIN reqs : r = stack[1].r /\ Head(stack) = stack[1] /\ reqs[r] \in Ixp9Reqs
                               /\ WireOK(r, reqs[r]) /\ PointersOK(reqs[r])
  BY <1>1, TopFacts
<1>3. /\ ~Rejected(reqs[r]) /\ reqs' = [reqs EXCEPT ![r] = Resolved(reqs[r])]
      /\ \/ \E out \in Outs : stack' = Replace(Respond(r, out))
         \/ stack' = Tail(stack)
      /\ UNCHANGED conn
  BY <1>2, OutcomesFact DEF HandleAccept, Outs
<1>4. SameWire /\ DOMAIN reqs' = DOMAIN reqs
  <2>1. PICK p \in Ixp9Reqs :
        /\ p = Resolved(reqs[r])
        /\ p.type = reqs[r].type /\ p.tag = reqs[r].tag /\ p.fid = reqs[r].fid
        /\ p.newfid = reqs[r].newfid /\ p.oldtag = reqs[r].oldtag /\ p.arg = reqs[r].arg
    BY <1>2, ResolvedFact DEF ConnInv
  <2>2. DOMAIN reqs' = DOMAIN reqs /\ reqs'[r] = p /\ \A s \in DOMAIN reqs : s # r => reqs'[s] = reqs[s]
    BY <1>3, <2>1
  <2> QED BY <2>1, <2>2 DEF SameWire
<1> QED BY <1>1, <1>2, <1>3, <1>4, HandledWind

\* A flush that finds nothing under its tag comes when its request is about to
\* be freed.
LEMMA RespondBodyWind ==
    ASSUME ConnInv, WindOK, RespondBody
    PROVE  WindOK'
<1>1. stack # <<>> /\ stack[1].op = "respond"
  BY StackFacts DEF RespondBody, Top, ConnInv
<1>2. PICK r \in DOMAIN reqs : /\ r = stack[1].r /\ r \in Ids /\ Head(stack) = stack[1]
                               /\ reqs[r] \in Ixp9Reqs /\ WireOK(r, reqs[r]) /\ PointersOK(reqs[r])
  BY <1>1, TopFacts
<1>3. PICK out \in Outs : out = stack[1].out
  <2>1. stack[1] \in FrameSet
    BY <1>1, StackFacts DEF ConnInv
  <2> QED BY <1>1, <2>1 DEF FrameSet
<1>4. PICK q \in Aims(reqs[r]) :
        /\ q.type = "flush" => tagmap[q.oldtag] = Nil
        /\ reqs' = Orphan(reqs, Destroys(q, out))
        /\ stack' = Replace(Reply(r, out))
        /\ UNCHANGED conn
  BY <1>2, <1>3 DEF RespondBody
<1>5. reqs[r].type = "flush" => tagmap[reqs[r].oldtag] = Nil
  BY <1>2, <1>4, AimsFact
<1>6. SameWire /\ DOMAIN reqs' = DOMAIN reqs
  BY <1>4, OrphanFact DEF ConnInv, SameWire
<1>7. PICK top, B : /\ top = stack[1] /\ top.op = "respond" /\ top.r = r
                    /\ B = Below /\ Frames = {top} \cup B
                    /\ \A c \in B : c.op \in {"reply", "finish", "cleanup"}
  BY <1>1, <1>2, BelowFacts
<1>8. PICK f \in FrameSet : f.op = "reply" /\ f.r = r /\ Frames' = {f} \cup B
  <2>1. Reply(r, out) \in FrameSet /\ Reply(r, out).op = "reply" /\ Reply(r, out).r = r
    BY <1>2 DEF Reply, FrameSet
  <2> QED BY <1>1, <1>4, <1>7, <2>1, FramesReplace
<1>9. HandlingOK'
  BY <1>7, <1>8 DEF HandlingOK
<1>10. \A s : UnderWay(s) => UnderWay(s)'
  BY <1>7, <1>8 DEF UnderWay
<1>11. \A s : ToClunk(s) => ToClunk(s)'
  BY <1>7, <1>8 DEF ToClunk
<1>12. Drained => Drained'
  BY <1>7, <1>8 DEF Drained
<1>13. \A s \in DOMAIN reqs' : s \in RealIds /\ ToFlush(s) => ToFlush(s)' \/ UnderWay(s)'
  <2> SUFFICES ASSUME NEW s \in DOMAIN reqs, s \in RealIds, ToFlush(s)
               PROVE  ToFlush(s)' \/ UnderWay(s)'
    BY <1>6
  <2>1. CASE r = FlushOf(s)
    <3>1. reqs[r].type = "flush" /\ reqs[r].oldtag = reqs[s].tag
      BY <1>2, <2>1, IdFacts DEF WireOK, WindOK, PairedOK
    <3>2. Finishing(s)
      BY <1>5, <3>1, NilNoId DEF ConnInv, TagsOK
    <3>3. UnderWay(s)
      BY <3>2, FinishingFrames DEF UnderWay
    <3> QED BY <1>10, <3>3
  <2>2. CASE r # FlushOf(s)
    <3>1. Sending(FlushOf(s))' => Sending(FlushOf(s))
      BY <1>7, <1>8, <2>2 DEF Sending
    <3> QED BY <1>6, <3>1 DEF ToFlush
  <2> QED BY <2>1, <2>2
<1> QED BY <1>4, <1>6, <1>9, <1>10, <1>11, <1>12, <1>13, WindKept

\* A flush that finds its request answers it.
LEMMA RespondFlushWind ==
    ASSUME ConnInv, WindOK, RespondFlush
    PROVE  WindOK'
<1>1. stack # <<>> /\ stack[1].op = "respond"
  BY StackFacts DEF RespondFlush, Top, ConnInv
<1>2. PICK x \in DOMAIN reqs : /\ x = stack[1].r /\ x \in Ids /\ Head(stack) = stack[1]
                               /\ WireOK(x, reqs[x])
  BY <1>1, TopFacts
<1>3. PICK out \in Outs : out = stack[1].out
  <2>1. stack[1] \in FrameSet
    BY <1>1, StackFacts DEF ConnInv
  <2> QED BY <1>1, <2>1 DEF FrameSet
<1>4. /\ reqs[x].type = "flush" /\ reqs[x].oldtag \in Tags /\ tagmap[reqs[x].oldtag] # Nil
      /\ stack' = <<Respond(tagmap[reqs[x].oldtag], "error"), Reply(x, out)>> \o Tail(stack)
      /\ UNCHANGED <<conn, freed, ref, tagmap, fids, reqs, nreq, flushed>>
  BY <1>2, <1>3 DEF RespondFlush, WireOK
<1>5. PICK y \in DOMAIN reqs : y = tagmap[reqs[x].oldtag] /\ y \in Ids
  BY <1>4, IdFacts DEF ConnInv, TagsOK
<1>6. PICK top, B : /\ top = stack[1] /\ top.op = "respond" /\ top.r = x
                    /\ B = Below /\ Frames = {top} \cup B
                    /\ \A c \in B : c.op \in {"reply", "finish", "cleanup"}
  BY <1>1, <1>2, BelowFacts
<1>7. PICK f \in FrameSet, g \in FrameSet :
        f.op = "respond" /\ f.r = y /\ g.op = "reply" /\ g.r = x /\ Frames' = {f, g} \cup B
  <2>1. /\ Respond(y, "error") \in FrameSet /\ Respond(y, "error").op = "respond"
        /\ Respond(y, "error").r = y
    BY <1>5 DEF Respond, FrameSet, Outs
  <2>2. Reply(x, out) \in FrameSet /\ Reply(x, out).op = "reply" /\ Reply(x, out).r = x
    BY <1>2 DEF Reply, FrameSet
  <2>3. Frames' = {Respond(y, "error"), Reply(x, out)} \cup B
    BY <1>1, <1>4, <1>5, <1>6, <2>1, <2>2, FramesCall
  <2> QED BY <2>1, <2>2, <2>3
<1>8. HandlingOK'
  BY <1>6, <1>7 DEF HandlingOK
<1>9. \A s : UnderWay(s) => UnderWay(s)'
  BY <1>6, <1>7 DEF UnderWay
<1>10. \A s : ToClunk(s) => ToClunk(s)'
  BY <1>6, <1>7 DEF ToClunk
<1>11. Drained => Drained'
  BY <1>6, <1>7 DEF Drained
<1>12. \A s \in DOMAIN reqs' : s \in RealIds /\ ToFlush(s) => ToFlush(s)' \/ UnderWay(s)'
  <2> SUFFICES ASSUME NEW s \in DOMAIN reqs, s \in RealIds, ToFlush(s)
               PROVE  ToFlush(s)' \/ UnderWay(s)'
    BY <1>4
  <2>1. CASE x = FlushOf(s)
    <3>1. reqs[x].oldtag = reqs[s].tag
      BY <1>2, <2>1 DEF WindOK, PairedOK
    <3>2. s = y \/ Finishing(s)
      BY <1>5, <3>1 DEF ConnInv, TagsOK
    <3>3. s = y \/ UnderWay(s)
      BY <3>2, FinishingFrames DEF UnderWay
    <3>4. UnderWay(y)'
      BY <1>7 DEF UnderWay
    <3> QED BY <1>9, <3>3, <3>4
  <2>2. CASE x # FlushOf(s)
    <3>1. Sending(FlushOf(s))' => Sending(FlushOf(s))
      BY <1>6, <1>7, <2>2 DEF Sending
    <3> QED BY <1>4, <3>1 DEF ToFlush
  <2> QED BY <2>1, <2>2
<1>13. SameWire
  BY <1>4 DEF SameWire
<1> QED BY <1>4, <1>8, <1>9, <1>10, <1>11, <1>12, <1>13, WindKept

LEMMA ReplySentWind ==
    ASSUME ConnInv, WindOK, ReplySent
    PROVE  WindOK'
<1>1. stack # <<>> /\ stack[1].op = "reply"
  BY StackFacts DEF ReplySent, Top, ConnInv
<1>2. PICK r \in DOMAIN reqs : r = stack[1].r /\ r \in Ids /\ Head(stack) = stack[1]
  BY <1>1, TopFacts
<1>3. stack' = Replace(Finish(r, FALSE)) /\ UNCHANGED <<conn, reqs>>
  BY <1>2 DEF ReplySent
<1>4. PICK top, B : /\ top.op = "reply" /\ top.r = r /\ B = Below /\ Frames = {top} \cup B
                    /\ \A c \in B : c.op \in {"reply", "finish", "cleanup"}
  BY <1>1, <1>2, BelowFacts
<1>5. PICK f \in FrameSet : f.op = "finish" /\ f.r = r /\ Frames' = {f} \cup B
  <2>1. Finish(r, FALSE) \in FrameSet /\ Finish(r, FALSE).op = "finish" /\ Finish(r, FALSE).r = r
    BY <1>2 DEF Finish, FrameSet
  <2> QED BY <1>1, <1>3, <1>4, <2>1, FramesReplace
<1>6. \A s : /\ ToClunk(s) => ToClunk(s)'
             /\ Sending(s)' => Sending(s)
             /\ UnderWay(s) => UnderWay(s)'
  BY <1>4, <1>5 DEF ToClunk, Sending, UnderWay
<1>7. (Drained => Drained') /\ HandlingOK'
  BY <1>4, <1>5 DEF Drained, HandlingOK
<1>8. \A s : ToFlush(s) => ToFlush(s)'
  BY <1>3, <1>6 DEF ToFlush
<1>9. SameWire
  BY <1>3 DEF SameWire
<1> QED BY <1>3, <1>6, <1>7, <1>8, <1>9, WindKept

LEMMA FinishRespondWind ==
    ASSUME ConnInv, WindOK, FinishRespond
    PROVE  WindOK'
<1>1. stack # <<>> /\ stack[1].op = "finish"
  BY StackFacts DEF FinishRespond, Top, ConnInv
<1>2. PICK r \in DOMAIN reqs : r = stack[1].r /\ Head(stack) = stack[1]
  BY <1>1, TopFacts
<1>3. /\ reqs' = [s \in DOMAIN reqs \ {r} |-> reqs[s]]
      /\ stack' = Tail(stack) /\ UNCHANGED conn
  BY <1>2 DEF FinishRespond, Without
<1>4. SameWire /\ DOMAIN reqs' = DOMAIN reqs \ {r}
  BY <1>3 DEF SameWire
<1>5. PICK top, B : /\ top.op = "finish" /\ top.r = r /\ B = Below /\ Frames = {top} \cup B
                    /\ \A c \in B : c.op \in {"reply", "finish", "cleanup"}
  BY <1>1, <1>2, BelowFacts
<1>6. Frames' = B
  BY <1>1, <1>3, <1>5, FramesReturn
<1>7. \A s : /\ ToClunk(s) => ToClunk(s)'
             /\ Sending(s)' => Sending(s)
             /\ s # r /\ UnderWay(s) => UnderWay(s)'
  BY <1>5, <1>6 DEF ToClunk, Sending, UnderWay
<1>8. (Drained => Drained') /\ HandlingOK'
  BY <1>5, <1>6 DEF Drained, HandlingOK
<1>9. \A s : ToFlush(s) => ToFlush(s)'
  <2>1. Sending(r)
    BY <1>5 DEF Sending
  <2> QED BY <1>4, <1>7, <2>1 DEF ToFlush
<1> QED BY <1>3, <1>4, <1>7, <1>8, <1>9, WindKept

LEMMA CleanupNextWind ==
    ASSUME ConnInv, WindOK, CleanupNext
    PROVE  WindOK'
<1>1. stack # <<>> /\ stack[1].op = "cleanup"
  BY StackFacts DEF CleanupNext, Top, ConnInv
<1>2. /\ Head(stack) = stack[1] /\ ~conn
      /\ stack[1].flushes \in SUBSET FlushIds /\ stack[1].clunks \in SUBSET ClunkIds
  BY <1>1, TopCleanup
<1>3. UNCHANGED <<conn, reqs>>
  BY DEF CleanupNext
<1>4. PICK top, B : /\ top = stack[1] /\ top.op = "cleanup" /\ B = Below /\ Frames = {top} \cup B
                    /\ \A c \in B : c.op = "finish"
  BY <1>1, BelowFacts
<1>5. PICK r \in Ids, fl \in SUBSET FlushIds, cl \in SUBSET ClunkIds :
        /\ stack' = <<Handle(r), Cleanup(fl, cl)>> \o Tail(stack)
        /\ \/ r \in FlushIds /\ r \notin cl /\ top.flushes = fl \cup {r} /\ top.clunks = cl
           \/ r \in ClunkIds /\ top.flushes = {} /\ fl = {} /\ top.clunks = cl \cup {r}
  <2>1. CASE \E r \in stack[1].flushes :
            stack' = <<Handle(r), Cleanup(stack[1].flushes \ {r}, stack[1].clunks)>> \o Tail(stack)
    <3>1. PICK r \in stack[1].flushes :
            stack' = <<Handle(r), Cleanup(stack[1].flushes \ {r}, stack[1].clunks)>> \o Tail(stack)
      BY <2>1
    <3>2. r \in FlushIds /\ r \notin stack[1].clunks /\ r \in Ids
      BY <1>2, IdFacts
    <3>3. stack[1].flushes \ {r} \in SUBSET FlushIds /\ stack[1].flushes = (stack[1].flushes \ {r}) \cup {r}
      BY <1>2
    <3>4. PICK fl \in SUBSET FlushIds, cl \in SUBSET ClunkIds :
            fl = stack[1].flushes \ {r} /\ cl = stack[1].clunks
      BY <1>2, <3>3
    <3>5. stack' = <<Handle(r), Cleanup(fl, cl)>> \o Tail(stack)
      BY <3>1, <3>4
    <3>6. r \in FlushIds /\ r \notin cl /\ top.flushes = fl \cup {r} /\ top.clunks = cl
      BY <1>4, <3>2, <3>3, <3>4
    <3> QED BY <3>2, <3>5, <3>6
  <2>2. CASE /\ stack[1].flushes = {}
             /\ \E r \in stack[1].clunks :
                    stack' = <<Handle(r), Cleanup({}, stack[1].clunks \ {r})>> \o Tail(stack)
    <3>1. PICK r \in stack[1].clunks :
            stack' = <<Handle(r), Cleanup({}, stack[1].clunks \ {r})>> \o Tail(stack)
      BY <2>2
    <3>2. {} \in SUBSET FlushIds /\ r \in ClunkIds /\ r \in Ids
      BY <1>2, IdFacts
    <3>3. stack[1].clunks \ {r} \in SUBSET ClunkIds /\ stack[1].clunks = (stack[1].clunks \ {r}) \cup {r}
      BY <1>2
    <3>4. PICK fl \in SUBSET FlushIds, cl \in SUBSET ClunkIds :
            fl = {} /\ cl = stack[1].clunks \ {r}
      BY <3>2, <3>3
    <3>5. stack' = <<Handle(r), Cleanup(fl, cl)>> \o Tail(stack)
      BY <3>1, <3>4
    <3>6. r \in ClunkIds /\ top.flushes = {} /\ fl = {} /\ top.clunks = cl \cup {r}
      BY <1>4, <2>2, <3>2, <3>3, <3>4
    <3> QED BY <3>2, <3>5, <3>6
  <2> QED BY <1>2, <2>1, <2>2 DEF CleanupNext
<1>6. PICK h \in FrameSet, c \in FrameSet :
        /\ h.op = "handle" /\ h.r = r /\ c.op = "cleanup" /\ c.flushes = fl /\ c.clunks = cl
        /\ Frames' = {h, c} \cup B
  <2>1. Handle(r) \in FrameSet /\ Handle(r).op = "handle" /\ Handle(r).r = r
    BY <1>5, IdFacts DEF Handle, FrameSet
  <2>2. /\ Cleanup(fl, cl) \in FrameSet /\ Cleanup(fl, cl).op = "cleanup"
        /\ Cleanup(fl, cl).flushes = fl /\ Cleanup(fl, cl).clunks = cl
    BY <1>5 DEF Cleanup, FrameSet
  <2>3. Frames' = {Handle(r), Cleanup(fl, cl)} \cup B
    BY <1>1, <1>4, <1>5, <2>1, <2>2, FramesCall
  <2> QED BY <2>1, <2>2, <2>3
<1>7. \A s : /\ Sending(s)' => Sending(s)
             /\ UnderWay(s) => UnderWay(s)'
  BY <1>4, <1>6 DEF Sending, UnderWay
<1>8. HandlingOK'
  <2>1. r \notin RealIds
    BY <1>5, IdFacts
  <2> QED BY <1>4, <1>6, <2>1 DEF HandlingOK
<1>9. Drained => Drained'
  <2> SUFFICES ASSUME Drained PROVE Drained'
    OBVIOUS
  <2>1. top.flushes = {}
    BY <1>4 DEF Drained
  <2>2. fl = {}
    BY <1>5, <2>1
  <2> QED BY <1>4, <1>6, <2>2 DEF Drained
<1>10. \A k \in DOMAIN reqs' : k \in ClunkIds /\ ToClunk(k) => ToClunk(k)' \/ Drained'
  <2> SUFFICES ASSUME NEW k, k \in ClunkIds, ToClunk(k) PROVE ToClunk(k)' \/ Drained'
    OBVIOUS
  <2>1. k \in top.clunks
    BY <1>4 DEF ToClunk
  <2>2. CASE k \in cl
    BY <1>6, <2>2 DEF ToClunk
  <2>3. CASE k \notin cl
    <3>1. fl = {}
      BY <1>5, <2>1, <2>3
    <3> QED BY <1>4, <1>6, <3>1 DEF Drained
  <2> QED BY <2>2, <2>3
<1>11. \A s : ToFlush(s) => ToFlush(s)'
  BY <1>3, <1>7 DEF ToFlush
<1>12. SameWire
  BY <1>3 DEF SameWire
<1> QED BY <1>3, <1>7, <1>8, <1>9, <1>10, <1>11, <1>12, WindKept

LEMMA CleanupDoneWind ==
    ASSUME ConnInv, WindOK, CleanupDone
    PROVE  WindOK'
<1>1. stack # <<>> /\ stack[1].op = "cleanup"
  BY StackFacts DEF CleanupDone, Top, ConnInv
<1>2. Head(stack) = stack[1]
  BY <1>1, TopCleanup
<1>3. PICK top, B : /\ top = stack[1] /\ top.op = "cleanup" /\ B = Below /\ Frames = {top} \cup B
                    /\ top.flushes = {} /\ top.clunks = {}
                    /\ \A c \in B : c.op = "finish"
  BY <1>1, <1>2, BelowFacts DEF CleanupDone
<1>4. UNCHANGED <<conn, reqs>> /\ stack' = Tail(stack)
  BY DEF CleanupDone
<1>5. Frames' = B
  BY <1>1, <1>3, <1>4, FramesReturn
<1>6. \A s : /\ Sending(s)' => Sending(s)
             /\ UnderWay(s) => UnderWay(s)'
             /\ ~ToClunk(s)
  BY <1>3, <1>5 DEF ToClunk, Sending, UnderWay
<1>7. Drained' /\ HandlingOK'
  BY <1>3, <1>5 DEF Drained, HandlingOK
<1>8. \A s : ToFlush(s) => ToFlush(s)'
  BY <1>4, <1>6 DEF ToFlush
<1>9. SameWire
  BY <1>4 DEF SameWire
<1> QED BY <1>4, <1>6, <1>7, <1>8, <1>9, WindKept

LEMMA HandlerRespondsWind ==
    ASSUME ConnInv, WindOK, NEW r, NEW out, HandlerResponds(r, out)
    PROVE  WindOK'
<1>1. stack = <<>> /\ stack' = <<Respond(r, out)>> /\ UNCHANGED <<conn, reqs>>
  BY DEF HandlerResponds, Push
<1>2. Respond(r, out).op = "respond"
  BY DEF Respond
<1>3. Frames = {} /\ Frames' = {Respond(r, out)}
  <2>1. DOMAIN stack' = {1} /\ stack'[1] = Respond(r, out)
    BY <1>1
  <2> QED BY <1>1, <2>1 DEF Frames
<1>4. \A s : ~Sending(s)' /\ ~UnderWay(s) /\ ~ToClunk(s)
  BY <1>2, <1>3 DEF Sending, UnderWay, ToClunk
<1>5. Drained' /\ HandlingOK'
  BY <1>2, <1>3 DEF Drained, HandlingOK
<1>6. \A s : ToFlush(s) => ToFlush(s)'
  BY <1>1, <1>4 DEF ToFlush
<1>7. SameWire
  BY <1>1 DEF SameWire
<1> QED BY <1>1, <1>4, <1>5, <1>6, <1>7, WindKept

LEMMA ReceiveWind ==
    ASSUME ~DupTags, ConnInv, NEW m \in Inputs, NEW tag \in Tags, Receive(m, tag)
    PROVE  WindOK'
<1>1. conn' /\ DOMAIN reqs' \subseteq RealIds
  <2>1. ConnInv'
    BY ReceiveInv
  <2>2. conn'
    BY DEF Receive
  <2> QED BY <2>1, <2>2 DEF ConnInv, ReqsOK
<1>2. PairedOK' /\ ClunksOK'
  BY <1>1, IdFacts DEF PairedOK, ClunksOK
<1>3. HandlingOK' /\ FlushesOK'
  BY <1>1 DEF HandlingOK, FlushesOK
<1> QED BY <1>2, <1>3 DEF WindOK

\* cleanupconn has a flush for every request in the tag map and a clunk for
\* every fid.
LEMMA HangupWind ==
    ASSUME ConnInv, conn, NEW tm \in [Tags -> RealIds \cup {Nil}],
           \A t \in Tags : tm[t] # Nil => tm[t] \in DOMAIN reqs,
           NEW below, Hangup(tm, below), UNCHANGED <<freed, fids, nreq, flushed>>,
           NEW B, Frames' = {Cleanup(DOMAIN Made(tm) \cap FlushIds, DOMAIN Made(tm) \cap ClunkIds)} \cup B,
           \A c \in B : c.op = "finish" /\ c.r \in RealIds,
           \A s \in DOMAIN reqs : tm[reqs[s].tag] = s \/ \E c \in B : c.r = s
    PROVE  WindOK'
<1>1. PICK c : c = Cleanup(DOMAIN Made(tm) \cap FlushIds, DOMAIN Made(tm) \cap ClunkIds)
  OBVIOUS
<1>2. /\ c.op = "cleanup" /\ c.flushes = DOMAIN Made(tm) \cap FlushIds
      /\ c.clunks = DOMAIN Made(tm) \cap ClunkIds /\ Frames' = {c} \cup B
  BY <1>1 DEF Cleanup
<1>3. /\ ~conn' /\ DOMAIN reqs' = DOMAIN reqs \cup DOMAIN Made(tm)
      /\ \A r \in DOMAIN reqs : reqs'[r] = reqs[r]
      /\ \A r \in DOMAIN Made(tm) : reqs'[r] = Made(tm)[r]
      /\ \A r \in DOMAIN reqs' : r \in RealIds <=> r \in DOMAIN reqs
  BY HangupReqs
<1>4. DOMAIN reqs \subseteq RealIds
  BY DEF ConnInv, ReqsOK
<1>5. /\ ref > 1 => DOMAIN Made(tm) = {FlushOf(tm[t]) : t \in {u \in Tags : tm[u] # Nil}}
                                       \cup {ClunkOf(f) : f \in OpenFids}
      /\ \A r \in DOMAIN Made(tm) : r \in Ids /\ r \notin RealIds
      /\ \A r \in DOMAIN Made(tm) : r \in FlushIds => Made(tm)[r].oldtag = reqs[Real(r[2])].tag
  BY MadeFacts
<1>6. DOMAIN reqs # {} => ref > 1
  <2>1. /\ IsFiniteSet(DOMAIN reqs) /\ Cardinality(DOMAIN reqs) \in Nat
        /\ Cardinality(OpenFids) \in Nat
    BY CardFacts DEF ConnInv
  <2>2. DOMAIN reqs # {} => Cardinality(DOMAIN reqs) # 0
    BY <2>1, FS_EmptySet
  <2> QED BY <2>1, <2>2 DEF ConnInv, RefOK, Counted
<1>7. PairedOK'
  <2> SUFFICES ASSUME NEW r \in DOMAIN reqs', r \in RealIds, FlushOf(r) \in DOMAIN reqs'
               PROVE  reqs'[FlushOf(r)].oldtag = reqs'[r].tag
    BY DEF PairedOK
  <2>1. FlushOf(r) \in DOMAIN Made(tm) /\ Real(FlushOf(r)[2]) = r /\ FlushOf(r) \in FlushIds
    BY <1>3, <1>4, IdFacts
  <2> QED BY <1>3, <1>5, <2>1
<1>8. HandlingOK'
  BY <1>2 DEF HandlingOK
<1>9. FlushesOK'
  <2> SUFFICES ASSUME NEW r \in DOMAIN reqs, r \in RealIds PROVE UnderWay(r)' \/ ToFlush(r)'
    BY <1>3 DEF FlushesOK
  <2>1. CASE \E d \in B : d.r = r
    BY <1>2, <2>1 DEF UnderWay
  <2>2. CASE tm[reqs[r].tag] = r
    <3>1. reqs[r].tag \in Tags /\ r # Nil
      BY NilNoId DEF ConnInv, ReqsOK, WireOK
    <3>2. FlushOf(r) \in DOMAIN Made(tm)
      BY <1>5, <1>6, <2>2, <3>1
    <3>3. FlushOf(r) \notin RealIds
      BY <1>5, <3>2
    <3>4. ~Sending(FlushOf(r))'
      BY <1>2, <3>3 DEF Sending
    <3> QED BY <1>3, <3>2, <3>4 DEF ToFlush
  <2> QED BY <2>1, <2>2
<1>10. ClunksOK'
  <2> SUFFICES ASSUME NEW k \in DOMAIN reqs', k \in ClunkIds PROVE ToClunk(k)'
    BY DEF ClunksOK
  <2>1. k \in DOMAIN Made(tm)
    BY <1>3, <1>4, IdFacts
  <2> QED BY <1>2, <2>1 DEF ToClunk
<1> QED BY <1>7, <1>8, <1>9, <1>10 DEF WindOK

LEMMA DisconnectWind ==
    ASSUME ConnInv, Disconnect
    PROVE  WindOK'
<1>1. stack = <<>> /\ conn /\ Hangup(tagmap, <<>>) /\ UNCHANGED <<freed, fids, nreq, flushed>>
  BY DEF Disconnect
<1>2. /\ tagmap \in [Tags -> RealIds \cup {Nil}]
      /\ \A t \in Tags : tagmap[t] # Nil => tagmap[t] \in DOMAIN reqs
  BY DEF ConnInv, TagsOK
<1>3. PICK c : c = Cleanup(DOMAIN Made(tagmap) \cap FlushIds, DOMAIN Made(tagmap) \cap ClunkIds)
  OBVIOUS
<1>4. stack' = <<c>> \o <<>>
  BY <1>1, <1>2, <1>3, HangupReqs
<1>5. Frames' = {c} \cup {}
  <2>1. stack' = <<c>>
    BY <1>4
  <2>2. DOMAIN stack' = {1} /\ stack'[1] = c
    BY <2>1
  <2> QED BY <2>2 DEF Frames
<1>6. \A s \in DOMAIN reqs : tagmap[reqs[s].tag] = s
  <2>1. \A s : ~Finishing(s)
    BY <1>1 DEF Finishing
  <2> QED BY <1>1, <2>1 DEF ConnInv, TagsOK, ReqsOK
<1>7. PICK B : B = {}
  OBVIOUS
<1>8. Frames' = {Cleanup(DOMAIN Made(tagmap) \cap FlushIds, DOMAIN Made(tagmap) \cap ClunkIds)} \cup B
  BY <1>3, <1>5, <1>7
<1>9. /\ \A d \in B : d.op = "finish" /\ d.r \in RealIds
      /\ \A s \in DOMAIN reqs : tagmap[reqs[s].tag] = s \/ \E d \in B : d.r = s
  BY <1>6, <1>7
<1> QED BY <1>1, <1>2, <1>8, <1>9, HangupWind

LEMMA ReplyFailsWind ==
    ASSUME ConnInv, ~torn', ReplyFails
    PROVE  WindOK'
<1>1. PICK r \in DOMAIN reqs :
            /\ DOMAIN stack = {1} /\ stack # <<>> /\ stack[1].op = "reply" /\ stack[1].r = r
            /\ conn /\ r \in RealIds
            /\ Hangup(TagRemoved(reqs[r].tag), <<Finish(r, TRUE)>>)
            /\ UNCHANGED <<freed, fids, nreq, flushed>>
  BY ReplyFailsFacts
<1>2. PICK tm \in [Tags -> RealIds \cup {Nil}] :
        /\ tm = TagRemoved(reqs[r].tag)
        /\ \A t \in Tags : tm[t] # Nil => tm[t] \in DOMAIN reqs /\ reqs[tm[t]].tag = t
        /\ \A s \in DOMAIN reqs : s \in RealIds => tm[reqs[s].tag] = s \/ Finishing(s) \/ s = r
  BY <1>1, TagRemovedFact
<1>3. PICK c : c = Cleanup(DOMAIN Made(tm) \cap FlushIds, DOMAIN Made(tm) \cap ClunkIds)
  OBVIOUS
<1>4. PICK f : f = Finish(r, TRUE) /\ f.op = "finish" /\ f.r = r
  <2>1. Finish(r, TRUE).op = "finish" /\ Finish(r, TRUE).r = r
    BY DEF Finish
  <2> QED BY <2>1
<1>5. \A t \in Tags : tm[t] # Nil => tm[t] \in DOMAIN reqs
  BY <1>2
<1>6. Hangup(tm, <<f>>)
  BY <1>1, <1>2, <1>4
<1>7. stack' = <<c>> \o <<f>>
  BY <1>1, <1>3, <1>5, <1>6, HangupReqs
<1>8. Frames' = {c} \cup {f}
  <2>1. c \in {c, f} /\ f \in {c, f}
    OBVIOUS
  <2>2. stack' = <<c, f>> /\ DOMAIN <<c, f>> = {1, 2} /\ <<c, f>>[1] = c /\ <<c, f>>[2] = f
    BY <1>7, <2>1, PairFact
  <2>3. DOMAIN stack' = {1, 2} /\ stack'[1] = c /\ stack'[2] = f
    BY <2>2
  <2> QED BY <2>3 DEF Frames
<1>9. \A s \in DOMAIN reqs : tm[reqs[s].tag] = s \/ \E d \in {f} : d.r = s
  <2> SUFFICES ASSUME NEW s \in DOMAIN reqs, s # r PROVE tm[reqs[s].tag] = s
    BY <1>4
  <2>1. s \in RealIds
    BY <1>1 DEF ConnInv, ReqsOK
  <2>2. ~Finishing(s)
    BY <1>1 DEF Finishing
  <2> QED BY <1>2, <2>1, <2>2
<1>10. PICK B : B = {f}
  OBVIOUS
<1>11. Frames' = {Cleanup(DOMAIN Made(tm) \cap FlushIds, DOMAIN Made(tm) \cap ClunkIds)} \cup B
  BY <1>3, <1>8, <1>10
<1>12. /\ \A d \in B : d.op = "finish" /\ d.r \in RealIds
       /\ \A s \in DOMAIN reqs : tm[reqs[s].tag] = s \/ \E d \in B : d.r = s
  BY <1>1, <1>4, <1>9, <1>10
<1> QED BY <1>1, <1>5, <1>6, <1>11, <1>12, HangupWind

LEMMA WindNext ==
    ASSUME ~DupTags, ~torn', ConnInv, WindOK, [Next]_vars
    PROVE  WindOK'
<1>1. ASSUME NEW m \in Inputs, NEW tag \in Tags, Receive(m, tag) PROVE WindOK'
  BY <1>1, ReceiveWind
<1>2. CASE Disconnect
  BY <1>2, DisconnectWind
<1>3. CASE CleanupNext
  BY <1>3, CleanupNextWind
<1>4. CASE CleanupDone
  BY <1>4, CleanupDoneWind
<1>5. CASE HandleReject
  BY <1>5, HandleRejectWind
<1>6. CASE HandleAccept
  BY <1>6, HandleAcceptWind
<1>7. CASE RespondBody
  BY <1>7, RespondBodyWind
<1>8. CASE RespondFlush
  BY <1>8, RespondFlushWind
<1>9. CASE ReplySent
  BY <1>9, ReplySentWind
<1>10. CASE ReplyFails
  BY <1>10, ReplyFailsWind
<1>11. CASE FinishRespond
  BY <1>11, FinishRespondWind
<1>12. ASSUME NEW r, NEW out, HandlerResponds(r, out) PROVE WindOK'
  BY <1>12, HandlerRespondsWind
<1>13. CASE UNCHANGED vars
  <2>1. Frames' = Frames /\ reqs' = reqs /\ conn' = conn
    BY <1>13 DEF vars, Frames
  <2>2. SameWire
    BY <2>1 DEF SameWire
  <2>3. \A s : /\ UnderWay(s) => UnderWay(s)'
               /\ ToFlush(s) => ToFlush(s)'
               /\ ToClunk(s) => ToClunk(s)'
    BY <2>1 DEF UnderWay, ToFlush, ToClunk, Sending
  <2>4. (Drained => Drained') /\ HandlingOK'
    BY <2>1 DEF Drained, HandlingOK, WindOK
  <2> QED BY <2>1, <2>2, <2>3, <2>4, WindKept
<1> QED BY <1>1, <1>2, <1>3, <1>4, <1>5, <1>6, <1>7, <1>8, <1>9, <1>10, <1>11, <1>12, <1>13
         DEF Next, Run

LEMMA WindInvariant == ~DupTags => (Spec => [](torn \in BOOLEAN /\ (torn \/ (ConnInv /\ WindOK))))
<1> SUFFICES ASSUME ~DupTags
             PROVE  Spec => [](torn \in BOOLEAN /\ (torn \/ (ConnInv /\ WindOK)))
  OBVIOUS
<1>1. Init => torn \in BOOLEAN /\ WindOK
  <2> SUFFICES ASSUME Init PROVE WindOK
    BY DEF Init
  <2>1. DOMAIN reqs = {} /\ Frames = {}
    BY DEF Init, Frames
  <2> QED BY <2>1 DEF WindOK, PairedOK, HandlingOK, FlushesOK, ClunksOK
<1>2. torn \in BOOLEAN /\ (torn \/ (ConnInv /\ WindOK)) /\ [Next]_vars
        => (torn \in BOOLEAN /\ (torn \/ (ConnInv /\ WindOK)))'
  BY NextInv, WindNext, TornStays
<1> QED BY <1>1, <1>2, InitInv, PTL DEF Spec

\* After cleanupconn the application holds a request of the client only together
\* with the flush made up for it.
THEOREM AllFlushedCorrect == ~DupTags => (Spec => [](torn \/ AllFlushed))
<1> SUFFICES ASSUME ~DupTags PROVE Spec => [](torn \/ AllFlushed)
  OBVIOUS
<1>1. ConnInv /\ WindOK => AllFlushed
  <2> SUFFICES ASSUME WindOK, ~conn, stack = <<>>, NEW r \in RealIds, Held(r)
               PROVE  Held(FlushOf(r))
    BY DEF AllFlushed
  <2>1. Frames = {} /\ r \in DOMAIN reqs /\ \A s : ~InCall(s)
    BY DEF Frames, Held, InCall
  <2>2. ToFlush(r)
    BY <2>1 DEF WindOK, FlushesOK, UnderWay
  <2> QED BY <2>1, <2>2 DEF ToFlush, Held
<1> QED BY <1>1, WindInvariant, PTL

\* The clunks that cleanupconn makes up come after its flushes: a fid is freed
\* under a request of the client only when the application has put off the
\* answer to the flush of that request.
THEOREM FlushedFirstCorrect ==
    ~DupTags => (Spec => [][torn \/ FlushPutOff]_vars)
<1> SUFFICES ASSUME ~DupTags PROVE Spec => [][torn \/ FlushPutOff]_vars
  OBVIOUS
<1>1. ConnInv /\ WindOK => FlushPutOff
  <2> SUFFICES ASSUME ConnInv, WindOK, VoidsFid, NEW r \in RealIds, FidLost(r)
               PROVE  Held(FlushOf(r))
    BY DEF FlushPutOff
  <2>1. PICK k \in ClunkIds : /\ stack # <<>> /\ stack[1].op = "respond" /\ stack[1].r = k
    BY StackFacts DEF VoidsFid, Top, ClunkIds, ConnInv
  <2>2. k \in DOMAIN reqs /\ k \notin FlushIds /\ k \notin RealIds
    BY <2>1, TopFacts, IdFacts
  <2>3. PICK top, B : /\ top = stack[1] /\ B = Below /\ Frames = {top} \cup B
                      /\ \A c \in B : c.op \in {"reply", "finish", "cleanup"}
                      /\ \A c \in B : c.op = "cleanup" => k \notin c.clunks
    BY <2>1, BelowFacts
  <2>4. ~conn /\ Drained
    <3>1. ~conn
      BY <2>2, IdFacts DEF ConnInv, ReqsOK
    <3>2. ~ToClunk(k)
      BY <2>1, <2>3 DEF ToClunk
    <3> QED BY <2>2, <3>1, <3>2 DEF WindOK, ClunksOK
  <2>5. r \in DOMAIN reqs /\ ~UnderWay(r)
    BY DEF FidLost, Held, InCall, UnderWay, Frames
  <2>6. FlushOf(r) \in DOMAIN reqs /\ ~Sending(FlushOf(r)) /\ FlushOf(r) \in FlushIds
    BY <2>4, <2>5, IdFacts DEF WindOK, FlushesOK, ToFlush
  <2>7. ~InCall(FlushOf(r))
    <3> SUFFICES ASSUME NEW i \in DOMAIN stack,
                        IF stack[i].op = "cleanup"
                        THEN FlushOf(r) \in stack[i].flushes \cup stack[i].clunks
                        ELSE stack[i].r = FlushOf(r)
                 PROVE  FALSE
      BY DEF InCall
    <3>1. stack[i] \in Frames /\ stack[i] \in FrameSet
      BY StackFacts DEF Frames, ConnInv
    <3>2. CASE stack[i].op = "cleanup"
      <4>1. stack[i].flushes = {} /\ stack[i].clunks \subseteq ClunkIds
        BY <2>4, <3>1, <3>2 DEF Drained, FrameSet
      <4> QED BY <2>6, <3>2, <4>1, IdFacts
    <3>3. CASE stack[i].op # "cleanup"
      <4>1. stack[i] # top
        BY <2>1, <2>2, <2>3, <2>6, <3>3
      <4>2. stack[i].op \in {"reply", "finish"}
        BY <2>3, <3>1, <3>3, <4>1
      <4> QED BY <2>6, <3>1, <3>3, <4>2 DEF Sending
    <3> QED BY <3>2, <3>3
  <2> QED BY <2>6, <2>7 DEF Held
<1>2. [Next]_vars /\ (torn \in BOOLEAN /\ (torn \/ (ConnInv /\ WindOK))) => [torn \/ FlushPutOff]_vars
  BY <1>1
<1> QED BY <1>2, WindInvariant, PTL DEF Spec
=============================================================================
