------------------------------- MODULE Conn9 -------------------------------
(***************************************************************************)
(* The server side of one 9P connection, lib/libixp/request.c: requests    *)
(* arrive, are checked, handed to the application's handlers, answered now *)
(* or later, flushed, and on a hangup the connection is wound down.        *)
(*                                                                         *)
(* The server runs in one thread.  Calls nest (answering a flush answers   *)
(* the flushed request, a failed write hangs up and cleans up inside       *)
(* ixp_respond), so the calls in progress are an explicit stack; while it  *)
(* is not empty only its top moves.                                        *)
(***************************************************************************)
EXTENDS Integers, Sequences, FiniteSets

CONSTANTS
    Tags, Fids,      \* tags and fid numbers the client uses
    Nil, NoTag,      \* null pointer, IXP_NOTAG
    Stale,           \* a pointer to a fid that was freed
    Types,           \* request types the client sends
    Modes,           \* open modes the client asks for
    Implemented,     \* handlers the Ixp9Srv has
    MaxReqs,         \* bound: requests the client sends
    SendMayFail,     \* writing a reply may fail
    RealLocks,       \* mutexes exclude (pthreads), or are no-ops (thread.c)
    DupTags          \* the client may reuse a tag in use

\* Requests are numbered; those cleanupconn makes up are named for their object.
Real(n) == <<"req", n>>
FlushOf(r) == <<"flush", r[2]>>
ClunkOf(f) == <<"clunk", f>>
RealIds == {Real(n) : n \in 1 .. MaxReqs}
Ids == RealIds \cup {FlushOf(r) : r \in RealIds} \cup {ClunkOf(f) : f \in Fids}

NoFid == -1   \* omode of a fid that is not open
Fid9s == [omode : Modes \cup {NoFid}, dir : BOOLEAN]

ASSUME ConnAssumption ==
    /\ Nil \notin Tags /\ Nil \notin Fids /\ Nil \notin Ids /\ Nil \notin Fid9s
    /\ NoTag \notin Tags /\ NoTag # Nil
    /\ Stale \notin Fids /\ Stale # Nil
    /\ IsFiniteSet(Fids)   \* they are 32-bit numbers
    /\ MaxReqs \in Nat
    /\ {SendMayFail, RealLocks, DupTags} \subseteq BOOLEAN

VARIABLES
    conn,     \* p9conn->conn is set
    freed,    \* p9conn was freed
    ref,      \* p9conn->ref
    tagmap,   \* tag -> request, or Nil
    fids,     \* fidmap: fid -> [omode, dir], or Nil
    reqs,     \* the allocated Ixp9Reqs
    nreq,     \* requests received
    stack,    \* the calls in progress, innermost first
    flushed,  \* requests whose flush has been answered
    torn      \* a write has failed inside the answer to a flush

vars == <<conn, freed, ref, tagmap, fids, reqs, nreq, stack, flushed, torn>>

\* An Ixp9Req: the wire fields and the pointers fid, newfid and oldreq.
Msg(type, tag, fid, newfid, oldtag, arg) ==
    [type |-> type, tag |-> tag, fid |-> fid, newfid |-> newfid, oldtag |-> oldtag,
     arg |-> arg, pfid |-> Nil, pnew |-> Nil, poldreq |-> Nil]

\* What a client can send.  arg is the open mode, or for a walk the number of
\* names, or for wstat 1 when it changes what may not change.
Inputs ==
    LET on(type, f, arg) == Msg(type, Nil, f, Nil, Nil, arg)
        all ==
          {Msg("version", Nil, Nil, Nil, Nil, 0), Msg("other", Nil, Nil, Nil, Nil, 0)}
          \cup {on(type, f, 0) : type \in {"attach", "clunk", "read", "write", "remove", "stat"},
                                 f \in Fids}
          \cup {on(type, f, m) : type \in {"open", "create"}, f \in Fids, m \in Modes}
          \cup {on("wstat", f, bad) : f \in Fids, bad \in {0, 1}}
          \cup {Msg("walk", Nil, f, g, Nil, n) : f \in Fids, g \in Fids, n \in {0, 1}}
          \cup {Msg("flush", Nil, Nil, Nil, o, 0) : o \in Tags}
    IN  {m \in all : m.type \in Types}

NewFid == [omode |-> NoFid, dir |-> FALSE]

Init ==
    /\ conn = TRUE /\ freed = FALSE
    /\ ref = 1
    /\ tagmap = [t \in Tags |-> Nil]
    /\ fids = [f \in Fids |-> Nil]
    /\ reqs = [r \in {} |-> Nil]
    /\ nreq = 0
    /\ stack = <<>>
    /\ flushed = {} /\ torn = FALSE

-----------------------------------------------------------------------------
(* Frames of the stack.                                                    *)

Handle(r) == [op |-> "handle", r |-> r]
Respond(r, out) == [op |-> "respond", r |-> r, out |-> out]
Reply(r, out) == [op |-> "reply", r |-> r, out |-> out]
Finish(r, locked) == [op |-> "finish", r |-> r, locked |-> locked]
Cleanup(flushes, clunks) == [op |-> "cleanup", flushes |-> flushes, clunks |-> clunks]

\* The innermost call.  One that goes on with a request freed meanwhile frees it
\* again: there is no telling what the program does then, and it has no step.
Halted == stack # <<>> /\ Head(stack).op # "cleanup" /\ Head(stack).r \notin DOMAIN reqs
Top(op) == stack # <<>> /\ Head(stack).op = op /\ ~Halted
Push(frame) == <<frame>> \o stack
Replace(frame) == <<frame>> \o Tail(stack)

InCall(r) ==
    \E i \in DOMAIN stack :
        IF stack[i].op = "cleanup" THEN r \in stack[i].flushes \cup stack[i].clunks
        ELSE stack[i].r = r

\* The application has the request and will answer it.
Held(r) == r \in DOMAIN reqs /\ ~InCall(r)

\* thread->lock(&p9conn->wlock) returns: nobody further down the stack holds it.
WlockFree(frames) ==
    RealLocks => \A i \in DOMAIN frames : frames[i].op = "finish" => ~frames[i].locked

\* reqs after the fids in gone were freed: pointers to them dangle.
Orphan(rs, gone) ==
    [r \in DOMAIN rs |->
        [rs[r] EXCEPT !.pfid = IF @ \in gone THEN Stale ELSE @,
                      !.pnew = IF @ \in gone THEN Stale ELSE @]]

Without(f, x) == [y \in DOMAIN f \ {x} |-> f[y]]
With(f, g) == [x \in DOMAIN f \cup DOMAIN g |-> IF x \in DOMAIN g THEN g[x] ELSE f[x]]

\* decref_p9conn: the last reference frees the connection.
Decref(n) == ref' = n - 1 /\ freed' = (n = 1)

-----------------------------------------------------------------------------
(* Messages from the client.                                               *)

Live == {reqs[r] : r \in DOMAIN reqs}

\* A client does not reuse a tag before it is answered and no longer being
\* flushed.  It may well clunk or remove a fid that other requests are using.
Conforms(m, tag) == m.oldtag # tag /\ \A q \in Live : q.oldtag # tag

\* handlefcall: a request arrives.
Receive(m, tag) ==
    /\ stack = <<>> /\ conn
    /\ nreq < MaxReqs
    /\ Conforms(m, tag)
    /\ DupTags \/ tagmap[tag] = Nil
    /\ nreq' = nreq + 1
    /\ reqs' = With(reqs, [r \in {Real(nreq')} |-> [m EXCEPT !.tag = tag]])
    /\ ref' = ref + 1
    /\ IF tagmap[tag] = Nil
       THEN /\ tagmap' = [tagmap EXCEPT ![tag] = Real(nreq')]
            /\ stack' = Push(Handle(Real(nreq')))
       ELSE /\ m.type # "version"   \* ixp_respond asserts that it is not an error
            /\ stack' = Push(Respond(Real(nreq'), "error"))
            /\ UNCHANGED tagmap
    /\ UNCHANGED <<conn, freed, fids, flushed, torn>>

\* The requests cleanupconn makes up: a clunk for every fid, a flush for every
\* request in the tag map tm.
OpenFids == {f \in Fids : fids[f] # Nil}
MadeUp(tm) ==
    LET clunks == {ClunkOf(f) : f \in OpenFids}
        flushes == {FlushOf(r) : r \in {tm[t] : t \in Tags} \ {Nil}}
    IN  [r \in clunks \cup flushes |->
            IF r \in clunks
            THEN [Msg("clunk", NoTag, r[2], Nil, Nil, 0) EXCEPT !.pfid = r[2]]
            ELSE Msg("flush", NoTag, Nil, Nil, reqs[Real(r[2])].tag, 0)]

\* ixp_hangup and the start of cleanupconn, above the calls in progress: none
\* after the client hung up, or the ixp_respond whose write failed.
Hangup(tm, below) ==
    LET made == IF ref > 1 THEN MadeUp(tm) ELSE [r \in {} |-> Nil]
    IN  /\ conn' = FALSE
        /\ tagmap' = tm
        /\ reqs' = With(reqs, made)
        /\ ref' = ref + Cardinality(DOMAIN made)
        /\ stack' = <<Cleanup({r \in DOMAIN made : made[r].type = "flush"},
                              {r \in DOMAIN made : made[r].type = "clunk"})>> \o below

\* handlefcall: end of file or a malformed message; ixp_hangup.
Disconnect ==
    /\ stack = <<>> /\ conn
    /\ Hangup(tagmap, <<>>)
    /\ UNCHANGED <<freed, fids, nreq, flushed, torn>>

\* Mutant: cleanupconn clunks before it flushes.
CleanupNextSwapped ==
    /\ Top("cleanup")
    /\ LET c == Head(stack) IN
        \/ \E r \in c.clunks :
            stack' = <<Handle(r), Cleanup(c.flushes, c.clunks \ {r})>> \o Tail(stack)
        \/ /\ c.clunks = {}
           /\ \E r \in c.flushes :
                stack' = <<Handle(r), Cleanup(c.flushes \ {r}, {})>> \o Tail(stack)
    /\ UNCHANGED <<conn, freed, ref, tagmap, fids, reqs, nreq, flushed, torn>>

\* cleanupconn: handlereq for the flushes, then for the clunks.
CleanupNext ==
    /\ Top("cleanup")
    /\ LET c == Head(stack) IN
        \/ \E r \in c.flushes :
            stack' = <<Handle(r), Cleanup(c.flushes \ {r}, c.clunks)>> \o Tail(stack)
        \/ /\ c.flushes = {}
           /\ \E r \in c.clunks :
                stack' = <<Handle(r), Cleanup({}, c.clunks \ {r})>> \o Tail(stack)
    /\ UNCHANGED <<conn, freed, ref, tagmap, fids, reqs, nreq, flushed, torn>>

\* cleanupconn: drop the connection's own reference.
CleanupDone ==
    /\ Top("cleanup")
    /\ Head(stack).flushes = {} /\ Head(stack).clunks = {}
    /\ WlockFree(Tail(stack))
    /\ Decref(ref)
    /\ stack' = Tail(stack)
    /\ UNCHANGED <<conn, tagmap, fids, reqs, nreq, flushed, torn>>

-----------------------------------------------------------------------------
(* handlereq.                                                              *)

Outcomes(type) ==
    CASE type = "walk" -> {"dir", "file", "partial", "error"}
      [] type \in {"attach", "create"} -> {"dir", "file", "error"}
      [] OTHER -> {"ok", "error"}

HasFid(q) == q.fid # Nil /\ fids[q.fid] # Nil

\* What handlereq refuses to do with the fid f.  (-1 % 4 is 3, as is -1&3.)
Forbidden(q, f) ==
    CASE q.type = "create" -> f.omode # NoFid \/ ~f.dir
      [] q.type = "open" -> f.dir /\ q.arg \notin {0, 64}   \* P9_OREAD, P9_ORCLOSE
      [] q.type = "read" -> f.omode \in {NoFid, 1}
      [] q.type = "write" -> f.omode % 4 \notin {1, 2}
      [] q.type = "wstat" -> q.arg # 0
      [] q.type = "walk" -> \/ f.omode # NoFid
                            \/ q.arg > 0 /\ ~f.dir
                            \/ q.newfid # q.fid /\ fids[q.newfid] # Nil
      [] OTHER -> FALSE

\* The checks of handlereq that end in an error reply.
Rejected(q) ==
    CASE q.type = "version" -> FALSE
      [] q.type = "other" -> TRUE
      [] q.type = "attach" -> fids[q.fid] # Nil
      [] q.type = "flush" -> tagmap[q.oldtag] = Nil
      [] OTHER -> HasFid(q) => Forbidden(q, fids[q.fid])

\* The fid handlereq creates for a request that passes the checks.
Creates(q) == IF q.type = "attach" THEN {q.fid}
              ELSE IF q.type = "walk" /\ q.newfid # q.fid THEN {q.newfid} ELSE {}

\* The request with its pointers set.  A rejected request found its fid or not;
\* what cleanupconn had stored in a made-up clunk is overwritten.
Resolved(q) ==
    IF q.type = "attach" THEN [q EXCEPT !.pfid = IF Rejected(q) THEN Nil ELSE q.fid]
    ELSE IF q.type = "flush" THEN [q EXCEPT !.poldreq = tagmap[q.oldtag]]
    ELSE [q EXCEPT !.pfid = IF HasFid(q) THEN q.fid ELSE Nil,
                   !.pnew = IF q.type = "walk" /\ ~Rejected(q) THEN q.newfid ELSE Nil]

\* Mutant: handlereq goes on after an error reply.
HandleRejectTwice ==
    /\ Top("handle")
    /\ LET r == Head(stack).r IN
        /\ Rejected(reqs[r])
        /\ reqs' = [reqs EXCEPT ![r] = Resolved(@)]
        /\ stack' = <<Respond(r, "error"), Respond(r, "error")>> \o Tail(stack)
    /\ UNCHANGED <<conn, freed, ref, tagmap, fids, nreq, flushed, torn>>

\* handlereq: an error reply.  A failed createfid took and dropped a reference.
HandleReject ==
    /\ Top("handle")
    /\ LET r == Head(stack).r IN
        /\ Rejected(reqs[r])
        /\ reqs' = [reqs EXCEPT ![r] = Resolved(@)]
        /\ stack' = Replace(Respond(r, "error"))
    /\ UNCHANGED <<conn, freed, ref, tagmap, fids, nreq, flushed, torn>>

\* handlereq: the request is accepted; version, and what has no handler, are
\* answered at once, the rest goes to the handler, which answers before it
\* returns or keeps the request.
HandleAccept ==
    /\ Top("handle")
    /\ LET r == Head(stack).r
           q == reqs[r]
           made == Creates(q)
       IN  /\ ~Rejected(q)
           /\ reqs' = [reqs EXCEPT ![r] = Resolved(q)]
           /\ fids' = [f \in Fids |-> IF f \in made THEN NewFid ELSE fids[f]]
           /\ ref' = ref + Cardinality(made)
           /\ \/ /\ q.type \in {"version", "clunk"} \ Implemented
                 /\ stack' = Replace(Respond(r, "ok"))
              \/ /\ q.type \notin Implemented \cup {"version", "clunk"}
                 /\ stack' = Replace(Respond(r, "error"))
              \/ /\ q.type \in Implemented
                 /\ \/ \E out \in Outcomes(q.type) : stack' = Replace(Respond(r, out))
                    \/ stack' = Tail(stack)
    /\ UNCHANGED <<conn, freed, tagmap, nreq, flushed, torn>>

\* The application answers a request it kept.
HandlerResponds(r, out) ==
    /\ stack = <<>>
    /\ Held(r)
    /\ out \in Outcomes(reqs[r].type)
    /\ stack' = Push(Respond(r, out))
    /\ UNCHANGED <<conn, freed, ref, tagmap, fids, reqs, nreq, flushed, torn>>

-----------------------------------------------------------------------------
(* ixp_respond.                                                            *)

\* The fid that a reply destroys: always for clunk and remove, on failure the
\* one that attach or walk had created.
Destroys(q, out) ==
    LET f == CASE q.type \in {"clunk", "remove"} -> q.pfid
               [] q.type = "attach" /\ out = "error" -> q.pfid
               [] q.type = "walk" /\ out \in {"error", "partial"} /\ q.fid # q.newfid -> q.pnew
               [] OTHER -> Nil
    IN  {f} \cap OpenFids

\* The fid table after a reply.
Updated(q, out) ==
    [f \in Fids |->
        IF fids[f] = Nil THEN fids[f]
        ELSE CASE q.type \in {"open", "create"} /\ f = q.pfid /\ out # "error" ->
                    [omode |-> q.arg, dir |-> IF out = "ok" THEN fids[f].dir ELSE out = "dir"]
               [] q.type = "attach" /\ f = q.pfid /\ out # "error" ->
                    [fids[f] EXCEPT !.dir = (out = "dir")]
               [] q.type = "walk" /\ f = q.pnew /\ out \in {"dir", "file"} ->
                    [fids[f] EXCEPT !.dir = IF q.arg = 0 /\ q.pfid # Nil THEN fids[q.pfid].dir
                                            ELSE out = "dir"]
               [] OTHER -> fids[f]]

\* Where a pointer of a request leads: a stale one to whatever lies there now,
\* which is one of the other fids or nothing that ixp_respond would find.
Leads(ptr) == IF ptr = Stale THEN OpenFids \cup {Nil} ELSE {ptr}
Aims(q) ==
    {[q EXCEPT !.pfid = p[1], !.pnew = p[2]] : p \in Leads(q.pfid) \X Leads(q.pnew)}

\* Mutant: destroyfid forgets the fid's reference.
RespondBodyLeaky ==
    /\ Top("respond")
    /\ LET r == Head(stack).r
           out == Head(stack).out
       IN  \E q \in Aims(reqs[r]) :
            LET gone == Destroys(q, out) IN
            /\ q.type = "flush" => tagmap[q.oldtag] = Nil
            /\ fids' = [f \in Fids |-> IF f \in gone THEN Nil ELSE Updated(q, out)[f]]
            /\ reqs' = Orphan(reqs, gone)
            /\ stack' = Replace(Reply(r, out))
    /\ UNCHANGED <<conn, freed, ref, tagmap, nreq, flushed, torn>>

\* ixp_respond, the switch on the type, for all but a flush that finds its
\* request: update the fid or destroy it.
RespondBody ==
    /\ Top("respond")
    /\ LET r == Head(stack).r
           out == Head(stack).out
       IN  \E q \in Aims(reqs[r]) :
            LET gone == Destroys(q, out) IN
            /\ q.type = "flush" => tagmap[q.oldtag] = Nil
            /\ fids' = [f \in Fids |-> IF f \in gone THEN Nil ELSE Updated(q, out)[f]]
            /\ reqs' = Orphan(reqs, gone)
            /\ ref' = ref - Cardinality(gone)
            /\ gone # {} => WlockFree(Tail(stack))
            /\ stack' = Replace(Reply(r, out))
    /\ UNCHANGED <<conn, freed, tagmap, nreq, flushed, torn>>

\* Mutant: the flush is answered and the flushed request is not.
RespondFlushIgnoring ==
    /\ Top("respond")
    /\ LET q == reqs[Head(stack).r] IN
        /\ q.type = "flush" /\ tagmap[q.oldtag] # Nil
        /\ stack' = Replace(Reply(Head(stack).r, Head(stack).out))
    /\ UNCHANGED <<conn, freed, ref, tagmap, fids, reqs, nreq, flushed, torn>>

\* ixp_respond to a flush: the request found under the old tag is answered
\* first, as interrupted.
RespondFlush ==
    /\ Top("respond")
    /\ LET r == Head(stack).r
           q == reqs[r]
       IN  /\ q.type = "flush" /\ tagmap[q.oldtag] # Nil
           /\ stack' = <<Respond(tagmap[q.oldtag], "error"), Reply(r, Head(stack).out)>>
                        \o Tail(stack)
    /\ UNCHANGED <<conn, freed, ref, tagmap, fids, reqs, nreq, flushed, torn>>

TagRemoved(tag) == IF tag = NoTag THEN tagmap ELSE [tagmap EXCEPT ![tag] = Nil]

\* Mutant: the answered request stays in the tag map.
ReplySentKeepingTag ==
    /\ Top("reply")
    /\ LET r == Head(stack).r
           q == reqs[r]
       IN  /\ flushed' = IF conn /\ q.type = "flush" /\ q.poldreq # Nil
                         THEN flushed \cup {q.poldreq} ELSE flushed
           /\ stack' = Replace(Finish(r, FALSE))
    /\ UNCHANGED <<conn, freed, ref, tagmap, fids, reqs, nreq, torn>>

\* ixp_respond: take the tag out of the map and, while connected, write the reply.
ReplySent ==
    /\ Top("reply")
    /\ LET r == Head(stack).r
           q == reqs[r]
       IN  /\ tagmap' = TagRemoved(q.tag)
           /\ flushed' = IF conn /\ q.type = "flush" /\ q.poldreq # Nil
                         THEN flushed \cup {q.poldreq} ELSE flushed
           /\ stack' = Replace(Finish(r, FALSE))
    /\ UNCHANGED <<conn, freed, ref, fids, reqs, nreq, torn>>

\* The fault model: any write may fail.
WriteMayFail == SendMayFail /\ conn

\* An ixp_respond to a flush waits, further down, for the innermost one.
InFlush == \E i \in DOMAIN stack : i > 1 /\ stack[i].op = "reply"

\* Mutant: the tag is taken out of the map only after the write.
ReplyFailsTagged ==
    /\ Top("reply")
    /\ WriteMayFail
    /\ LET r == Head(stack).r
       IN  Hangup(tagmap, Replace(Finish(r, TRUE)))
    /\ torn' = (torn \/ InFlush)
    /\ UNCHANGED <<freed, fids, nreq, flushed>>

\* ixp_respond: the write fails and ixp_hangup is called with wlock held.
\* The maps cleanupconn walks no longer contain this request.
ReplyFails ==
    /\ Top("reply")
    /\ WriteMayFail
    /\ LET r == Head(stack).r
       IN  Hangup(TagRemoved(reqs[r].tag), Replace(Finish(r, TRUE)))
    /\ torn' = (torn \/ InFlush)
    /\ UNCHANGED <<freed, fids, nreq, flushed>>

\* ixp_respond: free the request and drop its reference.
FinishRespond ==
    /\ Top("finish")
    /\ WlockFree(Tail(stack))
    /\ reqs' = Without(reqs, Head(stack).r)
    /\ Decref(ref)
    /\ stack' = Tail(stack)
    /\ UNCHANGED <<conn, tagmap, fids, nreq, flushed, torn>>

-----------------------------------------------------------------------------
Run ==
    \/ CleanupNext \/ CleanupDone \/ HandleReject \/ HandleAccept
    \/ RespondBody \/ RespondFlush \/ ReplySent \/ ReplyFails \/ FinishRespond

Next ==
    \/ \E m \in Inputs, tag \in Tags : Receive(m, tag)
    \/ Disconnect
    \/ Run
    \/ \E r \in DOMAIN reqs : \E out \in Outcomes(reqs[r].type) : HandlerResponds(r, out)

Spec == Init /\ [][Next]_vars

\* A call that can run does, and the application answers what it keeps.
FairSpec ==
    /\ Spec
    /\ WF_vars(Run)
    /\ \A r \in Ids : WF_vars(\E out \in {"ok", "error", "dir", "file", "partial"} :
                                HandlerResponds(r, out))

-----------------------------------------------------------------------------
(* Properties.                                                             *)

Frames == {stack[i] : i \in DOMAIN stack}

\* Every variable stays in its type.
TypeOK ==
    /\ conn \in BOOLEAN /\ freed \in BOOLEAN
    /\ ref \in Nat /\ nreq \in 0 .. MaxReqs
    /\ tagmap \in [Tags -> RealIds \cup {Nil}]
    /\ fids \in [Fids -> Fid9s \cup {Nil}]
    /\ DOMAIN reqs \subseteq Ids
    /\ \A r \in DOMAIN reqs : reqs[r].tag \in Tags \cup {NoTag}
    /\ flushed \subseteq RealIds /\ torn \in BOOLEAN

\* The reference count counts: one for the connection until cleanupconn is
\* through, one per fid in the map, one per request not yet freed.  It reaches
\* zero, and the connection is freed, exactly when nothing refers to it, not
\* even a call in progress, unless a write failed inside the answer to a flush.
RefCount ==
    LET own == conn \/ \E c \in Frames : c.op = "cleanup"
    IN  /\ ref = (IF own THEN 1 ELSE 0) + Cardinality(OpenFids) + Cardinality(DOMAIN reqs)
        /\ freed <=> ref = 0
        /\ freed => stack = <<>> \/ torn

\* Every request the application keeps can be found by its tag, so that a flush,
\* the client's or the one cleanupconn makes up, reaches it; and the map holds
\* no freed request.
TagMapComplete ==
    /\ TypeOK
    /\ \A r \in RealIds : Held(r) => tagmap[reqs[r].tag] = r
    /\ \A t \in Tags : tagmap[t] # Nil => tagmap[t] \in DOMAIN reqs

Dangles(q) == Stale \in {q.pfid, q.pnew}

\* A request of the client that nobody has answered loses its fid.
FidLost(r) == Held(r) /\ ~Dangles(reqs[r]) /\ Dangles(reqs'[r])

\* ixp_respond is at a clunk that cleanupconn made up.
VoidsFid == Top("respond") /\ Head(stack).r \in {ClunkOf(f) : f \in Fids}

\* The clunks that cleanupconn makes up come after its flushes: one frees a fid
\* under a request of the client only when the application has put off the
\* answer to the flush of that request.
FlushPutOff == VoidsFid => \A r \in RealIds : FidLost(r) => Held(FlushOf(r))
FlushedFirst == [][FlushPutOff]_vars

\* What ixp_serve9conn_fd promises: after a disconnection libixp waits for all
\* responses before it frees what belongs to the connection, the fids included.
WaitsForResponses == [][VoidsFid => \A r \in RealIds : ~FidLost(r)]_vars

Answering == {i \in DOMAIN stack : stack[i].op # "cleanup"}

\* The call stack[i] answers a request that a call further in answers, or that
\* one has answered and freed.
Again(i) ==
    stack[i].r \notin DOMAIN reqs \/ \E j \in Answering : j < i /\ stack[j].r = stack[i].r

\* A request is answered once: no request is being answered by two nested calls
\* of ixp_respond, and none that was freed is.
AnsweredOnce == \A i \in Answering : ~Again(i)

\* What ixp_serve9conn_fd promises, of the calls in progress: no response is still
\* under way when its request, or the connection, is freed.
FreedLast ==
    /\ \A i \in Answering : stack[i].r \in DOMAIN reqs
    /\ freed => stack = <<>>

\* A request is answered once, with one exception: when a write fails inside the
\* answer to a flush, cleanupconn finds that flush in the tag map and answers it
\* too, while the outer answer waits to send its reply.
OneAnswer == \A i \in Answering : Again(i) => torn /\ stack[i].op = "reply"

\* Once a flush has been answered the flushed request is gone, so its answer
\* cannot follow and the client may reuse the tag.
NoReplyAfterFlush == flushed \cap DOMAIN reqs = {}

\* Once cleanupconn has run, the application holds a request of the client only
\* together with the flush made up for it: the flushes have found them all.
AllFlushed ==
    ~conn /\ stack = <<>> => \A r \in RealIds : Held(r) => Held(FlushOf(r))

\* After a hangup, whoever noticed it, everything is flushed and clunked, every
\* answer is awaited and the connection's data is freed, unless a request was
\* answered twice.
WoundDown == ~conn ~> (freed \/ Halted)
=============================================================================
