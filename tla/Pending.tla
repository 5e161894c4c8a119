------------------------------ MODULE Pending ------------------------------
(***************************************************************************)
(* Broadcast files, the ixp_pending_* functions of lib/libixp/srv_util.c:  *)
(* data written to an IxpPending is queued for every fid that has the file *)
(* open, and handed to its reads as they come.  The server has one thread  *)
(* and each function is one action, but the loop of ixp_pending_write,     *)
(* which need not end, is one action per iteration.                        *)
(***************************************************************************)
EXTENDS Lists

CONSTANTS
    Fids,         \* fids that open the file
    MaxWrites,    \* bound: calls of ixp_pending_write
    MaxReads,     \* bound: TRead requests
    MaxLinks,     \* bound: links on pending->req; more are not told apart
    Outstanding   \* reads a client sends on a fid before it waits for one

ASSUME PendingAssumption ==
    /\ MaxWrites \in Nat /\ MaxReads \in Nat /\ MaxLinks \in Nat
    /\ Outstanding \in Nat \ {0}

VARIABLES
    open,       \* pending->fids
    closed,     \* fids that were clunked
    queue,      \* p->queue: fid -> data queued for it
    reqs,       \* pending->req, the requests waiting for data
    local,      \* ixp_pending_write: the list that begins at its req_link
    writing,    \* ixp_pending_write is in its last loop
    nwrite,     \* writes made; the nth writes datum n
    rfid,       \* the fid of every TRead received
    waiting,    \* TReads not answered
    due,        \* data written while the fid was open
    got,        \* data the fid's reads were answered with
    hung,       \* fids whose connection a failed reply in that loop hung up
    parity      \* of the iterations made: a loop that goes on is not stuttering

vars == <<open, closed, queue, reqs, local, writing, nwrite, rfid, waiting, due, got, hung,
          parity>>

None == [f \in Fids |-> <<>>]

Init ==
    /\ open = {} /\ closed = {}
    /\ queue = None /\ due = None /\ got = None
    /\ reqs = <<>> /\ local = <<>>
    /\ writing = FALSE
    /\ nwrite = 0
    /\ rfid = <<>> /\ waiting = {} /\ hung = {}
    /\ parity = 0

\* ixp_pending_pushfid, when the fid is opened.
PushFid(f) ==
    /\ ~writing
    /\ f \notin open \cup closed
    /\ open' = open \cup {f}
    /\ UNCHANGED <<closed, queue, reqs, local, writing, nwrite, rfid, waiting, due, got, hung,
                   parity>>

Reading(f) == {r \in waiting : rfid[r] = f}

\* ixp_cleanupconn runs inside the loop, called by ixp_hangup in ixp_respond.
Nested == hung \cap open # {}

\* Mutant: data that is queued is handed out from the wrong end.
TakenLast(q) == [dat |-> q[Len(q)], rest |-> SubSeq(q, 1, Len(q) - 1)]

\* The first of the data queued for a fid.
Taken(q) == [dat |-> Head(q), rest |-> Tail(q)]

\* ixp_pending_respond with data queued: answer request r of fid f.
Answer(f, r) ==
    /\ queue' = [queue EXCEPT ![f] = Taken(@).rest]
    /\ got' = [got EXCEPT ![f] = Append(@, Taken(queue[f]).dat)]
    /\ waiting' = waiting \ {r}

\* A TRead arrives, ixp_pending_respond: answered from the queue, or linked.
Read(f) ==
    /\ ~writing
    /\ f \in open
    /\ Len(rfid) < MaxReads /\ Cardinality(Reading(f)) < Outstanding
    /\ rfid' = Append(rfid, f)
    /\ IF queue[f] # <<>>
       THEN Answer(f, Len(rfid')) /\ UNCHANGED reqs
       ELSE /\ reqs' = Append(reqs, Len(rfid'))
            /\ waiting' = waiting \cup {Len(rfid')}
            /\ UNCHANGED <<queue, got>>
    /\ UNCHANGED <<open, closed, local, writing, nwrite, due, hung, parity>>

\* ixp_pending_write: queue the data for every fid, take over the list of
\* requests, enter the loop.
Write ==
    /\ ~writing
    /\ nwrite < MaxWrites
    /\ nwrite' = nwrite + 1
    /\ queue' = [f \in Fids |-> IF f \in open THEN Append(queue[f], nwrite') ELSE queue[f]]
    /\ due' = [f \in Fids |-> IF f \in open THEN Append(due[f], nwrite') ELSE due[f]]
    /\ local' = reqs /\ reqs' = <<>>
    /\ writing' = TRUE
    /\ UNCHANGED <<open, closed, rfid, waiting, got, hung, parity>>

\* The answer to a read of f is written, or cannot be: then ixp_respond hangs up
\* the connection, which has f and may have other fids.
Replied(f) == hung' \in {hung} \cup {hung \cup fids : fids \in {S \in SUBSET open : f \in S}}

\* One iteration: ixp_pending_respond for the first request of the list, which
\* unlinks it when there is data for it.
LoopAnswer ==
    /\ writing /\ local # <<>> /\ ~Nested
    /\ LET r == Head(local) IN
        /\ queue[rfid[r]] # <<>>
        /\ Answer(rfid[r], r) /\ Replied(rfid[r])
    /\ local' = Tail(local)
    /\ parity' = 1 - parity
    /\ UNCHANGED <<open, closed, reqs, writing, nwrite, rfid, due>>

\* ... and otherwise links it on pending->req once more and leaves it where it is.
LoopLink ==
    /\ writing /\ local # <<>> /\ ~Nested
    /\ queue[rfid[Head(local)]] = <<>>
    /\ reqs' = IF Len(reqs) < MaxLinks THEN Append(reqs, Head(local)) ELSE reqs
    /\ parity' = 1 - parity
    /\ UNCHANGED <<open, closed, queue, local, writing, nwrite, rfid, waiting, due, got, hung>>

\* Mutant: the loop ends after the first request.
LoopEndEarly ==
    /\ writing /\ parity = 1
    /\ writing' = FALSE /\ local' = <<>> /\ reqs' = local \o reqs
    /\ UNCHANGED <<open, closed, queue, nwrite, rfid, waiting, due, got, hung, parity>>

\* Mutant: the loop ends at the other list's head, which it does not come to.
LoopEndOther ==
    /\ writing /\ local = <<>> /\ reqs # <<>> /\ ~Nested
    /\ writing' = FALSE
    /\ UNCHANGED <<open, closed, queue, reqs, local, nwrite, rfid, waiting, due, got, hung,
                   parity>>

LoopEnd ==
    /\ writing /\ local = <<>> /\ ~Nested
    /\ writing' = FALSE
    /\ UNCHANGED <<open, closed, queue, reqs, local, nwrite, rfid, waiting, due, got, hung,
                   parity>>

\* Mutant: the request is looked for on pending->req only.
FlushHead(r) ==
    /\ writing => rfid[r] \in hung
    /\ reqs' = Dropped(reqs, {r})
    /\ waiting' = waiting \ {r}
    /\ UNCHANGED <<open, closed, queue, local, writing, nwrite, rfid, due, got, hung, parity>>

\* ixp_pending_flush, and the answer to the flushed read: it is unlinked from the
\* list it is on.  Inside the loop, for the reads of the connection hung up.
Flush(r) ==
    /\ writing => rfid[r] \in hung
    /\ reqs' = Dropped(reqs, {r}) /\ local' = Dropped(local, {r})
    /\ waiting' = waiting \ {r}
    /\ UNCHANGED <<open, closed, queue, writing, nwrite, rfid, due, got, hung, parity>>

\* ixp_pending_clunk: interrupt the fid's reads that are on pending->req, unlink
\* it, free what is queued.  Inside the loop, when ixp_cleanupconn has flushed
\* the reads.
Clunk(f) ==
    /\ f \in open
    /\ writing => f \in hung /\ Reading(f) = {}
    /\ reqs' = Dropped(reqs, Reading(f))
    /\ waiting' = waiting \ (Reading(f) \cap Members(reqs))
    /\ open' = open \ {f} /\ closed' = closed \cup {f}
    /\ queue' = [queue EXCEPT ![f] = <<>>]
    /\ UNCHANGED <<local, writing, nwrite, rfid, due, got, hung, parity>>

Loop == LoopAnswer \/ LoopLink \/ LoopEnd

Requests ==
    \/ \E f \in Fids : PushFid(f) \/ Read(f) \/ Clunk(f)
    \/ \E r \in waiting : Flush(r)

Next == Requests \/ Write \/ Loop

Spec == Init /\ [][Next]_vars

\* ixp_pending_write runs, and so does the ixp_cleanupconn that it calls.
FairSpec == Spec /\ WF_vars(Loop) /\ WF_vars(writing /\ Requests)

-----------------------------------------------------------------------------
(* Properties.                                                             *)

\* Every variable stays in its type.
TypeOK ==
    /\ open \subseteq Fids /\ closed \subseteq Fids
    /\ \A h \in {queue, due, got} : h \in [Fids -> Seq(1 .. MaxWrites)]
    /\ reqs \in Seq(1 .. MaxReads) /\ local \in Seq(1 .. MaxReads)
    /\ rfid \in Seq(Fids) /\ waiting \subseteq 1 .. MaxReads /\ hung \subseteq Fids
    /\ writing \in BOOLEAN /\ parity \in {0, 1}

\* Every open fid gets everything written since it was opened, in order and
\* once: what its reads were answered with, then what is queued.  Reads that are
\* flushed and fids that come and go take nothing away.
EveryEventOnce == \A f \in open : got[f] \o queue[f] = due[f]

\* "If there is a read request pending for a given fid, the data is written
\* immediately": between calls no read waits on a fid that has data.
NoReadKeptWaiting == ~writing => \A r \in waiting : queue[rfid[r]] = <<>>

\* Between calls the list holds every unanswered read once.  Nor does a call ever
\* follow a link to a freed request: inside ixp_pending_write, too, what is linked
\* are reads that wait, of fids that are open, although a failed reply makes
\* ixp_cleanupconn flush and clunk while the loop runs.
LinkedOnce ==
    /\ TypeOK
    /\ Members(reqs) \cup Members(local) = waiting
    /\ \A r \in waiting : rfid[r] \in open
    /\ ~writing => Len(reqs) = Cardinality(waiting)

\* There is data for every waiting read.
Fed == \A f \in Fids : Cardinality(Reading(f)) <= Len(queue[f])

\* ixp_pending_write returns, when there is data for every waiting read: always
\* with clients that wait for a read before they send the next on that fid.
WriteEnds == writing /\ Fed ~> ~writing
=============================================================================
