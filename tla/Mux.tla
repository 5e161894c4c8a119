-------------------------------- MODULE Mux --------------------------------
(***************************************************************************)
(* The client's RPC multiplexer, lib/libixp/rpc.c.  Threads share one      *)
(* connection; every call takes a tag, writes its request, and then either *)
(* reads replies for everybody (it is the muxer) or sleeps until the muxer *)
(* hands it its reply or passes it the role.  Every access to shared state *)
(* is made with mux->lk held, so a critical section of lk is one action.   *)
(***************************************************************************)
EXTENDS Integers, Sequences, FiniteSets

CONSTANTS
    Threads,      \* callers of muxrpc
    Nil,          \* the null pointer
    Dangling,     \* a muxer pointer into the frame of a call that returned
    TagLimit,     \* maxtag - mintag
    MaxCalls,     \* bound: calls made by one thread
    AsyncValues,  \* values r.async can have: initrpc leaves it uninitialised
    SendMayFail,  \* whether fcall2msg/sendmsg may report failure
    MaxGarbled    \* bound: replies that ixp_msg2fcall rejects

\* A request and its reply carry the tag; thr and n identify the call.
Messages == [tag : Nat, thr : Threads, n : Nat]

ASSUME MuxAssumption ==
    /\ Nil \notin Messages
    /\ Nil \notin Threads /\ Dangling \notin Threads /\ Nil # Dangling
    /\ TagLimit \in Nat \ {0}
    /\ MaxCalls \in Nat
    /\ MaxGarbled \in Nat
    /\ AsyncValues \subseteq BOOLEAN
    /\ SendMayFail \in BOOLEAN

VARIABLES
    pc,        \* where each thread is between two critical sections
    calls,     \* calls[t]: how many calls t has begun
    tag,       \* r.tag - mux->mintag of t's rpc
    async,     \* r.async
    p,         \* r.p: Nil, or the message that was handed to t
    got,       \* the message t has received and not yet dispatched
    wait,      \* mux->wait: slot -> rpc
    nwait,     \* mux->nwait
    mwait,     \* mux->mwait
    freetag,   \* mux->freetag
    sleepq,    \* mux->sleep, the list of rpcs without a reply, newest first
    muxer,     \* mux->muxer
    pending,   \* requests the server holds, or whose replies are in transit
    eof,       \* the server closed the connection
    garbled    \* replies found malformed so far

callVars == <<calls, tag, async, p, got>>
tagVars  == <<wait, nwait, mwait, freetag>>
netVars  == <<pending, eof, garbled>>
vars == <<pc, callVars, tagVars, sleepq, muxer, netVars>>

Locations == {"idle", "gettag", "tagsleep", "send", "check", "asleep",
              "recv", "dispatch", "giveup", "crashed"}

Request(t) == [tag |-> tag[t], thr |-> t, n |-> calls[t]]

\* The message answers the call that t is making or made last.
Answers(m, t) == m.thr = t /\ m.n = calls[t]

\* t's rpc owns a slot of the tag table.
HasTag(t) == pc[t] \in {"send", "check", "asleep", "recv", "dispatch", "giveup"}

\* t is inside the receive loop of muxrpc.
Receiving(t) == pc[t] \in {"recv", "dispatch", "giveup"}

Sleepers == {sleepq[i] : i \in DOMAIN sleepq}

Init ==
    /\ pc = [t \in Threads |-> "idle"]
    /\ calls = [t \in Threads |-> 0]
    /\ tag = [t \in Threads |-> 0]
    /\ async = [t \in Threads |-> FALSE]
    /\ p = [t \in Threads |-> Nil]
    /\ got = [t \in Threads |-> Nil]
    /\ wait = [i \in 0 .. -1 |-> Nil]
    /\ nwait = 0 /\ mwait = 0 /\ freetag = 0
    /\ sleepq = <<>>
    /\ muxer = Nil
    /\ pending = {}
    /\ eof = FALSE
    /\ garbled = 0

-----------------------------------------------------------------------------
(* Helpers of the critical sections.                                       *)

Least(S) == CHOOSE i \in S : \A j \in S : i <= j

\* enqueue: at the front of the list.
Enqueue(q, r) == <<r>> \o q

\* dequeue: unlink r.
Dequeue(q, r) ==
    LET k == CHOOSE i \in DOMAIN q : q[i] = r
    IN  SubSeq(q, 1, k - 1) \o SubSeq(q, k + 1, Len(q))

\* Mutant: electmuxer elects nobody.
ElectedNone(q) == Nil

\* electmuxer: the first rpc of the list that is not async, if any.
Elected(q) ==
    LET eligible == {i \in DOMAIN q : ~async[q[i]]}
    IN  IF eligible = {} THEN Nil
        ELSE q[Least(eligible)]

\* Mutant: the wakeup is forgotten.
WakeLost(at, r) == at

\* thread->wake(&r->r): only r itself ever sleeps on r->r.
Wake(at, r) == IF r # Nil /\ at[r] = "asleep" THEN [at EXCEPT ![r] = "check"] ELSE at

\* Mutant: puttag does not wake those who wait for a tag.
TagWokenNobody(at) == {at}

\* thread->wake(&mux->tagrend): one of the threads waiting for a tag, if any.
TagWoken(at) ==
    LET waiters == {t \in Threads : at[t] = "tagsleep"}
    IN  IF waiters = {} THEN {at}
        ELSE {[at EXCEPT ![w] = "gettag"] : w \in waiters}

\* gettag: the first free slot at or after freetag, else the first free one.
FirstFree(table, start) ==
    LET free == {i \in DOMAIN table : table[i] = Nil}
        high == {i \in free : i >= start}
        cand == IF high # {} THEN high ELSE free
    IN  Least(cand)

TableFull == nwait = mwait
CanGrow == mwait < TagLimit
GrownSize == IF mwait = 0 THEN 1 ELSE 2 * mwait

GrownTable == [i \in 0 .. GrownSize - 1 |-> IF i < mwait THEN wait[i] ELSE Nil]

\* Mutant: the slot is released and not counted.
PutTagUncounted(t) ==
    /\ wait' = [wait EXCEPT ![tag[t]] = Nil]
    /\ freetag' = tag[t]
    /\ UNCHANGED <<nwait, mwait>>

\* puttag: release t's slot and remember it as the next one to try.
PutTag(t) ==
    /\ wait' = [wait EXCEPT ![tag[t]] = Nil]
    /\ nwait' = nwait - 1
    /\ freetag' = tag[t]
    /\ UNCHANGED mwait

-----------------------------------------------------------------------------
(* The steps of muxrpc.                                                    *)

\* muxrpc, initrpc: a new rpc on the stack, at an address that may be the one
\* a dangling muxer still points to.
Call(t) ==
    /\ pc[t] = "idle"
    /\ calls[t] < MaxCalls
    /\ pc' = [pc EXCEPT ![t] = "gettag"]
    /\ calls' = [calls EXCEPT ![t] = @ + 1]
    /\ p' = [p EXCEPT ![t] = Nil]
    /\ \E a \in AsyncValues : async' = [async EXCEPT ![t] = a]
    /\ muxer' \in IF muxer = Dangling THEN {Dangling, t} ELSE {muxer}
    /\ UNCHANGED <<tag, got, tagVars, sleepq, netVars>>

\* sendrpc, first critical section: gettag finds a slot (after growing the
\* table when it is full), then enqueue.
TakeTag(t) ==
    /\ pc[t] = "gettag"
    /\ TableFull => CanGrow
    /\ LET table == IF TableFull THEN GrownTable ELSE wait
           start == IF TableFull THEN mwait ELSE freetag
           i == FirstFree(table, start)
       IN  /\ wait' = [table EXCEPT ![i] = t]
           /\ mwait' = IF TableFull THEN GrownSize ELSE mwait
           /\ freetag' = start
           /\ tag' = [tag EXCEPT ![t] = i]
    /\ nwait' = nwait + 1
    /\ sleepq' = Enqueue(sleepq, t)
    /\ pc' = [pc EXCEPT ![t] = "send"]
    /\ UNCHANGED <<calls, async, p, got, muxer, netVars>>

\* gettag: no tag left, sleep on tagrend.
SleepForTag(t) ==
    /\ pc[t] = "gettag"
    /\ TableFull /\ ~CanGrow
    /\ pc' = [pc EXCEPT ![t] = "tagsleep"]
    /\ UNCHANGED <<callVars, tagVars, sleepq, muxer, netVars>>

\* sendrpc: the request is written.  Nobody reads it after a hangup.
SendOk(t) ==
    /\ pc[t] = "send"
    /\ pending' = IF eof THEN pending ELSE pending \cup {Request(t)}
    /\ pc' = [pc EXCEPT ![t] = "check"]
    /\ UNCHANGED <<callVars, tagVars, sleepq, muxer, eof, garbled>>

\* sendrpc: marshalling or writing failed; undo and return.  mux->muxer is
\* left alone, even when it is this rpc.
SendFail(t) ==
    /\ pc[t] = "send"
    /\ SendMayFail
    /\ t \in Sleepers
    /\ sleepq' = Dequeue(sleepq, t)
    /\ PutTag(t)
    /\ pc' \in TagWoken([pc EXCEPT ![t] = "idle"])
    /\ muxer' = IF muxer = t THEN Dangling ELSE muxer
    /\ UNCHANGED <<callVars, netVars>>

\* sendrpc: the rpc that failed to send was given a reply meanwhile, so that it is
\* no longer linked and dequeue dereferences null.  It takes a malformed reply:
\* the tag of the call that gave up is reused while its own answer is under way.
SendCrash(t) ==
    /\ pc[t] = "send"
    /\ SendMayFail
    /\ t \notin Sleepers
    /\ pc' = [u \in Threads |-> "crashed"]
    /\ UNCHANGED <<callVars, tagVars, sleepq, muxer, netVars>>

\* Mutant: a thread that is not the muxer does not sleep.
MustSleepNever(t) == muxer = t /\ p[t] # Nil

\* muxrpc: the condition of the sleeping loop.
MustSleep(t) == muxer # Nil /\ muxer # t /\ p[t] = Nil

Sleep(t) ==
    /\ pc[t] = "check"
    /\ MustSleep(t)
    /\ pc' = [pc EXCEPT ![t] = "asleep"]
    /\ UNCHANGED <<callVars, tagVars, sleepq, muxer, netVars>>

\* muxrpc: another thread dispatched our reply; no election.
TakeReply(t) ==
    /\ pc[t] = "check"
    /\ ~MustSleep(t) /\ p[t] # Nil
    /\ PutTag(t)
    /\ pc' \in TagWoken([pc EXCEPT ![t] = "idle"])
    /\ UNCHANGED <<callVars, sleepq, muxer, netVars>>

\* muxrpc: no reply and no other muxer; start muxing.
BecomeMuxer(t) ==
    /\ pc[t] = "check"
    /\ ~MustSleep(t) /\ p[t] = Nil
    /\ muxer' = t
    /\ pc' = [pc EXCEPT ![t] = "recv"]
    /\ UNCHANGED <<callVars, tagVars, sleepq, netVars>>

\* muxrecv: the next reply.
Recv(t) ==
    /\ pc[t] = "recv"
    /\ \E m \in pending :
        /\ got' = [got EXCEPT ![t] = m]
        /\ pending' = pending \ {m}
    /\ pc' = [pc EXCEPT ![t] = "dispatch"]
    /\ UNCHANGED <<calls, tag, async, p, tagVars, sleepq, muxer, eof, garbled>>

\* Mutant: the connection is given up with replies still unread.
RecvEofUndrained(t) ==
    /\ pc[t] = "recv"
    /\ eof
    /\ pc' = [pc EXCEPT ![t] = "giveup"]
    /\ UNCHANGED <<callVars, tagVars, sleepq, muxer, netVars>>

\* muxrecv: end of file, once every reply that was sent has been read.
RecvEof(t) ==
    /\ pc[t] = "recv"
    /\ eof /\ pending = {}
    /\ pc' = [pc EXCEPT ![t] = "giveup"]
    /\ UNCHANGED <<callVars, tagVars, sleepq, muxer, netVars>>

\* muxrecv: a reply that ixp_msg2fcall rejects reads like end of file.
RecvGarbled(t) ==
    /\ pc[t] = "recv"
    /\ garbled < MaxGarbled
    /\ \E m \in pending : pending' = pending \ {m}
    /\ garbled' = garbled + 1
    /\ pc' = [pc EXCEPT ![t] = "giveup"]
    /\ UNCHANGED <<callVars, tagVars, sleepq, muxer, eof>>

\* muxrpc: leave the receive loop with list q: electmuxer, puttag, return.
Leave(t, q, at) ==
    /\ muxer' = Elected(q)
    /\ PutTag(t)
    /\ pc' \in TagWoken(Wake([at EXCEPT ![t] = "idle"], Elected(q)))

\* Mutant: a message is handed to the newest sleeper, whatever its tag.
TargetNewest(m) == IF sleepq = <<>> THEN Nil ELSE Head(sleepq)

\* dispatchandqlock: the rpc a message is handed to, or Nil when it is dropped.
Target(m) ==
    IF m.tag \in DOMAIN wait /\ wait[m.tag] \in Sleepers THEN wait[m.tag] ELSE Nil

\* dispatchandqlock for another rpc or for none; stay in the loop.
DispatchOther(t) ==
    /\ pc[t] = "dispatch"
    /\ LET r == Target(got[t]) IN
        /\ r # t
        /\ p' = IF r = Nil THEN p ELSE [p EXCEPT ![r] = got[t]]
        /\ sleepq' = IF r = Nil THEN sleepq ELSE Dequeue(sleepq, r)
        /\ pc' = Wake([pc EXCEPT ![t] = "recv"], r)
    /\ got' = [got EXCEPT ![t] = Nil]
    /\ UNCHANGED <<calls, tag, async, tagVars, muxer, netVars>>

\* dispatchandqlock for the muxer itself; elect the next muxer and return.
DispatchSelf(t) ==
    /\ pc[t] = "dispatch"
    /\ Target(got[t]) = t
    /\ p' = [p EXCEPT ![t] = got[t]]
    /\ sleepq' = Dequeue(sleepq, t)
    /\ Leave(t, Dequeue(sleepq, t), pc)
    /\ got' = [got EXCEPT ![t] = Nil]
    /\ UNCHANGED <<calls, tag, async, netVars>>

\* Mutant: the rpc that gives up stays on the list.
GiveUpQueued(t) ==
    /\ pc[t] = "giveup"
    /\ Leave(t, sleepq, pc)
    /\ UNCHANGED <<sleepq, callVars, netVars>>

\* muxrpc: nothing was received; give up and pass the buck.
GiveUp(t) ==
    /\ pc[t] = "giveup"
    /\ sleepq' = Dequeue(sleepq, t)
    /\ Leave(t, Dequeue(sleepq, t), pc)
    /\ UNCHANGED <<callVars, netVars>>

\* pthread_cond_wait may return without a signal.
SpuriousWakeup(t) ==
    /\ pc[t] \in {"asleep", "tagsleep"}
    /\ pc' = [pc EXCEPT ![t] = IF @ = "asleep" THEN "check" ELSE "gettag"]
    /\ UNCHANGED <<callVars, tagVars, sleepq, muxer, netVars>>

\* The server hangs up; only replies already sent can still be read.
Hangup ==
    /\ ~eof
    /\ eof' = TRUE
    /\ pending' \in SUBSET pending
    /\ UNCHANGED <<pc, callVars, tagVars, sleepq, muxer, garbled>>

\* What a thread does by itself; a sleeper and a reader without input wait.
Step(t) ==
    \/ TakeTag(t) \/ SleepForTag(t) \/ SendOk(t) \/ SendFail(t) \/ SendCrash(t)
    \/ Sleep(t) \/ TakeReply(t) \/ BecomeMuxer(t)
    \/ Recv(t) \/ RecvEof(t) \/ RecvGarbled(t)
    \/ DispatchOther(t) \/ DispatchSelf(t) \/ GiveUp(t)

Next ==
    \/ \E t \in Threads : Call(t) \/ Step(t) \/ SpuriousWakeup(t)
    \/ Hangup

Spec == Init /\ [][Next]_vars

\* Scheduled threads run, and a conforming server answers or hangs up: a read
\* with a request outstanding returns.
FairSpec == Spec /\ \A t \in Threads : WF_vars(Step(t))

-----------------------------------------------------------------------------
(* Properties.                                                             *)

\* Every variable stays in its type; tags stay inside the table.
TypeOK ==
    /\ pc \in [Threads -> Locations]
    /\ calls \in [Threads -> Nat]
    /\ tag \in [Threads -> Nat]
    /\ async \in [Threads -> BOOLEAN]
    /\ p \in [Threads -> Messages \cup {Nil}]
    /\ got \in [Threads -> Messages \cup {Nil}]
    /\ mwait \in Nat /\ nwait \in Nat /\ freetag \in Nat
    /\ wait \in [0 .. mwait - 1 -> Threads \cup {Nil}]
    /\ sleepq \in Seq(Threads)
    /\ muxer \in Threads \cup {Nil, Dangling}
    /\ pending \subseteq Messages
    /\ eof \in BOOLEAN
    /\ garbled \in Nat

Occupied == {i \in DOMAIN wait : wait[i] # Nil}

TagSlots ==
    /\ \A t \in Threads : HasTag(t) => tag[t] < mwait /\ wait[tag[t]] = t
    /\ \A i \in Occupied : HasTag(wait[i]) /\ tag[wait[i]] = i

\* The tag table and the rpcs agree: a slot holds exactly the rpc whose tag it
\* is, and nwait counts the occupied slots.  So the scan of gettag finds a slot
\* whenever it is made (its abort() is not reached) and the assertion of puttag
\* holds.
TagTable == TagSlots /\ nwait = Cardinality(Occupied)

\* dequeue is called on linked rpcs only (it dereferences r->next and r->prev):
\* the list holds, once each, the rpcs that have a tag and no reply.
SleepList ==
    /\ \A i, j \in DOMAIN sleepq : sleepq[i] = sleepq[j] => i = j
    /\ Sleepers = {t \in Threads : HasTag(t) /\ p[t] = Nil}

\* The role of muxer is exclusive: no two threads read the connection, and the
\* one that does is mux->muxer.  This is the assertion in muxrpc, extended to
\* the whole receive loop, across elections, failed sends and reused frames.
OneMuxer == \A t \in Threads : Receiving(t) => muxer = t

\* No reply reaches the wrong call: what muxrpc returns was sent in answer to
\* this call of this thread, although tags are reused and another thread reads.
ReplyToCaller == \A t \in Threads : p[t] # Nil => Answers(p[t], t)

Awaited(m) ==
    /\ Answers(m, m.thr) /\ tag[m.thr] = m.tag
    /\ p[m.thr] = Nil
    /\ HasTag(m.thr) /\ pc[m.thr] # "send"

\* A tag is not reused while its old request can still be answered: every
\* request at the server, and the reply the muxer holds, belongs to the call
\* that owns its tag now and still waits, and there is one of it.
ReplyAwaited ==
    /\ \A m \in pending : Awaited(m)
    /\ \A t \in Threads : pc[t] = "dispatch" =>
            got[t] # Nil /\ Awaited(got[t]) /\ got[t] \notin pending

\* t sleeps in muxrpc and has no reply.
Waits(t) == pc[t] = "asleep" /\ p[t] = Nil

\* What electmuxer and the sleeping loop of muxrpc say of themselves: while some
\* rpc sleeps, the muxer is a call in progress that reads, or has been woken to.
SleeperWoken ==
    (\E t \in Threads : Waits(t))
        => \E u \in Threads : muxer = u /\ HasTag(u) /\ pc[u] # "asleep"

\* Nobody is left behind but in two ways: while some rpc sleeps, the muxer is a
\* call in progress and awake; or it is the rpc of a call that was elected while
\* it wrote and then failed to send; or there is none, and then the async field
\* that initrpc leaves unset is set in every sleeper.
SleeperHasMuxer ==
    (\E t \in Threads : Waits(t))
        => \/ \E u \in Threads : muxer = u /\ pc[u] \notin {"idle", "asleep"}
           \/ muxer = Dangling
           \/ muxer = Nil /\ \A t \in Threads : Waits(t) => async[t]

\* A thread that has its reply is not asleep: the wakeup of dispatchandqlock is
\* not lost between the test of r.p and the sleep.
ReplyAwake == \A t \in Threads : p[t] # Nil => pc[t] # "asleep"

\* The role of muxer is with nobody who can take it up: mux->muxer points to the
\* frame of a call whose send failed, or to a new call in that frame that has no
\* tag yet, or electmuxer skipped every sleeper as async.
RoleLost ==
    \/ muxer = Dangling
    \/ \E t \in Threads : muxer = t /\ ~HasTag(t)
    \/ muxer = Nil /\ \E t \in Threads : Waits(t) /\ async[t]

\* Every call of muxrpc returns, whoever fails to send and whatever the async
\* fields hold, unless the role of muxer is lost for good or a reply did not
\* parse: the call it was meant for may then wait until the connection closes.
CallsReturn ==
    \A t \in Threads :
        (pc[t] # "idle") ~> (pc[t] = "idle" \/ garbled > 0 \/ []RoleLost)

-----------------------------------------------------------------------------
(* The refinement.                                                         *)

\* Where a call stands for its caller.
CallState ==
    [t \in Threads |-> CASE pc[t] = "idle" -> "idle"
                         [] pc[t] \in {"gettag", "tagsleep", "send"} -> "begun"
                         [] OTHER -> "sent"]

\* What a call has been given.
CallAnswer ==
    [t \in Threads |-> IF p[t] = Nil THEN "none"
                       ELSE IF Answers(p[t], t) THEN "own" ELSE "alien"]

Abstract == INSTANCE Rpc WITH
    Callers <- Threads, state <- CallState, count <- calls, answer <- CallAnswer,
    down <- eof

\* The multiplexer implements Rpc: a call whose request was sent returns the
\* answer to that call and no other, or nothing when the connection is down.
ImplementsRpc == Abstract!Spec
=============================================================================
