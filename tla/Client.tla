------------------------------- MODULE Client -------------------------------
(***************************************************************************)
(* The 9P client, lib/libixp/client.c: mounting, and how fids are handed   *)
(* out, used and put back while threads open, create, remove, stat and     *)
(* close files on one connection.  An RPC is one action (muxrpc gives the  *)
(* reply to this call, or nothing: see Rpc); getfid and putfid are the     *)
(* critical sections of c->lk.                                             *)
(***************************************************************************)
EXTENDS Integers, Sequences

CONSTANTS
    Threads,     \* threads using the client
    MaxFids,     \* bound: fids in use or leaked at one time
    MaxLost      \* bound: RPCs the server carries out whose reply is lost

ASSUME ClientAssumption == MaxFids \in Nat /\ MaxLost \in Nat

RootFid == 1

VARIABLES
    mount,      \* ixp_mountfd: "version", "attach", then "up" or "failed"; "freed"
    pc,         \* the RPC or the putfid a thread is about to make, or "idle"
    op,         \* what the thread was asked to do
    fid,        \* f->fid of the thread's IxpCFid
    lastfid,    \* c->lastfid
    freefid,    \* c->freefid, the fids put back, latest first
    handles,    \* fids of the IxpCFids the application holds
    leaked,     \* fids neither in use nor put back
    served,     \* fids that exist at the server
    down,       \* the connection is lost
    lost        \* replies lost so far

vars == <<mount, pc, op, fid, lastfid, freefid, handles, leaked, served, down, lost>>

Ops == {"open", "create", "remove", "stat"}

Busy(t) == pc[t] # "idle"

Init ==
    /\ mount = "version"
    /\ pc = [t \in Threads |-> "idle"]
    /\ op = [t \in Threads |-> "stat"]
    /\ fid = [t \in Threads |-> 0]
    /\ lastfid = RootFid
    /\ freefid = <<>>
    /\ handles = {} /\ leaked = {} /\ served = {}
    /\ down = FALSE
    /\ lost = 0

-----------------------------------------------------------------------------
(* ixp_mountfd.                                                            *)

\* The version exchange: agreed on, or refused, malformed or not answered.
Version ==
    /\ mount = "version"
    /\ mount' \in IF down THEN {"failed"} ELSE {"attach", "failed"}
    /\ UNCHANGED <<pc, op, fid, lastfid, freefid, handles, leaked, served, down, lost>>

\* The attach makes the root fid, which no other fid may equal.
AttachOk ==
    /\ mount = "attach" /\ ~down
    /\ mount' = "up"
    /\ served' = {RootFid}
    /\ UNCHANGED <<pc, op, fid, lastfid, freefid, handles, leaked, down, lost>>

AttachFail ==
    /\ mount = "attach"
    /\ mount' = "failed"
    /\ UNCHANGED <<pc, op, fid, lastfid, freefid, handles, leaked, served, down, lost>>

-----------------------------------------------------------------------------
(* The fid list.                                                           *)

\* Mutant: a fid is taken from the free list and stays on it.
GetFidKept(t) ==
    IF freefid # <<>>
    THEN /\ fid' = [fid EXCEPT ![t] = Head(freefid)]
         /\ UNCHANGED <<freefid, lastfid>>
    ELSE /\ lastfid < MaxFids + RootFid
         /\ lastfid' = lastfid + 1
         /\ fid' = [fid EXCEPT ![t] = lastfid + 1]
         /\ UNCHANGED freefid

\* getfid
GetFid(t) ==
    IF freefid # <<>>
    THEN /\ fid' = [fid EXCEPT ![t] = Head(freefid)]
         /\ freefid' = Tail(freefid)
         /\ UNCHANGED lastfid
    ELSE /\ lastfid < MaxFids + RootFid
         /\ lastfid' = lastfid + 1
         /\ fid' = [fid EXCEPT ![t] = lastfid + 1]
         /\ UNCHANGED freefid

\* Mutant: only the highest fid is put back.
PutFidDrops(t) ==
    /\ pc[t] = "putfid"
    /\ lastfid' = IF fid[t] = lastfid THEN lastfid - 1 ELSE lastfid
    /\ pc' = [pc EXCEPT ![t] = "idle"]
    /\ UNCHANGED <<mount, op, fid, freefid, handles, leaked, served, down, lost>>

\* putfid, the last thing walk, clunk and ixp_remove do with a fid.
PutFid(t) ==
    /\ pc[t] = "putfid"
    /\ IF fid[t] = lastfid
       THEN lastfid' = lastfid - 1 /\ UNCHANGED freefid
       ELSE freefid' = <<fid[t]>> \o freefid /\ UNCHANGED lastfid
    /\ pc' = [pc EXCEPT ![t] = "idle"]
    /\ UNCHANGED <<mount, op, fid, handles, leaked, served, down, lost>>

-----------------------------------------------------------------------------
(* The operations.                                                         *)

\* ixp_open, ixp_create, ixp_remove and ixp_stat begin with walk, walk with getfid.
Begin(t, o) ==
    /\ mount = "up"
    /\ pc[t] = "idle"
    /\ GetFid(t)
    /\ op' = [op EXCEPT ![t] = o]
    /\ pc' = [pc EXCEPT ![t] = "walk"]
    /\ UNCHANGED <<mount, handles, leaked, served, down, lost>>

\* ixp_close
Close(t, f) ==
    /\ pc[t] = "idle"
    /\ f \in handles
    /\ handles' = handles \ {f}
    /\ fid' = [fid EXCEPT ![t] = f]
    /\ pc' = [pc EXCEPT ![t] = "clunk"]
    /\ UNCHANGED <<mount, op, lastfid, freefid, leaked, served, down, lost>>

\* The server makes the new fid unless it has one of that number.
WalkOk(t) ==
    /\ pc[t] = "walk" /\ ~down
    /\ fid[t] \notin served
    /\ served' = served \cup {fid[t]}
    /\ pc' = [pc EXCEPT ![t] = op[t]]
    /\ UNCHANGED <<mount, op, fid, lastfid, freefid, handles, leaked, down, lost>>

\* An error, or a walk that stopped short: the server made no fid.
WalkRefused(t) ==
    /\ pc[t] = "walk" /\ ~down
    /\ pc' = [pc EXCEPT ![t] = "putfid"]
    /\ UNCHANGED <<mount, op, fid, lastfid, freefid, handles, leaked, served, down, lost>>

\* TOpen or TCreate succeeds: the IxpCFid goes to the caller.
Opened(t) ==
    /\ pc[t] \in {"open", "create"} /\ ~down
    /\ handles' = handles \cup {fid[t]}
    /\ pc' = [pc EXCEPT ![t] = "idle"]
    /\ UNCHANGED <<mount, op, fid, lastfid, freefid, leaked, served, down, lost>>

\* TOpen or TCreate is refused, or TStat answered: clunk.
ThenClunk(t) ==
    /\ pc[t] \in {"open", "create", "stat"}
    /\ pc' = [pc EXCEPT ![t] = "clunk"]
    /\ UNCHANGED <<mount, op, fid, lastfid, freefid, handles, leaked, served, down, lost>>

\* TRemove is answered; either way the server has dropped the fid.
Removed(t) ==
    /\ pc[t] = "remove" /\ ~down
    /\ served' = served \ {fid[t]}
    /\ pc' = [pc EXCEPT ![t] = "putfid"]
    /\ UNCHANGED <<mount, op, fid, lastfid, freefid, handles, leaked, down, lost>>

Clunked(t) ==
    /\ pc[t] = "clunk" /\ ~down
    /\ served' = served \ {fid[t]}
    /\ pc' = [pc EXCEPT ![t] = "putfid"]
    /\ UNCHANGED <<mount, op, fid, lastfid, freefid, handles, leaked, down, lost>>

\* Mutant: a fid whose clunk was not confirmed is put back.
ClunkFailsPutting(t) ==
    /\ pc[t] = "clunk"
    /\ pc' = [pc EXCEPT ![t] = "putfid"]
    /\ UNCHANGED <<mount, op, fid, lastfid, freefid, handles, leaked, served, down, lost>>

\* clunk fails (an error reply, no reply, or a send that failed): the fid is
\* not put back.  A server of this library drops the fid even on error.
ClunkFails(t) ==
    /\ pc[t] = "clunk"
    /\ served' \in {served, served \ {fid[t]}}
    /\ leaked' = leaked \cup {fid[t]}
    /\ pc' = [pc EXCEPT ![t] = "idle"]
    /\ UNCHANGED <<mount, op, fid, lastfid, freefid, handles, down, lost>>

\* No connection: dofcall fails at once.
RpcDown(t) ==
    /\ down
    /\ pc[t] \in {"walk", "remove"}
    /\ pc' = [pc EXCEPT ![t] = "putfid"]
    /\ UNCHANGED <<mount, op, fid, lastfid, freefid, handles, leaked, served, down, lost>>

\* A walk is carried out by the server and its reply is lost (ixp_msg2fcall
\* rejects it), or a remove never reaches the server.
RpcLost(t) ==
    /\ lost < MaxLost
    /\ pc[t] \in {"walk", "remove"}
    /\ served' = IF pc[t] = "walk" THEN served \cup {fid[t]} ELSE served
    /\ lost' = lost + 1
    /\ pc' = [pc EXCEPT ![t] = "putfid"]
    /\ UNCHANGED <<mount, op, fid, lastfid, freefid, handles, leaked, down>>

\* ixp_unmount, called when no other call is in progress: the client is freed
\* with the fids that were put back; those of files left open stay behind.
Unmount ==
    /\ mount = "up"
    /\ \A t \in Threads : ~Busy(t)
    /\ mount' = "freed"
    /\ lastfid' = RootFid /\ freefid' = <<>>
    /\ handles' = {} /\ leaked' = {} /\ served' = {}
    /\ down' = TRUE
    /\ UNCHANGED <<pc, op, fid, lost>>

GoDown ==
    /\ ~down
    /\ down' = TRUE
    /\ UNCHANGED <<mount, pc, op, fid, lastfid, freefid, handles, leaked, served, lost>>

Step(t) ==
    \/ WalkOk(t) \/ WalkRefused(t) \/ Opened(t) \/ ThenClunk(t) \/ Removed(t)
    \/ Clunked(t) \/ ClunkFails(t) \/ RpcDown(t) \/ RpcLost(t) \/ PutFid(t)

Next ==
    \/ Version \/ AttachOk \/ AttachFail \/ GoDown \/ Unmount
    \/ \E t \in Threads : Step(t)
    \/ \E t \in Threads, o \in Ops : Begin(t, o)
    \/ \E t \in Threads, f \in handles : Close(t, f)

Spec == Init /\ [][Next]_vars

-----------------------------------------------------------------------------
(* Properties.                                                             *)

\* Every variable stays in its type.
TypeOK ==
    /\ mount \in {"version", "attach", "up", "failed", "freed"}
    /\ pc \in [Threads -> {"idle", "walk", "clunk", "putfid"} \cup Ops]
    /\ op \in [Threads -> Ops]
    /\ fid \in [Threads -> Nat \ {RootFid}]
    /\ lastfid \in Nat \ {0} /\ freefid \in Seq(Nat)
    /\ handles \subseteq Nat /\ leaked \subseteq Nat /\ served \subseteq Nat
    /\ down \in BOOLEAN /\ lost \in Nat

Put == {freefid[i] : i \in DOMAIN freefid}
Own(t) == IF Busy(t) THEN {fid[t]} ELSE {}
InUse == handles \cup UNION {Own(t) : t \in Threads}

\* A fid has one owner: two threads, or a thread and a handle of the
\* application, never work with the same fid, a fid on the free list is nobody's
\* and is there once, and none is the root fid or above lastfid, so that the
\* next getfid is fresh.
OneOwner ==
    /\ \A s, t \in Threads : s # t => Own(s) \cap Own(t) = {}
    /\ \A t \in Threads : Own(t) \cap handles = {}
    /\ \A i, j \in DOMAIN freefid : freefid[i] = freefid[j] => i = j
    /\ Put \cap InUse = {} /\ leaked \cap (Put \cup InUse) = {}
    /\ \A f \in Put \cup InUse \cup leaked : RootFid < f /\ f <= lastfid

\* Every fid up to lastfid is accounted for: the list gives back what was put.
AllFidsKnown == \A f \in RootFid + 1 .. lastfid : f \in Put \cup InUse \cup leaked

\* The number a walk asks for is not in use at the server: fids are put back
\* only once the server has dropped them.  A lost reply to a walk ends this.
WalkIsFresh ==
    lost = 0 /\ ~down => \A t \in Threads : pc[t] = "walk" => fid[t] \notin served
=============================================================================
