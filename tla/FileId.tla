------------------------------- MODULE FileId -------------------------------
(***************************************************************************)
(* The IxpFileIds of lib/libixp/srv_util.c, as a file server uses them.    *)
(* The aux of a fid points to the IxpFileId of its file, whose next points *)
(* to that of the directory it was reached through, and so on to the root. *)
(* Fids share the ends of their chains, so the references to an IxpFileId  *)
(* are counted.  The free ones are on a list that is filled in chunks;     *)
(* which of them is handed out makes no difference, so it is a set here.   *)
(* Each handler runs to its end in the server's one thread.  The files     *)
(* themselves, and lookup, belong to the application.                      *)
(***************************************************************************)
EXTENDS Integers, Sequences, FiniteSets, SequencesExt

CONSTANTS
    Fids,         \* fid numbers
    Nil,          \* the null pointer
    Paths,        \* the files there may be, as sequences of names from the root
    Volatile,     \* those whose volatil is set
    Walks,        \* sequences of names that clients walk by
    PoolChunk,    \* POOL_CHUNK
    MaxFiles,     \* bound: IxpFileIds allocated
    MaxLost,      \* bound: IxpFileIds lost
    MaxP          \* bound: values of the p of a volatile file

ASSUME FileIdAssumption ==
    /\ Nil \notin Nat /\ Nil \notin Seq([name : STRING, p : 0 .. MaxP])
    /\ IsFiniteSet(Paths) /\ Paths \cup Walks \subseteq Seq(STRING)
    /\ <<>> \in Paths /\ \A x \in Paths : x # <<>> => Front(x) \in Paths
    /\ Volatile \subseteq Paths
    /\ PoolChunk \in Nat \ {0} /\ MaxFiles \in Nat /\ MaxLost \in Nat /\ MaxP \in Nat \ {0}

VARIABLES
    mem,      \* [heap, free, lost]: the IxpFileIds of all pools, each a
              \* [next, nref, file, p]; the free ones; those nothing points to
    aux,      \* fid -> the IxpFileId its aux points to, Nil when not in use
    tree,     \* file -> the p of the file there, 0 for none
    reply     \* the answer to the last walk

vars == <<mem, aux, tree, reply>>

Empty == [next |-> Nil, nref |-> 0, file |-> <<>>, p |-> 0]

Init ==
    /\ mem = [heap |-> <<>>, free |-> {}, lost |-> {}]
    /\ aux = [f \in Fids |-> Nil]
    /\ tree = [x \in Paths |-> 1]
    /\ reply = "none"

-----------------------------------------------------------------------------
(* Operations on the memory m.                                             *)

\* A loop over the elements of seq: FoldLeft(op, s, seq), each s computed once.
Over(op(_, _), s, seq) ==
    LET after[k \in 0 .. Len(seq)] ==
            IF k = 0 THEN s ELSE LET before == after[k - 1] IN op(before, seq[k])
    IN  after[Len(seq)]

\* The IxpFileIds from id along next to the end of its chain.
Chain(m, id) ==
    LET from[i \in DOMAIN m.heap] ==
            <<i>> \o IF m.heap[i].next = Nil THEN <<>> ELSE from[m.heap[i].next]
    IN  from[id]

\* ixp_srv_getfile, which makes a chunk when none is free; the caller fills it in.
Supply(m) ==
    IF m.free # {} THEN m
    ELSE [m EXCEPT !.heap = @ \o [i \in 1 .. PoolChunk |-> Empty],
                   !.free = Len(m.heap) + 1 .. Len(m.heap) + PoolChunk]

NewFile(m) == Min(Supply(m).free)

GetFile(m, next, file, p) ==
    LET s == Supply(m)
        id == NewFile(m)
    IN  [s EXCEPT !.heap[id] = [next |-> next, nref |-> 1, file |-> file, p |-> p],
                  !.free = @ \ {id}]

\* ixp_srv_freefile
FreeFile(m, id) ==
    IF m.heap[id].nref # 1 THEN [m EXCEPT !.heap[id].nref = @ - 1]
    ELSE [m EXCEPT !.heap[id] = Empty, !.free = @ \cup {id}]

\* The loops of walkandclone and of freefid: free a chain, front to end.
FreeChain(m, id) == Over(FreeFile, m, Chain(m, id))

\* Mutant: the rest of the chain is not counted again.
CloneFilesHead(m, id) == GetFile(m, m.heap[id].next, m.heap[id].file, m.heap[id].p)

\* ixp_srv_clonefiles: copy the first, count the others once more.
CloneFiles(m, id) ==
    LET count(s, i) == [s EXCEPT !.heap[i].nref = @ + 1]
    IN  Over(count, GetFile(m, m.heap[id].next, m.heap[id].file, m.heap[id].p),
                 Tail(Chain(m, id)))

-----------------------------------------------------------------------------
(* ixp_srv_walkandclone.                                                   *)

\* The application's lookup finds the file of this name in a directory, or ".".
Child(m, id, name) ==
    IF name = "." THEN m.heap[id].file ELSE Append(m.heap[id].file, name)
Found(m, id, name) == Child(m, id, name) \in Paths /\ tree[Child(m, id, name)] > 0

\* ".." leads to the next of the chain, which has a reference of its own.
WalkUp(w) ==
    IF w.m.heap[w.file].next = Nil THEN w
    ELSE [w EXCEPT !.m = FreeFile(@, w.file), !.file = w.m.heap[@].next]

\* A name that lookup finds; what it found for "." is dropped.
WalkDown(w, name) ==
    LET child == Child(w.m, w.file, name)
        new == NewFile(w.m)
        m == GetFile(w.m, IF name = "." THEN Nil ELSE w.file, child, tree[child])
    IN  IF name = "." THEN [w EXCEPT !.m = [m EXCEPT !.lost = m.lost \cup {new}]]
        ELSE [w EXCEPT !.m = m, !.file = new]

\* Mutant: the walk goes on behind a name that is not there.
WalkNameOn(w, name) ==
    IF ~w.ok THEN w
    ELSE IF name = ".." THEN WalkUp(w)
    ELSE IF Found(w.m, w.file, name) THEN WalkDown(w, name)
    ELSE w

\* One iteration of the loop; not ok: it was left.
WalkName(w, name) ==
    IF ~w.ok THEN w
    ELSE IF name = ".." THEN WalkUp(w)
    ELSE IF Found(w.m, w.file, name) THEN WalkDown(w, name)
    ELSE [w EXCEPT !.ok = FALSE]

\* The whole of ixp_srv_walkandclone, as the handler of a walk that request.c
\* accepted; on an error request.c destroys the new fid, whose aux is not set.
Walk(f, newfid, names) ==
    /\ aux[f] # Nil
    /\ newfid = f \/ aux[newfid] = Nil
    /\ LET begin == [m |-> CloneFiles(mem, aux[f]), file |-> NewFile(mem), ok |-> TRUE]
           w == Over(WalkName, begin, names)
       IN  /\ mem' = IF ~w.ok THEN FreeChain(w.m, w.file)
                     ELSE IF newfid = f THEN FreeChain(w.m, aux[f])
                     ELSE w.m
           /\ aux' = [aux EXCEPT ![newfid] = IF w.ok THEN w.file ELSE @]
           /\ reply' = IF w.ok THEN "ok" ELSE "file not found"
    /\ Len(mem'.heap) <= MaxFiles /\ Cardinality(mem'.lost) <= MaxLost
    /\ UNCHANGED tree

-----------------------------------------------------------------------------
(* The other handlers, and the application.                                *)

\* The attach handler gives the fid an IxpFileId of the root.
Attach(f) ==
    /\ aux[f] = Nil
    /\ mem' = GetFile(mem, Nil, <<>>, tree[<<>>])
    /\ aux' = [aux EXCEPT ![f] = NewFile(mem)]
    /\ Len(mem'.heap) <= MaxFiles
    /\ UNCHANGED <<tree, reply>>

\* The fid is clunked: freefid frees its chain.
Clunk(f) ==
    /\ aux[f] # Nil
    /\ mem' = FreeChain(mem, aux[f])
    /\ aux' = [aux EXCEPT ![f] = Nil]
    /\ UNCHANGED <<tree, reply>>

\* ixp_srv_readdir: lookup without a name makes a list of ".", and the children,
\* linked by next, which is freed when the reply has been packed.
Listing(m, dir) ==
    LET children == {x \in Paths : x # <<>> /\ Front(x) = dir /\ tree[x] > 0}
        add(s, x) == [m |-> GetFile(s.m, s.file, x, tree[x]), file |-> NewFile(s.m)]
    IN  Over(add, [m |-> m, file |-> Nil], SetToSeq(children) \o <<dir>>)

Readdir(f) ==
    /\ aux[f] # Nil
    /\ LET list == Listing(mem, mem.heap[aux[f]].file)
       IN  mem' = FreeChain(list.m, list.file)
    /\ Len(mem'.heap) <= MaxFiles
    /\ UNCHANGED <<aux, tree, reply>>

\* ixp_srv_freefilepool, at shutdown when no references are left.
FreeFilePool ==
    /\ \A f \in Fids : aux[f] = Nil
    /\ mem' = [heap |-> <<>>, free |-> {}, lost |-> {}]
    /\ UNCHANGED <<aux, tree, reply>>

\* The application removes a file without children, or creates one.
Removed(x) ==
    /\ x # <<>> /\ tree[x] > 0
    /\ \A y \in Paths : y # <<>> /\ Front(y) = x => tree[y] = 0
    /\ tree' = [tree EXCEPT ![x] = 0]
    /\ UNCHANGED <<mem, aux, reply>>

Created(x) ==
    /\ x # <<>> /\ tree[x] = 0 /\ tree[Front(x)] > 0
    /\ \E p \in IF x \in Volatile THEN 1 .. MaxP ELSE {1} : tree' = [tree EXCEPT ![x] = p]
    /\ UNCHANGED <<mem, aux, reply>>

Next ==
    \/ \E f \in Fids : Attach(f) \/ Clunk(f) \/ Readdir(f)
    \/ \E f, newfid \in Fids, names \in Walks : Walk(f, newfid, names)
    \/ FreeFilePool
    \/ \E x \in Paths : Removed(x) \/ Created(x)

Spec == Init /\ [][Next]_vars

-----------------------------------------------------------------------------
(* ixp_srv_verifyfile.                                                     *)

\* Mutant: the directories on the way are not verified.
VerifyFileOnly(f) ==
    LET chain == Chain(mem, aux[f])
        id == chain[1]
    IN  Len(chain) = 1 \/
        LET name == Last(mem.heap[id].file)
            found == Child(mem, chain[2], name)
        IN  /\ Found(mem, chain[2], name)
            /\ found \notin Volatile \/ tree[found] = mem.heap[id].p

\* Whether the file of a fid is still there: so must the directories be, from
\* the end of the chain, and lookup must find the file, with the same p if it
\* is volatile.
VerifyFile(f) ==
    LET chain == Chain(mem, aux[f])
        ok[k \in DOMAIN chain] ==
            k = Len(chain) \/
            LET name == Last(mem.heap[chain[k]].file)
                found == Child(mem, chain[k + 1], name)
            IN  /\ ok[k + 1]
                /\ Found(mem, chain[k + 1], name)
                /\ found \notin Volatile \/ tree[found] = mem.heap[chain[k]].p
    IN  ok[1]

-----------------------------------------------------------------------------
(* Properties.                                                             *)

InUse == {f \in Fids : aux[f] # Nil}

\* Every variable stays in its type.
TypeOK ==
    /\ DOMAIN mem.heap \subseteq 1 .. MaxFiles
    /\ \A i \in DOMAIN mem.heap :
        mem.heap[i] \in [next : DOMAIN mem.heap \cup {Nil}, nref : Nat, file : Paths, p : 0 .. MaxP]
    /\ mem.free \cup mem.lost \subseteq DOMAIN mem.heap
    /\ aux \in [Fids -> DOMAIN mem.heap \cup {Nil}]
    /\ tree \in [Paths -> 0 .. MaxP]
    /\ reply \in {"none", "ok", "file not found"}

\* Every IxpFileId counts the chains it is on, is free exactly when it is on
\* none, and is on the free list once: fids share chains that walks extend,
\* shorten and replace, yet none is freed under another fid and none is lost,
\* except the one that each walk over "." drops.
FilesCounted ==
    /\ TypeOK
    /\ \A i \in DOMAIN mem.heap :
        mem.heap[i].nref = Cardinality({f \in InUse : Contains(Chain(mem, aux[f]), i)})
                           + (IF i \in mem.lost THEN 1 ELSE 0)
    /\ mem.free = {i \in DOMAIN mem.heap : mem.heap[i].nref = 0}

\* The files from the root to that of a fid, read off its chain.
Spelled(f) ==
    LET down == Reverse(Chain(mem, aux[f]))
    IN  [k \in 1 .. Len(down) - 1 |->
            [name |-> Last(mem.heap[down[k + 1]].file), p |-> mem.heap[down[k + 1]].p]]

Abstract == INSTANCE FidPaths WITH
    NoPath <- Nil,
    Ps <- 0 .. MaxP,
    path <- [f \in Fids |-> IF f \in InUse THEN Spelled(f) ELSE Nil]

\* The chains implement paths: a walk that is answered leads where its names
\* say, one that is refused leads nowhere, and no fid moves with another.
ImplementsFidPaths == Abstract!Spec

\* ixp_srv_verifyfile tells whether the files that a fid was walked along are
\* there still: none removed and, of the volatile ones, none replaced,
\* whichever fid it was cloned from.
VerifyRight ==
    \A f \in InUse :
        LET files == Spelled(f)
            prefix(k) == [i \in 1 .. k |-> files[i].name]
        IN  VerifyFile(f) <=>
            \A k \in DOMAIN files :
                /\ tree[prefix(k)] > 0
                /\ prefix(k) \in Volatile => tree[prefix(k)] = files[k].p
=============================================================================
