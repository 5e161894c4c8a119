------------------------------ MODULE FidPaths ------------------------------
(***************************************************************************)
(* What the walking helpers of lib/libixp/srv_util.c promise the handlers  *)
(* of a file server: a fid stands for the files on the way from the root   *)
(* to one file; a walk goes from there by its names, to the end or not at  *)
(* all, and changes no other fid.                                          *)
(***************************************************************************)
EXTENDS Integers, Sequences, SequencesExt

CONSTANTS
    Fids,       \* fid numbers
    NoPath,     \* the path of a fid that is not in use
    Paths,      \* the files there may be, as sequences of names from the root
    Ps,         \* what the p of a file may be
    Walks       \* sequences of names that clients walk by

VARIABLES
    path,       \* fid -> the files it leads along, each a [name, p]
    tree,       \* file -> the p of the file there, 0 for none
    reply       \* the answer to the last walk

vars == <<path, tree, reply>>

Names(files) == [i \in DOMAIN files |-> files[i].name]

\* One name of a walk from the place at, which is [ok, files].
Onward(at, name) ==
    LET here == Names(at.files)
        child == Append(here, name)
    IN  IF ~at.ok THEN at
        ELSE IF name = ".." THEN [at EXCEPT !.files = IF @ = <<>> THEN @ ELSE Front(@)]
        ELSE IF name = "." THEN [at EXCEPT !.ok = tree[here] > 0]
        ELSE IF child \in Paths /\ tree[child] > 0
        THEN [at EXCEPT !.files = Append(@, [name |-> name, p |-> tree[child]])]
        ELSE [at EXCEPT !.ok = FALSE]

Walked(files, names) ==
    LET after[k \in 0 .. Len(names)] ==
            IF k = 0 THEN [ok |-> TRUE, files |-> files] ELSE Onward(after[k - 1], names[k])
    IN  after[Len(names)]

Init ==
    /\ path = [f \in Fids |-> NoPath]
    /\ tree = [x \in Paths |-> 1]
    /\ reply = "none"

Attach(f) ==
    /\ path[f] = NoPath
    /\ path' = [path EXCEPT ![f] = <<>>]
    /\ UNCHANGED <<tree, reply>>

Walk(f) ==
    /\ UNCHANGED tree
    /\ path[f] # NoPath
    /\ \E names \in Walks :
        LET to == Walked(path[f], names)
        IN  /\ reply' = IF to.ok THEN "ok" ELSE "file not found"
            /\ \E newfid \in {f} \cup {g \in Fids : path[g] = NoPath} :
                path' = [path EXCEPT ![newfid] = IF to.ok THEN to.files ELSE @]

Clunk(f) ==
    /\ path[f] # NoPath
    /\ path' = [path EXCEPT ![f] = NoPath]
    /\ UNCHANGED <<tree, reply>>

TreeChanges ==
    /\ UNCHANGED <<reply, path>>
    /\ \E x \in Paths, p \in Ps : tree' = [tree EXCEPT ![x] = p]

Next ==
    \/ TreeChanges
    \/ \E f \in Fids : Attach(f) \/ Clunk(f) \/ Walk(f)

Spec == Init /\ [][Next]_vars
=============================================================================
