------------------------------ MODULE SrvFile ------------------------------
(***************************************************************************)
(* What the helpers of lib/libixp/srv_util.c do with the data of a file:   *)
(* ixp_srv_readdir lists a directory, ixp_srv_readbuf and ixp_srv_writebuf *)
(* serve a buffer in memory.                                               *)
(***************************************************************************)
EXTENDS Integers, Sequences, SequencesExt

CONSTANT UintMod    \* 2^32, the range of a uint, scaled down

ASSUME SrvFileAssumption == UintMod \in Nat /\ UintMod > 2

Smaller(a, b) == IF a < b THEN a ELSE b

-----------------------------------------------------------------------------
(* Directories.  A listing is the sequence of the sizes of its entries'     *)
(* stats; an entry that was removed has size 0.                            *)

\* Where ixp_srv_readdir's loop begins: where the next entry begins, the room
\* left, whether an entry did not fit, and the entries packed.
Fresh(size) == [offset |-> 0, size |-> size, full |-> FALSE, packed |-> <<>>]

\* Mutant: an entry must leave room.
ReaddirTight(sizes, offset, size) ==
    LET after[i \in 0 .. Len(sizes)] ==
            IF i = 0 THEN Fresh(size) ELSE LET a == after[i - 1] IN
            IF sizes[i] = 0 \/ a.full THEN a
            ELSE IF a.offset < offset THEN [a EXCEPT !.offset = @ + sizes[i]]
            ELSE IF a.size <= sizes[i] THEN [a EXCEPT !.full = TRUE]
            ELSE [a EXCEPT !.offset = @ + sizes[i], !.size = @ - sizes[i],
                           !.packed = Append(@, i)]
    IN  after[Len(sizes)].packed

\* ixp_srv_readdir: the entries packed into size bytes, from the first that
\* begins at offset or later, up to the first that does not fit.  (Functions, not
\* folds: ClientIOProofs reasons about listings of any length.)
Readdir(sizes, offset, size) ==
    LET after[i \in 0 .. Len(sizes)] ==
            IF i = 0 THEN Fresh(size) ELSE LET a == after[i - 1] IN
            IF sizes[i] = 0 \/ a.full THEN a
            ELSE IF a.offset < offset THEN [a EXCEPT !.offset = @ + sizes[i]]
            ELSE IF a.size < sizes[i] THEN [a EXCEPT !.full = TRUE]
            ELSE [a EXCEPT !.offset = @ + sizes[i], !.size = @ - sizes[i],
                           !.packed = Append(@, i)]
    IN  after[Len(sizes)].packed

\* The bytes the entries in seq take.
Bytes(sizes, seq) ==
    LET sum[k \in 0 .. Len(seq)] == IF k = 0 THEN 0 ELSE sum[k - 1] + sizes[seq[k]]
    IN  sum[Len(seq)]

-----------------------------------------------------------------------------
(* Buffers.                                                                *)

\* ixp_srv_readbuf: how many bytes it serves.
Readbuf(len, offset, count) ==
    IF offset >= len THEN 0 ELSE Smaller(len - offset, count)

\* Mutant: the room for the terminating nul is not counted.
WritebufFull(len, max, append, offset, count) ==
    LET at == IF append THEN len ELSE offset
        refused == [len |-> len, at |-> at, count |-> 0]
        stored(n) == [len |-> (at + n) % UintMod, at |-> at, count |-> n]
    IN  IF offset >= UintMod \/ at > len \/ count = 0 THEN refused
        ELSE IF max # 0 THEN stored(IF at >= max THEN 0 ELSE Smaller(count, max - at))
        ELSE IF count > UintMod - 1 - at THEN refused
        ELSE stored(count)

\* ixp_srv_writebuf: the buffer's new length, and how many bytes were stored
\* and where.  A full buffer takes what fits; one that grows refuses what would
\* leave its length no room for the terminating nul.
Writebuf(len, max, append, offset, count) ==
    LET at == IF append THEN len ELSE offset
        refused == [len |-> len, at |-> at, count |-> 0]
        stored(n) == [len |-> (at + n) % UintMod, at |-> at, count |-> n]
    IN  IF offset >= UintMod \/ at > len \/ count = 0 THEN refused
        ELSE IF max # 0 THEN stored(IF at >= max THEN 0 ELSE Smaller(count, max - at))
        ELSE IF count > (UintMod - 1 - at - 1) % UintMod THEN refused
        ELSE stored(count)
=============================================================================
