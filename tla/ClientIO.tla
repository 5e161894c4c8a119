------------------------------ MODULE ClientIO ------------------------------
(***************************************************************************)
(* Reading and writing through one open IxpCFid that threads share,        *)
(* lib/libixp/client.c: initfid, _pread, _pwrite and the functions that    *)
(* call them under f->iolock.  A transfer is cut into chunks of at most    *)
(* iounit bytes, one RPC each.  The file is one of a foreign server, which *)
(* may serve less than it was asked for, or one that the helpers of        *)
(* SrvFile serve: a directory, whose listing may grow meanwhile, or a      *)
(* buffer.  Bytes are named by their position in the file, entries of a    *)
(* directory by their place in its listing, both from 0.                   *)
(***************************************************************************)
EXTENDS SrvFile, FiniteSets

CONSTANTS
    Threads,       \* threads using the fid
    Nil,           \* nobody
    Msize,         \* c->msize, at least 24 (ixp_mountfd)
    Iounits,       \* iounits the server may announce in its ropen
    Files,         \* files it may be: [kind, size, max, append, entries]
    Removes,       \* entries of a directory may be removed while it is read
    MaxEntries,    \* bound: entries of a directory
    Excess,        \* bytes by which a foreign server may report more than it was asked
    MaxCount,      \* bound: bytes asked for in one call
    MaxCalls,      \* bound: calls made
    Kinds          \* the functions called: "read", "pread", "write", "pwrite"

FileType == [kind : {"foreign", "buffer", "dir"}, size : Nat, max : Nat,
             append : BOOLEAN, entries : Seq(Nat)]

\* The longest a buffer may get: its max or, without one, what a uint and the
\* terminating nul leave.
Limit(max) == IF max # 0 THEN max ELSE UintMod - 2

ASSUME ClientIOAssumption ==
    /\ Msize \in Nat /\ Msize >= 24
    /\ Iounits \subseteq Nat
    /\ MaxEntries \in Nat /\ Excess \in Nat /\ MaxCount \in Nat /\ MaxCalls \in Nat
    /\ Removes \in BOOLEAN
    /\ Nil \notin Threads
    /\ Kinds \subseteq {"read", "pread", "write", "pwrite"}
    /\ \A f \in Files :
        /\ f \in FileType
        /\ f.kind = "buffer" => f.size <= Limit(f.max) /\ f.max < UintMod
        /\ f.kind = "dir" => \A i \in DOMAIN f.entries : f.entries[i] > 0

VARIABLES
    file,      \* the file: its kind ("foreign", "buffer" or "dir"), its size in
               \* bytes, the buffer's max and DMAPPEND, the directory's entries
    iounit,    \* f->iounit
    offset,    \* f->offset
    holder,    \* the thread that holds f->iolock, or Nil
    pc,        \* "idle", "lock", "chunk" or "unlock"
    call,      \* what the thread was asked: [kind, count, base, again]; again: by
               \* ixpc, which calls ixp_read until it returns nothing
    len,       \* len of _pread or _pwrite
    ret,       \* what _pread or _pwrite returned
    data,      \* what the thread's buffer was filled from or stored at
    ncalls,    \* calls made
    stream,    \* what successful ixp_reads and ixp_writes
               \* transferred, in the order the calls returned
    overrun,   \* a server reported more written than it was given
    parity     \* of the RPCs made: a loop that makes RPCs is not stuttering

vars == <<file, iounit, offset, holder, pc, call, len, ret, data, ncalls, stream, overrun,
          parity>>

\* initfid: what the server announced, or the most that fits in a message.
Unit(announced) ==
    IF announced = 0 \/ announced > Msize - 24 THEN Msize - 24 ELSE announced

NoCall == [kind |-> "read", count |-> 0, base |-> 0, again |-> FALSE]

Init ==
    /\ file \in Files
    /\ \E a \in Iounits : iounit = Unit(a)
    /\ offset = 0
    /\ holder = Nil
    /\ pc = [t \in Threads |-> "idle"]
    /\ call = [t \in Threads |-> NoCall]
    /\ len = [t \in Threads |-> 0]
    /\ ret = [t \in Threads |-> 0]
    /\ data = [t \in Threads |-> <<>>]
    /\ ncalls = 0
    /\ stream = <<>>
    /\ overrun = FALSE
    /\ parity = 0

Reads(t) == call[t].kind \in {"read", "pread"}
Stored(t) == call[t].kind \in {"read", "write"}   \* uses f->offset

\* A call of ixp_read, ixp_pread, ixp_write or ixp_pwrite.
Call(t, kind, count, base) ==
    /\ pc[t] = "idle"
    /\ ncalls < MaxCalls
    /\ kind \in {"read", "write"} => base = 0
    /\ file.kind = "dir" => kind = "read"
    /\ ncalls' = ncalls + 1
    /\ call' = [call EXCEPT ![t] = [kind |-> kind, count |-> count, base |-> base, again |-> FALSE]]
    /\ pc' = [pc EXCEPT ![t] = "lock"]
    /\ UNCHANGED <<file, iounit, offset, holder, len, ret, data, stream, overrun, parity>>

\* xread and xls of ixpc: read to the end, iounit bytes at a time.
ReadAll(t) ==
    /\ pc[t] = "idle"
    /\ ncalls < MaxCalls
    /\ ncalls' = ncalls + 1
    /\ call' = [call EXCEPT ![t] = [kind |-> "read", count |-> iounit, base |-> 0, again |-> TRUE]]
    /\ pc' = [pc EXCEPT ![t] = "lock"]
    /\ UNCHANGED <<file, iounit, offset, holder, len, ret, data, stream, overrun, parity>>

\* Take f->iolock and call _pread or _pwrite with the offset to begin at.
Lock(t) ==
    /\ pc[t] = "lock"
    /\ holder = Nil
    /\ holder' = t
    /\ call' = [call EXCEPT ![t].base = IF Stored(t) THEN offset ELSE @]
    /\ len' = [len EXCEPT ![t] = 0]
    /\ data' = [data EXCEPT ![t] = <<>>]
    /\ pc' = [pc EXCEPT ![t] = "chunk"]
    /\ UNCHANGED <<file, iounit, offset, ret, ncalls, stream, overrun, parity>>

\* The size of the next chunk.
Asked(t) == Smaller(call[t].count - len[t], iounit)

\* Another RPC: _pread tests before, _pwrite after the first.
MoreChunks(t) == len[t] < call[t].count \/ (~Reads(t) /\ len[t] = 0)

\* Mutant: the position in the file is not advanced from chunk to chunk.
AtStart(t) == call[t].base

\* Where in the file the next chunk begins.
At(t) == call[t].base + len[t]

Run(from, n) == [i \in 1 .. n |-> from + i - 1]

\* What a foreign server may do: serve less, up to the end of the file, or say
\* that it moved more than it was asked to.
ForeignAnswers(t) ==
    LET left == IF At(t) < file.size THEN file.size - At(t) ELSE 0
        most == IF Reads(t) THEN Smaller(Asked(t), left) ELSE Asked(t)
    IN  {[count |-> k, data |-> Run(At(t), Smaller(k, Asked(t))), file |-> file] :
            k \in 0 .. most \cup Asked(t) + 1 .. Asked(t) + Excess}

\* The answer of a server that leaves a buffer to ixp_srv_readbuf and writebuf.
BufferAnswer(t) ==
    LET k == Readbuf(file.size, At(t), Asked(t))
        w == Writebuf(file.size, file.max, file.append, At(t), Asked(t))
    IN  IF Reads(t)
        THEN [count |-> k, data |-> Run(At(t), k), file |-> file]
        ELSE [count |-> w.count, data |-> Run(w.at, w.count), file |-> [file EXCEPT !.size = w.len]]

\* The answer of a server that leaves a directory to ixp_srv_readdir.
DirAnswer(t) ==
    LET packed == Readdir(file.entries, At(t), Smaller(Asked(t), iounit))
    IN  [count |-> Bytes(file.entries, packed),
         data |-> [i \in DOMAIN packed |-> packed[i] - 1], file |-> file]

Answers(t) ==
    CASE file.kind = "foreign" -> ForeignAnswers(t)
      [] file.kind = "buffer" -> {BufferAnswer(t)}
      [] file.kind = "dir" -> {DirAnswer(t)}

Return(t, n) ==
    /\ ret' = [ret EXCEPT ![t] = n]
    /\ pc' = [pc EXCEPT ![t] = "unlock"]

\* Mutant: _pread takes whatever count the server reports.
ChunkUnchecked(t) ==
    /\ pc[t] = "chunk"
    /\ MoreChunks(t)
    /\ \E a \in Answers(t) :
        /\ len' = [len EXCEPT ![t] = @ + a.count]
        /\ data' = [data EXCEPT ![t] = @ \o a.data]
        /\ file' = a.file
        /\ overrun' = (overrun \/ (~Reads(t) /\ a.count > Asked(t)))
        /\ IF a.count < Asked(t) \/ len[t] + a.count >= call[t].count
           THEN Return(t, len[t] + a.count)
           ELSE UNCHANGED <<pc, ret>>
    /\ parity' = 1 - parity
    /\ UNCHANGED <<iounit, offset, holder, call, ncalls, stream>>

\* _pread, _pwrite: one RPC that succeeds; a short one is the last.  _pwrite takes
\* whatever count the server reports.
Chunk(t) ==
    /\ pc[t] = "chunk"
    /\ MoreChunks(t)
    /\ \E a \in Answers(t) :
        /\ Reads(t) => a.count <= Asked(t)
        /\ len' = [len EXCEPT ![t] = @ + a.count]
        /\ data' = [data EXCEPT ![t] = @ \o a.data]
        /\ file' = a.file
        /\ overrun' = (overrun \/ (~Reads(t) /\ a.count > Asked(t)))
        /\ IF a.count < Asked(t) \/ len[t] + a.count >= call[t].count
           THEN Return(t, len[t] + a.count)
           ELSE UNCHANGED <<pc, ret>>
    /\ parity' = 1 - parity
    /\ UNCHANGED <<iounit, offset, holder, call, ncalls, stream>>

\* _pread: an answer longer than was asked for makes the whole call fail.
ChunkTooLong(t) ==
    /\ pc[t] = "chunk"
    /\ MoreChunks(t)
    /\ Reads(t)
    /\ \E a \in Answers(t) : a.count > Asked(t)
    /\ Return(t, -1)
    /\ UNCHANGED <<file, iounit, offset, holder, call, len, data, ncalls, stream, overrun,
                   parity>>

\* _pread, _pwrite: an RPC that fails; so does the whole call.
ChunkFails(t) ==
    /\ pc[t] = "chunk"
    /\ MoreChunks(t)
    /\ Return(t, -1)
    /\ UNCHANGED <<file, iounit, offset, holder, call, len, data, ncalls, stream, overrun,
                   parity>>

\* _pread of nothing returns at once.
NoChunk(t) ==
    /\ pc[t] = "chunk"
    /\ ~MoreChunks(t)
    /\ Return(t, len[t])
    /\ UNCHANGED <<file, iounit, offset, holder, call, len, data, ncalls, stream, overrun,
                   parity>>

\* The thread returns, or reads on, and the locals are gone.
Forget(t) ==
    LET on == call[t].again /\ ret[t] > 0 IN
    /\ pc' = [pc EXCEPT ![t] = IF on THEN "lock" ELSE "idle"]
    /\ call' = [call EXCEPT ![t] = IF on THEN [@ EXCEPT !.base = 0] ELSE NoCall]
    /\ len' = [len EXCEPT ![t] = 0]
    /\ ret' = [ret EXCEPT ![t] = 0]
    /\ data' = [data EXCEPT ![t] = <<>>]
    /\ parity' = 0

\* Mutant: a short transfer does not count.
UnlockInFull(t) ==
    /\ pc[t] = "unlock"
    /\ holder' = Nil
    /\ offset' = IF Stored(t) /\ ret[t] = call[t].count THEN (offset + ret[t]) % UintMod ELSE offset
    /\ stream' = IF Stored(t) /\ ret[t] > 0 THEN stream \o data[t] ELSE stream
    /\ Forget(t)
    /\ UNCHANGED <<file, iounit, ncalls, overrun>>

\* Mutant: a call that fails returns without unlocking.
UnlockNot(t) ==
    /\ pc[t] = "unlock"
    /\ holder' = IF ret[t] < 0 THEN t ELSE Nil
    /\ offset' = IF Stored(t) /\ ret[t] > 0 THEN (offset + ret[t]) % UintMod ELSE offset
    /\ stream' = IF Stored(t) /\ ret[t] > 0 THEN stream \o data[t] ELSE stream
    /\ Forget(t)
    /\ UNCHANGED <<file, iounit, ncalls, overrun>>

\* Advance f->offset after ixp_read and ixp_write, unlock, return.
Unlock(t) ==
    /\ pc[t] = "unlock"
    /\ holder' = Nil
    /\ offset' = IF Stored(t) /\ ret[t] > 0 THEN (offset + ret[t]) % UintMod ELSE offset
    /\ stream' = IF Stored(t) /\ ret[t] > 0 THEN stream \o data[t] ELSE stream
    /\ Forget(t)
    /\ UNCHANGED <<file, iounit, ncalls, overrun>>

\* The application adds a file to the directory, or removes one.
DirChanges ==
    /\ file.kind = "dir"
    /\ ncalls < MaxCalls
    /\ LET e == file.entries
           grown == {Append(e, n) : n \in IF Len(e) < MaxEntries THEN 1 .. MaxCount ELSE {}}
           cut == {[e EXCEPT ![i] = 0] : i \in IF Removes THEN DOMAIN e ELSE {}}
       IN  \E changed \in grown \cup cut : file' = [file EXCEPT !.entries = changed]
    /\ UNCHANGED <<iounit, offset, holder, pc, call, len, ret, data, ncalls, stream, overrun,
                   parity>>

Step(t) == Lock(t) \/ Chunk(t) \/ NoChunk(t) \/ Unlock(t)

Next ==
    \/ \E t \in Threads : Step(t) \/ ChunkFails(t) \/ ChunkTooLong(t)
    \/ \E t \in Threads, kind \in Kinds, count \in 0 .. MaxCount, base \in 0 .. MaxCount :
            Call(t, kind, count, base)
    \/ \E t \in Threads : ReadAll(t)
    \/ DirChanges

Spec == Init /\ [][Next]_vars

\* Threads run and the server answers.  Nothing is assumed of the lock beyond
\* that it is granted to somebody: the number of calls is bounded.
FairSpec == Spec /\ \A t \in Threads : WF_vars(Step(t))

-----------------------------------------------------------------------------
(* Properties.                                                             *)

\* Every variable stays in its type; a chunk and its header fit in a message.
TypeOK ==
    /\ iounit \in 0 .. Msize - 24
    /\ offset \in 0 .. UintMod - 1
    /\ holder \in Threads \cup {Nil}
    /\ pc \in [Threads -> {"idle", "lock", "chunk", "unlock"}]
    /\ \A t \in Threads :
        /\ call[t].kind \in {"read", "pread", "write", "pwrite"}
        /\ len[t] \in Nat /\ ret[t] \in Nat \cup {-1}
        /\ call[t].count \in 0 .. MaxCount \/ call[t].count = iounit
    /\ ncalls \in 0 .. MaxCalls /\ overrun \in BOOLEAN /\ parity \in {0, 1}

\* The ixp_reads and ixp_writes of all threads together go through the file in
\* order, every byte once, whatever is interleaved, served short, refused, or
\* done in between with ixp_pread and ixp_pwrite.  Reading a directory in
\* pieces of any size gives every entry once, whole and in order, although
\* ixp_srv_readdir finds its place by adding up sizes anew each time and the
\* directory grows.  (Writes to an append-only file go to its end instead, and a
\* server that reports more than it was given makes _pwrite leave a gap.)
StreamInOrder ==
    ~file.append /\ ~overrun => \A i \in DOMAIN stream :
        LET last == IF i = 1 THEN -1 ELSE stream[i - 1]
            removed == IF file.kind = "dir" THEN {e \in DOMAIN file.entries : file.entries[e] = 0}
                       ELSE {}
        IN  stream[i] > last /\ \A k \in last + 1 .. stream[i] - 1 : k + 1 \in removed

\* The items of data[t] begin at the offset the call was told, and take up as
\* many bytes as _pread or _pwrite counted.
Covers(t, first) ==
    IF file.kind = "dir"
    THEN /\ call[t].base = Bytes(file.entries, Run(1, first))
         /\ len[t] = Bytes(file.entries, Run(first + 1, Len(data[t])))
    ELSE /\ first = call[t].base \/ (file.append /\ ~Reads(t))
         /\ len[t] = Len(data[t])

\* What a call transfers is one contiguous run of the file that begins where the
\* call was told to, is not longer than was asked for and, unless the call
\* fails, is as long as it reports, also when the server stopped short or reports
\* having read more than was asked for, and until it reports more written.
Contiguous ==
    /\ TypeOK
    /\ ~overrun => \A t \in Threads : pc[t] \in {"chunk", "unlock"} =>
        /\ \E first \in 0 .. UintMod + MaxCount :
            data[t] = Run(first, Len(data[t])) /\ Covers(t, first)
        /\ len[t] <= call[t].count
        /\ pc[t] = "unlock" => ret[t] \in {-1, len[t]}

\* What the comment on ixp_write says: it returns "the number of bytes actually
\* written".
ReturnsWritten ==
    \A t \in Threads : pc[t] = "unlock" /\ ~Reads(t) /\ ret[t] >= 0 => ret[t] = Len(data[t])

\* The length of a buffer stays within max or, without one, below what a uint
\* and the terminating nul leave, so that ixp_srv_writebuf's subtraction cannot
\* wrap; and a buffer ends with the last byte that a write says was stored.
BufferExact ==
    file.kind = "buffer" =>
        /\ file.size <= Limit(file.max)
        /\ \A t \in Threads : pc[t] = "unlock" /\ ~Reads(t) /\ ret[t] > 0 =>
                Last(data[t]) = file.size - 1

\* A read of something ends with nothing, which ixpc takes for the end of the
\* file, only at the end of a buffer, and of a directory only when all its
\* entries were read or the next does not fit into what was asked for.
EndIsEnd ==
    [][\A t \in Threads :
        pc[t] = "chunk" /\ pc'[t] = "unlock" /\ Reads(t) /\ ret'[t] = 0 /\ call[t].count > 0 =>
            CASE file.kind = "foreign" -> TRUE
              [] file.kind = "buffer" -> call[t].base >= file.size
              [] file.kind = "dir" ->
                    \A i \in DOMAIN file.entries : i > Len(stream) /\ file.entries[i] > 0 =>
                        \E j \in Len(stream) + 1 .. i :
                            file.entries[j] > Smaller(call[t].count, iounit)]_vars

\* Every read and every write returns, and lets the others in.
IOReturns == \A t \in Threads : pc[t] # "idle" ~> pc[t] = "idle"
=============================================================================
