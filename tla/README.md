# A TLA+ verification of libixp

libixp is a C library for 9P2000 clients and servers.  This directory holds
TLA+ modules that model its protocol machinery, TLC configurations that check
them on small instances, and TLAPS proofs of the central properties for every
instance.  Paths below are relative to the repository root.

## 1. The system

A process uses libixp as a client (`client.c` over `rpc.c`), as a server
(`request.c` and `srv_util.c` under the loop of `server.c`), or both.  Messages
are framed by `transport.c` and marshalled by `message.c`/`convert.c`.  Locks
and condition variables go through a table of functions: no-ops in `thread.c`,
real ones in `libixp_pthread`, `libixp_task`, `libixp_rubythread`.

| Component | State | Operations | What is hard |
|---|---|---|---|
| RPC multiplexer, `rpc.c` | tag table `wait/nwait/mwait/freetag`, list of sleepers, `muxer`, one `IxpRpc` per call | `muxrpc` = send, wait, perhaps read for everybody, pass the role on | threads; one reads replies for all; tags are reused; sends and reads fail |
| 9P connection, `request.c` | tag map, fid map, `ref`, the requests the application keeps | `handlefcall`, `handlereq`, `ixp_respond`, `cleanupconn` | answers come in any order or after a hangup; calls nest; flush races the answer |
| Server loop, `server.c` | connection list, `rd`, `running` | `ixp_listen`, `ixp_hangup`, `ixp_server_close`, `ixp_serverloop` | callbacks change the list while it is walked; descriptors are reused |
| Timers, `timer.c` | sorted list, `lastid` | set, void, trigger | callbacks change the list while it is walked; select's timeout |
| Client, `client.c` | free list of fids, `lastfid`, open `IxpCFid`s | mount, unmount, open, create, remove, stat, close | threads share the list; clunks fail |
| Client I/O, `client.c` | `offset`, `iounit`, `iolock` of an `IxpCFid` | `ixp_read/pread/write/pwrite` | several RPCs per call, short answers, threads |
| Broadcast files, `srv_util.c` | per-fid queues, list of waiting reads | `ixp_pending_*` | data meets reads, flushes and clunks in any order |
| File tree helpers, `srv_util.c` | reference counted `IxpFileId` chains, a pool of free ones | `ixp_srv_getfile`, `freefile`, `clonefiles`, `walkandclone`, `verifyfile`, `readdir` | counts along chains that fids share; a tree that changes under them |
| File data helpers, `srv_util.c` | the application's buffer or listing | `ixp_srv_readdir`, `readbuf`, `writebuf`, `writectl` | place found by adding up sizes anew; limits of a uint |
| Path and line cutting, `util.c`, `client.c`, `srv_util.c` | none | `ixp_tokenize`, `walkdir`, `ixp_srv_writectl` | separators at the ends and in a row |
| Integer map, `map.c` | buckets of sorted chains | insert, get, remove, exec | collisions |
| Framing, `transport.c` | position in a buffer | `ixp_sendmsg`, `ixp_recvmsg` | short reads and writes, bad sizes |
| Marshalling, `message.c`, `convert.c` | cursor in a buffer | pack and unpack | sizes, truncation |

How they interact: `client.c` calls `muxrpc` for each message and relies on
what `Rpc.tla` states: the answer belongs to this call.  `request.c` is called
by the server loop through `handlefcall` and `cleanupconn` and calls
`ixp_hangup` back; it keeps its tags and fids in two maps of `map.c` and relies
on what `KeyMap.tla` states.  The application's handlers call `ixp_respond`,
directly or through `ixp_pending_*` and `ixp_srv_*`; what `ixp_srv_readdir`
answers to one read decides where the client's next one begins.  Timers run
inside the server loop.

The properties that make each part correct are the ones the runs of section 3
check; `PROJECT.json` lists the hazards they are aimed at, line by line.

## 2. The modules

* `Mux` - `rpc.c`.  Every access to shared state is made with `mux->lk` held, so
  an action is a critical section of `lk`: `TakeTag` (first half of `sendrpc`,
  with `gettag` and `enqueue`), `SleepForTag`, `SendOk`, `SendFail`, `SendCrash`
  (`dequeue` of an rpc that is no longer linked; it takes a malformed reply), `Sleep`,
  `TakeReply`, `BecomeMuxer`, `Recv`/`RecvEof`/`RecvGarbled` (`muxrecv`),
  `DispatchOther`/`DispatchSelf` (`dispatchandqlock`; the latter goes on to
  `electmuxer` and `puttag`), `GiveUp`.  A message is a tag with the call it
  answers.  `SpuriousWakeup` is what `pthread_cond_wait` may do.  The
  `IxpRpc` lives on the caller's stack: when a call returns while
  `mux->muxer` points to it the pointer becomes `Dangling`, and a later call of
  any thread may be placed at that address.  `async` is not initialised by
  `initrpc`, so `Call` chooses it from `AsyncValues`.
* `Rpc` - abstract: what `muxrpc` promises its callers.  `Mux` ends with the
  refinement mapping.
* `Conn9` - `request.c`.  The server has one thread and calls nest, so the calls
  in progress are a stack of frames (`handle`, `respond`, `reply`, `finish`,
  `cleanup`) whose top alone moves.  Application handlers are nondeterministic:
  they answer at once, keep the request and answer later (`HandlerResponds`), or
  never, flush handlers included.  Clients do not reuse a tag in use or being
  flushed (`Conforms`; `DupTags` lets them), but may clunk or remove a fid that
  other requests use.  A request's pointer to a fid that was freed is `Stale`;
  what `ixp_respond` finds through it is any open fid or nothing (`Leads`).
  `RealLocks` chooses between pthread mutexes, which do not nest, and the no-ops
  of `thread.c`.  Any write of a reply may fail (`SendMayFail`); `torn` records
  that one has failed inside the answer to a flush, after which a request may be
  answered twice (section 6), and a call that goes on with a freed request has no
  further step (`Halted`).
* `Timer` and `Server` - `timer.c` and `server.c`.  `Server` extends `Timer`;
  what is not the loop happens in its callbacks, one action per call they make;
  any of them may hang up any connection, as `ixp_respond` and `ixp_server_close`
  do.  `next` is the pointer that `handle_conns` saves; following one to a freed
  connection (`VisitFreed`) ends in `crashed`.
  Descriptors are handed out again once closed.  Deadlines are wall-clock times:
  `ClockSetBack` sets the clock back, `MaxBack` times, while `select`, whose
  timeout is relative (`wait`), sleeps on.
* `Client` - `client.c`, the life of fids.  An RPC is one action with the
  outcomes `Rpc` allows; `getfid` and `putfid` are the critical sections of
  `c->lk`; `Unmount` ends it all.  `served` is the set of fids the server has,
  following `Conn9`.
* `SrvFile` - what `ixp_srv_readdir`, `readbuf` and `writebuf` answer, as operators
  over sizes; `UintMod` stands for 2^32.
* `ClientIO` - `client.c`, reads and writes through one shared `IxpCFid`, composed
  with the server that answers: a foreign one, which may serve less than it was
  asked for or report up to `Excess` bytes more (`overrun`: of a write, which
  `_pwrite` believes), or one that leaves a directory or a buffer to `SrvFile`.  Bytes
  are named by their position in the file, entries by their place in the listing.
  `ReadAll` is the loop of `ixpc read` and `ixpc ls`.
* `FidPaths` (abstract) and `FileId` - the `IxpFileId`s.  `FidPaths` has a path per
  fid, a tree, and walks that go to the end or not at all.  `FileId` has the heap of
  `IxpFileId`s with their links and counts; a fid's `aux` is the front of its
  chain.  `Walk` is the whole of `ixp_srv_walkandclone`.  `lookup`, the tree
  (`Removed`, `Created`), and what the handlers of attach and `freefid` do belong
  to the application: `ixp_srv_walkandclone` wants a chain that ends at the root,
  and leaves it to `freefid` to free the chain (`srv_util.c:630`).  `lost` are the `IxpFileId`s
  that walks over "." drop.
* `Text` - `ixp_tokenize`, `walkdir`, `ixp_srv_data2cstring`, `ixp_srv_writectl`.
* `Pending` - the `ixp_pending_*` functions.  Each is an action, except that the
  last loop of `ixp_pending_write` is one action per iteration because it need
  not end.  Events are numbered; `due` and `got` are history.  A reply in that loop
  may fail to be written (`Replied`): `ixp_respond` hangs up, and `cleanupconn`
  flushes the reads and clunks the fids of that connection (`hung`) before the loop
  goes on.
* `KeyMap` (abstract) and `Map` - `map.c`; `Map` holds the refinement.
* `Codec` - `convert.c` and `message.c` as operators: the fields of each message
  type, packing them, and unpacking with a cursor that ends past the end when
  something does not fit.  The uninitialised outer size of a `TWStat` is any value.
* `Transport` - `transport.c` over the bytes that `Codec` packs, with peers whose
  size fields are wrong: below the field's own size, above the buffer's, one short
  of the message, or one more than is sent.
* `MCMux`, `MCConn9`, `MCClient`, `MCClientIO`, `MCFileId`, `MCTransport` -
  definitions for TLC.  `MCFileId` walks by paths that `Tokenize` cut, and
  evaluates three assumptions on `Text` for all texts of up to five characters:
  `TokenizeNames`, `WalkdirSplits`, `WritectlLines`.
* `Lists` - linked lists as sequences (linking, unlinking), used by `Timer`,
  `Server` and `Pending`; written out instead of `SelectSeq` because the provers
  have to look into it.
* `MuxProofs`, `Conn9Proofs`, `ServerProofs` (with the timers), `ClientProofs`,
  `ClientIOProofs`, `MapPendingProofs` (`Map` and `Pending`), `FileIdProofs`,
  `TransportProofs` (with `Codec`) - theorems and proofs.

Definitions introduced by a comment "Mutant:" are deliberately wrong variants of
the definition that follows them.  They are used to make sure that each property
is able to fail, and are part of no specification.

## 3. The runs

Run one with `tlc -config <run>.cfg <module>`.

| Run | Module | Shows |
|---|---|---|
| `mux_safety` | `MCMux` | `TagTable`, `SleepList`: table, count and list agree with the calls, so the `abort()` of `gettag`, the assertion of `puttag` and a null dereference in `dequeue` are unreachable. `OneMuxer`: one reader. `ReplyToCaller`, `ReplyAwaited`: no reply reaches another call although tags are reused. `ReplyAwake`: no lost wakeup. `ImplementsRpc`. |
| `mux_live` | `MCMux` | `SleeperHasMuxer`: whoever sleeps has a muxer that is awake, unless an rpc elected while it wrote failed to send, or every sleeper's uninitialised `async` is set. `CallsReturn`: every call returns, whichever sends fail, unless the role of muxer is lost for good in one of these ways (`RoleLost`) or a reply did not parse. |
| `conn_all` | `MCConn9` | `RefCount`: freed exactly when nothing refers to the connection. `TagMapComplete`, `AllFlushed`: flush and cleanup find every kept request. `FlushedFirst`: a clunk of `cleanupconn` frees the fid of a kept request only if the answer to that request's flush was put off. `OneAnswer`: answered once, except for a flush inside whose answer a write fails. `NoReplyAfterFlush`. `WoundDown`: after a hangup, or a reply that cannot be written, the connection is cleaned up, if need be inside `ixp_respond`, and freed. |
| `conn_lock` | `MCConn9` | violated: see section 6. |
| `server_loop` | `Server` | `NextKept`: the pointer saved in `handle_conns` stays good, unless a read callback hangs up the very next connection. `ReadsReported`: no read callback on a descriptor that was reused in the same pass. `TimersAccounted`: no timer lost, fired twice, or fired after being voided. `TimersFire`: once no more timers are set, each that `ixp_nexttimer` has on its list is triggered or voided. `ServerStops`. All of it also when the clock is set back. |
| `server_order` | `Server` | violated: see section 6. |
| `client_fids` | `MCClient` | `OneOwner`, `AllFidsKnown`: the free list and `lastfid`. `WalkIsFresh`: numbers are reused only once the server dropped them. |
| `client_io` | `MCClientIO` | `StreamInOrder`, `Contiguous`: bytes in order and once, over threads, chunks, short answers and failures; the entries of a directory likewise, while it grows. `BufferExact`: a buffer stays within its limit or a uint, and ends with the last byte stored. `EndIsEnd`: reading nothing means the end, or that the next entry is larger than the read. `IOReturns`. |
| `pending` | `Pending` | `EveryEventOnce`, `NoReadKeptWaiting`, `LinkedOnce` (inside the loop of `ixp_pending_write` too, while a failed reply flushes and clunks), `WriteEnds`. |
| `map` | `Map` | `ImplementsKeyMap`: a partial function, whatever collides. |
| `files` | `MCFileId` | `FilesCounted`: every `IxpFileId` counts the chains it is on; none is freed under a fid or lost, except by walks over ".". `ImplementsFidPaths`: a walk leads where its names say, or nowhere, and moves no other fid. `VerifyRight`: `ixp_srv_verifyfile` is true exactly if the files on the way are still there, and the volatile ones the same. |
| `transport` | `MCTransport` | `Framed`: whole messages, in order. `Unpacked`: unpacking gives back the fcall that was packed, and refuses what is cut short. `Delivered`. |

### Bounds

* `mux_safety`: three threads (the reader, one it dispatches to, one waiting for
  a tag), two calls each so that tags are reused, a table limited to two slots
  so that it grows (1, 2) and fills.  Threads are interchangeable: symmetry.
  `mux_live` has one call each (three calls over two tags still reuse one) and
  no symmetry; sends fail, `async` is either, one reply may fail to parse.
* `conn_all`: three requests of any type on two tags and two fids, such as attach,
  a request that is kept, and its flush or the clunk of its fid; flushes that are
  flushed come from `cleanupconn`.  Any reply may fail to be written.
* `server_loop`: three connections on two descriptors, so that one is reused;
  two timers, the clock and all deadlines up to 1, the clock set back once.
  `TimersFire` says by its premise what `MaxTimers` brings about, that no more
  timers are set.
* `client_fids`: three threads, three fids beyond the root, one lost reply.
* `client_io`: two threads, three calls of up to two bytes, iounits announced as
  none, one, and too large for the message, counts of up to one too many, and
  two threads that may read to the
  end; a foreign file, buffers that are empty, near their limit, and near the
  largest length, directories with entries that fill a read and one too large.
* `files`: two fids, three files deep, so that chains of three are shared, five
  `IxpFileId`s in chunks of one, so that the pool grows and is used again, one of
  them lost, one volatile directory that may be replaced once.  Fids are
  interchangeable: symmetry.
* `pending`: two fids, three writes, four reads, at most two outstanding per fid.
* `map`: five keys in two buckets, four of them in one.  `transport`: two
  messages, the first of any type, with no, some and too many names, qids or
  data, one of which fills the buffer to the last byte; messages of `Split` types are read and written in every possible number
  of parts, the others whole; sizes from below the size field's own to above the
  buffer.  Integers stay below 2^31, the largest TLC has; the proofs know no such
  bound.

Deadlock is not checked: all these systems may come to rest (no more calls, the
connection freed, the loop ended), and the bounds stop the rest.  That nobody
waits for ever is what the liveness properties say.

### Fairness

`Mux`: weak fairness of every thread's own steps.  A thread in `recv` steps only
when a reply is there or the connection closed, so this includes that the server
answers.  Nothing is assumed of new calls, spurious wakeups or hangups.
`Conn9`: a call that can run does, and the application answers what it keeps, as
the documentation of `ixp_serve9conn_fd` demands.  `Server`: the loop runs,
callbacks return, time passes; that descriptors become readable is not assumed.
`ClientIO`: threads run and the server answers; the lock is not assumed to be
fair.  `Pending`: the loop runs, and so does the `cleanupconn` that a reply in it
may call.  `Transport`: both ends run.

## 4. What is proved

Check a module with `tlapm <module>.tla`.  All theorems are for every value of
the constants: any number of threads, requests, fids, timers, keys.  Each rests
on the `ASSUME` of its module, which says what the constants are, and on the
hypotheses it names; where the code needs a hypothesis, section 6 shows the
behaviour that refutes the property without it.  Every invariant that a passing run
checks, every action property and every refinement has a theorem; liveness has none.

**`MuxProofs`** (every reply parses, `MaxGarbled = 0`): `TablesCorrect`
(`TypeOK`, `TagTable`), `SleepListCorrect`, `OneMuxerCorrect`,
`ReplyAwaitedCorrect`, `ReplyAwakeCorrect`, `ReplyToCallerCorrect`;
`SleeperHasMuxerCorrect`; and the refinement `RpcImplemented`.  None of the invariants is inductive alone.
`ReplyToCaller` needs that a message which can still arrive belongs to the call
that owns its tag now (`ReplyAwaited`); that needs that tags are released only
when no message with them is under way, that is, after the reply or at end of
file, which in turn needs that there is one reader (`OneMuxer`) and that the
table and the list are exact.  `IInv` is the conjunction, with a finite set of
occupied slots so that `nwait` can be counted.  One lemma per action, and lemmas
on what `Dequeue`, `FirstFree`, `PutTag`, `Leave` and `Target` do.
`SleeperHasMuxer` adds `MuxerAwake`.  The refinement maps each action to
`Begin`, `Send`, `Arrive`, `Return` or `GoDown` of `Rpc`, or to a stutter.

**`Conn9Proofs`** (tags are not reused while in use, `~DupTags`): `TagMapCorrect`,
`RefCountCorrect`, `OneAnswerCorrect`, `NoReplyAfterFlushCorrect`,
`AllFlushedCorrect`, and the action property `FlushedFirstCorrect`.  Each holds up to
the step in which a write fails inside the answer to a flush (`torn`); writes may
fail everywhere else, handlers may answer later, flush handlers too.  From that step
on the stack no longer has the shape that the invariant describes, and only TLC's runs
say what still holds.  `ConnInv` describes the stack of nested calls: which frames
may lie on which (`ShapeOK`), that each request is under answer in one frame
(`AnswersOK`), that an `ixp_respond` to a flush waits only for the answer to an
older request under the flushed tag (`NestedOK`); with it go the tag map (`TagsOK`) and the count
(`RefOK`: fids, requests and the connection are finite sets whose sizes add up to
`ref`).  `WindOK` is about a connection that is being cleaned up: every request
of the client is being answered, has its flush still ahead, or has it with the
application (`FlushesOK`), and clunks begin only when no flush is ahead (`ClunksOK`).

**`ServerProofs`** (no hypotheses): `TimersAccountedCorrect`, `ReadsReportedCorrect`, and
the action property `NextKeptCorrect`.  The timers' invariant says that ids on the
list are distinct and that pending, fired and voided ids partition those handed out.
That of the loop says that the connection being read is not the saved one, and that
from the saved pointer on, as long as it is good, the list holds only connections
`select` was called with, new ones being linked in front (`FromNext`).

**`ClientProofs`** (lost replies included): `FidsCorrect` (`TypeOK`, `OneOwner`),
`AllFidsKnownCorrect`, `WalkIsFreshCorrect`.  The inductive invariant
replaces the disjointness of sets by statements about each owner (`Apart`,
`FreeApart`, `Known`); it is needed because `putfid` lowers `lastfid`: the
highest number is nobody's afterwards exactly because it had one owner.
`WalkIsFresh` adds that whatever the server has is held by somebody (`ServedHeld`).

**`ClientIOProofs`**: `ContiguousCorrect`, `BufferExactCorrect`,
`StreamInOrderCorrect`, and the action property `EndIsEndCorrect`.  The invariant
`IOInv` says of the thread that holds `iolock` that its data is a run which begins at
its base and, for a write to a buffer, ends at the end of the buffer: this is what
makes the chunks of one write to an append-only buffer contiguous, and
`ixp_srv_writebuf`'s subtraction safe.  For directories `DirInv` says that
`f->offset` is the sum of the sizes of the entries already read (`Before`), that is,
where the next one begins, and that what a thread has read so far are the entries
that follow.  `ReaddirFacts` shows, by induction over the entries of a listing of any
length, that `ixp_srv_readdir`, asked from there, packs the next entries up to the
first that does not fit (`Reached` is what its loop keeps); `DirGrows`, that a listing
which grows at its end moves none of them.  Both theorems are about the time before a
server reports more written than it was given (`~overrun`).  Bytes are in order until
the 32-bit offset wraps (`Len(stream) < UintMod`); the entries of a directory as long as none is
removed and all of them together take less than that (`Listable`).  Both conditions
are needed: section 6 has the removed entry.  `ClientIOAssumption` wants buffers to
begin within their limit and no entry of size 0, which no stat has.

**`MapPendingProofs`, about `Pending`**: `EveryEventOnceCorrect`, `NoReadKeptWaitingCorrect`,
`LinkedOnceCorrect`.  During a write the waiting reads are on the list the write took
over, and `pending->req` is empty until the loop meets one without data
(`ReadsLinked`); flushes and clunks that a failed reply brings about inside the loop
keep this.

**`MapPendingProofs`, about `Map`**: `ChainsOrderedCorrect`, and `KeyMapImplemented`: with chains in order
and entries in the bucket of their key, each operation of `Map` is the one of
`KeyMap`.

**`FileIdProofs`** (any finite tree, any walks): `FilesCorrect`, `VerifyCorrect`, and
the refinement `PathsImplemented`.  `FilesCounted` is not inductive: in the middle
of a handler a walk or a listing holds a chain as well, and the counts alone do not
say that following `next` ever ends.  The invariant `Fine` says that there is a
function `H` which gives every holder its chain, linked from its first to its last
element without meeting one twice (`Linked`), that each `IxpFileId` has as many
references as chains of `H` go through it and one more if it was dropped (`Counted`),
that the free ones are those without references (`Pool`), and that the chain of a
fid consists of the directories on the way from its file to the root (`Along`).
Each operation on the memory becomes a lemma about `H`: one in front of a chain
(`Push`, `Pop`), the counting of an end that two chains share (`CloneFacts`), a chain
freed (`FreeChainFacts`) or handed over (`Transfer`).  `WalkNameStep` puts one
iteration of `ixp_srv_walkandclone` beside one name of `FidPaths`; `WalkFacts` and
`ListingFacts` go through the loops by induction on the number of iterations, and
`WalkHandled` is the whole handler with its two ways of ending.  `ChainFacts` shows
that the recursive function `Chain` finds the chain that `H` has, `PrefixFacts` that
the names along it spell the file, from which `VerifyRight` follows.

**`TransportProofs`**: `PackedUnpacks`, about the operators of `Codec` alone: an
fcall of any type with any values, packed by `ixp_fcall2msg`, is unpacked by
`ixp_msg2fcall` to the same fcall, and every proper prefix of the message is
refused.  A message is its fields joined (`Joined`: where in the message each of
them ends); each `Get` reads back the field that lies at the cursor and moves to
the next (`Holds`), or, when the message ends before the field does, leaves the
cursor past the end, where it stays.  Layouts, strings and qids are gone through by
induction up to a bound: the least number for which the claim fails is the
successor of one for which it holds (`LeastNumber`, `Induction`).
`FramedCorrect` (for any fcalls, sizes and ways of splitting reads and writes): the
invariant `FrameInv` says that what is on the way, the reader's buffer, the wire and
the bytes still to be written, is the rest of the messages sent, from the one being
read on (`Laid`); the size field in a buffer is therefore the one that the sender
wrote (`Sized`), and the reader's count is what is missing of that message
(`ReaderOK`).  `UnpackedCorrect` joins the two: a message received is one that
`ixp_fcall2msg` made (`Origin`), or was cut by its own size field.  Its hypothesis,
`Size <= Word`, is there because the size in a stat has 16 bits; the code's buffers
(`IXP_MAX_MSG`) have 8192 bytes.

What stays with TLC:

* liveness (`CallsReturn`, `WoundDown`, `TimersFire`, `ServerStops`, `IOReturns`,
  `WriteEnds`, `Delivered`): fairness is beyond the prover;
* `Text`: its operators are folds, which take an operator the provers cannot
  instantiate; TLC evaluates its assumptions for all short texts.

## 5. What is not modelled

Strings of 2^16 bytes and more, counts of names or qids that are too large for the
unpacking side only (`convert.c`, `*num > max`: the sender is the same codec, which
packs none), and what unpacking a refused message leaves
allocated; sockets and dialling, which keep no state; error
strings; `ixp_unmount` while other calls are in progress; failure of `realloc` in
`gettag`; the msize and iounit negotiation of a server connection (a later
`TVersion` leaves the `iounit` of open fids as it was, `request.c:416`); handlers
that answer other requests while they are being called; several threads in one
server connection (`ref` is incremented without a lock,
`request.c:94,141,512,533`); `ixp_srv_*` called from several threads (the pool has
no lock); the result of `ixp_pending_clunk`, and a reply inside it that cannot be
written, whose cleanup may free the link it goes on to (`srv_util.c:488`); the arguments and the printing of
`ixpc`, and the example server.

## 6. Where the code and its documentation disagree

Two disagreements have a run of their own, which finds the property violated:

* `server_order`: `ixp_settimer` links a timer before the first that is due
  earlier, so the list is in descending order, and `ixp_nexttimer` looks at its
  head only.  With two timers the loop sleeps until the later one;
  `timer.c:111-112` promises "the number of milliseconds until the next timer's
  timeout".  Once no more timers are set the earlier ones are late, not lost
  (`TimersFire`); a callback that keeps setting later ones starves them for ever
  (`timer.c:63-64,124-127`).
* `conn_lock`: `ixp_respond` calls `ixp_hangup` with `wlock` held
  (`request.c:484-489`), and `cleanupconn` ends in `decref_p9conn`, which locks
  it again.  With pthreads the server thread never returns.

Seven more are behaviours of the passing runs.  What the code or its documentation
says is a definition of the module that no run checks: TLC finds it violated when it
is added to the run's `.cfg`.  The properties that the run does check state how far it
holds.

| Run | Violated | How | Where |
|---|---|---|---|
| `mux_live` with `SendMayFail = FALSE` | invariant `SleeperWoken` ("if there is anyone else sleeping, wake them to mux", `rpc.c:138`) | `electmuxer` passes over a sleeper whose `async`, never initialised, is set, and nobody reads for it. `SleeperHasMuxer` has this as its last case | `rpc.c:38-46,140` |
| `mux_live` with `AsyncValues = {FALSE}` | invariant `SleeperWoken` ("if not done, there's no muxer; start muxing", `rpc.c:164`) | an rpc that was elected while it wrote fails to send and returns, and `mux->muxer` keeps pointing to it. `SleeperHasMuxer` has this as its second case | `rpc.c:74-81` |
| `conn_all` | invariant `FreedLast` ("waits for all responses before freeing the connections associated data structures", `request.c:581-583`) | a write that fails inside the answer to a flush makes `cleanupconn` find that flush in the tag map, answer it and free it, and the outer `ixp_respond` goes on with it. `OneAnswer`: this happens to no other request | `request.c:456-458,488` |
| `conn_all` | property `WaitsForResponses` (the same lines) | `cleanupconn` hands out its flushes and clunks at once; a flush handler that answers later, as `request.c:577-579` allows, leaves the application with a request whose fid is freed. `FlushedFirst`: only then | `request.c:553-566` |
| `server_loop` | invariant `NextListed` ("stops the server listening on it", `server.c:63-64`) | a read callback hangs up the connection after its own, as a broadcast through `ixp_pending_write` does when it cannot write to it, and `handle_conns` follows the pointer it saved. `NextKept`: only then | `server.c:124-128` |
| `server_loop` | property `TimersTriggered` ("to be triggerred after msec milliseconds", `timer.c:39-40`) | `preselect` runs after the timeout was computed, so a timer set there does not end `select`. `TimersFire`: one set before does | `server.c:158-166` |
| `client_io` | invariant `ReturnsWritten` ("the number of bytes actually written", `client.c:627-628`) | `_pwrite` adds up whatever counts the server reports, which `_pread` checks (`client.c:525-528`) | `client.c:601-605` |

The others show when a constant of a run is changed:

| Change | Then | Where |
|---|---|---|
| `mux_safety`: `MaxGarbled = 1` | `ReplyToCaller` fails: a call that gives up because some reply did not parse frees its tag while its own answer is under way; with `SendMayFail` such an answer may also be dispatched to a call that is still sending, whose failure then dequeues it twice | `rpc.c:95-100,171-176` |
| `conn_all`: `DupTags = TRUE` | `AllFlushed` and `TagMapComplete` fail: refusing a duplicate tag removes the original from the map | `request.c:147-150,481` |
| `client_io`: `Msize = 24` | `IOReturns` fails: `ixp_mountfd` accepts this msize, the iounit is 0, and `_pread` never gets further | `client.c:174,339` |
| `client_io`: `UintMod = 4` | `StreamInOrder` fails: `IxpCFid.offset` has 32 bits | `ixp.h:606`, `client.c:570` |
| `client_io`: `Removes = TRUE`, `StreamInOrder` alone | fails: `ixp_srv_readdir` finds its place by the sizes of the entries that are left, so behind a removed one entries are passed over | `srv_util.c:584-594` |

`WriteEnds` is stated for writes that have data for every waiting read.  With
two reads outstanding on one fid `ixp_pending_write` never returns: the second
is linked to `pending->req` again and again (`srv_util.c:399-400`, action
`LoopLink`).  `WalkIsFresh` ends with the first lost reply, and a failed clunk
leaks the `IxpCFid` (`leaked`).  Seen in the code and not modelled: `TRead` compares
the whole open mode with `P9_OWRITE`, so OWRITE|OTRUNC may read
(`request.c:257`); `ixp_pending_clunk` returns the negation of what
`srv_util.c:323-324` says; `_pwrite` reports -1 for a transfer that failed after
its first chunks (`client.c:599`), where `client.c:627-628` promises "the number
of bytes actually written"; `ixpc xwrite` doubles its buffer once for an argument
that may need more (`ixpc.c:168-171`).  Modelled as it is: a walk over "." drops the
`IxpFileId` that `lookup` returned (`srv_util.c:619-626`, `lost`); `ixp_srv_writectl`
calls its function with an empty line when the text ends in two newlines; a path
of more than 16 names is cut (`client.c:235`, `TokenizeNames`), and of one that
consists of slashes `walkdir` reads what is before it (`client.c:269`, outside
the domain of `Walkdir`); an entry larger than a read ends a listing silently
(`srv_util.c:589`, `EndIsEnd`).

## 7. Plan

Done, in the order of the plan: `Mux` with `Rpc`; `Conn9`; `Timer` and `Server`;
`Client`; `ClientIO`; `Pending`; `Map` with `KeyMap`; `Codec` and `Transport`;
`SrvFile` under `ClientIO`; `FileId` with `FidPaths`; `Text`; the proofs of
section 4.

What is left:
1. Proofs: the tables of `Mux` without the assumption on replies, and `Text`.
2. `Conn9` with answers from another thread and the unlocked `ref++`.
