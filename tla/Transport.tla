----------------------------- MODULE Transport -----------------------------
(***************************************************************************)
(* Messages over a byte stream, lib/libixp/transport.c on top of Codec:    *)
(* the sender packs an fcall and ixp_sendmsg writes it, ixp_recvmsg reads  *)
(* a message, ready to be unpacked.  write and read may move any part of   *)
(* what they are asked for, and be interrupted; the peer may close, and    *)
(* may be another implementation, whose size fields are wrong.             *)
(***************************************************************************)
EXTENDS Codec

CONSTANTS
    Size,       \* msg->size, the buffer at both ends
    Fcalls,     \* bound: the fcalls of the n-th message sent, for each n
    Split,      \* bound: the types whose messages may be moved in parts
    Junk        \* what an uninitialised uint16_t may hold

\* The room in a buffer is an int of mread.
ASSUME SizeAssumption == Size \in Nat /\ Size >= SDWord /\ Size \div Word < Word \div 2

ASSUME FcallsAssumption ==
    /\ Junk \subseteq 0 .. Word - 1
    /\ Len(Fcalls) \in Nat
    /\ \A n \in 1 .. Len(Fcalls) : \A f \in Fcalls[n] : IsFcall(f)

VARIABLES
    sent,       \* the messages sent so far, the last perhaps in part
    left,       \* ixp_sendmsg: the bytes still to be written
    wire,       \* bytes written and not read
    eof,        \* the sender closed the stream
    state,      \* the reader: "size", "body", or "failed" when it returned 0
    buf,        \* the bytes in msg->data, up to msg->pos
    num,        \* readn: bytes still to be read
    received    \* what ixp_recvmsg returned: sequences of bytes

vars == <<sent, left, wire, eof, state, buf, num, received>>

Init ==
    /\ sent = <<>> /\ left = <<>>
    /\ wire = <<>> /\ eof = FALSE
    /\ state = "size"
    /\ buf = <<>> /\ num = SDWord
    /\ received = <<>>

\* What one read or write can move of n bytes of a message of this type.
Parts(type, n) == IF type \in Split THEN 1 .. n ELSE {n} \ {0}

\* The size field of a message of n bytes, right and wrong: too small for itself,
\* too large for the buffer, cutting off the last byte, or counting one that is
\* not sent.
Claims(n) == {n, SDWord - 1, Size + 1, n - 1, n + 1}

\* sendrpc, ixp_respond: pack f and call ixp_sendmsg.  A message that announces
\* fewer bytes than it needs ends there.  Bound: none is sent after a wrong one.
Send(f) ==
    /\ ~eof /\ left = <<>>
    /\ \A m \in DOMAIN sent : sent[m].honest
    /\ \E junk \in Junk :
        LET msg == Fcall2msg(f, Size, junk) IN
        /\ msg # <<>>
        /\ \E n \in Claims(Len(msg)) :
            LET last == IF n = Len(msg) - 1 THEN n ELSE Len(msg)
                bytes == Puint(SDWord, n) \o SubSeq(msg, SDWord + 1, last)
            IN  /\ sent' = Append(sent, [f |-> f, honest |-> n = Len(msg), bytes |-> bytes])
                /\ left' = bytes
    /\ UNCHANGED <<wire, eof, state, buf, num, received>>

\* Mutant: a short write is taken for a complete one.
WriteOnce(k) ==
    /\ ~eof /\ left # <<>>
    /\ k \in Parts(Last(sent).f.type, Len(left))
    /\ wire' = wire \o SubSeq(left, 1, k)
    /\ left' = <<>>
    /\ UNCHANGED <<sent, eof, state, buf, num, received>>

\* ixp_sendmsg: one write, of the next k bytes.
WriteSome(k) ==
    /\ ~eof /\ left # <<>>
    /\ k \in Parts(Last(sent).f.type, Len(left))
    /\ wire' = wire \o SubSeq(left, 1, k)
    /\ left' = SubSeq(left, k + 1, Len(left))
    /\ UNCHANGED <<sent, eof, state, buf, num, received>>

\* The sender closes, or dies in the middle of a message.
CloseStream ==
    /\ ~eof
    /\ eof' = TRUE
    /\ UNCHANGED <<sent, left, wire, state, buf, num, received>>

-----------------------------------------------------------------------------
(* ixp_recvmsg, called again when it has returned a message.               *)

\* mread: no more than is missing, than fits in the buffer, and than is there.
Most == Min({num, Size - Len(buf), Len(wire)})

\* readn, mread: one read of k bytes.  EINTR is no step: readn tries again.
ReadSome(k) ==
    /\ state # "failed" /\ num > 0 /\ wire # <<>>
    /\ k \in Parts(sent[Len(received) + 1].f.type, Most)
    /\ buf' = buf \o SubSeq(wire, 1, k)
    /\ wire' = SubSeq(wire, k + 1, Len(wire))
    /\ num' = num - k
    /\ UNCHANGED <<sent, left, eof, state, received>>

\* readn: end of file; ixp_recvmsg returns 0.
ReadEof ==
    /\ state # "failed" /\ num > 0
    /\ eof /\ wire = <<>>
    /\ state' = "failed"
    /\ UNCHANGED <<sent, left, wire, eof, buf, num, received>>

\* Mutant: a message may be one byte larger than the buffer.
TooLargeLenient(msize) == msize - SDWord > Size - SDWord + 1

TooLarge(msize) == msize - SDWord > Size - SDWord

\* The size is read: refuse it, or go on with the rest of the message.
TakeSize ==
    /\ state = "size" /\ num = 0
    /\ LET msize == UintAt(buf, 1, SDWord)
       IN  IF msize < SDWord \/ TooLarge(msize)
           THEN state' = "failed" /\ UNCHANGED num
           ELSE state' = "body" /\ num' = msize - SDWord
    /\ UNCHANGED <<sent, left, wire, eof, buf, received>>

\* The message is complete.
TakeBody ==
    /\ state = "body" /\ num = 0
    /\ received' = Append(received, buf)
    /\ state' = "size" /\ buf' = <<>> /\ num' = SDWord
    /\ UNCHANGED <<sent, left, wire, eof>>

Receive == (\E k \in 1 .. Size : ReadSome(k)) \/ ReadEof \/ TakeSize \/ TakeBody

Next ==
    \/ Len(sent) < Len(Fcalls) /\ \E f \in Fcalls[Len(sent) + 1] : Send(f)
    \/ \E k \in 1 .. Len(left) : WriteSome(k)
    \/ CloseStream
    \/ Receive

Spec == Init /\ [][Next]_vars

\* Both ends run, and a write is eventually accepted.
FairSpec == Spec /\ WF_vars(Receive) /\ WF_vars(\E k \in 1 .. Len(left) : WriteSome(k))

-----------------------------------------------------------------------------
(* Properties.                                                             *)

\* Every variable stays in its type; the buffer is not overrun.
TypeOK ==
    /\ left \in Seq(0 .. Byte - 1) /\ wire \in Seq(0 .. Byte - 1) /\ num \in Nat
    /\ eof \in BOOLEAN /\ state \in {"size", "body", "failed"}
    /\ Len(buf) <= Size
    /\ state = "body" => num + Len(buf) <= Size

\* The messages received are the messages sent, in order and nothing else, however
\* reads and writes are split and wherever the stream ends; one that would not
\* fit in the buffer is refused, and one that announces more than it is does not
\* come.
Framed ==
    /\ TypeOK
    /\ \A m \in DOMAIN received : m <= Len(sent) /\ received[m] = sent[m].bytes

\* A received message unpacks to the fcall that was packed, field by field; one
\* that its size field cuts short is refused.  The size of a stat counts the
\* bytes that follow it.
Unpacked ==
    received # <<>> /\ state = "size" /\ buf = <<>> =>
        LET m == Len(received)
            statsize == UintAt(received[m], 14, 2)
        IN  /\ Msg2fcall(received[m]) = IF sent[m].honest THEN {sent[m].f} ELSE {}
            /\ sent[m].honest /\ sent[m].f.type = "TWStat" => statsize = Len(received[m]) - 15

\* A message that was sent and fits is received, unless the stream is closed or
\* a message with a wrong size was sent.
Delivered ==
    \A m \in DOMAIN Fcalls :
        Len(sent) >= m ~> Len(received) >= m \/ eof \/ \E i \in DOMAIN sent : ~sent[i].honest
=============================================================================
