----------------------------- MODULE MCClientIO -----------------------------
(* Small files for ClientIO.                                               *)
EXTENDS ClientIO

Foreign(size) == [kind |-> "foreign", size |-> size, max |-> 0, append |-> FALSE, entries |-> <<>>]
Buffer(size, max, append) ==
    [kind |-> "buffer", size |-> size, max |-> max, append |-> append, entries |-> <<>>]
Dir(entries) == [kind |-> "dir", size |-> 0, max |-> 0, append |-> FALSE, entries |-> entries]

\* A buffer that can still grow by one byte, one with a limit, and so on; a
\* directory with an entry that fills a read, and one with an entry too large.
SmallFiles ==
    {Foreign(2), Buffer(0, 0, FALSE), Buffer(2, 3, FALSE), Buffer(UintMod - 3, 0, TRUE),
     Buffer(2, 3, TRUE), Dir(<<1, 2>>), Dir(<<2, 1, 1>>), Dir(<<1, 3, 1>>)}
=============================================================================
