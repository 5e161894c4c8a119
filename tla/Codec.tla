------------------------------- MODULE Codec -------------------------------
(***************************************************************************)
(* Marshalling, lib/libixp/convert.c and message.c: how an IxpFcall is     *)
(* packed into the bytes of a message and unpacked again.                  *)
(*                                                                         *)
(* An fcall is [type, tag, args], args[i] the value of the i-th field that *)
(* ixp_pfcall handles for that type.  Integers are naturals, 64-bit ones   *)
(* pairs <<low, high>>, strings and data sequences of bytes.  TLC's own    *)
(* integers have 32 bits and a sign, so its runs use values below 2^31.    *)
(***************************************************************************)
EXTENDS Integers, Sequences, SequencesExt

CONSTANT MaxWelem     \* IXP_MAX_WELEM

Byte == 256
Word == Byte * Byte

\* The number of elements of an array is packed in two bytes.
ASSUME CodecAssumption == MaxWelem \in Nat /\ MaxWelem < Word

\* The weights of the bytes of a uint32_t.
Weight == <<1, Byte, Word, Word * Byte>>

SDWord == 4

TypeNames ==
    <<"TVersion", "RVersion", "TAuth", "RAuth", "TAttach", "RAttach", "TError", "RError",
      "TFlush", "RFlush", "TWalk", "RWalk", "TOpen", "ROpen", "TCreate", "RCreate",
      "TRead", "RRead", "TWrite", "RWrite", "TClunk", "RClunk", "TRemove", "RRemove",
      "TStat", "RStat", "TWStat", "RWStat">>

Code(type) == 99 + CHOOSE i \in DOMAIN TypeNames : TypeNames[i] = type

Qid == <<"u8", "u32", "u64">>

\* ixp_pstat.  Its size is computed when packing and ignored when unpacking.
Stat ==
    <<"statsize", "u16", "u32">> \o Qid \o
    <<"u32", "u32", "u32", "u64", "string", "string", "string", "string">>

\* ixp_pfcall: the fields of each type after type and tag.  A type it does not
\* know, and RFlush, RClunk, RRemove and RWStat, have none.  In TWStat the outer
\* size is packed from a variable that was never set, and ignored by unpacking.
Layout(type) ==
    CASE type \in {"TVersion", "RVersion"}           -> <<"u32", "string">>
      [] type = "TAuth"                              -> <<"u32", "string", "string">>
      [] type \in {"RAuth", "RAttach"}               -> Qid
      [] type = "TAttach"                            -> <<"u32", "u32", "string", "string">>
      [] type = "RError"                             -> <<"string">>
      [] type = "TFlush"                             -> <<"u16">>
      [] type = "TWalk"                              -> <<"u32", "u32", "strings">>
      [] type = "RWalk"                              -> <<"qids">>
      [] type = "TOpen"                              -> <<"u32", "u8">>
      [] type \in {"ROpen", "RCreate"}               -> Qid \o <<"u32">>
      [] type = "TCreate"                            -> <<"u32", "string", "u32", "u8">>
      [] type = "TRead"                              -> <<"u32", "u64", "u32">>
      [] type = "RRead"                              -> <<"data">>
      [] type = "TWrite"                             -> <<"u32", "u64", "data">>
      [] type = "RWrite"                             -> <<"u32">>
      [] type \in {"TClunk", "TRemove", "TStat"}     -> <<"u32">>
      [] type = "RStat"                              -> <<"string">>
      [] type = "TWStat"                             -> <<"u32", "unset">> \o Stat
      [] OTHER                                       -> <<>>

\* The values of a field, by its kind.  The two sizes that unpacking ignores
\* have none: 0 stands for them.
Bytes == Seq(0 .. Byte - 1)
U32 == {v \in Nat : v \div Word < Word}
Values(kind) ==
    CASE kind = "u8"                     -> 0 .. Byte - 1
      [] kind = "u16"                    -> 0 .. Word - 1
      [] kind = "u32"                    -> U32
      [] kind = "u64"                    -> U32 \X U32
      [] kind = "string"                 -> {s \in Bytes : Len(s) < Word}
      [] kind = "data"                   -> {s \in Bytes : Len(s) \in U32}
      [] kind = "strings"                -> Seq({s \in Bytes : Len(s) < Word})
      [] kind = "qids"                   -> Seq((0 .. Byte - 1) \X U32 \X (U32 \X U32))
      [] kind \in {"unset", "statsize"}  -> {0}

\* IxpFcall: a type, a tag, and a value for each field of that type.
IsFcall(f) ==
    /\ f = [type |-> f.type, tag |-> f.tag, args |-> f.args]
    /\ \E i \in DOMAIN TypeNames : f.type = TypeNames[i]
    /\ f.tag \in 0 .. Word - 1
    /\ f.args = [i \in DOMAIN Layout(f.type) |-> f.args[i]]
    /\ \A i \in DOMAIN Layout(f.type) : f.args[i] \in Values(Layout(f.type)[i])

-----------------------------------------------------------------------------
(* Packing.                                                                *)

\* ixp_puint: w bytes of v, the least significant first.
Puint(w, v) == [i \in 1 .. w |-> (v \div Weight[i]) % Byte]

\* ixp_pstring and, for RStat, ixp_pu16 and ixp_pdata.
Pstring(s) == Puint(2, Len(s)) \o SubSeq(s, 1, Len(s) % Word)

Pqid(q) == Puint(1, q[1]) \o Puint(4, q[2]) \o Puint(4, q[3][1]) \o Puint(4, q[3][2])

\* The bytes of one field.
Packed(kind, v) ==
    CASE kind = "u8"                               -> Puint(1, v)
      [] kind \in {"u16", "unset", "statsize"}     -> Puint(2, v)
      [] kind = "u32"                              -> Puint(4, v)
      [] kind = "u64"                              -> Puint(4, v[1]) \o Puint(4, v[2])
      [] kind = "string"                           -> Pstring(v)
      [] kind = "data"                             -> Puint(4, Len(v)) \o v
      [] kind = "strings"                          ->
            Puint(2, Len(v)) \o FlattenSeq([i \in DOMAIN v |-> Pstring(v[i])])
      [] kind = "qids"                             ->
            Puint(2, Len(v)) \o FlattenSeq([i \in DOMAIN v |-> Pqid(v[i])])

\* ixp_sizeof_stat, of the stat in a TWStat.
SizeofStat(args) ==
    LET SString(i) == 2 + Len(args[i])
    IN  2 + 2 + 4 + 13 + 3 * 4 + 8 + SString(13) + SString(14) + SString(15) + SString(16)

\* What a field is packed from: its value, or what the code puts in its place.
Source(f, i, junk) ==
    LET kind == Layout(f.type)[i]
    IN  CASE kind = "unset"    -> junk
          [] kind = "statsize" -> SizeofStat(f.args) - 2
          [] OTHER             -> f.args[i]

TooMany(f) ==
    \E i \in DOMAIN f.args : Layout(f.type)[i] \in {"strings", "qids"} /\ Len(f.args[i]) > MaxWelem

\* ixp_fcall2msg: the message, or <<>> when it does not fit in size bytes.
Fcall2msg(f, size, junk) ==
    LET fields == [i \in DOMAIN f.args |-> Packed(Layout(f.type)[i], Source(f, i, junk))]
        body == Puint(1, Code(f.type)) \o Puint(2, f.tag) \o FlattenSeq(fields)
        total == SDWord + Len(body)
    IN  IF size < SDWord \/ total > size \/ TooMany(f) THEN <<>> ELSE Puint(SDWord, total) \o body

-----------------------------------------------------------------------------
(* Unpacking.  A cursor is the position of the next byte and the values    *)
(* unpacked so far; at Len(msg) + 2, one past the end, unpacking failed.   *)

Available(msg, pos, n) == pos <= Len(msg) + 1 /\ n <= Len(msg) + 1 - pos

\* Mutant: a field that does not fit leaves the cursor at the end.
SkipStop(msg, pos, n) == IF Available(msg, pos, n) THEN pos + n ELSE Len(msg) + 1

Skip(msg, pos, n) == IF Available(msg, pos, n) THEN pos + n ELSE Len(msg) + 2

\* ixp_puint: nothing is read when the field does not fit.
UintAt(msg, pos, w) ==
    LET part(i) == IF i <= w THEN msg[pos + i - 1] * Weight[i] ELSE 0
    IN  IF Available(msg, pos, w) THEN part(1) + part(2) + part(3) + part(4) ELSE 0

GetUint(msg, c, w) ==
    [pos |-> Skip(msg, c.pos, w), vals |-> Append(c.vals, UintAt(msg, c.pos, w))]

\* A w-byte count and as many bytes.
GetBytes(msg, c, w) ==
    LET n == UintAt(msg, c.pos, w)
        from == Skip(msg, c.pos, w)
    IN  [pos |-> Skip(msg, from, n),
         vals |-> Append(c.vals, IF Available(msg, from, n) THEN SubSeq(msg, from, from + n - 1)
                                 ELSE <<>>)]

GetU64(msg, c) ==
    [pos |-> Skip(msg, Skip(msg, c.pos, 4), 4),
     vals |-> Append(c.vals, <<UintAt(msg, c.pos, 4), UintAt(msg, Skip(msg, c.pos, 4), 4)>>)]

GetQid(msg, c) ==
    [pos |-> Skip(msg, c.pos, 13),
     vals |-> Append(c.vals, <<UintAt(msg, c.pos, 1), UintAt(msg, c.pos + 1, 4),
                               <<UintAt(msg, c.pos + 5, 4), UintAt(msg, c.pos + 9, 4)>>>>)]

\* n strings or qids, one after the other, from pos.
GetItems(msg, pos, kind, n) ==
    LET after[i \in 0 .. n] ==
            IF i = 0 THEN [pos |-> pos, vals |-> <<>>]
            ELSE IF kind = "strings" THEN GetBytes(msg, after[i - 1], 2)
            ELSE GetQid(msg, after[i - 1])
    IN  after[n]

\* ixp_pstrings, ixp_pqids: a count, refused above MaxWelem, and as many items.
GetArray(msg, c, kind) ==
    LET n == UintAt(msg, c.pos, 2)
        items == GetItems(msg, Skip(msg, c.pos, 2), kind, n)
    IN  IF n > MaxWelem
        THEN [pos |-> Len(msg) + 2, vals |-> Append(c.vals, <<>>)]
        ELSE [pos |-> items.pos, vals |-> Append(c.vals, items.vals)]

Get(msg, c, kind) ==
    CASE kind = "u8"      -> GetUint(msg, c, 1)
      [] kind = "u16"     -> GetUint(msg, c, 2)
      [] kind = "u32"     -> GetUint(msg, c, 4)
      [] kind = "u64"     -> GetU64(msg, c)
      [] kind = "string"  -> GetBytes(msg, c, 2)
      [] kind = "data"    -> GetBytes(msg, c, 4)
      [] kind \in {"strings", "qids"}   -> GetArray(msg, c, kind)
      [] kind \in {"unset", "statsize"} ->
            [pos |-> Skip(msg, c.pos, 2), vals |-> Append(c.vals, 0)]

TypeOf(code) == IF code - 99 \in DOMAIN TypeNames THEN TypeNames[code - 99] ELSE "unknown"

\* The fields of these kinds, one after the other, from pos.
GetFields(msg, pos, kinds) ==
    LET after[i \in 0 .. Len(kinds)] ==
            IF i = 0 THEN [pos |-> pos, vals |-> <<>>]
            ELSE Get(msg, after[i - 1], kinds[i])
    IN  after[Len(kinds)]

\* ixp_msg2fcall: the set of the fcall in a message, empty when it is malformed.
\* Bytes after the last field are ignored.
Msg2fcall(msg) ==
    LET header == GetUint(msg, GetUint(msg, [pos |-> SDWord + 1, vals |-> <<>>], 1), 2)
        type == TypeOf(header.vals[1])
        c == GetFields(msg, header.pos, Layout(type))
    IN  IF Len(msg) < SDWord \/ c.pos > Len(msg) + 1 THEN {}
        ELSE {[type |-> type, tag |-> header.vals[2], args |-> c.vals]}
=============================================================================
