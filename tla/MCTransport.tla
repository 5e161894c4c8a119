---------------------------- MODULE MCTransport ----------------------------
(* One fcall or more of every type, then a second message of two types.    *)
(* The TWrite of 57 bytes fills the buffer, the one of 58 does not fit.    *)
EXTENDS Transport

Fcall(type, args) == [type |-> type, tag |-> 300, args |-> args]

qid == <<1, 70000, <<7, 9>>>>
wide == <<513, 3>>      \* an offset or length above 2^32
name == <<104, 105>>

OfEveryType ==
    {Fcall(type, <<8192, name>>) : type \in {"TVersion", "RVersion"}}
    \cup {Fcall(type, qid) : type \in {"RAuth", "RAttach"}}
    \cup {Fcall(type, qid \o <<24>>) : type \in {"ROpen", "RCreate"}}
    \cup {Fcall(type, <<66051>>) : type \in {"TClunk", "TRemove", "TStat", "RWrite"}}
    \cup {Fcall(type, <<>>) : type \in {"RFlush", "RClunk", "RRemove", "RWStat"}}
    \cup {Fcall("TAuth", <<1, name, <<>>>>), Fcall("TAttach", <<1, 2, <<>>, name>>),
          Fcall("RError", <<name>>), Fcall("TFlush", <<300>>),
          Fcall("TOpen", <<1, 2>>), Fcall("TCreate", <<1, name, 73, 2>>),
          Fcall("TRead", <<1, wide, 4>>), Fcall("RStat", <<name>>)}
    \cup {Fcall("TWalk", <<1, 2, [i \in 1 .. n |-> name]>>) : n \in {0, 2, 3}}
    \cup {Fcall("RWalk", <<[i \in 1 .. n |-> qid]>>) : n \in {0, 1, 2}}
    \cup {Fcall("RRead", <<[i \in 1 .. n |-> 5]>>) : n \in {0, 2}}
    \cup {Fcall("TWrite", <<1, wide, [i \in 1 .. n |-> 5]>>) : n \in {2, 57, 58}}
    \cup {Fcall("TWStat", <<1, 0, 0, 2, 3>> \o qid \o <<4, 5, 6, wide, name, <<>>, name, <<>>>>)}

Script == <<OfEveryType, {Fcall("TClunk", <<1>>), Fcall("RError", <<name>>)}>>
=============================================================================
