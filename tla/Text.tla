-------------------------------- MODULE Text --------------------------------
(***************************************************************************)
(* How libixp cuts text: ixp_tokenize of lib/libixp/util.c and walkdir of  *)
(* lib/libixp/client.c cut paths into names, ixp_srv_writectl of           *)
(* lib/libixp/srv_util.c cuts what is written to a control file into       *)
(* lines.  Text is a sequence of characters, of which only the slash, the  *)
(* newline and the nul are told apart from the others.                     *)
(***************************************************************************)
EXTENDS Integers, Sequences, SequencesExt

Slash == "/"
NL == "nl"
Nul == "nul"

\* The place of the first character of s, from i on, that is not c, or that is c;
\* Len(s) + 1 when there is none.
SkipOver(s, c, i) ==
    LET at[k \in 1 .. Len(s) + 1] == IF k <= Len(s) /\ s[k] = c THEN at[k + 1] ELSE k
    IN  at[i]

StopAt(s, c, i) ==
    LET at[k \in 1 .. Len(s) + 1] == IF k <= Len(s) /\ s[k] # c THEN at[k + 1] ELSE k
    IN  at[i]

-----------------------------------------------------------------------------
(* Paths.                                                                  *)

\* ixp_tokenize: the first reslen of the tokens in str.
Tokenize(str, delim, reslen) ==
    LET from[i \in 1 .. Len(str) + 1, k \in 0 .. reslen] ==
            LET b == SkipOver(str, delim, i)
                e == StopAt(str, delim, b)
            IN  IF k = reslen \/ b > Len(str) THEN <<>>
                ELSE <<SubSeq(str, b, e - 1)>> \o from[e, k + 1]
    IN  from[1, 0]

\* walkdir: the path of the directory and the name in it.  The path must not
\* consist of slashes only: the code then reads before its beginning.
Walkdir(path) ==
    LET e == SelectLastInSeq(path, LAMBDA c : c # Slash)
        s == SelectLastInSeq(SubSeq(path, 1, e), LAMBDA c : c = Slash)
    IN  IF s = 0 THEN [err |-> "bad path"]
        ELSE [err |-> "none", dir |-> SubSeq(path, 1, s - 1), rest |-> SubSeq(path, s + 1, e)]

-----------------------------------------------------------------------------
(* Control files.                                                          *)

\* ixp_srv_data2cstring: without one newline at the end, up to the first nul.
Data2cstring(data) ==
    LET n == Len(data)
        cut == IF n > 0 /\ data[n] = NL THEN SubSeq(data, 1, n - 1) ELSE data
    IN  SubSeq(cut, 1, StopAt(cut, Nul, 1) - 1)

\* ixp_srv_writectl: the strings it calls fn with.  The loop skips newlines,
\* takes a line, and goes on behind the character that ended it unless that
\* was the nul.
Writectl(data) ==
    LET s == Data2cstring(data)
        from[i \in 1 .. Len(s) + 1] ==
            LET b == SkipOver(s, NL, i)
                e == StopAt(s, NL, b)
            IN  <<SubSeq(s, b, e - 1)>> \o (IF e > Len(s) THEN <<>> ELSE from[e + 1])
    IN  IF s = <<>> THEN <<>> ELSE from[1]
=============================================================================
