------------------------------ MODULE MCFileId ------------------------------
(* A small tree for FileId, a directory with a file in it, walked by paths *)
(* as ixp_tokenize cuts them; and bounded checks of Text.                  *)
EXTENDS FileId, Text, TLC

dir == <<"d">>
inside == <<"d", "x">>
SmallTree == {<<>>, dir, inside}
VolatileDir == {dir}
Symmetry == Permutations(Fids)

\* A clone, and walks down, up, over ".", and to what is not there.
ShortPaths ==
    {<<Slash>>, <<"d", Slash>>, <<"..">>, <<Slash, "d", Slash, Slash, "x">>,
     <<"..", Slash, "d">>, <<".", Slash, "d">>, <<"d", Slash, "d">>}

\* A name, itself a text, is one character long.
ShortWalks ==
    {LET names == Tokenize(path, Slash, 16) IN [i \in DOMAIN names |-> names[i][1]] :
        path \in ShortPaths}

\* The pieces between the cs in a text that are not empty.
Pieces(text, c) ==
    LET ends == {0, Len(text) + 1} \cup {i \in DOMAIN text : text[i] = c}
        piece(e) == SubSeq(text, Max({b \in ends : b < e}) + 1, e - 1)
        all == [i \in 1 .. Cardinality(ends) - 1 |-> piece(SetToSortSeq(ends, <)[i + 1])]
    IN  SelectSeq(all, LAMBDA l : l # <<>>)

Paths5 == BoundedSeq({"a", "b", Slash}, 5)

\* walk asks for the names in a path, however many slashes are around them, but
\* only for the first reslen of them.
ASSUME TokenizeNames ==
    \A path \in Paths5, reslen \in 1 .. 3 :
        LET names == Pieces(path, Slash)
        IN  Tokenize(path, Slash, reslen) =
            IF Len(names) <= reslen THEN names ELSE SubSeq(names, 1, reslen)

\* ixp_create walks to all names of a path but the last, and creates the last,
\* also when slashes follow it; a path without a slash before it is refused.
ASSUME WalkdirSplits ==
    \A path \in Paths5 :
        LET names == Pieces(path, Slash)
            cut == Walkdir(path)
        IN  names # <<>> =>
            IF Head(path) # Slash /\ Len(names) = 1 THEN cut.err = "bad path"
            ELSE cut.err = "none" /\ Append(Pieces(cut.dir, Slash), cut.rest) = names

\* ixp_srv_writectl calls its function with every line that is not empty, once
\* and in order, and a last time with an empty one when the text still ends in
\* a newline after one was removed.
ASSUME WritectlLines ==
    \A written \in BoundedSeq({"c", NL, Nul}, 5) :
        LET text == Data2cstring(written)
            blank == text # <<>> /\ Last(text) = NL
        IN  Writectl(written) = Pieces(text, NL) \o (IF blank THEN <<<<>>>> ELSE <<>>)
=============================================================================
