------------------------------- MODULE Lists -------------------------------
(***************************************************************************)
(* Linked lists as sequences: what unlinking leaves.  SelectSeq would do,  *)
(* but the proofs need a definition they can look into.                    *)
(***************************************************************************)
EXTENDS Integers, Sequences, FiniteSets

Members(list) == {list[i] : i \in DOMAIN list}

Distinct(list) == \A i, j \in DOMAIN list : list[i] = list[j] => i = j

\* The list with x linked in front of entry k.
LinkedAt(list, k, x) == SubSeq(list, 1, k - 1) \o <<x>> \o SubSeq(list, k, Len(list))

\* The list with entry k unlinked.
Without(list, k) == SubSeq(list, 1, k - 1) \o SubSeq(list, k + 1, Len(list))

\* The list with every entry that is in S unlinked: entry n of what is left is
\* the one with n positions kept up to it.
Dropped(list, S) ==
    LET kept == {i \in DOMAIN list : list[i] \notin S}
        rank(i) == Cardinality({j \in kept : j <= i})
    IN  [n \in 1 .. Cardinality(kept) |-> list[CHOOSE i \in kept : rank(i) = n]]
=============================================================================
