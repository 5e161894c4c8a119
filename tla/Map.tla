-------------------------------- MODULE Map --------------------------------
(***************************************************************************)
(* The hash table under the tag and fid maps, lib/libixp/map.c: buckets of *)
(* entries linked in order of their key.  Every operation holds map->lock, *)
(* so it is one action.                                                    *)
(***************************************************************************)
EXTENDS Integers, Sequences

CONSTANTS
    Keys,     \* the keys used
    Vals,     \* the values stored
    Nil,      \* the null pointer
    NHash     \* map->nhash

ASSUME MapAssumption == Keys \subseteq Nat /\ NHash \in Nat \ {0} /\ Nil \notin Vals

VARIABLES
    bucket,    \* map->bucket: 0 .. nhash - 1 -> list of [hash, val]
    res        \* the last operation's kind and result

mapvars == <<bucket, res>>

\* ixp_mapinit
MapInit == bucket = [i \in 0 .. NHash - 1 |-> <<>>] /\ res = <<>>

Chain(k) == bucket[k % NHash]

\* Mutant: the search goes to the last smaller entry of the chain.
FoundBefore(chain, k) ==
    CHOOSE i \in 1 .. Len(chain) + 1 :
        /\ i <= Len(chain) => chain[i].hash > k
        /\ \A j \in 1 .. i - 1 : chain[j].hash <= k

\* map_getp: where the search for k stops, at the first entry not below it.
Found(chain, k) ==
    CHOOSE i \in 1 .. Len(chain) + 1 :
        /\ i <= Len(chain) => chain[i].hash >= k
        /\ \A j \in 1 .. i - 1 : chain[j].hash < k

Exists(k) ==
    LET i == Found(Chain(k), k)
    IN  i <= Len(Chain(k)) /\ Chain(k)[i].hash = k

ValueOf(k) == IF Exists(k) THEN Chain(k)[Found(Chain(k), k)].val ELSE Nil

\* insert: a new entry in front of entry i.
Entered(chain, i, e) == SubSeq(chain, 1, i - 1) \o <<e>> \o SubSeq(chain, i, Len(chain))

\* ixp_mapinsert
MapInsert(k, v, overwrite) ==
    LET i == Found(Chain(k), k)
        e == [hash |-> k, val |-> v]
    IN  IF ~Exists(k)
        THEN /\ bucket' = [bucket EXCEPT ![k % NHash] = Entered(@, i, e)]
             /\ res' = <<"insert", TRUE>>
        ELSE IF overwrite
             THEN bucket' = [bucket EXCEPT ![k % NHash][i] = e] /\ res' = <<"insert", TRUE>>
             ELSE res' = <<"insert", FALSE>> /\ UNCHANGED bucket

\* ixp_mapget
MapGet(k) == res' = <<"value", ValueOf(k)>> /\ UNCHANGED bucket

\* ixp_maprm
MapRm(k) ==
    LET i == Found(Chain(k), k) IN
    /\ res' = <<"value", ValueOf(k)>>
    /\ bucket' = IF Exists(k)
                 THEN [bucket EXCEPT ![k % NHash] =
                        SubSeq(@, 1, i - 1) \o SubSeq(@, i + 1, Len(@))]
                 ELSE bucket

\* ixp_mapexec: the callback sees every entry.
MapExec ==
    /\ LET pairs(chain) == {<<chain[j].hash, chain[j].val>> : j \in DOMAIN chain}
       IN  res' = <<"all", UNION {pairs(bucket[i]) : i \in DOMAIN bucket}>>
    /\ UNCHANGED bucket

\* ixp_mapfree: the lock goes too, and the map is not used again.
MapFree == bucket' = [i \in 0 .. NHash - 1 |-> <<>>] /\ res' = <<"freed">>

MapNext ==
    /\ res # <<"freed">>
    /\ \/ \E k \in Keys : MapGet(k) \/ MapRm(k)
       \/ \E k \in Keys, v \in Vals, overwrite \in BOOLEAN : MapInsert(k, v, overwrite)
       \/ MapExec \/ MapFree

MapSpec == MapInit /\ [][MapNext]_mapvars

-----------------------------------------------------------------------------
(* Properties.                                                             *)

Abstract == INSTANCE KeyMap WITH val <- [k \in Keys |-> ValueOf(k)]

\* The table implements the partial function: collisions, the order in which
\* keys come and go, and removed entries do not show.
ImplementsKeyMap == Abstract!Spec
=============================================================================
