------------------------------- MODULE KeyMap -------------------------------
(***************************************************************************)
(* What an IxpMap promises request.c: a partial function from keys to      *)
(* values, of which an operation changes at most its own key.              *)
(***************************************************************************)
CONSTANTS Keys, Vals, Nil

VARIABLES
    val,    \* key -> value, or Nil
    res     \* the last operation's kind and result

vars == <<val, res>>

Init == val = [k \in Keys |-> Nil] /\ res = <<>>

\* Store v; without overwrite a key that has a value keeps it and FALSE is returned.
Insert(k, v, overwrite) ==
    IF val[k] # Nil /\ ~overwrite
    THEN res' = <<"insert", FALSE>> /\ UNCHANGED val
    ELSE res' = <<"insert", TRUE>> /\ val' = [val EXCEPT ![k] = v]

Get(k) == res' = <<"value", val[k]>> /\ UNCHANGED val

Remove(k) == res' = <<"value", val[k]>> /\ val' = [val EXCEPT ![k] = Nil]

\* Every value, once per key.
Exec ==
    /\ res' = <<"all", {<<k, val[k]>> : k \in {j \in Keys : val[j] # Nil}}>>
    /\ UNCHANGED val

\* The map is freed and not used again.
Clear == val' = [k \in Keys |-> Nil] /\ res' = <<"freed">>

Next ==
    /\ res # <<"freed">>
    /\ \/ \E k \in Keys : Get(k) \/ Remove(k)
       \/ \E k \in Keys, v \in Vals, overwrite \in BOOLEAN : Insert(k, v, overwrite)
       \/ Exec \/ Clear

Spec == Init /\ [][Next]_vars
=============================================================================
