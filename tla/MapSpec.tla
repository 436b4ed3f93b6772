------------------------------- MODULE MapSpec -------------------------------
(***************************************************************************)
(* What the users of lib/std/hashmap.tk are given: a finite map, except    *)
(* that the insertion of a new key may have no effect.                     *)
(* OpenTable implements it (property Implements there) and says when.      *)
(***************************************************************************)
CONSTANTS
    Keys, Values,
    None       \* Option::None

VARIABLES
    map,       \* the value stored under each key, or None
    answer     \* what the last operation returned

vars == <<map, answer>>

Init == map = [k \in Keys |-> None] /\ answer = None

Insert(k, v) == map' = [map EXCEPT ![k] = v] /\ answer' = None

Dropped(k) == map[k] = None /\ map' = map /\ answer' = None

Get(k) == answer' = map[k] /\ map' = map

Remove(k) == answer' = map[k] /\ map' = [map EXCEPT ![k] = None]

Clear == map' = [k \in Keys |-> None] /\ answer' = None

Next ==
    \/ \E k \in Keys :
        \/ \E v \in Values : Insert(k, v)
        \/ Dropped(k) \/ Get(k) \/ Remove(k)
    \/ Clear

Spec == Init /\ [][Next]_vars
==============================================================================
