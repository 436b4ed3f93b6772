------------------------------ MODULE DequeSpec ------------------------------
(***************************************************************************)
(* What lib/std/ring.tk promises: a double-ended queue, with no buffer,    *)
(* capacity or mask.  Ring implements it (property Implements there).      *)
(***************************************************************************)
EXTENDS Integers, Sequences

CONSTANTS
    Values,    \* what is stored
    None       \* Option::None

VARIABLES
    items,     \* the contents, front first
    answer     \* what the last operation returned

vars == <<items, answer>>

Front(s) == SubSeq(s, 1, Len(s) - 1)
Last(s)  == s[Len(s)]

Init == items = <<>> /\ answer = None

PushBack(v)  == items' = Append(items, v) /\ answer' = None
PushFront(v) == items' = <<v>> \o items /\ answer' = None

PopFront ==
    /\ items # <<>>
    /\ answer' = Head(items)
    /\ items' = Tail(items)

PopBack ==
    /\ items # <<>>
    /\ answer' = Last(items)
    /\ items' = Front(items)

\* A pop of an empty deque and a get out of range say None and change nothing.
Nothing == answer' = None /\ items' = items

Get(i) ==
    /\ i \in DOMAIN items
    /\ answer' = items[i]
    /\ items' = items

Clear == items' = <<>> /\ answer' = None

Next ==
    \/ \E v \in Values : PushBack(v) \/ PushFront(v)
    \/ PopFront \/ PopBack \/ Nothing \/ Clear
    \/ \E i \in DOMAIN items : Get(i)

Spec == Init /\ [][Next]_vars
==============================================================================
