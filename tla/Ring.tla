--------------------------------- MODULE Ring ---------------------------------
(***************************************************************************)
(* lib/std/ring.tk: RingCore, the growable ring buffer below VecDeque and  *)
(* the channel queue.  The contents are len slots of buf from head on,     *)
(* wrapping at cap; a slot outside them holds nothing the ring owns.       *)
(*                                                                         *)
(* A definition marked Faulty is no part of the model: it is the named bug *)
(* some property must notice when it takes the place of the one below it.  *)
(***************************************************************************)
EXTENDS Integers, Sequences

CONSTANTS
    Values,      \* what is stored
    None,        \* Option::None
    Moved,       \* the content of a slot that was moved out or never written
    FirstCap,    \* the capacity of the first allocation, 8 in the source
    MaxLen       \* bound: elements in the ring

ASSUME NoneAndMovedAreNoValues == {None, Moved} \cap Values = {}
ASSUME FirstCapPositive == FirstCap \in Nat \ {0}
ASSUME MaxLenIsNat == MaxLen \in Nat

VARIABLES
    buf,     \* RingCore.buf, a function on 0..cap-1
    cap,     \* RingCore.cap; RingCore.mask is cap - 1 from the first grow on
    head,    \* RingCore.head
    len,     \* RingCore.len
    answer   \* what the last operation returned

vars == <<buf, cap, head, len, answer>>

Init ==
    /\ buf = [i \in {} |-> Moved]
    /\ cap = 0 /\ head = 0 /\ len = 0
    /\ answer = None

\* x & (c - 1) for a power of two c and x < 2c.  The capacity is FirstCap
\* doubled some times, and every x below is the sum of two slot numbers.
Masked(x, c) == IF x < c THEN x ELSE x - c

Slot(i) == Masked(head + i, cap)

------------------------------------------------------------------------------
\* Faulty: copies the slots where they are and keeps head.
GrownInPlace ==
    LET c == IF cap = 0 THEN FirstCap ELSE 2 * cap
    IN  [b |-> [i \in 0..(c - 1) |-> IF i < cap THEN buf[i] ELSE Moved],
         c |-> c, h |-> head]

\* The buffer a push writes to: grow unrolls a full ring to the start of one
\* twice as large.
Grown ==
    LET c == IF cap = 0 THEN FirstCap ELSE 2 * cap
    IN  [b |-> [i \in 0..(c - 1) |-> IF i < len THEN buf[Slot(i)] ELSE Moved],
         c |-> c, h |-> 0]
Room == IF len = cap THEN Grown ELSE [b |-> buf, c |-> cap, h |-> head]

PushBack(v) ==
    /\ len < MaxLen
    /\ LET r == Room
       IN  /\ buf' = [r.b EXCEPT ![Masked(r.h + len, r.c)] = v]
           /\ cap' = r.c
           /\ head' = r.h
    /\ len' = len + 1
    /\ answer' = None

PushFront(v) ==
    /\ len < MaxLen
    /\ LET r == Room
       IN  /\ head' = Masked(r.h + r.c - 1, r.c)
           /\ buf' = [r.b EXCEPT ![head'] = v]
           /\ cap' = r.c
    /\ len' = len + 1
    /\ answer' = None

PopEmpty == len = 0 /\ answer' = None /\ UNCHANGED <<buf, cap, head, len>>

\* Faulty: off by one.
PopPastBack ==
    /\ len > 0
    /\ answer' = buf[Masked(head + len, cap)]
    /\ buf' = [buf EXCEPT ![Masked(head + len, cap)] = Moved]
    /\ len' = len - 1
    /\ UNCHANGED <<cap, head>>

PopBack ==
    /\ len > 0
    /\ answer' = buf[Slot(len - 1)]
    /\ buf' = [buf EXCEPT ![Slot(len - 1)] = Moved]
    /\ len' = len - 1
    /\ UNCHANGED <<cap, head>>

\* Faulty: head runs past the end of the buffer.
PopUnmasked ==
    /\ len > 0
    /\ answer' = buf[head]
    /\ buf' = [buf EXCEPT ![head] = Moved]
    /\ head' = head + 1
    /\ len' = len - 1
    /\ UNCHANGED cap

PopFront ==
    /\ len > 0
    /\ answer' = buf[head]
    /\ buf' = [buf EXCEPT ![head] = Moved]
    /\ head' = Masked(head + 1, cap)
    /\ len' = len - 1
    /\ UNCHANGED cap

Get(i) ==
    /\ answer' = IF i < len THEN buf[Slot(i)] ELSE None
    /\ UNCHANGED <<buf, cap, head, len>>

Clear ==
    /\ buf' = [i \in DOMAIN buf |->
                 IF \E k \in 0..(len - 1) : i = Slot(k) THEN Moved ELSE buf[i]]
    /\ head' = 0 /\ len' = 0
    /\ answer' = None
    /\ UNCHANGED cap

Next ==
    \/ \E v \in Values : PushBack(v) \/ PushFront(v)
    \/ PopBack \/ PopFront \/ PopEmpty
    \/ \E i \in 0..MaxLen : Get(i)
    \/ Clear

Spec == Init /\ [][Next]_vars

------------------------------------------------------------------------------
TypeOK ==
    /\ cap \in Nat /\ head \in Nat /\ len \in Nat
    /\ buf \in [0..(cap - 1) -> Values \cup {Moved}]
    /\ answer \in Values \cup {None}
    /\ len <= cap
    /\ head < cap \/ head = 0

\* The slots the ring owns are exactly the len slots from head on: no element
\* is overwritten while it is in the ring, left behind in a slot that drop
\* will not visit, or carried along twice by grow.
OwnedSlots == {i \in DOMAIN buf : buf[i] # Moved}
OwnsItsWindow == OwnedSlots = {Slot(k) : k \in 0..(len - 1)}

Contents == [i \in 1..len |-> buf[Slot(i - 1)]]
Abstract == INSTANCE DequeSpec WITH items <- Contents

\* The ring is the double-ended queue its users take it for, across wrapping
\* and growing, whatever the order of the operations.
Implements == Abstract!Spec
==============================================================================
