------------------------------ MODULE OpenTable ------------------------------
(***************************************************************************)
(* lib/std/hashmap.tk: HashMap (and HashSet, a HashMap to bool), an open-  *)
(* addressing table probed linearly.  remove leaves a tombstone so that    *)
(* probes run on over it; only a resize or clear takes tombstones away,    *)
(* and they do not count towards the load that makes insert resize.        *)
(*                                                                         *)
(* A definition marked Faulty is no part of the model: it is the named bug *)
(* some property must notice when it takes the place of the one below it.  *)
(***************************************************************************)
EXTENDS Integers, FiniteSets

CONSTANTS
    Keys, Values,
    None,       \* Option::None
    Hashes,     \* the hash codes the keys may have
    FirstCap,   \* the capacity of a new map, 128 in the source
    MaxCap      \* bound: capacity

ASSUME NoneIsNoValue == None \notin Values
ASSUME HashesAreNat == Hashes \subseteq Nat
ASSUME FirstCapIsFours == FirstCap \in Nat \ {0} /\ FirstCap % 4 = 0
ASSUME MaxCapIsNat == MaxCap \in Nat /\ FirstCap <= MaxCap

Empty == <<"empty">>            \* meta 0
Dead  == <<"dead">>             \* meta 2
Full(k, v) == <<"full", k, v>>  \* meta 1, keys and vals

VARIABLES
    hash,     \* environment: Hash of each key
    slots,    \* meta, keys and vals, a function on 0..cap-1
    cap,      \* HashMap.cap
    len,      \* HashMap.len
    answer    \* what the last operation returned

vars == <<hash, slots, cap, len, answer>>

Init ==
    /\ hash \in [Keys -> Hashes]
    /\ slots = [i \in 0..(FirstCap - 1) |-> Empty]
    /\ cap = FirstCap
    /\ len = 0
    /\ answer = None

------------------------------------------------------------------------------
(* Probing a table t of c slots.  The mask is % c: capacities are powers   *)
(* of two.                                                                 *)

Probe(k, d, c) == (hash[k] + d) % c

HoldsKey(slot, k) == slot[1] = "full" /\ slot[2] = k

\* How far k's probe runs before it meets a slot of S; c if it meets none.
First(S, k, c) ==
    IF \E d \in 0..(c - 1) : Probe(k, d, c) \in S
      THEN CHOOSE d \in 0..(c - 1) :
             /\ Probe(k, d, c) \in S
             /\ \A e \in 0..(d - 1) : Probe(k, e, c) \notin S
      ELSE c

\* Faulty: a probe ends at a tombstone.
StopAtDead(t, k, c) ==
    First({i \in DOMAIN t : t[i] \in {Empty, Dead} \/ HoldsKey(t[i], k)}, k, c)

\* Where get, remove and insert stop: at an empty slot or at k itself.
Stop(t, k, c) ==
    First({i \in DOMAIN t : t[i] = Empty \/ HoldsKey(t[i], k)}, k, c)

\* Where insert would put a new key: the first slot that is not full.
Hole(t, k, c) ==
    Probe(k, First({i \in DOMAIN t : t[i][1] # "full"}, k, c), c)

\* get and remove find k's slot there, or nothing.
Found(t, k, c) ==
    LET d == Stop(t, k, c) IN d < c /\ HoldsKey(t[Probe(k, d, c)], k)
SlotOf(k) == Probe(k, Stop(slots, k, cap), cap)
Lookup(k) == IF Found(slots, k, cap) THEN slots[SlotOf(k)][3] ELSE None

------------------------------------------------------------------------------
(* resize: every entry, in slot order, goes to its first empty slot.       *)

Placed(t, slot, c) ==
    IF slot[1] = "full" THEN [t EXCEPT ![Hole(t, slot[2], c)] = slot] ELSE t

Resized(c) ==
    LET filled[n \in 0..cap] ==
          IF n = 0 THEN [i \in 0..(c - 1) |-> Empty]
          ELSE Placed(filled[n - 1], slots[n - 1], c)
    IN  filled[cap]

\* The table insert works on, resized first when three quarters are taken.
Room ==
    IF len * 4 >= cap * 3 THEN [t |-> Resized(2 * cap), c |-> 2 * cap]
    ELSE [t |-> slots, c |-> cap]

------------------------------------------------------------------------------
(* insert                                                                  *)

\* Faulty: the old value stays.
ReplaceNothing(k, v) ==
    LET r == Room
    IN  /\ r.c <= MaxCap
        /\ Found(r.t, k, r.c)
        /\ slots' = r.t
        /\ cap' = r.c
        /\ answer' = None
        /\ UNCHANGED <<hash, len>>

Replace(k, v) ==
    LET r == Room
    IN  /\ r.c <= MaxCap
        /\ Found(r.t, k, r.c)
        /\ slots' = [r.t EXCEPT ![Probe(k, Stop(r.t, k, r.c), r.c)] = Full(k, v)]
        /\ cap' = r.c
        /\ answer' = None
        /\ UNCHANGED <<hash, len>>

\* The probe ends at an empty slot; the key goes to the first slot on the way
\* that is not full, tombstone or not.
Add(k, v) ==
    LET r == Room
        i == Hole(r.t, k, r.c)
    IN  /\ r.c <= MaxCap
        /\ ~Found(r.t, k, r.c) /\ Stop(r.t, k, r.c) < r.c
        /\ slots' = [r.t EXCEPT ![i] = Full(k, v)]
        /\ cap' = r.c
        /\ len' = len + 1
        /\ answer' = None
        /\ UNCHANGED hash

\* The probe comes back to its start: is_new stays false, the value is
\* written into a tombstone, and the map is as before.
AddNowhere(k) ==
    LET r == Room
    IN  /\ r.c <= MaxCap
        /\ Stop(r.t, k, r.c) = r.c
        /\ slots' = r.t
        /\ cap' = r.c
        /\ answer' = None
        /\ UNCHANGED <<hash, len>>

Insert(k, v) == Replace(k, v) \/ Add(k, v) \/ AddNowhere(k)

------------------------------------------------------------------------------
(* get, contains_key, remove and clear                                     *)

Get(k) == answer' = Lookup(k) /\ UNCHANGED <<hash, slots, cap, len>>

\* Faulty: leaves no tombstone.
RemoveEmptied(k) ==
    /\ Found(slots, k, cap)
    /\ answer' = Lookup(k)
    /\ slots' = [slots EXCEPT ![SlotOf(k)] = Empty]
    /\ len' = len - 1
    /\ UNCHANGED <<hash, cap>>

Remove(k) ==
    /\ Found(slots, k, cap)
    /\ answer' = Lookup(k)
    /\ slots' = [slots EXCEPT ![SlotOf(k)] = Dead]
    /\ len' = len - 1
    /\ UNCHANGED <<hash, cap>>

\* Faulty: counts a removal all the same.
RemoveCounted(k) ==
    /\ ~Found(slots, k, cap)
    /\ answer' = None
    /\ len' = len - 1
    /\ UNCHANGED <<hash, slots, cap>>

RemoveNothing(k) ==
    /\ ~Found(slots, k, cap)
    /\ answer' = None
    /\ UNCHANGED <<hash, slots, cap, len>>

Clear ==
    /\ slots' = [i \in DOMAIN slots |-> Empty]
    /\ len' = 0
    /\ answer' = None
    /\ UNCHANGED <<hash, cap>>

Next ==
    \/ \E k \in Keys :
        \/ \E v \in Values : Replace(k, v) \/ Add(k, v)
        \/ AddNowhere(k) \/ Get(k) \/ Remove(k) \/ RemoveNothing(k)
    \/ Clear

Spec == Init /\ [][Next]_vars

------------------------------------------------------------------------------
TypeOK ==
    /\ hash \in [Keys -> Hashes]
    /\ cap \in Nat \ {0} /\ cap <= MaxCap
    /\ slots \in [0..(cap - 1) -> {Empty, Dead} \cup
                                   {Full(k, v) : k \in Keys, v \in Values}]
    /\ len \in 0..cap
    /\ answer \in Values \cup {None}

\* Every entry is where a probe for its key ends: no removal or reuse in front
\* of it cuts it off, no resize misplaces it, and no key has two entries.  len
\* is the number of entries, and at most three quarters of the slots are full:
\* a probe always passes one that is not, so found_slot, which starts out past
\* the arrays, is inside them when insert writes.
ReachableOnce ==
    /\ \A i \in DOMAIN slots : slots[i][1] = "full" =>
          Found(slots, slots[i][2], cap) /\ SlotOf(slots[i][2]) = i
    /\ len = Cardinality({i \in DOMAIN slots : slots[i][1] = "full"})
    /\ 4 * len <= 3 * cap

\* Operations on one key do not touch the others, and answer with what was
\* stored last.
Contents == [k \in Keys |-> Lookup(k)]
Abstract == INSTANCE MapSpec WITH map <- Contents
Implements == Abstract!Spec

\* The key is there already, the table is about to be resized, or a slot is
\* empty, not a tombstone.
RoomFor(k) ==
    \/ Lookup(k) # None
    \/ 4 * len >= 3 * cap
    \/ \E i \in DOMAIN slots : slots[i] = Empty

\* An insertion takes effect as long as there is room, however many tombstones
\* the probe has to pass: a step after which k is not bound to v was no
\* insertion of it.
InsertTakesEffect ==
    [][\A k \in Keys, v \in Values :
         RoomFor(k) /\ Lookup(k)' # v => ~Insert(k, v)]_vars

\* "Tombstone probing test": a key is contained after it is inserted.
InsertedIsFound ==
    [][\A k \in Keys, v \in Values :
         Lookup(k)' # v => ~Insert(k, v)]_vars
==============================================================================
