--------------------------------- MODULE Slab ---------------------------------
(***************************************************************************)
(* lib/std/slab.tk: the generational slab.  An id names a slot and the     *)
(* generation it had when the element was inserted; a vacated slot waits   *)
(* on a free list threaded through next_free and comes back with the next  *)
(* generation, so that an id kept after its element is gone finds nothing. *)
(*                                                                         *)
(* A definition marked Faulty is no part of the model: it is the named bug *)
(* some property must notice when it takes the place of the one below it.  *)
(***************************************************************************)
EXTENDS Integers, Sequences, FiniteSets

CONSTANTS
    Values,       \* what is stored
    None,         \* Option::None
    GenMod,       \* generation is a u32: 2^32 in the source
    MaxSlots,     \* bound: slots of the slab
    MaxReuse      \* bound: insertions into one slot between two clears

ASSUME NoneIsNoValue == None \notin Values
ASSUME GenModPositive == GenMod \in Nat /\ GenMod > 1
ASSUME BoundsAreNat == MaxSlots \in Nat /\ MaxReuse \in Nat
ASSUME NoGenerationWrap == MaxReuse < GenMod

Nil == -1     \* free_head = 0xFFFFFFFF

VARIABLES
    entries,     \* Slab.entries: val, generation and next_free of each slot
    free_head,   \* Slab.free_head
    len,         \* Slab.len
    answer,      \* what the last operation returned
    held,        \* history: for each id given out, its element, None when gone
    old          \* history: ids given out before the last clear

vars == <<entries, free_head, len, answer, held, old>>

Ids == (0..(MaxSlots - 1)) \X (0..(GenMod - 1))   \* SlabID: index, generation

Slots == 0..(Len(entries) - 1)
Entry(i) == entries[i + 1]
Free == {i \in Slots : Entry(i).val = None}

Init ==
    /\ entries = <<>>
    /\ free_head = Nil
    /\ len = 0
    /\ answer = None
    /\ held = [id \in {} |-> None]
    /\ old = {}

\* An id gives access to an element: same generation, and not vacated.
Finds(id) ==
    /\ id[1] < Len(entries)
    /\ Entry(id[1]).generation = id[2]
    /\ Entry(id[1]).val # None

\* What the first holder of an id was given it for: a second grant of the
\* same id would go unrecorded and IdFindsItsElement would notice.
Grant(id, v) ==
    held' = [k \in DOMAIN held \cup {id} |->
               IF k \in DOMAIN held THEN held[k] ELSE v]

------------------------------------------------------------------------------
InsertNew(v) ==
    LET i == Len(entries)
    IN  /\ free_head = Nil
        /\ i < MaxSlots
        /\ entries' = Append(entries,
                             [val |-> v, generation |-> 1, next_free |-> 0])
        /\ Grant(<<i, 1>>, v)
        /\ len' = len + 1
        /\ answer' = <<i, 1>>
        /\ UNCHANGED <<free_head, old>>

\* Faulty: the slot keeps its generation.
InsertSameGeneration(v) ==
    LET i == free_head
        g == Entry(i).generation
    IN  /\ free_head # Nil
        /\ free_head' = Entry(i).next_free
        /\ entries' = [entries EXCEPT ![i + 1].val = v]
        /\ Grant(<<i, g>>, v)
        /\ len' = len + 1
        /\ answer' = <<i, g>>
        /\ UNCHANGED old

InsertReused(v) ==
    LET i == free_head
        g == (Entry(i).generation + 1) % GenMod
    IN  /\ free_head # Nil
        /\ Cardinality({id \in DOMAIN held : id[1] = i}) < MaxReuse
        /\ free_head' = Entry(i).next_free
        /\ entries' = [entries EXCEPT ![i + 1].val = v,
                                      ![i + 1].generation = g]
        /\ Grant(<<i, g>>, v)
        /\ len' = len + 1
        /\ answer' = <<i, g>>
        /\ UNCHANGED old

\* Faulty: forgets the slots vacated before.
RemoveUnlinked(id) ==
    /\ Finds(id)
    /\ answer' = Entry(id[1]).val
    /\ entries' = [entries EXCEPT ![id[1] + 1].val = None,
                                  ![id[1] + 1].next_free = Nil]
    /\ free_head' = id[1]
    /\ len' = len - 1
    /\ held' = [held EXCEPT ![id] = None]
    /\ UNCHANGED old

Remove(id) ==
    /\ Finds(id)
    /\ answer' = Entry(id[1]).val
    /\ entries' = [entries EXCEPT ![id[1] + 1].val = None,
                                  ![id[1] + 1].next_free = free_head]
    /\ free_head' = id[1]
    /\ len' = len - 1
    /\ held' = [held EXCEPT ![id] = None]
    /\ UNCHANGED old

\* remove, get and get_mut of an id that finds nothing.
FindNothing(id) ==
    /\ ~Finds(id)
    /\ answer' = None
    /\ UNCHANGED <<entries, free_head, len, held, old>>

Get(id) ==
    /\ Finds(id)
    /\ answer' = Entry(id[1]).val
    /\ UNCHANGED <<entries, free_head, len, held, old>>

\* The reference that get_mut returned is written through.
GetMut(id, v) ==
    /\ Finds(id)
    /\ answer' = Entry(id[1]).val
    /\ entries' = [entries EXCEPT ![id[1] + 1].val = v]
    /\ held' = [held EXCEPT ![id] = v]
    /\ UNCHANGED <<free_head, len, old>>

Clear ==
    /\ entries' = <<>>
    /\ free_head' = Nil
    /\ len' = 0
    /\ answer' = None
    /\ held' = [id \in {} |-> None]
    /\ old' = old \cup DOMAIN held

\* The ids a client can present: any it was ever given.
Known == DOMAIN held \cup old

Next ==
    \/ \E v \in Values : InsertNew(v) \/ InsertReused(v)
    \/ \E id \in Known :
         \/ Remove(id) \/ FindNothing(id) \/ Get(id)
         \/ \E v \in Values : GetMut(id, v)
    \/ Clear

Spec == Init /\ [][Next]_vars

------------------------------------------------------------------------------
TypeOK ==
    /\ entries \in Seq([val : Values \cup {None}, generation : 0..(GenMod - 1),
                         next_free : Slots \cup {0, Nil}])
    /\ Len(entries) <= MaxSlots
    /\ free_head \in Slots \cup {Nil}
    /\ len \in 0..MaxSlots
    /\ answer \in Values \cup {None} \cup Ids
    /\ DOMAIN held \subseteq Ids
    /\ \A id \in DOMAIN held : held[id] \in Values \cup {None}
    /\ old \subseteq Ids

\* The free list runs through every vacated slot exactly once and ends, so a
\* slot is never given out twice, lost, or cut off behind a later one; len
\* counts the other slots.  Every variable has its type, so that each of these
\* slots is there.
FreeListExact ==
    LET n == Cardinality(Free)
    IN  /\ TypeOK
        /\ len = Cardinality(Slots \ Free)
        /\ \E order \in [1..n -> Free] :
             /\ \A i, j \in 1..n : order[i] = order[j] => i = j
             /\ free_head = IF n = 0 THEN Nil ELSE order[1]
             /\ \A i \in 1..n :
                  Entry(order[i]).next_free = IF i = n THEN Nil ELSE order[i + 1]

\* Among the ids given out since the last clear, one finds its own element
\* until that element is removed and nothing ever after, however often the
\* slot is used again; an id that finds an element is one of them.
IdFindsItsElement ==
    /\ \A id \in DOMAIN held :
         IF held[id] = None THEN ~Finds(id)
         ELSE Finds(id) /\ Entry(id[1]).val = held[id]
    /\ \A id \in Known : Finds(id) => id \in DOMAIN held

\* "generational ID should prevent ABA stale read": an id is never given out
\* a second time, so an old one can never find a stranger's element.
NeverReissued == old \cap DOMAIN held = {}
==============================================================================
