----------------------------- MODULE SlabProofs -----------------------------
(***************************************************************************)
(* Theorems about Slab, for any values, any number of slots and any modulus *)
(* of the generations: the free list is exact, and an id finds its own     *)
(* element or nothing.                                                     *)
(*                                                                         *)
(* SlabInv says what each history record must be: the ids given out for a  *)
(* slot are exactly those with the generations 1 up to its present one, so *)
(* that the next generation of a slot is new.                              *)
(***************************************************************************)
EXTENDS Slab, FiniteSetTheorems, TLAPS

Record(n) == [val : Values \cup {None}, generation : 0..(GenMod - 1),
              next_free : (0..(n - 1)) \cup {0, Nil}]

\* The vacated slots of a sequence of entries.
FreeOf(E) == {i \in 0..(Len(E) - 1) : E[i + 1].val = None}

\* The list that starts at h runs through each of them once.
Chain(E, h, n, order) ==
    /\ order \in [1..n -> FreeOf(E)]
    /\ \A i, j \in 1..n : order[i] = order[j] => i = j
    /\ h = IF n = 0 THEN Nil ELSE order[1]
    /\ \A i \in 1..n :
          E[order[i] + 1].next_free = IF i = n THEN Nil ELSE order[i + 1]
ListOf(E, h) == \E order : Chain(E, h, Cardinality(FreeOf(E)), order)

LEMMA FreeIsFinite ==
    ASSUME NEW E, Len(E) \in Nat
    PROVE  IsFiniteSet(FreeOf(E)) /\ Cardinality(FreeOf(E)) \in Nat
<1>1. FreeOf(E) \in SUBSET (0..(Len(E) - 1)) /\ Len(E) - 1 \in Int
  BY DEF FreeOf
<1>2. IsFiniteSet(0..(Len(E) - 1))
  BY <1>1, FS_Interval
<1>. QED
  BY <1>1, <1>2, FS_Subset, FS_CardinalityType

\* Taking the head from the list.
LEMMA ListPop ==
    ASSUME NEW n \in Nat, NEW E \in Seq(Record(n)), NEW h, h # Nil, ListOf(E, h),
           NEW v \in Values, NEW g
    PROVE  LET F == [E EXCEPT ![h + 1].val = v, ![h + 1].generation = g]
           IN  /\ h \in FreeOf(E) /\ FreeOf(F) = FreeOf(E) \ {h}
               /\ ListOf(F, E[h + 1].next_free)
<1>. DEFINE k == Cardinality(FreeOf(E))
            F == [E EXCEPT ![h + 1].val = v, ![h + 1].generation = g]
<1>1. PICK order : Chain(E, h, k, order)
  BY DEF ListOf
<1>2. k \in Nat /\ IsFiniteSet(FreeOf(E))
  BY FreeIsFinite
<1>3. k > 0 /\ h = order[1] /\ h \in FreeOf(E)
  BY <1>1, <1>2 DEF Chain
<1>4. h \in 0..(Len(E) - 1) /\ h + 1 \in 1..Len(E) /\ E[h + 1] \in Record(n)
  BY <1>3 DEF FreeOf
<1>5. /\ Len(F) = Len(E) /\ F[h + 1].val = v
      /\ F[h + 1].next_free = E[h + 1].next_free
      /\ \A i \in 1..Len(E) : i # h + 1 => F[i] = E[i]
  BY <1>4 DEF Record
<1>. HIDE DEF F
<1>6. FreeOf(F) = FreeOf(E) \ {h}
  <2>1. \A i \in 0..(Len(E) - 1) : i # h => F[i + 1] = E[i + 1]
    BY <1>4, <1>5
  <2>2. v # None
    BY NoneIsNoValue
  <2>. QED
    BY <1>4, <1>5, <2>1, <2>2 DEF FreeOf
<1>7. Cardinality(FreeOf(F)) = k - 1
  BY <1>2, <1>3, <1>6, FS_RemoveElement
<1>. DEFINE rest == [i \in 1..(k - 1) |-> order[i + 1]]
<1>8. Chain(F, E[h + 1].next_free, k - 1, rest)
  <2>1. /\ order \in [1..k -> FreeOf(E)]
        /\ \A i, j \in 1..k : order[i] = order[j] => i = j
        /\ \A i \in 1..k :
              E[order[i] + 1].next_free = IF i = k THEN Nil ELSE order[i + 1]
    BY <1>1 DEF Chain
  <2>2. \A i \in 1..(k - 1) : i + 1 \in 1..k /\ i + 1 # 1
    BY <1>2
  <2>3. \A i \in 1..(k - 1) : order[i + 1] \in FreeOf(E) \ {h}
    BY <1>2, <1>3, <2>1, <2>2
  <2>4. rest \in [1..(k - 1) -> FreeOf(F)]
    BY <1>6, <2>3
  <2>5. \A i, j \in 1..(k - 1) : rest[i] = rest[j] => i = j
    BY <1>2, <2>1, <2>2
  <2>6. E[h + 1].next_free = IF k - 1 = 0 THEN Nil ELSE rest[1]
    <3>1. E[h + 1].next_free = IF k = 1 THEN Nil ELSE order[2]
      BY <1>2, <1>3, <2>1
    <3>. QED
      BY <1>2, <1>3, <3>1
  <2>7. ASSUME NEW i \in 1..(k - 1)
        PROVE  F[rest[i] + 1].next_free = IF i = k - 1 THEN Nil ELSE rest[i + 1]
    <3>1. rest[i] = order[i + 1] /\ rest[i] \in 0..(Len(E) - 1) /\ rest[i] # h
      BY <2>3 DEF FreeOf
    <3>2. F[rest[i] + 1] = E[rest[i] + 1]
      BY <1>4, <1>5, <3>1
    <3>3. E[rest[i] + 1].next_free = IF i + 1 = k THEN Nil ELSE order[i + 2]
      BY <1>2, <2>1, <2>2, <3>1
    <3>. QED
      BY <1>2, <3>2, <3>3
  <2>. HIDE DEF rest
  <2>. QED
    BY <2>4, <2>5, <2>6, <2>7 DEF Chain
<1>. QED
  BY <1>3, <1>6, <1>7, <1>8 DEF ListOf, F

\* Putting a slot in front of the list.
LEMMA ListPush ==
    ASSUME NEW n \in Nat, NEW E \in Seq(Record(n)), NEW h, ListOf(E, h),
           NEW i \in 0..(Len(E) - 1), E[i + 1].val # None
    PROVE  LET F == [E EXCEPT ![i + 1].val = None, ![i + 1].next_free = h]
           IN  /\ FreeOf(F) = FreeOf(E) \cup {i} /\ i \notin FreeOf(E)
               /\ ListOf(F, i)
<1>. DEFINE k == Cardinality(FreeOf(E))
            F == [E EXCEPT ![i + 1].val = None, ![i + 1].next_free = h]
<1>1. PICK order : Chain(E, h, k, order)
  BY DEF ListOf
<1>2. k \in Nat /\ IsFiniteSet(FreeOf(E))
  BY FreeIsFinite
<1>3. i + 1 \in 1..Len(E) /\ E[i + 1] \in Record(n) /\ i \notin FreeOf(E)
  BY DEF FreeOf
<1>4. /\ Len(F) = Len(E) /\ F[i + 1].val = None /\ F[i + 1].next_free = h
      /\ \A j \in 1..Len(E) : j # i + 1 => F[j] = E[j]
  BY <1>3 DEF Record
<1>. HIDE DEF F
<1>5. FreeOf(F) = FreeOf(E) \cup {i}
  <2>1. \A j \in 0..(Len(E) - 1) : j # i => F[j + 1] = E[j + 1]
    BY <1>4
  <2>. QED
    BY <1>4, <2>1 DEF FreeOf
<1>6. Cardinality(FreeOf(F)) = k + 1
  BY <1>2, <1>3, <1>5, FS_AddElement
<1>. DEFINE more == [j \in 1..(k + 1) |-> IF j = 1 THEN i ELSE order[j - 1]]
<1>7. Chain(F, i, k + 1, more)
  <2>1. /\ order \in [1..k -> FreeOf(E)]
        /\ \A a, b \in 1..k : order[a] = order[b] => a = b
        /\ h = IF k = 0 THEN Nil ELSE order[1]
        /\ \A a \in 1..k :
              E[order[a] + 1].next_free = IF a = k THEN Nil ELSE order[a + 1]
    BY <1>1 DEF Chain
  <2>2. \A j \in 2..(k + 1) : j - 1 \in 1..k /\ more[j] = order[j - 1] /\ order[j - 1] # i
    BY <1>2, <1>3, <2>1
  <2>3. more[1] = i /\ \A j \in 1..(k + 1) : j = 1 \/ j \in 2..(k + 1)
    BY <1>2
  <2>4. more \in [1..(k + 1) -> FreeOf(F)]
    BY <1>2, <1>5, <2>1
  <2>. HIDE DEF more
  <2>5. \A a, b \in 1..(k + 1) : more[a] = more[b] => a = b
    BY <1>2, <2>1, <2>2, <2>3
  <2>6. ASSUME NEW j \in 1..(k + 1)
        PROVE  F[more[j] + 1].next_free = IF j = k + 1 THEN Nil ELSE more[j + 1]
    <3>1. CASE j = 1
      <4>1. F[more[j] + 1].next_free = h
        BY <1>4, <2>3, <3>1
      <4>2. k # 0 => more[2] = order[1]
        BY <1>2, <2>2
      <4>. QED
        BY <1>2, <2>1, <3>1, <4>1, <4>2
    <3>2. CASE j \in 2..(k + 1)
      <4>1. /\ j - 1 \in 1..k /\ more[j] = order[j - 1] /\ more[j] # i
            /\ more[j] \in 0..(Len(E) - 1)
        BY <2>1, <2>2, <3>2 DEF FreeOf
      <4>2. F[more[j] + 1] = E[more[j] + 1]
        BY <1>4, <4>1
      <4>3. E[more[j] + 1].next_free = IF j - 1 = k THEN Nil ELSE order[j - 1 + 1]
        BY <2>1, <4>1
      <4>4. j # k + 1 => more[j + 1] = order[j]
        BY <1>2, <2>2, <3>2
      <4>. QED
        BY <1>2, <3>2, <4>2, <4>3, <4>4
    <3>. QED
      BY <2>3, <3>1, <3>2
  <2>. QED
    BY <1>2, <2>3, <2>4, <2>5, <2>6 DEF Chain
<1>. QED
  BY <1>3, <1>5, <1>6, <1>7 DEF ListOf, F

\* A new slot at the end, or another value in a slot that has one, leaves the
\* list as it is.
LEMMA ListSame ==
    ASSUME NEW E, NEW F, NEW h, ListOf(E, h), FreeOf(F) = FreeOf(E),
           \A i \in FreeOf(E) : F[i + 1].next_free = E[i + 1].next_free
    PROVE  ListOf(F, h)
<1>1. PICK order : Chain(E, h, Cardinality(FreeOf(E)), order)
  BY DEF ListOf
<1>2. Chain(F, h, Cardinality(FreeOf(E)), order)
  BY <1>1 DEF Chain
<1>. QED
  BY <1>2 DEF ListOf

-----------------------------------------------------------------------------
(* The ids given out                                                       *)

\* For every slot of E the ids of its generations up to the present one.
Given(E) == {id \in Ids : /\ id[1] < Len(E) /\ 1 <= id[2]
                          /\ id[2] <= E[id[1] + 1].generation}

\* What H must say of the ids: the present one has the slot's element.
HeldExact(E, H) ==
    /\ H \in [Given(E) -> Values \cup {None}]
    /\ \A id \in Given(E) :
          H[id] = IF id[2] = E[id[1] + 1].generation THEN E[id[1] + 1].val ELSE None

SlabInv ==
    /\ entries \in Seq(Record(Len(entries))) /\ Len(entries) <= MaxSlots
    /\ \A i \in 1..Len(entries) : entries[i].generation > 0
    /\ free_head \in Slots \cup {Nil}
    /\ len \in Nat /\ len + Cardinality(FreeOf(entries)) = Len(entries)
    /\ answer \in Values \cup {None} \cup Ids
    /\ old \subseteq Ids
    /\ ListOf(entries, free_head)
    /\ HeldExact(entries, held)

LEMMA IdsFinite == IsFiniteSet(Ids)
<1>1. IsFiniteSet(0..(MaxSlots - 1)) /\ IsFiniteSet(0..(GenMod - 1))
  BY FS_Interval, BoundsAreNat, GenModPositive
<1>. QED
  BY <1>1, FS_Product DEF Ids

\* There is one id for each generation of a slot, so a bound on the ids is one
\* on the generation.
LEMMA GenerationBound ==
    ASSUME NEW E, Len(E) \in Nat, Len(E) <= MaxSlots, NEW i \in 0..(Len(E) - 1),
           E[i + 1].generation \in 0..(GenMod - 1),
           Cardinality({id \in Given(E) : id[1] = i}) < MaxReuse
    PROVE  E[i + 1].generation < MaxReuse
<1>. DEFINE g == E[i + 1].generation
            T == {id \in Given(E) : id[1] = i}
            f == [k \in 1..g |-> <<i, k>>]
<1>1. IsFiniteSet(T)
  <2>1. T \in SUBSET Ids
    BY DEF Given
  <2>. QED
    BY <2>1, IdsFinite, FS_Subset
<1>2. \A k \in 1..g : <<i, k>> \in T
  <2>1. \A k \in 1..g : <<i, k>> \in Ids
    BY BoundsAreNat, GenModPositive DEF Ids
  <2>. QED
    BY <2>1 DEF Given
<1>3. f \in Injection(1..g, T)
  BY <1>2 DEF Injection, IsInjective
<1>4. Cardinality(1..g) <= Cardinality(T)
  BY <1>1, <1>3, FS_Injection
<1>5. Cardinality(1..g) = g /\ g \in Nat
  <2>1. g \in Nat /\ g \in Int /\ 1 \in Int
    BY GenModPositive
  <2>. HIDE DEF g
  <2>. QED
    BY <2>1, FS_Interval
<1>. QED
  BY <1>1, <1>4, <1>5, FS_CardinalityType, BoundsAreNat

\* A new generation of a slot, or the first of a new slot, adds its id.
LEMMA GrantExact ==
    ASSUME NEW E, NEW F, NEW H, HeldExact(E, H), NEW i, NEW g, NEW v \in Values,
           <<i, g>> \in Ids, <<i, g>> \notin Given(E),
           Given(F) = Given(E) \cup {<<i, g>>},
           F[i + 1].val = v, F[i + 1].generation = g,
           \A id \in Given(E) : IF id[1] = i THEN id[2] # g /\ H[id] = None
                                ELSE F[id[1] + 1] = E[id[1] + 1]
    PROVE  HeldExact(F, [k \in DOMAIN H \cup {<<i, g>>} |->
                           IF k \in DOMAIN H THEN H[k] ELSE v])
<1>. DEFINE G == [k \in DOMAIN H \cup {<<i, g>>} |->
                    IF k \in DOMAIN H THEN H[k] ELSE v]
<1>1. DOMAIN H = Given(E) /\ H \in [Given(E) -> Values \cup {None}]
  BY DEF HeldExact
<1>2. G \in [Given(F) -> Values \cup {None}]
  BY <1>1
<1>3. ASSUME NEW id \in Given(F)
      PROVE  G[id] = IF id[2] = F[id[1] + 1].generation THEN F[id[1] + 1].val ELSE None
  <2>1. CASE id = <<i, g>>
    BY <1>1, <2>1
  <2>2. CASE id \in Given(E)
    <3>1. G[id] = H[id]
      BY <1>1, <2>2
    <3>2. H[id] = IF id[2] = E[id[1] + 1].generation THEN E[id[1] + 1].val ELSE None
      BY <2>2 DEF HeldExact
    <3>. HIDE DEF G
    <3>. QED
      BY <2>2, <3>1, <3>2
  <2>. QED
    BY <2>1, <2>2
<1>. QED
  BY <1>2, <1>3 DEF HeldExact

\* The element of an id is taken out or written over.
LEMMA ValExact ==
    ASSUME NEW E, NEW F, NEW H, HeldExact(E, H), NEW id \in Given(E),
           id[2] = E[id[1] + 1].generation, Given(F) = Given(E),
           NEW w \in Values \cup {None}, F[id[1] + 1].val = w,
           \A k \in Given(E) :
              /\ F[k[1] + 1].generation = E[k[1] + 1].generation
              /\ k[1] # id[1] => F[k[1] + 1].val = E[k[1] + 1].val
    PROVE  HeldExact(F, [H EXCEPT ![id] = w])
<1>. DEFINE G == [H EXCEPT ![id] = w]
<1>1. H \in [Given(E) -> Values \cup {None}] /\ G \in [Given(F) -> Values \cup {None}]
  BY DEF HeldExact
<1>2. ASSUME NEW k \in Given(F)
      PROVE  G[k] = IF k[2] = F[k[1] + 1].generation THEN F[k[1] + 1].val ELSE None
  <2>1. CASE k = id
    BY <1>1, <2>1
  <2>2. CASE k # id
    <3>1. G[k] = H[k] /\ H[k] = IF k[2] = E[k[1] + 1].generation
                                THEN E[k[1] + 1].val ELSE None
      BY <1>1, <2>2 DEF HeldExact
    <3>2. k[1] # id[1] \/ k[2] # id[2]
      BY <2>2 DEF Given, Ids
    <3>3. k[1] = id[1] => k[2] # F[k[1] + 1].generation
      BY <3>2
    <3>. HIDE DEF G
    <3>. QED
      BY <3>1, <3>3
  <2>. QED
    BY <2>1, <2>2
<1>. QED
  BY <1>1, <1>2 DEF HeldExact

-----------------------------------------------------------------------------
(* The steps                                                               *)

LEMMA SlabInit == Init => SlabInv
<1>. SUFFICES ASSUME Init PROVE SlabInv
  OBVIOUS
<1>1. /\ entries = <<>> /\ free_head = Nil /\ len = 0 /\ answer = None
      /\ held = [id \in {} |-> None] /\ old = {}
  BY DEF Init
<1>2. FreeOf(entries) = {} /\ Cardinality(FreeOf(entries)) = 0
  BY <1>1, FS_EmptySet DEF FreeOf
<1>3. Chain(entries, free_head, 0, [i \in 1..0 |-> 0])
  BY <1>1 DEF Chain
<1>4. Given(entries) = {}
  BY <1>1 DEF Given, Ids
<1>5. HeldExact(entries, held)
  BY <1>1, <1>4 DEF HeldExact
<1>6. entries \in Seq(Record(Len(entries))) /\ Len(entries) = 0
  BY <1>1
<1>. QED
  BY <1>1, <1>2, <1>3, <1>5, <1>6, BoundsAreNat DEF SlabInv, ListOf

LEMMA SlabNew ==
    ASSUME SlabInv, NEW v \in Values, InsertNew(v) PROVE SlabInv'
<1>. DEFINE E == entries
            n == Len(E)
            e == [val |-> v, generation |-> 1, next_free |-> 0]
            F == Append(E, e)
<1>1. /\ n < MaxSlots /\ free_head = Nil /\ free_head' = Nil
      /\ entries' = F /\ len' = len + 1 /\ answer' = <<n, 1>> /\ old' = old
      /\ held' = [k \in DOMAIN held \cup {<<n, 1>>} |->
                    IF k \in DOMAIN held THEN held[k] ELSE v]
  BY DEF InsertNew, Grant
<1>2. /\ E \in Seq(Record(n)) /\ n \in Nat
      /\ \A i \in 1..n : E[i] \in Record(n) /\ E[i].generation > 0
  BY DEF SlabInv
<1>3. e \in Record(n + 1) /\ e.val # None
  BY <1>2, GenModPositive, NoneIsNoValue DEF Record
<1>4. E \in Seq(Record(n + 1))
  <2>1. \A i \in 1..n : E[i] \in Record(n + 1)
    BY <1>2 DEF Record
  <2>. QED
    BY <1>2, <2>1
<1>. HIDE DEF e
<1>5. /\ F \in Seq(Record(n + 1)) /\ Len(F) = n + 1 /\ F[n + 1] = e
      /\ \A i \in 1..n : F[i] = E[i]
  BY <1>3, <1>4
<1>6. e.val = v /\ e.generation = 1
  BY DEF e
<1>. HIDE DEF F
<1>7. FreeOf(F) = FreeOf(E)
  <2>1. \A i \in 0..n : i = n \/ (i \in 0..(n - 1) /\ F[i + 1] = E[i + 1])
    BY <1>2, <1>5
  <2>. QED
    BY <1>2, <1>3, <1>5, <2>1 DEF FreeOf
<1>8. ListOf(F, free_head')
  <2>1. \A i \in FreeOf(E) : F[i + 1].next_free = E[i + 1].next_free
    BY <1>2, <1>5 DEF FreeOf
  <2>2. ListOf(E, free_head')
    BY <1>1 DEF SlabInv
  <2>. QED
    BY <1>7, <2>1, <2>2, ListSame
<1>9. <<n, 1>> \in Ids /\ <<n, 1>> \notin Given(E)
  BY <1>1, <1>2, GenModPositive, BoundsAreNat DEF Ids, Given
<1>10. Given(F) = Given(E) \cup {<<n, 1>>}
  <2>1. ASSUME NEW id \in Ids PROVE id \in Given(F) <=> id \in Given(E) \/ id = <<n, 1>>
    <3>1. id[1] \in Nat /\ id[2] \in Nat /\ id = <<id[1], id[2]>>
      BY BoundsAreNat, GenModPositive DEF Ids
    <3>2. CASE id[1] < n
      <4>1. F[id[1] + 1] = E[id[1] + 1] /\ id # <<n, 1>>
        BY <1>2, <1>5, <3>1, <3>2
      <4>. QED
        BY <1>2, <1>5, <3>1, <3>2, <4>1 DEF Given
    <3>3. CASE id[1] = n
      BY <1>2, <1>5, <1>6, <3>1, <3>3 DEF Given
    <3>4. CASE id[1] > n
      BY <1>2, <1>5, <3>1, <3>4 DEF Given
    <3>. QED
      BY <1>2, <3>1, <3>2, <3>3, <3>4
  <2>. QED
    BY <1>9, <2>1 DEF Given
<1>11. HeldExact(F, held')
  <2>1. HeldExact(E, held)
    BY DEF SlabInv
  <2>2. \A id \in Given(E) : id[1] # n /\ F[id[1] + 1] = E[id[1] + 1]
    BY <1>2, <1>5, BoundsAreNat DEF Given, Ids
  <2>3. \A id \in Given(E) : IF id[1] = n THEN id[2] # 1 /\ held[id] = None
                             ELSE F[id[1] + 1] = E[id[1] + 1]
    BY <2>2
  <2>4. F[n + 1].val = v /\ F[n + 1].generation = 1
    BY <1>5, <1>6
  <2>. HIDE DEF E, n
  <2>5. HeldExact(F, [k \in DOMAIN held \cup {<<n, 1>>} |->
                        IF k \in DOMAIN held THEN held[k] ELSE v])
    BY <1>9, <1>10, <2>1, <2>3, <2>4, GrantExact
  <2>. QED
    BY <1>1, <2>5
<1>12. \A i \in 1..Len(F) : F[i].generation > 0
  BY <1>2, <1>5, <1>6
<1>13. len' \in Nat /\ len' + Cardinality(FreeOf(F)) = Len(F)
  <2>1. len \in Nat /\ len + Cardinality(FreeOf(E)) = n /\ Cardinality(FreeOf(E)) \in Nat
    BY <1>2, FreeIsFinite DEF SlabInv
  <2>. QED
    BY <1>1, <1>2, <1>5, <1>7, <2>1
<1>14. F \in Seq(Record(Len(F))) /\ Len(F) <= MaxSlots
  BY <1>1, <1>2, <1>5, BoundsAreNat
<1>15. /\ free_head' \in Slots' \cup {Nil} /\ old' \subseteq Ids
       /\ answer' \in Values \cup {None} \cup Ids
  BY <1>1, <1>9 DEF SlabInv
<1>. QED
  BY <1>1, <1>8, <1>11, <1>12, <1>13, <1>14, <1>15 DEF SlabInv

LEMMA SlabReused ==
    ASSUME SlabInv, NEW v \in Values, InsertReused(v) PROVE SlabInv'
<1>. DEFINE E == entries
            n == Len(E)
            i == free_head
            g == (E[i + 1].generation + 1) % GenMod
            F == [E EXCEPT ![i + 1].val = v, ![i + 1].generation = g]
<1>1. /\ free_head # Nil /\ entries' = F /\ free_head' = E[i + 1].next_free
      /\ Cardinality({id \in DOMAIN held : id[1] = i}) < MaxReuse
      /\ len' = len + 1 /\ answer' = <<i, g>> /\ old' = old
      /\ held' = [k \in DOMAIN held \cup {<<i, g>>} |->
                    IF k \in DOMAIN held THEN held[k] ELSE v]
  BY DEF InsertReused, Grant, Entry
<1>2. /\ E \in Seq(Record(n)) /\ n \in Nat /\ n <= MaxSlots
      /\ \A j \in 1..n : E[j] \in Record(n) /\ E[j].generation > 0
      /\ ListOf(E, i) /\ HeldExact(E, held)
  BY DEF SlabInv
<1>3. /\ i \in FreeOf(E) /\ FreeOf(F) = FreeOf(E) \ {i}
      /\ ListOf(F, free_head')
  <2>1. i # Nil /\ ListOf(E, i) /\ E \in Seq(Record(n)) /\ n \in Nat
    BY <1>1, <1>2
  <2>. HIDE DEF E, i, g, n
  <2>2. /\ i \in FreeOf(E) /\ FreeOf(F) = FreeOf(E) \ {i}
        /\ ListOf(F, E[i + 1].next_free)
    BY <2>1, ListPop
  <2>. QED
    BY <1>1, <2>2
<1>4. /\ i \in 0..(n - 1) /\ i + 1 \in 1..n /\ E[i + 1] \in Record(n)
      /\ E[i + 1].val = None
  BY <1>2, <1>3 DEF FreeOf
<1>5. g = E[i + 1].generation + 1 /\ g \in 0..(GenMod - 1) /\ g > 1
  <2>1. DOMAIN held = Given(E)
    BY <1>2 DEF HeldExact
  <2>2. E[i + 1].generation \in 0..(GenMod - 1)
    BY <1>4 DEF Record
  <2>3. E[i + 1].generation < MaxReuse
    BY <1>1, <1>2, <1>4, <2>1, <2>2, GenerationBound
  <2>4. E[i + 1].generation + 1 < GenMod
    BY <2>2, <2>3, NoGenerationWrap, BoundsAreNat, GenModPositive
  <2>. DEFINE x == E[i + 1].generation
  <2>5. x \in Nat /\ x > 0
    BY <1>2, <1>4, <2>2, GenModPositive
  <2>. HIDE DEF x
  <2>6. (x + 1) % GenMod = x + 1
    BY <2>4, <2>5, GenModPositive DEF x
  <2>. QED
    BY <2>4, <2>5, <2>6, GenModPositive DEF x
<1>. HIDE DEF g
<1>6. /\ F \in Seq(Record(n)) /\ Len(F) = n
      /\ F[i + 1].val = v /\ F[i + 1].generation = g
      /\ \A j \in 1..n : j # i + 1 => F[j] = E[j]
  <2>. DEFINE e == [E[i + 1] EXCEPT !.val = v, !.generation = g]
  <2>1. e \in Record(n) /\ e.val = v /\ e.generation = g
    BY <1>4, <1>5 DEF Record
  <2>2. F = [E EXCEPT ![i + 1] = e]
    BY <1>4
  <2>. HIDE DEF e, F
  <2>. QED
    BY <1>2, <1>4, <2>1, <2>2
<1>. HIDE DEF F
<1>7. <<i, g>> \in Ids /\ <<i, g>> \notin Given(E)
  <2>1. i \in 0..(MaxSlots - 1)
    BY <1>2, <1>4, BoundsAreNat
  <2>2. <<i, g>> \in Ids
    BY <1>5, <2>1 DEF Ids
  <2>3. E[i + 1].generation \in Nat /\ E[i + 1].generation = g - 1
    BY <1>4, <1>5, GenModPositive DEF Record
  <2>4. ~(g <= E[i + 1].generation)
    BY <2>3, <1>5, GenModPositive
  <2>. QED
    BY <2>2, <2>4 DEF Given
<1>8. Given(F) = Given(E) \cup {<<i, g>>}
  <2>1. ASSUME NEW id \in Ids PROVE id \in Given(F) <=> id \in Given(E) \/ id = <<i, g>>
    <3>1. id[1] \in Nat /\ id[2] \in Nat /\ id = <<id[1], id[2]>>
      BY BoundsAreNat, GenModPositive DEF Ids
    <3>2. CASE id[1] # i
      <4>1. id[1] < n => F[id[1] + 1] = E[id[1] + 1]
        BY <1>2, <1>4, <1>6, <3>1, <3>2
      <4>2. id # <<i, g>>
        BY <3>2
      <4>. QED
        BY <1>2, <1>6, <4>1, <4>2 DEF Given
    <3>3. CASE id[1] = i
      <4>1. id \in Given(F) <=> 1 <= id[2] /\ id[2] <= g
        BY <1>4, <1>6, <3>3 DEF Given
      <4>2. id \in Given(E) <=> 1 <= id[2] /\ id[2] <= g - 1
        <5>1. E[i + 1].generation \in Nat /\ E[i + 1].generation = g - 1
          BY <1>4, <1>5, GenModPositive DEF Record
        <5>. QED
          BY <1>4, <3>3, <5>1 DEF Given
      <4>3. id = <<i, g>> <=> id[2] = g
        BY <3>1, <3>3
      <4>4. g \in Nat /\ g > 1
        BY <1>5, GenModPositive
      <4>. QED
        BY <3>1, <4>1, <4>2, <4>3, <4>4
    <3>. QED
      BY <3>2, <3>3
  <2>. QED
    BY <1>7, <2>1 DEF Given
<1>9. HeldExact(F, held')
  <2>1. ASSUME NEW id \in Given(E)
        PROVE  IF id[1] = i THEN id[2] # g /\ held[id] = None
               ELSE F[id[1] + 1] = E[id[1] + 1]
    <3>1. id[1] \in Nat /\ id[2] \in Nat /\ id[1] < n
          /\ id[2] <= E[id[1] + 1].generation
      BY BoundsAreNat, GenModPositive DEF Ids, Given
    <3>2. CASE id[1] = i
      <4>1. id[2] # g
        BY <1>4, <1>5, <3>1, <3>2, GenModPositive DEF Record
      <4>2. held[id] = None
        BY <1>2, <1>4, <3>2 DEF HeldExact
      <4>. QED
        BY <3>2, <4>1, <4>2
    <3>3. CASE id[1] # i
      BY <1>2, <1>4, <1>6, <3>1, <3>3
    <3>. QED
      BY <3>2, <3>3
  <2>2. HeldExact(E, held) /\ F[i + 1].val = v /\ F[i + 1].generation = g
    BY <1>2, <1>6
  <2>. HIDE DEF E, i
  <2>3. HeldExact(F, [k \in DOMAIN held \cup {<<i, g>>} |->
                        IF k \in DOMAIN held THEN held[k] ELSE v])
    BY <1>7, <1>8, <2>1, <2>2, GrantExact
  <2>. QED
    BY <1>1, <2>3
<1>10. \A j \in 1..Len(F) : F[j].generation > 0
  BY <1>2, <1>4, <1>5, <1>6
<1>11. len' \in Nat /\ len' + Cardinality(FreeOf(F)) = Len(F)
  <2>1. len \in Nat /\ len + Cardinality(FreeOf(E)) = n
        /\ Cardinality(FreeOf(E)) \in Nat /\ IsFiniteSet(FreeOf(E))
    BY <1>2, FreeIsFinite DEF SlabInv
  <2>2. Cardinality(FreeOf(F)) = Cardinality(FreeOf(E)) - 1
    BY <1>3, <2>1, FS_RemoveElement
  <2>. QED
    BY <1>1, <1>2, <1>6, <2>1, <2>2
<1>12. F \in Seq(Record(Len(F))) /\ Len(F) <= MaxSlots
  BY <1>2, <1>6
<1>13. free_head' \in Slots' \cup {Nil}
  <2>1. PICK order : Chain(F, free_head', Cardinality(FreeOf(F)), order)
    BY <1>3 DEF ListOf
  <2>2. Cardinality(FreeOf(F)) \in Nat
    BY <1>2, <1>6, FreeIsFinite
  <2>3. free_head' = Nil \/ free_head' \in FreeOf(F)
    BY <2>1, <2>2 DEF Chain
  <2>. QED
    BY <1>1, <2>3 DEF FreeOf, Slots
<1>14. old' \subseteq Ids /\ answer' \in Values \cup {None} \cup Ids
  BY <1>1, <1>7 DEF SlabInv
<1>. QED
  BY <1>1, <1>3, <1>9, <1>10, <1>11, <1>12, <1>13, <1>14 DEF SlabInv

\* An id that finds an element is the present one of its slot.
LEMMA FoundIsGiven ==
    ASSUME SlabInv, NEW id \in Ids, Finds(id)
    PROVE  /\ id \in Given(entries) /\ id[2] = entries[id[1] + 1].generation
           /\ entries[id[1] + 1].val # None
           /\ id[1] \in 0..(Len(entries) - 1) /\ id[1] + 1 \in 1..Len(entries)
           /\ entries[id[1] + 1] \in Record(Len(entries))
<1>1. entries \in Seq(Record(Len(entries))) /\ Len(entries) \in Nat
      /\ \A i \in 1..Len(entries) : entries[i].generation > 0
  BY DEF SlabInv
<1>2. id[1] \in Nat /\ id[2] \in Nat
  BY BoundsAreNat, GenModPositive DEF Ids
<1>3. id[1] < Len(entries) /\ entries[id[1] + 1].generation = id[2]
      /\ entries[id[1] + 1].val # None
  BY DEF Finds, Entry
<1>4. id[1] \in 0..(Len(entries) - 1) /\ id[1] + 1 \in 1..Len(entries)
  BY <1>1, <1>2, <1>3
<1>5. id[2] > 0
  BY <1>1, <1>3, <1>4
<1>. QED
  BY <1>1, <1>2, <1>3, <1>4, <1>5 DEF Given

LEMMA KnownIsId == ASSUME SlabInv PROVE Known \subseteq Ids
BY DEF SlabInv, Known, HeldExact, Given

\* The ids of a sequence depend on its generations only.
LEMMA GivenSame ==
    ASSUME NEW E, NEW F, Len(E) \in Nat, Len(F) = Len(E),
           \A j \in 1..Len(E) : F[j].generation = E[j].generation
    PROVE  Given(F) = Given(E)
<1>1. ASSUME NEW k \in Ids
      PROVE  k[1] < Len(E) => F[k[1] + 1].generation = E[k[1] + 1].generation
  <2>. DEFINE j == k[1]
  <2>1. j \in Nat
    BY BoundsAreNat DEF Ids
  <2>. HIDE DEF j
  <2>2. j < Len(E) => j + 1 \in 1..Len(E)
    BY <2>1
  <2>3. j < Len(E) => F[j + 1].generation = E[j + 1].generation
    BY <2>2
  <2>. QED
    BY <2>3 DEF j
<1>. QED
  BY <1>1 DEF Given

\* What changes in the slot of id changes for no id of another slot.
LEMMA OtherSlots ==
    ASSUME NEW E, NEW F, Len(E) \in Nat, NEW id \in Ids,
           \A j \in 1..Len(E) : /\ F[j].generation = E[j].generation
                                /\ j # id[1] + 1 => F[j] = E[j]
    PROVE  \A k \in Given(E) : /\ F[k[1] + 1].generation = E[k[1] + 1].generation
                               /\ k[1] # id[1] => F[k[1] + 1].val = E[k[1] + 1].val
<1>. SUFFICES ASSUME NEW k \in Given(E)
              PROVE  /\ F[k[1] + 1].generation = E[k[1] + 1].generation
                     /\ k[1] # id[1] => F[k[1] + 1].val = E[k[1] + 1].val
  OBVIOUS
<1>. DEFINE j == k[1]
            i == id[1]
<1>1. j \in Nat /\ i \in Nat /\ j < Len(E)
  BY BoundsAreNat DEF Ids, Given
<1>. HIDE DEF i, j
<1>2. j + 1 \in 1..Len(E) /\ (j # i => j + 1 # i + 1)
  BY <1>1
<1>3. F[j + 1].generation = E[j + 1].generation
      /\ (j # i => F[j + 1] = E[j + 1])
  BY <1>2 DEF i
<1>. QED
  BY <1>3 DEF i, j

LEMMA SlabRemove ==
    ASSUME SlabInv, NEW id \in Ids, Remove(id) PROVE SlabInv'
<1>. DEFINE E == entries
            n == Len(E)
            i == id[1]
            F == [E EXCEPT ![i + 1].val = None, ![i + 1].next_free = free_head]
<1>1. /\ Finds(id) /\ entries' = F /\ free_head' = i /\ len' = len - 1
      /\ answer' = E[i + 1].val /\ held' = [held EXCEPT ![id] = None] /\ old' = old
  BY DEF Remove, Entry
<1>2. /\ E \in Seq(Record(n)) /\ n \in Nat /\ n <= MaxSlots
      /\ \A j \in 1..n : E[j] \in Record(n) /\ E[j].generation > 0
      /\ ListOf(E, free_head) /\ HeldExact(E, held)
      /\ free_head \in (0..(n - 1)) \cup {Nil}
  BY DEF SlabInv, Slots
<1>3. /\ id \in Given(E) /\ id[2] = E[i + 1].generation /\ E[i + 1].val # None
      /\ i \in 0..(n - 1) /\ i + 1 \in 1..n /\ E[i + 1] \in Record(n)
  BY <1>1, FoundIsGiven
<1>4. FreeOf(F) = FreeOf(E) \cup {i} /\ i \notin FreeOf(E) /\ ListOf(F, i)
  <2>1. /\ E \in Seq(Record(n)) /\ n \in Nat /\ ListOf(E, free_head)
        /\ i \in 0..(n - 1) /\ E[i + 1].val # None
    BY <1>2, <1>3
  <2>. HIDE DEF E, i
  <2>. QED
    BY <2>1, ListPush
<1>5. /\ F \in Seq(Record(n)) /\ Len(F) = n
      /\ F[i + 1].val = None /\ F[i + 1].generation = E[i + 1].generation
      /\ \A j \in 1..n : j # i + 1 => F[j] = E[j]
  <2>. DEFINE e == [E[i + 1] EXCEPT !.val = None, !.next_free = free_head]
  <2>1. e \in Record(n) /\ e.val = None /\ e.generation = E[i + 1].generation
    BY <1>2, <1>3 DEF Record
  <2>2. F = [E EXCEPT ![i + 1] = e]
    BY <1>3
  <2>. HIDE DEF e, F
  <2>. QED
    BY <1>2, <1>3, <2>1, <2>2
<1>. HIDE DEF F
<1>6. \A k \in Given(E) :
         /\ F[k[1] + 1].generation = E[k[1] + 1].generation
         /\ k[1] # i => F[k[1] + 1].val = E[k[1] + 1].val
  <2>1. \A j \in 1..n : F[j].generation = E[j].generation /\ (j # i + 1 => F[j] = E[j])
    BY <1>5
  <2>. HIDE DEF E
  <2>. QED
    BY <1>2, <2>1, OtherSlots
<1>7. Given(F) = Given(E)
  <2>1. \A j \in 1..n : F[j].generation = E[j].generation
    BY <1>5
  <2>. HIDE DEF E
  <2>. QED
    BY <1>2, <1>5, <2>1, GivenSame
<1>8. HeldExact(F, held')
  <2>1. HeldExact(E, held) /\ id \in Given(E) /\ None \in Values \cup {None}
    BY <1>2, <1>3
  <2>2. id[2] = E[id[1] + 1].generation /\ F[id[1] + 1].val = None
    BY <1>3, <1>5
  <2>. HIDE DEF E, n
  <2>3. HeldExact(F, [held EXCEPT ![id] = None])
    BY <1>6, <1>7, <2>1, <2>2, ValExact
  <2>. QED
    BY <1>1, <2>3
<1>9. \A j \in 1..Len(F) : F[j].generation > 0
  BY <1>2, <1>3, <1>5
<1>10. len' \in Nat /\ len' + Cardinality(FreeOf(F)) = Len(F)
  <2>1. len \in Nat /\ len + Cardinality(FreeOf(E)) = n
        /\ Cardinality(FreeOf(E)) \in Nat /\ IsFiniteSet(FreeOf(E))
    BY <1>2, FreeIsFinite DEF SlabInv
  <2>2. Cardinality(FreeOf(F)) = Cardinality(FreeOf(E)) + 1
    BY <1>4, <2>1, FS_AddElement
  <2>3. Cardinality(FreeOf(F)) <= n
    <3>1. FreeOf(F) \in SUBSET (0..(n - 1)) /\ n - 1 \in Int
      BY <1>2, <1>5 DEF FreeOf
    <3>2. IsFiniteSet(0..(n - 1)) /\ Cardinality(0..(n - 1)) = n
      <4>. HIDE DEF n
      <4>1. n \in Nat
        BY <1>2
      <4>. QED
        BY <3>1, <4>1, FS_Interval
    <3>. QED
      BY <3>1, <3>2, FS_Subset
  <2>. QED
    BY <1>1, <1>2, <1>5, <2>1, <2>2, <2>3
<1>11. F \in Seq(Record(Len(F))) /\ Len(F) <= MaxSlots
  BY <1>2, <1>5
<1>12. /\ free_head' \in Slots' \cup {Nil} /\ old' \subseteq Ids
       /\ answer' \in Values \cup {None} \cup Ids
  <2>1. free_head' \in Slots'
    BY <1>1, <1>3, <1>5 DEF Slots
  <2>2. E[i + 1].val \in Values \cup {None}
    BY <1>3 DEF Record
  <2>. QED
    BY <1>1, <2>1, <2>2 DEF SlabInv
<1>. QED
  BY <1>1, <1>4, <1>8, <1>9, <1>10, <1>11, <1>12 DEF SlabInv

LEMMA SlabGetMut ==
    ASSUME SlabInv, NEW id \in Ids, NEW v \in Values, GetMut(id, v) PROVE SlabInv'
<1>. DEFINE E == entries
            n == Len(E)
            i == id[1]
            F == [E EXCEPT ![i + 1].val = v]
<1>1. /\ Finds(id) /\ entries' = F /\ free_head' = free_head /\ len' = len
      /\ answer' = E[i + 1].val /\ held' = [held EXCEPT ![id] = v] /\ old' = old
  BY DEF GetMut, Entry
<1>2. /\ E \in Seq(Record(n)) /\ n \in Nat /\ n <= MaxSlots
      /\ \A j \in 1..n : E[j] \in Record(n) /\ E[j].generation > 0
      /\ ListOf(E, free_head) /\ HeldExact(E, held)
  BY DEF SlabInv
<1>3. /\ id \in Given(E) /\ id[2] = E[i + 1].generation /\ E[i + 1].val # None
      /\ i \in 0..(n - 1) /\ i + 1 \in 1..n /\ E[i + 1] \in Record(n)
  BY <1>1, FoundIsGiven
<1>4. /\ F \in Seq(Record(n)) /\ Len(F) = n /\ F[i + 1].val = v
      /\ \A j \in 1..n : /\ F[j].generation = E[j].generation
                         /\ F[j].next_free = E[j].next_free
                         /\ j # i + 1 => F[j] = E[j]
  <2>. DEFINE e == [E[i + 1] EXCEPT !.val = v]
  <2>1. /\ e \in Record(n) /\ e.val = v /\ e.generation = E[i + 1].generation
        /\ e.next_free = E[i + 1].next_free
    BY <1>3 DEF Record
  <2>2. F = [E EXCEPT ![i + 1] = e]
    BY <1>3
  <2>. HIDE DEF e, F
  <2>. QED
    BY <1>2, <1>3, <2>1, <2>2
<1>. HIDE DEF F
<1>5. FreeOf(F) = FreeOf(E)
  <2>1. \A j \in 0..(n - 1) : j # i => F[j + 1] = E[j + 1]
    BY <1>2, <1>3, <1>4
  <2>. QED
    BY <1>3, <1>4, <2>1, NoneIsNoValue DEF FreeOf
<1>6. ListOf(F, free_head)
  <2>1. \A j \in FreeOf(E) : F[j + 1].next_free = E[j + 1].next_free
    BY <1>2, <1>4 DEF FreeOf
  <2>. QED
    BY <1>2, <1>5, <2>1, ListSame
<1>7. Given(F) = Given(E)
  <2>1. \A j \in 1..n : F[j].generation = E[j].generation
    BY <1>4
  <2>. HIDE DEF E
  <2>. QED
    BY <1>2, <1>4, <2>1, GivenSame
<1>8. \A k \in Given(E) :
         /\ F[k[1] + 1].generation = E[k[1] + 1].generation
         /\ k[1] # i => F[k[1] + 1].val = E[k[1] + 1].val
  <2>1. \A j \in 1..n : F[j].generation = E[j].generation /\ (j # i + 1 => F[j] = E[j])
    BY <1>4
  <2>. HIDE DEF E
  <2>. QED
    BY <1>2, <2>1, OtherSlots
<1>9. HeldExact(F, held')
  <2>1. HeldExact(E, held) /\ id \in Given(E) /\ v \in Values \cup {None}
    BY <1>2, <1>3
  <2>2. id[2] = E[id[1] + 1].generation /\ F[id[1] + 1].val = v
    BY <1>3, <1>4
  <2>. HIDE DEF E, n
  <2>3. HeldExact(F, [held EXCEPT ![id] = v])
    BY <1>7, <1>8, <2>1, <2>2, ValExact
  <2>. QED
    BY <1>1, <2>3
<1>10. \A j \in 1..Len(F) : F[j].generation > 0
  BY <1>2, <1>4
<1>11. F \in Seq(Record(Len(F))) /\ Len(F) <= MaxSlots
  BY <1>2, <1>4
<1>12. /\ free_head' \in Slots' \cup {Nil} /\ old' \subseteq Ids
       /\ answer' \in Values \cup {None} \cup Ids
       /\ len' \in Nat /\ len' + Cardinality(FreeOf(F)) = Len(F)
  <2>1. E[i + 1].val \in Values \cup {None}
    BY <1>3 DEF Record
  <2>. QED
    BY <1>1, <1>4, <1>5, <2>1 DEF SlabInv, Slots
<1>. QED
  BY <1>1, <1>6, <1>9, <1>10, <1>11, <1>12 DEF SlabInv

\* The answer of an operation that changes nothing else.
LEMMA SlabAnswer ==
    ASSUME SlabInv, NEW id \in Ids, FindNothing(id) \/ Get(id) PROVE SlabInv'
<1>1. UNCHANGED <<entries, free_head, len, held, old>>
  BY DEF FindNothing, Get
<1>2. answer' \in Values \cup {None}
  <2>1. CASE FindNothing(id)
    BY <2>1 DEF FindNothing
  <2>2. CASE Get(id)
    <3>1. answer' = entries[id[1] + 1].val /\ Finds(id)
      BY <2>2 DEF Get, Entry
    <3>2. entries[id[1] + 1] \in Record(Len(entries))
      BY <3>1, FoundIsGiven
    <3>. QED
      BY <3>1, <3>2 DEF Record
  <2>. QED
    BY <2>1, <2>2
<1>. QED
  BY <1>1, <1>2 DEF SlabInv, Slots

LEMMA SlabClear ==
    ASSUME SlabInv, Clear PROVE SlabInv'
<1>1. /\ entries' = <<>> /\ free_head' = Nil /\ len' = 0 /\ answer' = None
      /\ held' = [id \in {} |-> None] /\ old' = old \cup DOMAIN held
  BY DEF Clear
<1>2. FreeOf(<<>>) = {} /\ Cardinality(FreeOf(<<>>)) = 0
  BY FS_EmptySet DEF FreeOf
<1>3. Chain(<<>>, Nil, 0, [i \in 1..0 |-> 0])
  BY DEF Chain
<1>4. HeldExact(<<>>, held')
  BY <1>1 DEF HeldExact, Given, Ids
<1>5. <<>> \in Seq(Record(Len(<<>>))) /\ Len(<<>>) = 0
  OBVIOUS
<1>6. old' \subseteq Ids
  BY <1>1, KnownIsId DEF Known
<1>7. ListOf(<<>>, Nil)
  BY <1>2, <1>3 DEF ListOf
<1>. QED
  BY <1>1, <1>2, <1>4, <1>5, <1>6, <1>7, BoundsAreNat DEF SlabInv

LEMMA SlabNext == SlabInv /\ [Next]_vars => SlabInv'
<1>. SUFFICES ASSUME SlabInv, [Next]_vars PROVE SlabInv'
  OBVIOUS
<1>1. CASE \E v \in Values : InsertNew(v) \/ InsertReused(v)
  BY <1>1, SlabNew, SlabReused
<1>2. ASSUME NEW id \in Known, \/ Remove(id) \/ FindNothing(id) \/ Get(id)
                               \/ \E v \in Values : GetMut(id, v)
      PROVE  SlabInv'
  <2>1. id \in Ids
    BY KnownIsId
  <2>. QED
    BY <1>2, <2>1, SlabRemove, SlabAnswer, SlabGetMut
<1>3. CASE Clear
  BY <1>3, SlabClear
<1>4. CASE UNCHANGED vars
  BY <1>4 DEF vars, SlabInv, Slots
<1>. QED
  BY <1>1, <1>2, <1>3, <1>4 DEF Next

LEMMA SlabAlways == Spec => []SlabInv
BY SlabInit, SlabNext, PTL DEF Spec

LEMMA SlabCounts ==
    ASSUME SlabInv
    PROVE  /\ Free = FreeOf(entries) /\ Slots = 0..(Len(entries) - 1)
           /\ len = Cardinality(Slots \ Free) /\ len \in 0..MaxSlots
<1>1. Free = FreeOf(entries) /\ Slots = 0..(Len(entries) - 1)
  BY DEF Free, FreeOf, Slots, Entry
<1>2. /\ Len(entries) \in Nat /\ Len(entries) <= MaxSlots /\ len \in Nat
      /\ len + Cardinality(FreeOf(entries)) = Len(entries)
  BY DEF SlabInv
<1>3. IsFiniteSet(Slots) /\ Cardinality(Slots) = Len(entries)
  <2>. DEFINE n == Len(entries)
  <2>1. n \in Nat /\ n - 1 \in Int /\ 0 \in Int
    BY <1>2
  <2>. HIDE DEF n
  <2>2. IsFiniteSet(0..(n - 1)) /\ Cardinality(0..(n - 1)) = n
    BY <2>1, FS_Interval
  <2>. QED
    BY <1>1, <2>2 DEF n
<1>4. Cardinality(FreeOf(entries)) \in Nat
  BY <1>2, FreeIsFinite
<1>5. Slots \cap Free = FreeOf(entries)
  BY <1>1 DEF FreeOf
<1>6. Cardinality(Slots \ Free) = Len(entries) - Cardinality(FreeOf(entries))
  <2>. DEFINE S == 0..(Len(entries) - 1)
              T == FreeOf(entries)
  <2>1. IsFiniteSet(S) /\ Cardinality(S) = Len(entries) /\ S \cap T = T
    BY <1>1, <1>3, <1>5
  <2>. HIDE DEF S, T
  <2>2. Cardinality(S \ T) = Cardinality(S) - Cardinality(S \cap T)
    BY <2>1, FS_Difference
  <2>. QED
    BY <1>1, <2>1, <2>2 DEF S, T
<1>. QED
  BY <1>1, <1>2, <1>4, <1>6, BoundsAreNat

LEMMA SlabInvType == SlabInv => TypeOK
<1>. SUFFICES ASSUME SlabInv PROVE TypeOK
  OBVIOUS
<1>1. entries \in Seq([val : Values \cup {None}, generation : 0..(GenMod - 1),
                       next_free : Slots \cup {0, Nil}])
  BY DEF SlabInv, Record, Slots
<1>2. DOMAIN held \subseteq Ids /\ \A id \in DOMAIN held : held[id] \in Values \cup {None}
  BY DEF SlabInv, HeldExact, Given
<1>. QED
  BY <1>1, <1>2, SlabCounts DEF SlabInv, TypeOK

LEMMA SlabInvFree == SlabInv => FreeListExact
<1>. SUFFICES ASSUME SlabInv PROVE FreeListExact
  OBVIOUS
<1>. DEFINE n == Cardinality(FreeOf(entries))
<1>1. PICK order : Chain(entries, free_head, n, order)
  BY DEF SlabInv, ListOf
<1>2. /\ order \in [1..n -> Free]
      /\ \A i, j \in 1..n : order[i] = order[j] => i = j
      /\ free_head = IF n = 0 THEN Nil ELSE order[1]
      /\ \A i \in 1..n :
            Entry(order[i]).next_free = IF i = n THEN Nil ELSE order[i + 1]
  BY <1>1, SlabCounts DEF Chain, Entry
<1>. HIDE DEF n
<1>. QED
  BY <1>2, SlabInvType, SlabCounts DEF FreeListExact, n

LEMMA SlabInvIds == SlabInv => IdFindsItsElement
<1>. SUFFICES ASSUME SlabInv PROVE IdFindsItsElement
  OBVIOUS
<1>1. DOMAIN held = Given(entries) /\ HeldExact(entries, held)
  BY DEF SlabInv, HeldExact
<1>2. ASSUME NEW id \in DOMAIN held
      PROVE  IF held[id] = None THEN ~Finds(id)
             ELSE Finds(id) /\ Entry(id[1]).val = held[id]
  <2>1. held[id] = IF id[2] = entries[id[1] + 1].generation
                   THEN entries[id[1] + 1].val ELSE None
    BY <1>1, <1>2 DEF HeldExact
  <2>2. id[1] < Len(entries)
    BY <1>1, <1>2 DEF Given
  <2>. QED
    BY <2>1, <2>2 DEF Finds, Entry
<1>3. ASSUME NEW id \in Known, Finds(id) PROVE id \in DOMAIN held
  BY <1>1, <1>3, KnownIsId, FoundIsGiven
<1>. QED
  BY <1>2, <1>3 DEF IdFindsItsElement

-----------------------------------------------------------------------------
(* The theorems                                                            *)

\* The fields of the slab have their types, for every number of slots.
THEOREM SlabTypeCorrect == Spec => []TypeOK
BY SlabAlways, SlabInvType, PTL

\* The free list of insert and remove holds every vacated slot once, and len
\* counts the others.
THEOREM FreeListIsExact == Spec => []FreeListExact
BY SlabAlways, SlabInvFree, PTL

\* Between two clears an id finds the element it was given for until that is
\* removed, and nothing after (insert, remove, get, get_mut of slab.tk), as
\* long as no slot is used as often as there are generations.
THEOREM IdsFindTheirElements == Spec => []IdFindsItsElement
BY SlabAlways, SlabInvIds, PTL
=============================================================================
