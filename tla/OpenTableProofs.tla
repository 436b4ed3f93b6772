--------------------------- MODULE OpenTableProofs ---------------------------
(***************************************************************************)
(* The table of lib/std/hashmap.tk keeps every entry where a probe finds   *)
(* it, for every set of keys, every hash function and every capacity, and  *)
(* implements the map of MapSpec.                                          *)
(*                                                                         *)
(* The argument is one property of a table, Good: no key has two entries,  *)
(* and from a key's first slot a probe gets to its entry over slots that   *)
(* are not empty.  A probe passes every slot (ProbeCovers), so the search  *)
(* for k ends at k's entry if there is one (StopFinds) and the search for  *)
(* a hole ends at a hole (HoleIsFree).  Writing one slot keeps a table     *)
(* good (PutNew, PutOld, PutDead) because no write empties a slot.  A      *)
(* resize writes the entries one after the other into an empty table; that *)
(* it keeps them all is an induction over the slots (ResizeKeeps), which   *)
(* UpTo makes from the least-element principle for sets of naturals.       *)
(***************************************************************************)
EXTENDS OpenTable, FiniteSetTheorems, WellFoundedInduction, TLAPS

\* Induction, and the least element: every set of naturals has one.
LEMMA Least ==
    ASSUME NEW S, S \subseteq Nat, S # {}
    PROVE  \E n \in S : \A m \in S : n <= m
<1>. DEFINE R == OpToRel(<, Nat)
<1>1. IsWellFoundedOn(R, Nat)
  BY NatLessThanWellFounded, Zenon
<1>2. \A x, y \in Nat : <<x, y>> \in R <=> x < y
  BY DEF OpToRel
<1>. HIDE DEF R
<1>3. PICK n \in S : \A m \in S : <<m, n>> \notin R
  BY <1>1, WFMin
<1>4. \A m \in S : ~(m < n)
  BY <1>2, <1>3
<1>. QED
  BY <1>4

\* A set of naturals that has 0, and n + 1 with every n, has every natural
\* up to b.
LEMMA UpTo ==
    ASSUME NEW b \in Nat, NEW S, 0 \in S, \A n \in 0..b : n \in S /\ n < b => n + 1 \in S
    PROVE  \A n \in 0..b : n \in S
<1>. DEFINE T == {n \in 0..b : n \notin S}
<1>. SUFFICES ASSUME T # {} PROVE FALSE
  OBVIOUS
<1>1. PICK n \in T : \A m \in T : n <= m
  <2>1. T \subseteq Nat
    OBVIOUS
  <2>. HIDE DEF T
  <2>. QED  BY <2>1, Least
<1>2. n \in 1..b
  BY <1>1
<1>3. n - 1 \in 0..b /\ n - 1 \notin T
  BY <1>1, <1>2
<1>. QED
  BY <1>1, <1>2, <1>3

-----------------------------------------------------------------------------
(* Division                                                                *)

LEMMA ModRange ==
    ASSUME NEW a \in Nat, NEW c \in Nat \ {0}
    PROVE  a % c \in 0..(c - 1) /\ a = c * (a \div c) + (a % c) /\ a \div c \in Nat
OBVIOUS

LEMMA ModUnique ==
    ASSUME NEW c \in Nat \ {0}, NEW q \in Nat, NEW r \in 0..(c - 1)
    PROVE  (c * q + r) % c = r
<1>. DEFINE a == c * q + r
<1>1. a \in Nat
  OBVIOUS
<1>. HIDE DEF a
<1>. DEFINE p == a \div c
            s == a % c
<1>2. p \in Nat /\ s \in 0..(c - 1) /\ a = c * p + s
  BY <1>1, ModRange
<1>. HIDE DEF p, s
<1>3. c * p + s = c * q + r
  BY <1>2 DEF a
<1>4. ASSUME p > q PROVE FALSE
  <2>1. PICK x \in Nat : p = q + 1 + x
    <3>. DEFINE x == p - q - 1
    <3>1. x \in Nat /\ p = q + 1 + x
      BY <1>2, <1>4
    <3>. QED  BY <3>1
  <2>2. c * p = c * q + c + c * x
    BY <1>2, <2>1
  <2>3. c * x \in Nat
    BY <2>1
  <2>. QED  BY <1>2, <1>3, <2>2, <2>3
<1>5. ASSUME q > p PROVE FALSE
  <2>1. PICK x \in Nat : q = p + 1 + x
    <3>. DEFINE x == q - p - 1
    <3>1. x \in Nat /\ q = p + 1 + x
      BY <1>2, <1>5
    <3>. QED  BY <3>1
  <2>2. c * q = c * p + c + c * x
    BY <1>2, <2>1
  <2>3. c * x \in Nat
    BY <2>1
  <2>. QED  BY <1>2, <1>3, <2>2, <2>3
<1>6. p = q
  BY <1>2, <1>4, <1>5
<1>. QED
  BY <1>2, <1>3, <1>6 DEF a, s

\* The probe of every key passes every slot.
LEMMA ProbeCovers ==
    ASSUME NEW h \in Nat, NEW c \in Nat \ {0}, NEW i \in 0..(c - 1)
    PROVE  \E d \in 0..(c - 1) : (h + d) % c = i
<1>1. PICK q \in Nat, r \in 0..(c - 1) : h = c * q + r
  BY ModRange
<1>2. CASE r <= i
  <2>1. h + (i - r) = c * q + i /\ i - r \in 0..(c - 1)
    BY <1>1, <1>2
  <2>2. (c * q + i) % c = i
    BY ModUnique
  <2>. QED  BY <2>1, <2>2
<1>3. CASE r > i
  <2>1. h + (c + i - r) = c * (q + 1) + i /\ c + i - r \in 0..(c - 1)
    <3>1. c * (q + 1) = c * q + c
      BY <1>1
    <3>. QED  BY <1>1, <1>3, <3>1
  <2>2. (c * (q + 1) + i) % c = i
    <3>1. q + 1 \in Nat
      BY <1>1
    <3>. QED  BY <3>1, ModUnique
  <2>. QED  BY <2>1, <2>2
<1>. QED
  BY <1>2, <1>3

-----------------------------------------------------------------------------
(* Tables and probes                                                       *)

Slots == {Empty, Dead} \cup {Full(k, v) : k \in Keys, v \in Values}
Fulls(t) == {i \in DOMAIN t : t[i][1] = "full"}

\* The probe for k gets to slot i over slots that are not empty.
Path(t, k, c, i) ==
    \E d \in 0..(c - 1) :
        /\ Probe(k, d, c) = i
        /\ \A e \in 0..(d - 1) : t[Probe(k, e, c)] # Empty

OneEach(t) == \A i, j \in Fulls(t) : t[i][2] = t[j][2] => i = j

Good(t, c) ==
    /\ hash \in [Keys -> Hashes] /\ c \in Nat \ {0}
    /\ t \in [0..(c - 1) -> Slots]
    /\ OneEach(t)
    /\ \A i \in Fulls(t) : Path(t, t[i][2], c, i)

LEMMA SlotCases ==
    ASSUME NEW s \in Slots
    PROVE  \/ s = Empty /\ s[1] # "full"
           \/ s = Dead /\ s[1] # "full" /\ s # Empty
           \/ /\ s[1] = "full" /\ s # Empty /\ s # Dead /\ s[2] \in Keys /\ s[3] \in Values
              /\ s = Full(s[2], s[3])
BY DEF Slots, Empty, Dead, Full

LEMMA FullIsFull ==
    ASSUME NEW k \in Keys, NEW v \in Values
    PROVE  /\ Full(k, v) \in Slots /\ Full(k, v)[1] = "full"
           /\ Full(k, v)[2] = k /\ Full(k, v)[3] = v
           /\ Full(k, v) # Empty /\ Full(k, v) # Dead
BY DEF Slots, Full, Empty, Dead

LEMMA ProbeIsSlot ==
    ASSUME hash \in [Keys -> Hashes], NEW k \in Keys, NEW c \in Nat \ {0}, NEW d \in Nat
    PROVE  Probe(k, d, c) \in 0..(c - 1)
<1>1. hash[k] \in Nat
  BY HashesAreNat
<1>2. hash[k] + d \in Nat
  BY <1>1
<1>3. (hash[k] + d) % c \in 0..(c - 1)
  BY <1>2, ModRange
<1>. QED
  BY <1>3 DEF Probe

\* First is the least distance at which the probe meets S.
LEMMA FirstIsLeast ==
    ASSUME NEW S, NEW k, NEW c \in Nat \ {0}
    PROVE  /\ First(S, k, c) \in 0..c
           /\ First(S, k, c) < c => Probe(k, First(S, k, c), c) \in S
           /\ \A e \in 0..(c - 1) : e < First(S, k, c) => Probe(k, e, c) \notin S
<1>. DEFINE D == {d \in 0..(c - 1) : Probe(k, d, c) \in S}
            IsFirst(d) == /\ Probe(k, d, c) \in S
                          /\ \A e \in 0..(d - 1) : Probe(k, e, c) \notin S
<1>1. CASE D = {}
  BY <1>1 DEF First
<1>2. CASE D # {}
  <2>1. PICK n \in D : \A m \in D : n <= m
    <3>1. D \subseteq Nat
      OBVIOUS
    <3>. HIDE DEF D
    <3>. QED  BY <1>2, <3>1, Least
  <2>2. n \in 0..(c - 1) /\ IsFirst(n)
    BY <2>1
  <2>3. First(S, k, c) = CHOOSE d \in 0..(c - 1) : IsFirst(d)
    BY <1>2 DEF First
  <2>4. First(S, k, c) \in 0..(c - 1) /\ IsFirst(First(S, k, c))
    <3>. HIDE DEF IsFirst
    <3>. QED  BY <2>2, <2>3
  <2>. QED
    BY <2>4
<1>. QED
  BY <1>1, <1>2

\* Where a probe for k stops, it stands on k's slot if k has one.
LEMMA StopFinds ==
    ASSUME NEW t, NEW c, Good(t, c), NEW k \in Keys
    PROVE  /\ Stop(t, k, c) \in 0..c
           /\ \A i \in Fulls(t) : t[i][2] = k =>
                 Found(t, k, c) /\ Probe(k, Stop(t, k, c), c) = i
           /\ Found(t, k, c) =>
                 /\ Probe(k, Stop(t, k, c), c) \in Fulls(t)
                 /\ t[Probe(k, Stop(t, k, c), c)][2] = k
<1>. DEFINE S == {i \in DOMAIN t : t[i] = Empty \/ HoldsKey(t[i], k)}
            n == Stop(t, k, c)
<1>0. /\ hash \in [Keys -> Hashes] /\ c \in Nat \ {0} /\ DOMAIN t = 0..(c - 1)
      /\ \A i \in DOMAIN t : t[i] \in Slots
  BY DEF Good
<1>1. n = First(S, k, c)
  BY DEF Stop
<1>2. /\ n \in 0..c
      /\ n < c => Probe(k, n, c) \in S
      /\ \A e \in 0..(c - 1) : e < n => Probe(k, e, c) \notin S
  <2>. HIDE DEF S, n
  <2>. QED  BY <1>0, <1>1, FirstIsLeast
<1>3. ASSUME NEW i \in Fulls(t), t[i][2] = k
      PROVE  Found(t, k, c) /\ Probe(k, n, c) = i
  <2>1. PICK d \in 0..(c - 1) :
           Probe(k, d, c) = i /\ \A e \in 0..(d - 1) : t[Probe(k, e, c)] # Empty
    BY <1>3 DEF Good, Path
  <2>2. i \in S /\ t[i] # Empty
    BY <1>0, <1>3, SlotCases DEF Fulls, HoldsKey
  <2>3. n \in Nat /\ n <= d /\ n < c
    <3>. HIDE DEF S, n
    <3>. QED  BY <1>0, <1>2, <2>1, <2>2
  <2>4. Probe(k, n, c) \in S
    BY <1>2, <2>3
  <2>5. t[Probe(k, n, c)] # Empty
    <3>. HIDE DEF S, n
    <3>1. CASE n = d
      BY <2>1, <2>2, <3>1
    <3>2. CASE n # d
      BY <2>1, <2>3, <3>2
    <3>. QED  BY <3>1, <3>2
  <2>6. HoldsKey(t[Probe(k, n, c)], k) /\ Probe(k, n, c) \in Fulls(t)
    BY <2>4, <2>5 DEF HoldsKey, Fulls
  <2>7. Probe(k, n, c) = i
    BY <1>3, <2>6 DEF HoldsKey, Good, OneEach
  <2>. QED
    BY <2>3, <2>6, <2>7 DEF Found
<1>4. ASSUME Found(t, k, c)
      PROVE  Probe(k, n, c) \in Fulls(t) /\ t[Probe(k, n, c)][2] = k
  <2>1. n < c /\ HoldsKey(t[Probe(k, n, c)], k)
    BY <1>4 DEF Found
  <2>2. Probe(k, n, c) \in DOMAIN t
    BY <1>2, <2>1
  <2>. QED
    BY <2>1, <2>2 DEF HoldsKey, Fulls
<1>. QED
  BY <1>2, <1>3, <1>4

\* A probe that passes all slots without an end met neither k nor a slot
\* that is empty.
LEMMA StopMisses ==
    ASSUME NEW t, NEW c, Good(t, c), NEW k \in Keys, Stop(t, k, c) = c
    PROVE  \A i \in DOMAIN t : t[i] # Empty /\ ~HoldsKey(t[i], k)
<1>. DEFINE S == {i \in DOMAIN t : t[i] = Empty \/ HoldsKey(t[i], k)}
<1>0. /\ hash[k] \in Nat /\ c \in Nat \ {0} /\ DOMAIN t = 0..(c - 1)
  BY HashesAreNat DEF Good
<1>1. First(S, k, c) = c
  BY DEF Stop
<1>. SUFFICES ASSUME NEW i \in S PROVE FALSE
  OBVIOUS
<1>2. i \in 0..(c - 1)
  BY <1>0
<1>. HIDE DEF S
<1>3. PICK d \in 0..(c - 1) : Probe(k, d, c) = i
  BY <1>0, <1>2, ProbeCovers DEF Probe
<1>. QED
  BY <1>0, <1>1, <1>3, FirstIsLeast

\* With a slot that is not full, a probe gets to one over full slots.
LEMMA HoleIsFree ==
    ASSUME NEW t, NEW c, Good(t, c), NEW k \in Keys, Fulls(t) # DOMAIN t
    PROVE  /\ Hole(t, k, c) \in DOMAIN t \ Fulls(t)
           /\ \E d \in 0..(c - 1) :
                 /\ Probe(k, d, c) = Hole(t, k, c)
                 /\ \A e \in 0..(d - 1) : Probe(k, e, c) \in Fulls(t)
<1>. DEFINE S == {i \in DOMAIN t : t[i][1] # "full"}
            n == First(S, k, c)
<1>0. /\ hash \in [Keys -> Hashes] /\ hash[k] \in Nat /\ c \in Nat \ {0}
      /\ DOMAIN t = 0..(c - 1)
  BY HashesAreNat DEF Good
<1>1. Hole(t, k, c) = Probe(k, n, c) /\ S = DOMAIN t \ Fulls(t)
  BY DEF Hole, Fulls
<1>2. PICK i \in 0..(c - 1) : i \in S
  <2>1. Fulls(t) \subseteq DOMAIN t
    BY DEF Fulls
  <2>. QED  BY <1>0, <1>1, <2>1
<1>3. PICK d \in 0..(c - 1) : Probe(k, d, c) = i
  <2>. HIDE DEF S, n
  <2>. QED  BY <1>0, ProbeCovers DEF Probe
<1>4. /\ n \in 0..c
      /\ n < c => Probe(k, n, c) \in S
      /\ \A e \in 0..(c - 1) : e < n => Probe(k, e, c) \notin S
  <2>. HIDE DEF S
  <2>. QED  BY <1>0, FirstIsLeast
<1>. HIDE DEF n
<1>5. n \in 0..(c - 1)
  <2>. HIDE DEF S
  <2>. QED  BY <1>0, <1>2, <1>3, <1>4
<1>6. \A e \in 0..(n - 1) : Probe(k, e, c) \in Fulls(t)
  <2>. TAKE e \in 0..(n - 1)
  <2>1. e \in Nat /\ e \in 0..(c - 1) /\ e < n
    BY <1>0, <1>5
  <2>2. Probe(k, e, c) \in DOMAIN t
    BY <1>0, <2>1, ProbeIsSlot
  <2>3. Probe(k, e, c) \notin S
    BY <1>4, <2>1
  <2>. QED
    BY <1>1, <2>2, <2>3
<1>. QED
  BY <1>0, <1>1, <1>4, <1>5, <1>6

-----------------------------------------------------------------------------
(* Writing to one slot of a table                                          *)

Entries(t) == {t[i] : i \in Fulls(t)}

Written(t2, t, i, s) == t2 = [t EXCEPT ![i] = s]

\* A path stays one when slots that are not empty do not become so.
LEMMA PathKept ==
    ASSUME NEW t, NEW t2, NEW c \in Nat \ {0}, NEW k \in Keys, NEW i,
           hash \in [Keys -> Hashes], Path(t, k, c, i),
           \A j \in 0..(c - 1) : t[j] # Empty => t2[j] # Empty
    PROVE  Path(t2, k, c, i)
<1>1. PICK d \in 0..(c - 1) :
         Probe(k, d, c) = i /\ \A e \in 0..(d - 1) : t[Probe(k, e, c)] # Empty
  BY DEF Path
<1>2. \A e \in 0..(d - 1) : Probe(k, e, c) \in 0..(c - 1)
  <2>. TAKE e \in 0..(d - 1)
  <2>1. e \in Nat
    OBVIOUS
  <2>. QED  BY <2>1, ProbeIsSlot
<1>3. \A e \in 0..(d - 1) : t2[Probe(k, e, c)] # Empty
  BY <1>1, <1>2
<1>. QED
  BY <1>1, <1>3 DEF Path

LEMMA PutNew ==
    ASSUME NEW t, NEW c, Good(t, c), NEW k \in Keys, NEW v \in Values,
           Fulls(t) # DOMAIN t, \A j \in Fulls(t) : t[j][2] # k,
           NEW t2, Written(t2, t, Hole(t, k, c), Full(k, v))
    PROVE  /\ Good(t2, c)
           /\ Hole(t, k, c) \in DOMAIN t \ Fulls(t)
           /\ Fulls(t2) = Fulls(t) \cup {Hole(t, k, c)}
           /\ Entries(t2) = Entries(t) \cup {Full(k, v)}
           /\ \A j \in DOMAIN t : t2[j] = Dead => t[j] = Dead
<1>. DEFINE i == Hole(t, k, c)
<1>0. /\ hash \in [Keys -> Hashes] /\ c \in Nat \ {0}
      /\ t \in [0..(c - 1) -> Slots] /\ DOMAIN t = 0..(c - 1)
      /\ OneEach(t)
      /\ \A j \in Fulls(t) : Path(t, t[j][2], c, j) /\ j \in DOMAIN t
  BY DEF Good, Fulls
<1>1. /\ i \in DOMAIN t \ Fulls(t)
      /\ \E d \in 0..(c - 1) :
            Probe(k, d, c) = i /\ \A e \in 0..(d - 1) : Probe(k, e, c) \in Fulls(t)
  BY HoleIsFree
<1>. HIDE DEF i
<1>2. t2 = [t EXCEPT ![i] = Full(k, v)]
  BY DEF i, Written
<1>3. /\ t2 \in [0..(c - 1) -> Slots] /\ DOMAIN t2 = DOMAIN t
      /\ t2[i] = Full(k, v) /\ \A j \in DOMAIN t : j # i => t2[j] = t[j]
  <2>1. Full(k, v) \in Slots
    BY FullIsFull
  <2>2. i \in DOMAIN t
    BY <1>1
  <2>. QED  BY <1>0, <1>2, <2>1, <2>2
<1>4. Fulls(t2) = Fulls(t) \cup {i}
  BY <1>1, <1>3, FullIsFull DEF Fulls
<1>5. \A j \in Fulls(t) : t2[j] = t[j] /\ t2[j][2] # k
  BY <1>0, <1>1, <1>3
<1>6. OneEach(t2)
  BY <1>0, <1>3, <1>4, <1>5, FullIsFull DEF OneEach
<1>7. \A j \in 0..(c - 1) : t[j] # Empty => t2[j] # Empty
  BY <1>0, <1>3, FullIsFull
<1>8. ASSUME NEW j \in Fulls(t2) PROVE Path(t2, t2[j][2], c, j)
  <2>1. CASE j \in Fulls(t)
    <3>1. t[j][2] \in Keys /\ Path(t, t[j][2], c, j) /\ t2[j] = t[j]
      BY <1>0, <1>5, <2>1, SlotCases DEF Fulls
    <3>. QED  BY <1>0, <1>7, <3>1, PathKept
  <2>2. CASE j = i
    <3>1. \A x \in Fulls(t) : t2[x] # Empty
      BY <1>0, <1>5, SlotCases DEF Fulls
    <3>2. Path(t2, k, c, i)
      BY <1>1, <3>1 DEF Path
    <3>. QED  BY <1>3, <2>2, <3>2, FullIsFull
  <2>. QED
    BY <1>4, <2>1, <2>2
<1>9. Good(t2, c)
  BY <1>0, <1>3, <1>6, <1>8 DEF Good
<1>10. Entries(t2) = Entries(t) \cup {Full(k, v)}
  <2>1. Entries(t2) = {t2[j] : j \in Fulls(t)} \cup {t2[i]}
    BY <1>4 DEF Entries
  <2>2. {t2[j] : j \in Fulls(t)} = {t[j] : j \in Fulls(t)}
    BY <1>5
  <2>. QED  BY <1>3, <2>1, <2>2 DEF Entries
<1>11. \A j \in DOMAIN t : t2[j] = Dead => t[j] = Dead
  BY <1>3, FullIsFull
<1>. QED
  BY <1>1, <1>4, <1>9, <1>10, <1>11 DEF i

LEMMA PutOld ==
    ASSUME NEW t, NEW c, Good(t, c), NEW i \in Fulls(t), NEW v \in Values,
           NEW t2, Written(t2, t, i, Full(t[i][2], v))
    PROVE  /\ Good(t2, c) /\ Fulls(t2) = Fulls(t) /\ t[i][2] \in Keys
           /\ Entries(t2) = (Entries(t) \ {t[i]}) \cup {Full(t[i][2], v)}
           /\ \A j \in Fulls(t) : t2[j][2] = t[j][2]
<1>0. /\ hash \in [Keys -> Hashes] /\ c \in Nat \ {0}
      /\ t \in [0..(c - 1) -> Slots] /\ DOMAIN t = 0..(c - 1)
      /\ OneEach(t)
      /\ \A j \in Fulls(t) : Path(t, t[j][2], c, j) /\ j \in DOMAIN t
  BY DEF Good, Fulls
<1>1. i \in DOMAIN t /\ t[i][2] \in Keys
  BY <1>0, SlotCases DEF Fulls
<1>2. /\ t2 \in [0..(c - 1) -> Slots] /\ DOMAIN t2 = DOMAIN t
      /\ t2[i] = Full(t[i][2], v) /\ \A j \in DOMAIN t : j # i => t2[j] = t[j]
  BY <1>0, <1>1, FullIsFull DEF Written
<1>3. Fulls(t2) = Fulls(t) /\ \A j \in Fulls(t) : t2[j][2] = t[j][2]
  BY <1>0, <1>1, <1>2, FullIsFull DEF Fulls
<1>4. OneEach(t2)
  BY <1>0, <1>3 DEF OneEach
<1>5. \A j \in 0..(c - 1) : t[j] # Empty => t2[j] # Empty
  BY <1>0, <1>1, <1>2, FullIsFull
<1>6. ASSUME NEW j \in Fulls(t2) PROVE Path(t2, t2[j][2], c, j)
  <2>1. t[j][2] \in Keys /\ Path(t, t[j][2], c, j) /\ t2[j][2] = t[j][2]
    BY <1>0, <1>3, SlotCases DEF Fulls
  <2>. QED  BY <1>0, <1>5, <2>1, PathKept
<1>7. Good(t2, c)
  BY <1>0, <1>2, <1>4, <1>6 DEF Good
<1>8. \A j \in Fulls(t) : j # i => t[j] # t[i]
  BY <1>0 DEF OneEach
<1>9. Entries(t2) = (Entries(t) \ {t[i]}) \cup {Full(t[i][2], v)}
  BY <1>0, <1>2, <1>3, <1>8 DEF Entries
<1>. QED
  BY <1>1, <1>3, <1>7, <1>9

LEMMA PutDead ==
    ASSUME NEW t, NEW c, Good(t, c), NEW i \in Fulls(t),
           NEW t2, Written(t2, t, i, Dead)
    PROVE  /\ Good(t2, c) /\ Fulls(t2) = Fulls(t) \ {i}
           /\ Entries(t2) = Entries(t) \ {t[i]}
<1>0. /\ hash \in [Keys -> Hashes] /\ c \in Nat \ {0}
      /\ t \in [0..(c - 1) -> Slots] /\ DOMAIN t = 0..(c - 1)
      /\ OneEach(t)
      /\ \A j \in Fulls(t) : Path(t, t[j][2], c, j) /\ j \in DOMAIN t
  BY DEF Good, Fulls
<1>1. Dead \in Slots /\ Dead[1] # "full" /\ Dead # Empty
  BY DEF Slots, Dead, Empty
<1>2. /\ t2 \in [0..(c - 1) -> Slots] /\ DOMAIN t2 = DOMAIN t
      /\ t2[i] = Dead /\ \A j \in DOMAIN t : j # i => t2[j] = t[j]
  BY <1>0, <1>1 DEF Written
<1>3. Fulls(t2) = Fulls(t) \ {i}
  BY <1>0, <1>1, <1>2 DEF Fulls
<1>4. OneEach(t2)
  BY <1>0, <1>2, <1>3 DEF OneEach
<1>5. \A j \in 0..(c - 1) : t[j] # Empty => t2[j] # Empty
  BY <1>0, <1>1, <1>2
<1>6. ASSUME NEW j \in Fulls(t2) PROVE Path(t2, t2[j][2], c, j)
  <2>1. t[j][2] \in Keys /\ Path(t, t[j][2], c, j) /\ t2[j] = t[j]
    BY <1>0, <1>2, <1>3, SlotCases DEF Fulls
  <2>. QED  BY <1>0, <1>5, <2>1, PathKept
<1>7. Good(t2, c)
  BY <1>0, <1>2, <1>4, <1>6 DEF Good
<1>8. \A j \in Fulls(t) : j # i => t[j] # t[i]
  BY <1>0 DEF OneEach
<1>9. Entries(t2) = Entries(t) \ {t[i]}
  BY <1>0, <1>2, <1>3, <1>8 DEF Entries
<1>. QED
  BY <1>3, <1>7, <1>9

LEMMA AllEmpty ==
    ASSUME hash \in [Keys -> Hashes], NEW c \in Nat \ {0},
           NEW t, t = [i \in 0..(c - 1) |-> Empty]
    PROVE  Good(t, c) /\ Fulls(t) = {} /\ Entries(t) = {}
<1>1. t \in [0..(c - 1) -> Slots]
  BY DEF Slots
<1>2. Fulls(t) = {}
  BY DEF Fulls, Empty
<1>. QED
  BY <1>1, <1>2 DEF Good, OneEach, Entries

-----------------------------------------------------------------------------
(* resize: filled[n] holds the entries of the first n slots                *)

LEMMA SpanSize ==
    ASSUME NEW n \in Nat
    PROVE  IsFiniteSet(0..(n - 1)) /\ Cardinality(0..(n - 1)) = n
<1>1. 0 \in Int /\ n - 1 \in Int
  OBVIOUS
<1>. QED
  BY <1>1, FS_Interval

NoDead(t) == \A i \in DOMAIN t : t[i] # Dead

IsFilling(f, m, c) ==
    f = [n \in 0..m |-> IF n = 0 THEN [i \in 0..(c - 1) |-> Empty]
                        ELSE Placed(f[n - 1], slots[n - 1], c)]

\* The recursive function of resize exists, up to every slot.
LEMMA FillingExists ==
    ASSUME NEW b \in Nat, NEW c
    PROVE  \E f : IsFilling(f, b, c)
<1>. DEFINE S == {m \in 0..b : \E f : IsFilling(f, m, c)}
            none == [i \in 0..(c - 1) |-> Empty]
<1>1. 0 \in S
  <2>. DEFINE f == [n \in 0..0 |-> none]
  <2>1. f = [n \in 0..0 |-> IF n = 0 THEN none ELSE Placed(f[n - 1], slots[n - 1], c)]
    <3>. HIDE DEF none
    <3>. QED  OBVIOUS
  <2>2. IsFilling(f, 0, c)
    <3>. HIDE DEF f
    <3>. QED  BY <2>1 DEF IsFilling
  <2>. QED
    BY <2>2
<1>2. ASSUME NEW m \in 0..b, m \in S, m < b PROVE m + 1 \in S
  <2>1. PICK f : IsFilling(f, m, c)
    BY <1>2
  <2>. DEFINE g == [n \in 0..(m + 1) |->
                      IF n = m + 1 THEN Placed(f[m], slots[m], c) ELSE f[n]]
              next(h, n) == IF n = 0 THEN none ELSE Placed(h[n - 1], slots[n - 1], c)
  <2>2. \A n \in 0..m : f[n] = next(f, n)
    BY <2>1 DEF IsFilling
  <2>3. ASSUME NEW n \in 0..(m + 1) PROVE g[n] = next(g, n)
    <3>. HIDE DEF none
    <3>1. CASE n = m + 1
      <4>1. n # 0 /\ n - 1 = m /\ g[m] = f[m] /\ g[n] = Placed(f[m], slots[m], c)
        BY <3>1
      <4>. QED  BY <4>1
    <3>2. CASE n # m + 1 /\ n # 0
      <4>1. /\ n - 1 \in 0..m /\ n \in 0..m /\ n - 1 # m + 1
            /\ g[n - 1] = f[n - 1] /\ g[n] = f[n]
        BY <3>2
      <4>. QED  BY <2>2, <3>2, <4>1
    <3>3. CASE n = 0
      BY <2>2, <3>3
    <3>. QED  BY <3>1, <3>2, <3>3
  <2>4. g = [n \in 0..(m + 1) |-> next(g, n)]
    <3>1. g = [n \in 0..(m + 1) |-> g[n]]
      OBVIOUS
    <3>. HIDE DEF g, next
    <3>. QED  BY <2>3, <3>1
  <2>5. IsFilling(g, m + 1, c)
    <3>. HIDE DEF g
    <3>. QED  BY <2>4 DEF IsFilling
  <2>. QED
    <3>. HIDE DEF g
    <3>. QED  BY <1>2, <2>5
<1>. HIDE DEF S
<1>3. \A n \in 0..b : n \in S
  BY <1>1, <1>2, UpTo
<1>. QED
  BY <1>3 DEF S

LEMMA ResizedIsFilled ==
    ASSUME NEW c, cap \in Nat
    PROVE  \E f : /\ f[0] = [i \in 0..(c - 1) |-> Empty]
                  /\ \A n \in 0..(cap - 1) : f[n + 1] = Placed(f[n], slots[n], c)
                  /\ Resized(c) = f[cap]
<1>. DEFINE f == CHOOSE g : IsFilling(g, cap, c)
<1>1. IsFilling(f, cap, c)
  BY FillingExists
<1>2. Resized(c) = f[cap]
  BY DEF Resized, IsFilling
<1>. HIDE DEF f
<1>. DEFINE none == [i \in 0..(c - 1) |-> Empty]
<1>3. \A n \in 0..cap : f[n] = IF n = 0 THEN none ELSE Placed(f[n - 1], slots[n - 1], c)
  BY <1>1 DEF IsFilling
<1>. HIDE DEF none
<1>4. f[0] = none
  BY <1>3
<1>5. ASSUME NEW n \in 0..(cap - 1) PROVE f[n + 1] = Placed(f[n], slots[n], c)
  <2>1. n + 1 \in 0..cap /\ n + 1 # 0 /\ n + 1 - 1 = n
    OBVIOUS
  <2>. QED  BY <1>3, <2>1
<1>. QED
  BY <1>2, <1>4, <1>5 DEF none

\* A resize keeps every entry and every count, and leaves no tombstone.
LEMMA ResizeKeeps ==
    ASSUME Good(slots, cap), NEW c \in Nat, c > cap
    PROVE  /\ Good(Resized(c), c) /\ NoDead(Resized(c))
           /\ Entries(Resized(c)) = Entries(slots)
           /\ Cardinality(Fulls(Resized(c))) = Cardinality(Fulls(slots))
<1>0. /\ cap \in Nat \ {0} /\ c \in Nat \ {0} /\ hash \in [Keys -> Hashes]
      /\ DOMAIN slots = 0..(cap - 1) /\ OneEach(slots)
      /\ \A i \in DOMAIN slots : slots[i] \in Slots
  BY DEF Good
<1>. DEFINE Upto(n) == {i \in Fulls(slots) : i < n}
            Holds(t, n) == /\ Good(t, c) /\ NoDead(t)
                           /\ Entries(t) = {slots[i] : i \in Upto(n)}
                           /\ Cardinality(Fulls(t)) = Cardinality(Upto(n))
<1>1. PICK f : /\ f[0] = [i \in 0..(c - 1) |-> Empty]
               /\ \A n \in 0..(cap - 1) : f[n + 1] = Placed(f[n], slots[n], c)
               /\ Resized(c) = f[cap]
  BY <1>0, ResizedIsFilled
<1>2. \A n \in 0..cap : IsFiniteSet(Upto(n)) /\ Cardinality(Upto(n)) \in 0..n
  <2>. TAKE n \in 0..cap
  <2>1. Upto(n) \subseteq 0..(n - 1)
    BY <1>0 DEF Fulls
  <2>2. IsFiniteSet(0..(n - 1)) /\ Cardinality(0..(n - 1)) = n
    BY SpanSize
  <2>. HIDE DEF Upto
  <2>3. IsFiniteSet(Upto(n)) /\ Cardinality(Upto(n)) <= n
    BY <2>1, <2>2, FS_Subset
  <2>. QED  BY <2>3, FS_CardinalityType
<1>. DEFINE S == {n \in 0..cap : Holds(f[n], n)}
<1>3. 0 \in S
  <2>1. Upto(0) = {}
    BY <1>0 DEF Fulls
  <2>2. Good(f[0], c) /\ Fulls(f[0]) = {} /\ Entries(f[0]) = {}
    BY <1>0, <1>1, AllEmpty
  <2>3. NoDead(f[0])
    BY <1>1 DEF NoDead, Dead, Empty
  <2>4. {slots[i] : i \in Upto(0)} = {}
    BY <2>1
  <2>5. Cardinality(Fulls(f[0])) = Cardinality(Upto(0))
    BY <2>1, <2>2
  <2>. HIDE DEF Upto
  <2>6. Holds(f[0], 0)
    BY <2>2, <2>3, <2>4, <2>5
  <2>. HIDE DEF Holds
  <2>. QED  BY <1>0, <2>6
<1>4. ASSUME NEW n \in 0..cap, n \in S, n < cap PROVE n + 1 \in S
  <2>. DEFINE t == f[n]
              u == f[n + 1]
              k == slots[n][2]
              v == slots[n][3]
  <2>1. /\ n \in 0..(cap - 1) /\ n \in DOMAIN slots /\ n + 1 \in 0..cap
        /\ u = Placed(t, slots[n], c) /\ Holds(t, n)
    BY <1>0, <1>1, <1>4
  <2>. HIDE DEF t, u
  <2>. SUFFICES Holds(u, n + 1)
    BY <2>1 DEF u
  <2>2. CASE slots[n][1] # "full"
    <3>1. u = t
      BY <2>1, <2>2 DEF Placed
    <3>2. Upto(n + 1) = Upto(n)
      BY <1>0, <2>1, <2>2 DEF Fulls
    <3>. HIDE DEF Upto
    <3>. QED  BY <2>1, <3>1, <3>2
  <2>3. CASE slots[n][1] = "full"
    <3>1. n \in Fulls(slots) /\ k \in Keys /\ v \in Values /\ slots[n] = Full(k, v)
      BY <1>0, <2>1, <2>3, SlotCases DEF Fulls
    <3>2. Written(u, t, Hole(t, k, c), Full(k, v))
      BY <2>1, <2>3, <3>1 DEF Placed, Written
    <3>3. Upto(n + 1) = Upto(n) \cup {n} /\ n \notin Upto(n)
      BY <1>0, <2>1, <3>1 DEF Fulls
    <3>4. \A j \in Fulls(t) : t[j][2] # k
      <4>. SUFFICES ASSUME NEW j \in Fulls(t), t[j][2] = k PROVE FALSE
        OBVIOUS
      <4>1. t[j] \in Entries(t)
        BY DEF Entries
      <4>2. PICK i \in Upto(n) : slots[i] = t[j]
        BY <2>1, <4>1
      <4>. QED
        BY <1>0, <3>1, <3>3, <4>2 DEF OneEach
    <3>. HIDE DEF Upto, k, v
    <3>5. Cardinality(Fulls(t)) \in 0..n /\ DOMAIN t = 0..(c - 1)
      BY <1>2, <2>1 DEF Good
    <3>6. Fulls(t) # DOMAIN t
      <4>1. Cardinality(0..(c - 1)) = c
        BY <1>0, SpanSize
      <4>2. Cardinality(Fulls(t)) < c
        BY <1>0, <1>4, <3>5
      <4>. QED  BY <3>5, <4>1, <4>2
    <3>7. /\ Good(u, c) /\ Hole(t, k, c) \in DOMAIN t \ Fulls(t)
          /\ Fulls(u) = Fulls(t) \cup {Hole(t, k, c)}
          /\ Entries(u) = Entries(t) \cup {Full(k, v)}
          /\ \A j \in DOMAIN t : u[j] = Dead => t[j] = Dead
      BY <2>1, <3>1, <3>2, <3>4, <3>6, PutNew
    <3>8. NoDead(u)
      <4>1. DOMAIN u = DOMAIN t
        BY <2>1, <3>7 DEF Good
      <4>. QED  BY <2>1, <3>7, <4>1 DEF NoDead
    <3>9. Entries(u) = {slots[i] : i \in Upto(n + 1)}
      BY <2>1, <3>1, <3>3, <3>7
    <3>10. Cardinality(Fulls(u)) = Cardinality(Upto(n + 1))
      <4>1. IsFiniteSet(Fulls(t))
        <5>1. Fulls(t) \subseteq 0..(c - 1) /\ IsFiniteSet(0..(c - 1))
          BY <1>0, <3>5, SpanSize DEF Fulls
        <5>. QED  BY <5>1, FS_Subset
      <4>2. Cardinality(Fulls(u)) = Cardinality(Fulls(t)) + 1
        BY <3>7, <4>1, FS_AddElement
      <4>3. Cardinality(Upto(n + 1)) = Cardinality(Upto(n)) + 1
        BY <1>2, <2>1, <3>3, FS_AddElement
      <4>. QED  BY <2>1, <4>2, <4>3
    <3>. QED
      BY <3>7, <3>8, <3>9, <3>10
  <2>. QED
    BY <2>2, <2>3
<1>. HIDE DEF S
<1>5. cap \in S
  BY <1>0, <1>3, <1>4, UpTo
<1>6. Upto(cap) = Fulls(slots)
  BY <1>0 DEF Fulls
<1>7. Holds(Resized(c), cap)
  BY <1>1, <1>5 DEF S
<1>. HIDE DEF Upto
<1>. QED
  BY <1>6, <1>7 DEF Entries

-----------------------------------------------------------------------------
(* The inductive invariant                                                 *)

\* A table of c slots, c a multiple of 4, of which n are full: at most three
\* quarters.
Sound(t, c, n) ==
    /\ Good(t, c)
    /\ \E q \in Nat \ {0} : c = 4 * q
    /\ n = Cardinality(Fulls(t))
    /\ 4 * n <= 3 * c

Inv ==
    /\ Sound(slots, cap, len)
    /\ cap <= MaxCap
    /\ answer \in Values \cup {None}

LEMMA FullsFinite ==
    ASSUME NEW t, NEW c, Good(t, c)
    PROVE  IsFiniteSet(Fulls(t)) /\ Cardinality(Fulls(t)) \in 0..c
<1>1. c \in Nat /\ Fulls(t) \subseteq 0..(c - 1)
  BY DEF Good, Fulls
<1>2. IsFiniteSet(0..(c - 1)) /\ Cardinality(0..(c - 1)) = c
  BY <1>1, SpanSize
<1>3. IsFiniteSet(Fulls(t)) /\ Cardinality(Fulls(t)) <= c
  BY <1>1, <1>2, FS_Subset
<1>. QED
  BY <1>1, <1>3, FS_CardinalityType

\* A lookup reads the entries, nothing else.
ReadsEntries ==
    \A k \in Keys :
       /\ Lookup(k) \in Values \cup {None}
       /\ \A v \in Values : Lookup(k) = v <=> Full(k, v) \in Entries(slots)

LEMMA LookupIs == Good(slots, cap) => ReadsEntries
<1>. SUFFICES ASSUME Good(slots, cap), NEW k \in Keys
              PROVE  /\ Lookup(k) \in Values \cup {None}
                     /\ \A v \in Values : Lookup(k) = v <=> Full(k, v) \in Entries(slots)
  BY DEF ReadsEntries
<1>. DEFINE i == Probe(k, Stop(slots, k, cap), cap)
<1>1. /\ \A j \in Fulls(slots) : slots[j][2] = k => Found(slots, k, cap) /\ i = j
      /\ Found(slots, k, cap) => i \in Fulls(slots) /\ slots[i][2] = k
  BY StopFinds
<1>2. Lookup(k) = IF Found(slots, k, cap) THEN slots[i][3] ELSE None
  BY DEF Lookup, SlotOf
<1>3. \A j \in Fulls(slots) : /\ slots[j] \in Slots /\ slots[j][3] \in Values
                              /\ slots[j] = Full(slots[j][2], slots[j][3])
  <2>. TAKE j \in Fulls(slots)
  <2>1. slots[j] \in Slots /\ slots[j][1] = "full"
    BY DEF Good, Fulls
  <2>. QED  BY <2>1, SlotCases
<1>. HIDE DEF i
<1>4. CASE Found(slots, k, cap)
  <2>1. i \in Fulls(slots) /\ slots[i] = Full(k, slots[i][3]) /\ slots[i][3] \in Values
    BY <1>1, <1>3, <1>4
  <2>2. Full(k, slots[i][3]) \in Entries(slots)
    BY <2>1 DEF Entries
  <2>3. ASSUME NEW v \in Values, Full(k, v) \in Entries(slots) PROVE v = slots[i][3]
    <3>1. PICK j \in Fulls(slots) : slots[j] = Full(k, v)
      BY <2>3 DEF Entries
    <3>2. slots[j][2] = k /\ slots[j][3] = v
      BY <2>3, <3>1, FullIsFull
    <3>. QED  BY <1>1, <3>2
  <2>. QED
    BY <1>2, <1>4, <2>1, <2>2, <2>3
<1>5. CASE ~Found(slots, k, cap)
  <2>1. ASSUME NEW v \in Values, Full(k, v) \in Entries(slots) PROVE FALSE
    <3>1. PICK j \in Fulls(slots) : slots[j] = Full(k, v)
      BY <2>1 DEF Entries
    <3>2. slots[j][2] = k
      BY <2>1, <3>1, FullIsFull
    <3>. QED  BY <1>1, <1>5, <3>2
  <2>. QED
    BY <1>2, <1>5, <2>1, NoneIsNoValue
<1>. QED
  BY <1>4, <1>5

\* The table insert works on has the same entries and a slot to spare.
LEMMA RoomIs ==
    ASSUME Inv, NEW t, NEW c, t = Room.t, c = Room.c
    PROVE  /\ Sound(t, c, len) /\ 4 * (len + 1) <= 3 * c /\ len \in Nat
           /\ Entries(t) = Entries(slots)
           /\ Fulls(t) # DOMAIN t
           /\ 4 * len >= 3 * cap => NoDead(t)
           /\ 4 * len < 3 * cap => t = slots
<1>0. /\ Good(slots, cap) /\ cap \in Nat \ {0} /\ len = Cardinality(Fulls(slots))
      /\ 4 * len <= 3 * cap /\ len \in Nat
  <2>1. /\ Good(slots, cap) /\ len = Cardinality(Fulls(slots))
        /\ 4 * len <= 3 * cap
    BY DEF Inv, Sound
  <2>2. cap \in Nat \ {0}
    BY <2>1 DEF Good
  <2>3. Cardinality(Fulls(slots)) \in 0..cap
    BY <2>1, FullsFinite
  <2>. QED  BY <2>1, <2>2, <2>3
<1>1. PICK q \in Nat \ {0} : cap = 4 * q
  BY DEF Inv, Sound
<1>2. /\ Sound(t, c, len) /\ 4 * (len + 1) <= 3 * c /\ Entries(t) = Entries(slots)
      /\ 4 * len >= 3 * cap => NoDead(t)
      /\ 4 * len < 3 * cap => t = slots
  <2>1. CASE len * 4 >= cap * 3
    <3>1. t = Resized(2 * cap) /\ c = 2 * cap
      BY <2>1 DEF Room
    <3>2. c \in Nat /\ c > cap
      BY <1>0, <3>1
    <3>3. /\ Good(t, c) /\ NoDead(t) /\ Entries(t) = Entries(slots)
          /\ Cardinality(Fulls(t)) = Cardinality(Fulls(slots))
      BY <1>0, <3>1, <3>2, ResizeKeeps
    <3>4. 2 * q \in Nat \ {0} /\ c = 4 * (2 * q) /\ 4 * (len + 1) <= 3 * c /\ 4 * len <= 3 * c
      BY <1>0, <1>1, <3>1
    <3>. QED
      BY <1>0, <2>1, <3>3, <3>4 DEF Sound
  <2>2. CASE ~(len * 4 >= cap * 3)
    <3>1. t = slots /\ c = cap
      BY <2>2 DEF Room
    <3>2. 4 * (len + 1) <= 3 * cap
      BY <1>0, <1>1, <2>2
    <3>. QED
      BY <1>0, <2>2, <3>1, <3>2 DEF Inv
  <2>. QED
    BY <2>1, <2>2
<1>3. Fulls(t) # DOMAIN t
  <2>1. /\ Cardinality(Fulls(t)) = len /\ c \in Nat \ {0} /\ DOMAIN t = 0..(c - 1)
    BY <1>2 DEF Sound, Good
  <2>2. Cardinality(0..(c - 1)) = c
    BY <2>1, SpanSize
  <2>3. len < c
    BY <1>0, <1>2, <2>1
  <2>. QED  BY <2>1, <2>2, <2>3
<1>. QED
  BY <1>0, <1>2, <1>3

-----------------------------------------------------------------------------
(* What each operation does to the entries                                 *)

Kept == Sound(slots', cap', len') /\ cap' <= MaxCap /\ hash' = hash

LEMMA ReplaceDoes ==
    ASSUME Inv, NEW k \in Keys, NEW v \in Values, Replace(k, v)
    PROVE  /\ Kept
           /\ \E w \in Values :
                 Entries(slots') = (Entries(slots) \ {Full(k, w)}) \cup {Full(k, v)}
<1>0. PICK t, c : t = Room.t /\ c = Room.c
  OBVIOUS
<1>. DEFINE i == Probe(k, Stop(t, k, c), c)
<1>1. /\ c <= MaxCap /\ Found(t, k, c) /\ slots' = [t EXCEPT ![i] = Full(k, v)]
      /\ cap' = c /\ hash' = hash /\ len' = len
  BY <1>0 DEF Replace
<1>2. Sound(t, c, len) /\ Entries(t) = Entries(slots)
  BY <1>0, RoomIs
<1>3. Good(t, c)
  BY <1>2 DEF Sound
<1>4. i \in Fulls(t) /\ t[i][2] = k
  BY <1>1, <1>3, StopFinds
<1>. HIDE DEF i
<1>5. /\ Good(slots', c) /\ Fulls(slots') = Fulls(t)
      /\ Entries(slots') = (Entries(t) \ {t[i]}) \cup {Full(k, v)}
  <2>1. Written(slots', t, i, Full(t[i][2], v))
    BY <1>1, <1>4 DEF Written
  <2>2. /\ Good(slots', c) /\ Fulls(slots') = Fulls(t)
        /\ Entries(slots') = (Entries(t) \ {t[i]}) \cup {Full(t[i][2], v)}
    BY <1>3, <1>4, <2>1, PutOld
  <2>. QED  BY <1>4, <2>2
<1>6. t[i] = Full(k, t[i][3]) /\ t[i][3] \in Values
  <2>1. t[i] \in Slots /\ t[i][1] = "full"
    BY <1>3, <1>4 DEF Good, Fulls
  <2>. QED  BY <1>4, <2>1, SlotCases
<1>7. Kept
  BY <1>1, <1>2, <1>5 DEF Kept, Sound
<1>. QED
  BY <1>2, <1>5, <1>6, <1>7

LEMMA AddDoes ==
    ASSUME Inv, NEW k \in Keys, NEW v \in Values, Add(k, v)
    PROVE  Kept /\ Entries(slots') = Entries(slots) \cup {Full(k, v)}
<1>0. PICK t, c : t = Room.t /\ c = Room.c
  OBVIOUS
<1>1. /\ c <= MaxCap /\ ~Found(t, k, c)
      /\ slots' = [t EXCEPT ![Hole(t, k, c)] = Full(k, v)]
      /\ cap' = c /\ hash' = hash /\ len' = len + 1
  BY <1>0 DEF Add
<1>2. /\ Sound(t, c, len) /\ Entries(t) = Entries(slots)
      /\ 4 * (len + 1) <= 3 * c /\ len \in Nat /\ Fulls(t) # DOMAIN t
  BY <1>0, RoomIs
<1>3. Good(t, c) /\ len = Cardinality(Fulls(t))
  BY <1>2 DEF Sound
<1>4. \A j \in Fulls(t) : t[j][2] # k
  BY <1>1, <1>3, StopFinds
<1>5. /\ Good(slots', c) /\ Hole(t, k, c) \in DOMAIN t \ Fulls(t)
      /\ Fulls(slots') = Fulls(t) \cup {Hole(t, k, c)}
      /\ Entries(slots') = Entries(t) \cup {Full(k, v)}
  <2>1. Written(slots', t, Hole(t, k, c), Full(k, v)) /\ Fulls(t) # DOMAIN t
    BY <1>1, <1>2 DEF Written
  <2>. QED  BY <1>3, <1>4, <2>1, PutNew
<1>6. Cardinality(Fulls(slots')) = len + 1
  BY <1>3, <1>5, FullsFinite, FS_AddElement
<1>7. Kept
  BY <1>1, <1>2, <1>5, <1>6 DEF Kept, Sound
<1>. QED
  BY <1>2, <1>5, <1>7

LEMMA AddNowhereDoes ==
    ASSUME Inv, NEW k \in Keys, AddNowhere(k)
    PROVE  /\ Kept /\ Entries(slots') = Entries(slots)
           /\ ~RoomFor(k)
           /\ \A v \in Values : Full(k, v) \notin Entries(slots)
<1>. DEFINE t == Room.t
            c == Room.c
<1>1. /\ c <= MaxCap /\ Stop(t, k, c) = c
      /\ slots' = t /\ cap' = c /\ hash' = hash /\ len' = len
  BY DEF AddNowhere
<1>2. /\ Sound(t, c, len) /\ Entries(t) = Entries(slots) /\ Fulls(t) # DOMAIN t
      /\ 4 * len >= 3 * cap => NoDead(t)
      /\ 4 * len < 3 * cap => t = slots
  BY RoomIs
<1>. HIDE DEF t, c
<1>3. Good(t, c)
  BY <1>2 DEF Sound
<1>4. \A i \in DOMAIN t : t[i] # Empty /\ ~HoldsKey(t[i], k)
  BY <1>1, <1>3, StopMisses
<1>5. ASSUME NEW v \in Values, Full(k, v) \in Entries(slots) PROVE FALSE
  <2>1. PICK i \in Fulls(t) : t[i] = Full(k, v)
    BY <1>2, <1>5 DEF Entries
  <2>. QED  BY <1>4, <1>5, <2>1, FullIsFull DEF HoldsKey, Fulls
<1>6. ~(4 * len >= 3 * cap)
  <2>. SUFFICES ASSUME NoDead(t) PROVE FALSE
    BY <1>2
  <2>1. PICK i \in DOMAIN t : i \notin Fulls(t)
    BY <1>2 DEF Fulls
  <2>2. t[i] \in Slots /\ t[i] # Dead /\ t[i] # Empty
    BY <1>3, <1>4, <2>1 DEF Good, NoDead
  <2>. QED  BY <2>1, <2>2, SlotCases DEF Fulls
<1>7. Good(slots, cap) /\ cap \in Nat /\ len \in Nat
  <2>1. Good(slots, cap) /\ len = Cardinality(Fulls(slots))
    BY DEF Inv, Sound
  <2>2. cap \in Nat
    BY <2>1 DEF Good
  <2>3. Cardinality(Fulls(slots)) \in 0..cap
    BY <2>1, FullsFinite
  <2>. QED  BY <2>1, <2>2, <2>3
<1>8. ~RoomFor(k)
  <2>1. Lookup(k) = None
    BY <1>5, <1>7, LookupIs DEF ReadsEntries
  <2>2. \A i \in DOMAIN slots : slots[i] # Empty
    BY <1>2, <1>4, <1>6, <1>7
  <2>. QED  BY <1>6, <2>1, <2>2 DEF RoomFor
<1>. QED
  BY <1>1, <1>2, <1>5, <1>8 DEF Kept

LEMMA RemoveDoes ==
    ASSUME Inv, NEW k \in Keys, Remove(k)
    PROVE  /\ Kept /\ Lookup(k) \in Values
           /\ Entries(slots') = Entries(slots) \ {Full(k, Lookup(k))}
<1>. DEFINE i == SlotOf(k)
<1>1. /\ Found(slots, k, cap) /\ slots' = [slots EXCEPT ![i] = Dead]
      /\ cap' = cap /\ hash' = hash /\ len' = len - 1
  BY DEF Remove
<1>2. Good(slots, cap) /\ len = Cardinality(Fulls(slots)) /\ cap \in Nat
  BY DEF Inv, Sound, Good
<1>3. i \in Fulls(slots) /\ slots[i][2] = k
  BY <1>1, <1>2, StopFinds DEF SlotOf
<1>4. Lookup(k) = slots[i][3]
  BY <1>1 DEF Lookup
<1>. HIDE DEF i
<1>5. slots[i] = Full(k, slots[i][3]) /\ slots[i][3] \in Values
  <2>1. slots[i] \in Slots /\ slots[i][1] = "full"
    BY <1>2, <1>3 DEF Good, Fulls
  <2>. QED  BY <1>3, <2>1, SlotCases
<1>6. /\ Good(slots', cap) /\ Fulls(slots') = Fulls(slots) \ {i}
      /\ Entries(slots') = Entries(slots) \ {slots[i]}
  <2>1. Written(slots', slots, i, Dead)
    BY <1>1 DEF Written
  <2>. QED  BY <1>2, <1>3, <2>1, PutDead
<1>7. Cardinality(Fulls(slots')) = len - 1 /\ len \in Nat
  <2>1. IsFiniteSet(Fulls(slots)) /\ Cardinality(Fulls(slots)) \in 0..cap
    BY <1>2, FullsFinite
  <2>2. Cardinality(Fulls(slots) \ {i}) = Cardinality(Fulls(slots)) - 1
    BY <1>3, <2>1, FS_RemoveElement
  <2>. QED  BY <1>2, <1>6, <2>1, <2>2
<1>8. Kept
  BY <1>1, <1>2, <1>6, <1>7 DEF Kept, Inv, Sound
<1>. QED
  BY <1>4, <1>5, <1>6, <1>8

LEMMA ClearDoes ==
    ASSUME Inv, Clear
    PROVE  Kept /\ Entries(slots') = {}
<1>1. Good(slots, cap) /\ cap \in Nat \ {0} /\ hash \in [Keys -> Hashes]
  BY DEF Inv, Sound, Good
<1>2. slots' = [i \in 0..(cap - 1) |-> Empty] /\ cap' = cap /\ hash' = hash /\ len' = 0
  BY <1>1 DEF Clear, Good
<1>3. Good(slots', cap) /\ Fulls(slots') = {} /\ Entries(slots') = {}
  BY <1>1, <1>2, AllEmpty
<1>4. Cardinality(Fulls(slots')) = 0
  BY <1>3, FS_EmptySet
<1>. QED
  BY <1>1, <1>2, <1>3, <1>4 DEF Kept, Inv, Sound

LEMMA NothingDoes ==
    ASSUME Inv, UNCHANGED <<hash, slots, cap, len>>
    PROVE  Kept /\ Entries(slots') = Entries(slots)
BY DEF Kept, Inv

-----------------------------------------------------------------------------
(* The theorems                                                            *)

LEMMA InitInv == Init => Inv
<1>. SUFFICES ASSUME Init PROVE Inv
  OBVIOUS
<1>1. /\ hash \in [Keys -> Hashes] /\ slots = [i \in 0..(FirstCap - 1) |-> Empty]
      /\ cap = FirstCap /\ len = 0 /\ answer = None
      /\ FirstCap \in Nat \ {0} /\ FirstCap % 4 = 0
  BY FirstCapIsFours DEF Init
<1>2. Good(slots, cap) /\ Fulls(slots) = {}
  BY <1>1, AllEmpty
<1>3. \E q \in Nat \ {0} : cap = 4 * q
  BY <1>1, ModRange
<1>4. Cardinality(Fulls(slots)) = 0
  BY <1>2, FS_EmptySet
<1>. QED
  BY <1>1, <1>2, <1>3, <1>4, MaxCapIsNat DEF Inv, Sound

LEMMA NextKeeps ==
    ASSUME Inv, [Next]_vars
    PROVE  Kept /\ answer' \in Values \cup {None}
<1>1. ASSUME NEW k \in Keys, NEW v \in Values, Replace(k, v)
      PROVE  Kept /\ answer' \in Values \cup {None}
  <2>1. answer' = None
    BY <1>1 DEF Replace
  <2>. QED  BY <1>1, <2>1, ReplaceDoes
<1>2. ASSUME NEW k \in Keys, NEW v \in Values, Add(k, v)
      PROVE  Kept /\ answer' \in Values \cup {None}
  <2>1. answer' = None
    BY <1>2 DEF Add
  <2>. QED  BY <1>2, <2>1, AddDoes
<1>3. ASSUME NEW k \in Keys, AddNowhere(k)
      PROVE  Kept /\ answer' \in Values \cup {None}
  <2>1. answer' = None
    BY <1>3 DEF AddNowhere
  <2>. QED  BY <1>3, <2>1, AddNowhereDoes
<1>4. ASSUME NEW k \in Keys, Get(k)
      PROVE  Kept /\ answer' \in Values \cup {None}
  <2>1. Good(slots, cap)
    BY DEF Inv, Sound
  <2>2. answer' = Lookup(k) /\ UNCHANGED <<hash, slots, cap, len>>
    BY <1>4 DEF Get
  <2>3. Kept
    BY <2>2, NothingDoes
  <2>. QED  BY <2>1, <2>2, <2>3, LookupIs DEF ReadsEntries
<1>5. ASSUME NEW k \in Keys, Remove(k)
      PROVE  Kept /\ answer' \in Values \cup {None}
  <2>1. answer' = Lookup(k)
    BY <1>5 DEF Remove
  <2>. QED  BY <1>5, <2>1, RemoveDoes
<1>6. ASSUME NEW k \in Keys, RemoveNothing(k)
      PROVE  Kept /\ answer' \in Values \cup {None}
  <2>1. answer' = None /\ UNCHANGED <<hash, slots, cap, len>>
    BY <1>6 DEF RemoveNothing
  <2>. QED  BY <2>1, NothingDoes
<1>7. ASSUME Clear PROVE Kept /\ answer' \in Values \cup {None}
  <2>1. answer' = None
    BY <1>7 DEF Clear
  <2>. QED  BY <1>7, <2>1, ClearDoes
<1>8. ASSUME UNCHANGED vars PROVE Kept /\ answer' \in Values \cup {None}
  <2>1. answer' = answer /\ UNCHANGED <<hash, slots, cap, len>>
    BY <1>8 DEF vars
  <2>. QED  BY <2>1, NothingDoes DEF Inv
<1>. QED
  BY <1>1, <1>2, <1>3, <1>4, <1>5, <1>6, <1>7, <1>8 DEF Next

LEMMA KeptIsInv ==
    ASSUME Kept, answer' \in Values \cup {None}
    PROVE  Inv' /\ Good(slots, cap)'
<1>1. /\ Good(slots', cap') /\ hash' = hash
      /\ \E q \in Nat \ {0} : cap' = 4 * q
      /\ len' = Cardinality(Fulls(slots')) /\ 4 * len' <= 3 * cap'
      /\ cap' <= MaxCap
  BY DEF Kept, Sound
<1>2. Good(slots, cap)'
  BY <1>1 DEF Good, OneEach, Fulls, Path, Probe
<1>3. Fulls(slots)' = Fulls(slots')
  BY DEF Fulls
<1>. QED
  BY <1>1, <1>2, <1>3 DEF Inv, Sound

\* The table is good and at most three quarters full, len counts its entries,
\* and the capacity is a multiple of four, which is what makes the integer
\* comparison of insert leave room for one entry more.
THEOREM Invariance == Spec => []Inv
<1>1. Inv /\ [Next]_vars => Inv'
  BY NextKeeps, KeptIsInv
<1>. QED
  BY InitInv, <1>1, PTL DEF Spec

\* The variables have their types; in particular len never exceeds cap.
THEOREM TypeCorrect == Spec => []TypeOK
<1>1. Inv => TypeOK
  <2>. SUFFICES ASSUME Inv PROVE TypeOK
    OBVIOUS
  <2>1. Good(slots, cap) /\ len = Cardinality(Fulls(slots)) /\ cap <= MaxCap
    BY DEF Inv, Sound
  <2>2. len \in 0..cap
    BY <2>1, FullsFinite
  <2>. QED  BY <2>1, <2>2 DEF Inv, Good, TypeOK, Slots
<1>. QED
  BY Invariance, <1>1, PTL

\* get and remove find every entry at the slot it is in, whatever was removed,
\* reused or resized before; no key has two entries; len is their number, and
\* at most three quarters of the slots are full when insert starts.
THEOREM EveryEntryIsReachable == Spec => []ReachableOnce
<1>1. Inv => ReachableOnce
  <2>. SUFFICES ASSUME Inv PROVE ReachableOnce
    OBVIOUS
  <2>1. Good(slots, cap) /\ len = Cardinality(Fulls(slots)) /\ 4 * len <= 3 * cap
    BY DEF Inv, Sound
  <2>2. ASSUME NEW i \in DOMAIN slots, slots[i][1] = "full"
        PROVE  Found(slots, slots[i][2], cap) /\ SlotOf(slots[i][2]) = i
    <3>1. i \in Fulls(slots) /\ slots[i] \in Slots
      BY <2>1, <2>2 DEF Fulls, Good
    <3>2. slots[i][2] \in Keys
      BY <2>2, <3>1, SlotCases
    <3>. QED  BY <2>1, <3>1, <3>2, StopFinds DEF SlotOf
  <2>. QED  BY <2>1, <2>2 DEF ReachableOnce, Fulls
<1>. QED
  BY Invariance, <1>1, PTL

-----------------------------------------------------------------------------
(* The map a table implements                                              *)

LEMMA ReadsAfter ==
    ASSUME Good(slots, cap)'
    PROVE  \A j \in Keys :
              /\ Lookup(j)' \in Values \cup {None}
              /\ \A v \in Values : Lookup(j)' = v <=> Full(j, v) \in Entries(slots')
<1>1. (Good(slots, cap) => ReadsEntries)'
  BY LookupIs, PTL
<1>. QED
  BY <1>1 DEF ReadsEntries, Entries, Fulls

\* A step that binds k to x, or unbinds it, and leaves the entries of the other
\* keys alone changes the map at one key.
LEMMA MapAfter ==
    ASSUME Good(slots, cap), Good(slots, cap)', NEW k \in Keys, NEW x \in Values \cup {None},
           x \in Values => Full(k, x) \in Entries(slots'),
           x = None => \A w \in Values : Full(k, w) \notin Entries(slots'),
           \A j \in Keys \ {k}, w \in Values :
              Full(j, w) \in Entries(slots') <=> Full(j, w) \in Entries(slots)
    PROVE  Contents' = [Contents EXCEPT ![k] = x]
<1>1. \A j \in Keys :
         /\ Lookup(j) \in Values \cup {None}
         /\ \A v \in Values : Lookup(j) = v <=> Full(j, v) \in Entries(slots)
  BY LookupIs DEF ReadsEntries
<1>2. \A j \in Keys :
         /\ Lookup(j)' \in Values \cup {None}
         /\ \A v \in Values : Lookup(j)' = v <=> Full(j, v) \in Entries(slots')
  BY ReadsAfter
<1>3. Lookup(k)' = x
  BY <1>2, NoneIsNoValue
<1>4. \A j \in Keys \ {k} : Lookup(j)' = Lookup(j)
  BY <1>1, <1>2, NoneIsNoValue
<1>5. Contents' = [j \in Keys |-> Lookup(j)'] /\ Contents = [j \in Keys |-> Lookup(j)]
  BY DEF Contents
<1>. QED
  BY <1>3, <1>4, <1>5

LEMMA MapSame ==
    ASSUME Good(slots, cap), Good(slots, cap)', Entries(slots') = Entries(slots)
    PROVE  Contents' = Contents
<1>1. \A j \in Keys :
         /\ Lookup(j) \in Values \cup {None}
         /\ \A v \in Values : Lookup(j) = v <=> Full(j, v) \in Entries(slots)
  BY LookupIs DEF ReadsEntries
<1>2. \A j \in Keys :
         /\ Lookup(j)' \in Values \cup {None}
         /\ \A v \in Values : Lookup(j)' = v <=> Full(j, v) \in Entries(slots')
  BY ReadsAfter
<1>3. \A j \in Keys : Lookup(j)' = Lookup(j)
  BY <1>1, <1>2, NoneIsNoValue
<1>4. Contents' = [j \in Keys |-> Lookup(j)'] /\ Contents = [j \in Keys |-> Lookup(j)]
  BY DEF Contents
<1>. QED
  BY <1>3, <1>4

LEMMA OtherKey ==
    ASSUME NEW k \in Keys, NEW j \in Keys \ {k}, NEW v \in Values, NEW w \in Values
    PROVE  Full(j, w) # Full(k, v)
BY FullIsFull

LEMMA InsertBinds ==
    ASSUME Inv, Inv', NEW k \in Keys, NEW v \in Values, Replace(k, v) \/ Add(k, v)
    PROVE  /\ Contents' = [Contents EXCEPT ![k] = v]
           /\ Lookup(k)' = v /\ answer' = None
<1>1. Good(slots, cap) /\ Good(slots, cap)'
  BY DEF Inv, Sound
<1>2. /\ Full(k, v) \in Entries(slots')
      /\ \A j \in Keys \ {k}, w \in Values :
            Full(j, w) \in Entries(slots') <=> Full(j, w) \in Entries(slots)
  <2>1. CASE Replace(k, v)
    <3>1. PICK u \in Values :
             Entries(slots') = (Entries(slots) \ {Full(k, u)}) \cup {Full(k, v)}
      BY <2>1, ReplaceDoes
    <3>. QED  BY <3>1, OtherKey
  <2>2. CASE Add(k, v)
    <3>1. Entries(slots') = Entries(slots) \cup {Full(k, v)}
      BY <2>2, AddDoes
    <3>. QED  BY <3>1, OtherKey
  <2>. QED
    BY <2>1, <2>2
<1>3. Contents' = [Contents EXCEPT ![k] = v]
  BY <1>1, <1>2, NoneIsNoValue, MapAfter
<1>4. Lookup(k)' = v
  BY <1>1, <1>2, ReadsAfter
<1>5. answer' = None
  BY DEF Replace, Add
<1>. QED
  BY <1>3, <1>4, <1>5

\* insert, get, remove and clear are those of a finite map, except that the
\* insertion of a new key may have no effect: a tombstone or a resize never
\* changes what another key is bound to.
THEOREM Refinement == Spec => Implements
<1>1. Init => Abstract!Init
  <2>. SUFFICES ASSUME Init PROVE Abstract!Init
    OBVIOUS
  <2>1. Good(slots, cap) /\ Entries(slots) = {}
    <3>1. /\ hash \in [Keys -> Hashes] /\ slots = [i \in 0..(FirstCap - 1) |-> Empty]
          /\ cap = FirstCap /\ FirstCap \in Nat \ {0}
      BY FirstCapIsFours DEF Init
    <3>. QED  BY <3>1, AllEmpty
  <2>2. \A k \in Keys : Lookup(k) = None
    BY <2>1, LookupIs DEF ReadsEntries
  <2>. QED
    BY <2>2 DEF Init, Abstract!Init, Contents
<1>2. Inv /\ Inv' /\ [Next]_vars => [Abstract!Next]_(Abstract!vars)
  <2>. SUFFICES ASSUME Inv, Inv', [Next]_vars PROVE Abstract!Next \/ UNCHANGED Abstract!vars
    OBVIOUS
  <2>0. Good(slots, cap) /\ Good(slots, cap)'
    BY DEF Inv, Sound
  <2>1. ASSUME NEW k \in Keys, NEW v \in Values, Replace(k, v) \/ Add(k, v)
        PROVE  Abstract!Next
    <3>1. Abstract!Insert(k, v)
      BY <2>1, InsertBinds DEF Abstract!Insert
    <3>. QED  BY <3>1 DEF Abstract!Next
  <2>2. ASSUME NEW k \in Keys, AddNowhere(k) PROVE Abstract!Next
    <3>1. Entries(slots') = Entries(slots) /\ \A v \in Values : Full(k, v) \notin Entries(slots)
      BY <2>2, AddNowhereDoes
    <3>2. Contents' = Contents
      BY <2>0, <3>1, MapSame
    <3>3. Contents[k] = None
      BY <2>0, <3>1, LookupIs DEF ReadsEntries, Contents
    <3>4. Abstract!Dropped(k)
      BY <2>2, <3>2, <3>3 DEF AddNowhere, Abstract!Dropped
    <3>. QED  BY <3>4 DEF Abstract!Next
  <2>3. ASSUME NEW k \in Keys, Get(k) PROVE Abstract!Next
    <3>1. answer' = Lookup(k) /\ UNCHANGED <<hash, slots, cap, len>>
      BY <2>3 DEF Get
    <3>2. Contents' = Contents
      BY <2>0, <3>1, NothingDoes, MapSame
    <3>3. Abstract!Get(k)
      BY <3>1, <3>2 DEF Abstract!Get, Contents
    <3>. QED  BY <3>3 DEF Abstract!Next
  <2>4. ASSUME NEW k \in Keys, Remove(k) PROVE Abstract!Next
    <3>1. Lookup(k) \in Values /\ Entries(slots') = Entries(slots) \ {Full(k, Lookup(k))}
      BY <2>4, RemoveDoes
    <3>2. \A w \in Values : Full(k, w) \notin Entries(slots')
      BY <2>0, <3>1, LookupIs DEF ReadsEntries
    <3>3. \A j \in Keys \ {k}, w \in Values :
             Full(j, w) \in Entries(slots') <=> Full(j, w) \in Entries(slots)
      BY <3>1, OtherKey
    <3>4. Contents' = [Contents EXCEPT ![k] = None]
      BY <2>0, <3>2, <3>3, NoneIsNoValue, MapAfter
    <3>5. Abstract!Remove(k)
      BY <2>4, <3>4 DEF Remove, Abstract!Remove, Contents
    <3>. QED  BY <3>5 DEF Abstract!Next
  <2>5. ASSUME NEW k \in Keys, RemoveNothing(k) PROVE Abstract!Next
    <3>1. answer' = None /\ Lookup(k) = None /\ UNCHANGED <<hash, slots, cap, len>>
      BY <2>5 DEF RemoveNothing, Lookup
    <3>2. Contents' = Contents
      BY <2>0, <3>1, NothingDoes, MapSame
    <3>3. Contents[k] = None /\ [Contents EXCEPT ![k] = None] = Contents
      BY <3>1 DEF Contents
    <3>4. Abstract!Remove(k)
      BY <3>1, <3>2, <3>3 DEF Abstract!Remove
    <3>. QED  BY <3>4 DEF Abstract!Next
  <2>6. ASSUME Clear PROVE Abstract!Next
    <3>1. Entries(slots') = {} /\ answer' = None
      BY <2>6, ClearDoes DEF Clear
    <3>2. \A k \in Keys : Lookup(k)' = None
      BY <2>0, <3>1, ReadsAfter
    <3>3. Abstract!Clear
      BY <3>1, <3>2 DEF Abstract!Clear, Contents
    <3>. QED  BY <3>3 DEF Abstract!Next
  <2>7. ASSUME UNCHANGED vars PROVE UNCHANGED Abstract!vars
    <3>1. answer' = answer /\ UNCHANGED <<hash, slots, cap, len>>
      BY <2>7 DEF vars
    <3>2. Contents' = Contents
      BY <2>0, <3>1, NothingDoes, MapSame
    <3>. QED  BY <3>1, <3>2 DEF Abstract!vars
  <2>. QED
    BY <2>1, <2>2, <2>3, <2>4, <2>5, <2>6, <2>7 DEF Next
<1>. QED
  BY <1>1, <1>2, Invariance, PTL DEF Spec, Implements, Abstract!Spec

\* insert binds its key whenever the key is there already, a resize is due, or
\* one slot is empty: only tombstones in every free slot lose an insertion.
THEOREM InsertionsTakeEffect == Spec => InsertTakesEffect
<1>1. Inv /\ Inv' /\ [Next]_vars =>
        [\A k \in Keys, v \in Values :
           RoomFor(k) /\ Lookup(k)' # v => ~Insert(k, v)]_vars
  <2>. SUFFICES ASSUME Inv, Inv', NEW k \in Keys, NEW v \in Values,
                       RoomFor(k), Lookup(k)' # v, Insert(k, v)
                PROVE  FALSE
    OBVIOUS
  <2>1. ~(Replace(k, v) \/ Add(k, v))
    BY InsertBinds
  <2>2. ~AddNowhere(k)
    BY AddNowhereDoes
  <2>. QED
    BY <2>1, <2>2 DEF Insert
<1>. QED
  BY <1>1, Invariance, PTL DEF Spec, InsertTakesEffect

=============================================================================
