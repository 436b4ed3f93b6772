------------------------------ MODULE RingProofs ------------------------------
(***************************************************************************)
(* The ring buffer owns exactly its window and implements the double-ended *)
(* queue, for every element type, first capacity and bound.                *)
(***************************************************************************)
EXTENDS Ring, TLAPS

USE NoneAndMovedAreNoValues, FirstCapPositive, MaxLenIsNat

\* Masked reduces modulo c.
LEMMA MaskedInRange ==
    ASSUME NEW c \in Nat, NEW x \in 0..(2 * c - 1)
    PROVE  Masked(x, c) \in 0..(c - 1)
  BY DEF Masked

\* Two offsets below the capacity reach different slots.
LEMMA SlotsDiffer ==
    ASSUME NEW c \in Nat, NEW h \in 0..(c - 1),
           NEW j \in 0..(c - 1), NEW k \in 0..(c - 1),
           Masked(h + j, c) = Masked(h + k, c)
    PROVE  j = k
  BY DEF Masked

\* head is a slot number, except in the ring that has no slots yet.
Inv == TypeOK /\ OwnsItsWindow

\* A slot of the window holds a value.
LEMMA WindowHoldsValues ==
    ASSUME Inv, NEW k \in 0..(len - 1)
    PROVE  Slot(k) \in 0..(cap - 1) /\ buf[Slot(k)] \in Values
<1>1. Slot(k) \in {Slot(j) : j \in 0..(len - 1)}  OBVIOUS
<1>2. Slot(k) \in OwnedSlots  BY <1>1 DEF Inv, OwnsItsWindow
<1>. QED  BY <1>2 DEF OwnedSlots, Inv, TypeOK

\* The ring a push writes to is typed, owns its window, has room for one more
\* element and holds the same elements in the same places of the window.
RoomOK(r) ==
    /\ r.c \in Nat \ {0} /\ r.h \in 0..(r.c - 1)
    /\ r.b \in [0..(r.c - 1) -> Values \cup {Moved}]
    /\ len < r.c
    /\ \A k \in 0..(len - 1) : r.b[Masked(r.h + k, r.c)] = buf[Slot(k)]
    /\ \A i \in 0..(r.c - 1) :
         r.b[i] # Moved <=> \E k \in 0..(len - 1) : i = Masked(r.h + k, r.c)

LEMMA RoomIsOK == ASSUME Inv PROVE RoomOK(Room)
<1>. USE DEF Inv, TypeOK
<1>1. CASE len = cap
  <2>. DEFINE c == IF cap = 0 THEN FirstCap ELSE 2 * cap
              b == [i \in 0..(c - 1) |-> IF i < len THEN buf[Slot(i)] ELSE Moved]
  <2>1. Room = [b |-> b, c |-> c, h |-> 0]  BY <1>1 DEF Room, Grown
  <2>2. c \in Nat \ {0} /\ len < c  BY <1>1
  <2>3. \A k \in 0..(len - 1) : buf[Slot(k)] \in Values /\ k \in 0..(c - 1)
    BY <2>2, WindowHoldsValues
  <2>4. b \in [0..(c - 1) -> Values \cup {Moved}]  BY <2>2, <2>3
  <2>5. \A k \in 0..(len - 1) : Masked(0 + k, c) = k  BY <2>2, <2>3 DEF Masked
  <2>6. \A k \in 0..(len - 1) : b[Masked(0 + k, c)] = buf[Slot(k)]
    BY <2>3, <2>5
  <2>7. \A i \in 0..(c - 1) : b[i] # Moved <=> i \in 0..(len - 1)
    BY <2>2, <2>3
  <2>8. \A i \in 0..(c - 1) :
          b[i] # Moved <=> \E k \in 0..(len - 1) : i = Masked(0 + k, c)
    BY <2>5, <2>7
  <2>. HIDE DEF b, c
  <2>. QED  BY <2>1, <2>2, <2>4, <2>6, <2>8 DEF RoomOK
<1>2. CASE len # cap
  <2>1. Room = [b |-> buf, c |-> cap, h |-> head]  BY <1>2 DEF Room
  <2>2. cap \in Nat \ {0} /\ head \in 0..(cap - 1) /\ len < cap  BY <1>2
  <2>3. \A i \in 0..(cap - 1) :
          buf[i] # Moved <=> \E k \in 0..(len - 1) : i = Masked(head + k, cap)
    BY DEF OwnsItsWindow, OwnedSlots, Slot
  <2>. QED  BY <2>1, <2>2, <2>3 DEF RoomOK, Slot
<1>. QED  BY <1>1, <1>2

------------------------------------------------------------------------------
(* Each operation keeps the invariant and is its namesake on Contents.     *)

LEMMA PushBackStep ==
    ASSUME Inv, NEW v \in Values, PushBack(v)
    PROVE  Inv' /\ Abstract!PushBack(v)
<1>. DEFINE r == Room
<1>1. RoomOK(r)  BY RoomIsOK
<1>2. /\ buf' = [r.b EXCEPT ![Masked(r.h + len, r.c)] = v]
      /\ cap' = r.c /\ head' = r.h /\ len' = len + 1 /\ answer' = None
  BY DEF PushBack
<1>. HIDE DEF r
<1>. USE DEF RoomOK, Inv, TypeOK
<1>3. \A k \in 0..len : Masked(r.h + k, r.c) \in 0..(r.c - 1)
  BY <1>1 DEF Masked
<1>4. \A j, k \in 0..len :
        Masked(r.h + j, r.c) = Masked(r.h + k, r.c) => j = k
  BY <1>1, SlotsDiffer
<1>5. TypeOK'  BY <1>1, <1>2, <1>3
<1>6. buf'[Masked(r.h + len, r.c)] = v
  BY <1>1, <1>2, <1>3
<1>7. \A i \in 0..(r.c - 1) : i # Masked(r.h + len, r.c) => buf'[i] = r.b[i]
  BY <1>1, <1>2
<1>8. \A i \in 0..(r.c - 1) :
        buf'[i] # Moved <=> \E k \in 0..len : i = Masked(r.h + k, r.c)
  <2>. TAKE i \in 0..(r.c - 1)
  <2>1. CASE i = Masked(r.h + len, r.c)
    <3>1. buf'[i] # Moved  BY <2>1, <1>6
    <3>. QED  BY <2>1, <3>1
  <2>2. CASE i # Masked(r.h + len, r.c)
    <3>1. buf'[i] # Moved <=> \E k \in 0..(len - 1) : i = Masked(r.h + k, r.c)
      BY <2>2, <1>1, <1>7
    <3>2. \A k \in 0..len : i = Masked(r.h + k, r.c) => k \in 0..(len - 1)
      BY <2>2
    <3>3. \A k \in 0..(len - 1) : k \in 0..len  OBVIOUS
    <3>. QED  BY <3>1, <3>2, <3>3
  <2>. QED  BY <2>1, <2>2
<1>9. OwnsItsWindow'
  <2>1. OwnedSlots' = {i \in 0..(r.c - 1) : buf'[i] # Moved}
    BY <1>1, <1>2 DEF OwnedSlots
  <2>2. {Slot(k) : k \in 0..(len - 1)}' = {Masked(r.h + k, r.c) : k \in 0..len}
    BY <1>2 DEF Slot
  <2>. QED  BY <2>1, <2>2, <1>3, <1>8 DEF OwnsItsWindow
<1>10. Contents' = Append(Contents, v)
  <2>1. ASSUME NEW k \in 0..(len - 1)
        PROVE  buf'[Masked(r.h + k, r.c)] = buf[Slot(k)]
    <3>1. k \in 0..len /\ len \in 0..len /\ k # len  OBVIOUS
    <3>2. Masked(r.h + k, r.c) # Masked(r.h + len, r.c)  BY <3>1, <1>4
    <3>3. r.b[Masked(r.h + k, r.c)] = buf[Slot(k)]  BY <1>1
    <3>. QED  BY <3>1, <3>2, <3>3, <1>3, <1>7
  <2>2. Contents' = [i \in 1..(len + 1) |-> buf'[Masked(r.h + (i - 1), r.c)]]
    BY <1>2 DEF Contents, Slot
  <2>3. Append(Contents, v) =
          [i \in 1..(len + 1) |-> IF i = len + 1 THEN v ELSE buf[Slot(i - 1)]]
    BY DEF Contents
  <2>4. \A i \in 1..(len + 1) :
          buf'[Masked(r.h + (i - 1), r.c)]
            = IF i = len + 1 THEN v ELSE buf[Slot(i - 1)]
    BY <2>1, <1>6
  <2>. QED  BY <2>2, <2>3, <2>4
<1>. QED  BY <1>2, <1>5, <1>9, <1>10 DEF Abstract!PushBack

LEMMA PushFrontStep ==
    ASSUME Inv, NEW v \in Values, PushFront(v)
    PROVE  Inv' /\ Abstract!PushFront(v)
<1>. DEFINE r == Room  h == Masked(r.h + r.c - 1, r.c)
<1>1. RoomOK(r)  BY RoomIsOK
<1>2. /\ buf' = [r.b EXCEPT ![h] = v]
      /\ cap' = r.c /\ head' = h /\ len' = len + 1 /\ answer' = None
  BY DEF PushFront
<1>. HIDE DEF r
<1>. USE DEF RoomOK, Inv, TypeOK
<1>3. h \in 0..(r.c - 1)  BY <1>1 DEF Masked
<1>4. /\ Masked(h + 0, r.c) = h
      /\ \A k \in 1..len : Masked(h + k, r.c) = Masked(r.h + (k - 1), r.c)
  BY <1>1 DEF Masked
<1>5. \A k \in 0..(len - 1) : Masked(r.h + k, r.c) # h
  BY <1>1 DEF Masked
<1>. HIDE DEF h
<1>6. TypeOK'  BY <1>1, <1>2, <1>3
<1>7. buf'[h] = v /\ \A i \in 0..(r.c - 1) : i # h => buf'[i] = r.b[i]
  BY <1>1, <1>2, <1>3
<1>8. \A k \in 0..(len - 1) : Masked(r.h + k, r.c) \in 0..(r.c - 1)
  BY <1>1 DEF Masked
<1>9. OwnsItsWindow'
  <2>1. \A i \in 0..(r.c - 1) :
          buf'[i] # Moved <=> i = h \/ \E k \in 0..(len - 1) : i = Masked(r.h + k, r.c)
    BY <1>1, <1>3, <1>5, <1>7
  <2>2. \A i : (\E k \in 0..(len - 1) : i = Masked(r.h + k, r.c))
                 <=> \E k \in 1..len : i = Masked(h + k, r.c)
    <3>1. \A k \in 0..(len - 1) :
            k + 1 \in 1..len /\ Masked(h + (k + 1), r.c) = Masked(r.h + k, r.c)
      BY <1>4
    <3>2. \A k \in 1..len :
            k - 1 \in 0..(len - 1) /\ Masked(h + k, r.c) = Masked(r.h + (k - 1), r.c)
      BY <1>4
    <3>. QED  BY <3>1, <3>2
  <2>3. \A i : (\E k \in 0..len : i = Masked(h + k, r.c))
                 <=> i = h \/ \E k \in 1..len : i = Masked(h + k, r.c)
    BY <1>4
  <2>4. \A i \in 0..(r.c - 1) :
          buf'[i] # Moved <=> \E k \in 0..len : i = Masked(h + k, r.c)
    BY <2>1, <2>2, <2>3
  <2>5. \A k \in 0..len : Masked(h + k, r.c) \in 0..(r.c - 1)
    BY <1>1, <1>3 DEF Masked
  <2>6. OwnedSlots' = {i \in 0..(r.c - 1) : buf'[i] # Moved}
    BY <1>1, <1>2 DEF OwnedSlots
  <2>7. {Slot(k) : k \in 0..(len - 1)}' = {Masked(h + k, r.c) : k \in 0..len}
    BY <1>2 DEF Slot
  <2>. QED  BY <2>4, <2>5, <2>6, <2>7 DEF OwnsItsWindow
<1>10. Contents' = <<v>> \o Contents
  <2>1. Contents' = [i \in 1..(len + 1) |-> buf'[Masked(h + (i - 1), r.c)]]
    BY <1>2 DEF Contents, Slot
  <2>2. <<v>> \o Contents =
          [i \in 1..(len + 1) |-> IF i = 1 THEN v ELSE buf[Slot(i - 2)]]
    BY DEF Contents
  <2>3. ASSUME NEW k \in 0..(len - 1)
        PROVE  buf'[Masked(h + (k + 1), r.c)] = buf[Slot(k)]
    <3>1. k + 1 \in 1..len /\ (k + 1) - 1 = k  OBVIOUS
    <3>2. Masked(h + (k + 1), r.c) = Masked(r.h + k, r.c)  BY <3>1, <1>4
    <3>3. r.b[Masked(r.h + k, r.c)] = buf[Slot(k)]  BY <1>1
    <3>. QED  BY <3>2, <3>3, <1>5, <1>7, <1>8
  <2>4. \A i \in 1..(len + 1) :
          buf'[Masked(h + (i - 1), r.c)] = IF i = 1 THEN v ELSE buf[Slot(i - 2)]
    <3>. TAKE i \in 1..(len + 1)
    <3>1. CASE i = 1  BY <3>1, <1>4, <1>7
    <3>2. CASE i # 1
      <4>1. i - 2 \in 0..(len - 1) /\ (i - 2) + 1 = i - 1  BY <3>2
      <4>. QED  BY <4>1, <3>2, <2>3
    <3>. QED  BY <3>1, <3>2
  <2>. QED  BY <2>1, <2>2, <2>4
<1>. QED  BY <1>2, <1>6, <1>9, <1>10 DEF Abstract!PushFront

\* What the invariant says of a ring that is not empty.
LEMMA NonEmptyRing ==
    ASSUME Inv, len > 0
    PROVE  /\ cap \in Nat \ {0} /\ head \in 0..(cap - 1)
           /\ \A i \in 0..(cap - 1) :
                buf[i] # Moved <=> \E k \in 0..(len - 1) : i = Slot(k)
           /\ \A j, k \in 0..(len - 1) : Slot(j) = Slot(k) => j = k
           /\ Len(Contents) = len /\ Contents # <<>>
<1>. USE DEF Inv, TypeOK
<1>1. cap \in Nat \ {0} /\ head \in 0..(cap - 1)  OBVIOUS
<1>2. \A i \in 0..(cap - 1) :
        buf[i] # Moved <=> \E k \in 0..(len - 1) : i = Slot(k)
  BY DEF OwnsItsWindow, OwnedSlots
<1>3. \A j, k \in 0..(len - 1) : Slot(j) = Slot(k) => j = k
  BY <1>1 DEF Slot, Masked
<1>4. Len(Contents) = len /\ Contents # <<>>  BY DEF Contents
<1>. QED  BY <1>1, <1>2, <1>3, <1>4

LEMMA PopBackStep ==
    ASSUME Inv, PopBack
    PROVE  Inv' /\ Abstract!PopBack
<1>. DEFINE s == Slot(len - 1)
<1>1. /\ len > 0 /\ answer' = buf[s] /\ buf' = [buf EXCEPT ![s] = Moved]
      /\ len' = len - 1 /\ cap' = cap /\ head' = head
  BY DEF PopBack
<1>. USE DEF Inv, TypeOK
<1>2. /\ cap \in Nat \ {0} /\ head \in 0..(cap - 1)
      /\ \A i \in 0..(cap - 1) :
            buf[i] # Moved <=> \E k \in 0..(len - 1) : i = Slot(k)
      /\ \A j, k \in 0..(len - 1) : Slot(j) = Slot(k) => j = k
      /\ Len(Contents) = len /\ Contents # <<>>
  BY <1>1, NonEmptyRing
<1>3. s \in 0..(cap - 1) /\ buf[s] \in Values  BY <1>1, WindowHoldsValues
<1>4. \A k \in 0..(len - 2) : k \in 0..(len - 1) /\ Slot(k) # s
  BY <1>1, <1>2
<1>5. \A k \in 0..(len - 2) : Slot(k) \in 0..(cap - 1)
  BY <1>4, WindowHoldsValues
<1>6. \A k \in 0..(len - 1) : k = len - 1 \/ k \in 0..(len - 2)  BY <1>1
<1>. HIDE DEF s
<1>7. TypeOK'  BY <1>1, <1>2, <1>3
<1>8. buf'[s] = Moved /\ \A i \in 0..(cap - 1) : i # s => buf'[i] = buf[i]
  BY <1>1, <1>3
<1>9. OwnsItsWindow'
  <2>1. OwnedSlots' = {i \in 0..(cap - 1) : buf'[i] # Moved}
    BY <1>1, <1>2 DEF OwnedSlots
  <2>2. {Slot(k) : k \in 0..(len - 1)}' = {Slot(k) : k \in 0..(len - 2)}
    BY <1>1 DEF Slot
  <2>3. ASSUME NEW i \in 0..(cap - 1)
        PROVE  buf'[i] # Moved <=> \E k \in 0..(len - 2) : i = Slot(k)
    <3>1. CASE i = s  BY <3>1, <1>4, <1>8
    <3>2. CASE i # s
      <4>1. buf'[i] # Moved <=> \E k \in 0..(len - 1) : i = Slot(k)
        BY <3>2, <1>2, <1>8
      <4>2. \A k \in 0..(len - 1) : i = Slot(k) => k \in 0..(len - 2)
        BY <3>2, <1>6 DEF s
      <4>. QED  BY <4>1, <4>2, <1>4
    <3>. QED  BY <3>1, <3>2
  <2>. QED  BY <2>1, <2>2, <2>3, <1>5 DEF OwnsItsWindow
<1>10. Contents' = Abstract!Front(Contents)
  <2>1. Contents' = [i \in 1..(len - 1) |-> buf'[Slot(i - 1)]]
    BY <1>1 DEF Contents, Slot
  <2>2. Abstract!Front(Contents) = [i \in 1..(len - 1) |-> buf[Slot(i - 1)]]
    <3>1. Abstract!Front(Contents) = SubSeq(Contents, 1, len - 1)
      BY <1>2 DEF Abstract!Front
    <3>. QED  BY <3>1, <1>1 DEF Contents
  <2>3. ASSUME NEW i \in 1..(len - 1)
        PROVE  buf'[Slot(i - 1)] = buf[Slot(i - 1)]
    <3>1. i - 1 \in 0..(len - 2)  BY <1>1
    <3>. QED  BY <3>1, <1>4, <1>5, <1>8
  <2>. QED  BY <2>1, <2>2, <2>3
<1>11. answer' = Abstract!Last(Contents)
  BY <1>1, <1>2 DEF Abstract!Last, Contents, s
<1>. QED  BY <1>2, <1>7, <1>9, <1>10, <1>11 DEF Abstract!PopBack

LEMMA PopFrontStep ==
    ASSUME Inv, PopFront
    PROVE  Inv' /\ Abstract!PopFront
<1>. DEFINE h == Masked(head + 1, cap)
<1>1. /\ len > 0 /\ answer' = buf[head] /\ buf' = [buf EXCEPT ![head] = Moved]
      /\ len' = len - 1 /\ cap' = cap /\ head' = h
  BY DEF PopFront
<1>. USE DEF Inv, TypeOK
<1>2. /\ cap \in Nat \ {0} /\ head \in 0..(cap - 1)
      /\ \A i \in 0..(cap - 1) :
            buf[i] # Moved <=> \E k \in 0..(len - 1) : i = Slot(k)
      /\ \A j, k \in 0..(len - 1) : Slot(j) = Slot(k) => j = k
      /\ Len(Contents) = len /\ Contents # <<>>
  BY <1>1, NonEmptyRing
<1>3. 0 \in 0..(len - 1) /\ Slot(0) = head  BY <1>1, <1>2 DEF Slot, Masked
<1>4. buf[head] \in Values  BY <1>3, WindowHoldsValues
<1>5. \A k \in 0..(len - 2) :
        k + 1 \in 0..(len - 1) /\ Slot(k + 1) # head
        /\ Masked(h + k, cap) = Slot(k + 1)
  <2>1. \A k \in 0..(len - 2) : Masked(h + k, cap) = Slot(k + 1)
    BY <1>1, <1>2 DEF Slot, Masked
  <2>2. ASSUME NEW k \in 0..(len - 2)
        PROVE  k + 1 \in 0..(len - 1) /\ Slot(k + 1) # head
    <3>1. k + 1 \in 0..(len - 1) /\ k + 1 # 0  BY <1>1
    <3>. QED  BY <3>1, <1>2, <1>3
  <2>. QED  BY <2>1, <2>2
<1>6. h \in 0..(cap - 1)  BY <1>2 DEF Masked
<1>. HIDE DEF h
<1>7. TypeOK'  BY <1>1, <1>2, <1>4, <1>6
<1>8. buf'[head] = Moved /\ \A i \in 0..(cap - 1) : i # head => buf'[i] = buf[i]
  BY <1>1, <1>2
<1>9. \A k \in 0..(len - 2) : Slot(k + 1) \in 0..(cap - 1)
  BY <1>5, WindowHoldsValues
<1>10. OwnsItsWindow'
  <2>1. OwnedSlots' = {i \in 0..(cap - 1) : buf'[i] # Moved}
    BY <1>1, <1>2 DEF OwnedSlots
  <2>2. {Slot(k) : k \in 0..(len - 1)}' = {Masked(h + k, cap) : k \in 0..(len - 2)}
    BY <1>1 DEF Slot
  <2>3. {Masked(h + k, cap) : k \in 0..(len - 2)} = {Slot(k + 1) : k \in 0..(len - 2)}
    BY <1>5
  <2>4. ASSUME NEW i \in 0..(cap - 1)
        PROVE  buf'[i] # Moved <=> \E k \in 0..(len - 2) : i = Slot(k + 1)
    <3>1. CASE i = head  BY <3>1, <1>5, <1>8
    <3>2. CASE i # head
      <4>1. buf'[i] # Moved <=> \E k \in 0..(len - 1) : i = Slot(k)
        BY <3>2, <1>2, <1>8
      <4>2. ASSUME NEW k \in 0..(len - 1), i = Slot(k)
            PROVE  \E j \in 0..(len - 2) : i = Slot(j + 1)
        <5>1. k # 0  BY <3>2, <4>2, <1>3
        <5>2. k - 1 \in 0..(len - 2) /\ (k - 1) + 1 = k  BY <5>1, <1>1
        <5>. QED  BY <5>2, <4>2
      <4>. QED  BY <4>1, <4>2, <1>5
    <3>. QED  BY <3>1, <3>2
  <2>. QED  BY <2>1, <2>2, <2>3, <2>4, <1>9 DEF OwnsItsWindow
<1>11. Contents' = Tail(Contents)
  <2>1. Contents' = [i \in 1..(len - 1) |-> buf'[Masked(h + (i - 1), cap)]]
    BY <1>1 DEF Contents, Slot
  <2>2. Tail(Contents) = [i \in 1..(len - 1) |-> buf[Slot(i)]]
    BY <1>1 DEF Contents
  <2>3. ASSUME NEW i \in 1..(len - 1)
        PROVE  buf'[Masked(h + (i - 1), cap)] = buf[Slot(i)]
    <3>1. i - 1 \in 0..(len - 2) /\ (i - 1) + 1 = i  BY <1>1
    <3>. QED  BY <3>1, <1>5, <1>8, <1>9
  <2>. QED  BY <2>1, <2>2, <2>3
<1>12. answer' = Head(Contents)
  BY <1>1, <1>2, <1>3 DEF Contents
<1>. QED  BY <1>2, <1>7, <1>10, <1>11, <1>12 DEF Abstract!PopFront

LEMMA ClearStep == ASSUME Inv, Clear PROVE Inv' /\ Abstract!Clear
<1>. USE DEF Inv, TypeOK
<1>1. \A i \in 0..(cap - 1) : buf'[i] = Moved
  BY DEF Clear, OwnsItsWindow, OwnedSlots
<1>2. TypeOK'  BY DEF Clear
<1>3. OwnsItsWindow'
  BY <1>1, <1>2 DEF Clear, OwnsItsWindow, OwnedSlots
<1>4. Contents' = <<>>  BY DEF Clear, Contents
<1>. QED  BY <1>2, <1>3, <1>4 DEF Clear, Abstract!Clear

LEMMA SameRing ==
    ASSUME Inv, UNCHANGED <<buf, cap, head, len>>,
           answer' \in Values \cup {None}
    PROVE  Inv' /\ Contents' = Contents
  BY DEF Inv, TypeOK, OwnsItsWindow, OwnedSlots, Slot, Contents

LEMMA GetStep ==
    ASSUME Inv, NEW i \in 0..MaxLen, Get(i)
    PROVE  Inv' /\ (Abstract!Nothing \/ \E j \in DOMAIN Contents : Abstract!Get(j))
<1>1. CASE i < len
  <2>1. i \in 0..(len - 1)  BY <1>1 DEF Inv, TypeOK
  <2>2. answer' = buf[Slot(i)] /\ answer' \in Values
    BY <1>1, <2>1, WindowHoldsValues DEF Get
  <2>3. Inv' /\ Contents' = Contents  BY <2>2, SameRing DEF Get
  <2>4. i + 1 \in DOMAIN Contents /\ Contents[i + 1] = buf[Slot(i)]
    BY <2>1 DEF Contents, Inv, TypeOK
  <2>. QED  BY <2>2, <2>3, <2>4 DEF Abstract!Get
<1>2. CASE ~(i < len)
  <2>1. answer' = None  BY <1>2 DEF Get
  <2>. QED  BY <2>1, SameRing DEF Get, Abstract!Nothing
<1>. QED  BY <1>1, <1>2

------------------------------------------------------------------------------
LEMMA InitOK == Init => Inv /\ Abstract!Init
<1>. SUFFICES ASSUME Init PROVE Inv /\ Abstract!Init  OBVIOUS
<1>1. Inv  BY DEF Init, Inv, TypeOK, OwnsItsWindow, OwnedSlots
<1>2. Contents = <<>>  BY DEF Init, Contents
<1>. QED  BY <1>1, <1>2 DEF Init, Abstract!Init

LEMMA StepOK == Inv /\ [Next]_vars => Inv' /\ [Abstract!Next]_(Abstract!vars)
<1>. SUFFICES ASSUME Inv, [Next]_vars
              PROVE  Inv' /\ [Abstract!Next]_(Abstract!vars)
  OBVIOUS
<1>. USE DEF Abstract!Next
<1>1. CASE \E v \in Values : PushBack(v)  BY <1>1, PushBackStep
<1>2. CASE \E v \in Values : PushFront(v)  BY <1>2, PushFrontStep
<1>3. CASE PopBack  BY <1>3, PopBackStep
<1>4. CASE PopFront  BY <1>4, PopFrontStep
<1>5. CASE PopEmpty
  BY <1>5, SameRing DEF PopEmpty, Abstract!Nothing
<1>6. CASE \E i \in 0..MaxLen : Get(i)  BY <1>6, GetStep
<1>7. CASE Clear  BY <1>7, ClearStep
<1>8. CASE UNCHANGED vars
  <2>1. Inv' /\ Contents' = Contents
    BY <1>8, SameRing DEF vars, Inv, TypeOK
  <2>. QED  BY <1>8, <2>1 DEF vars, Abstract!vars
<1>. QED  BY <1>1, <1>2, <1>3, <1>4, <1>5, <1>6, <1>7, <1>8 DEF Next

\* The ring never has more elements than slots, and its buffer, capacity,
\* head and length keep their types (ring.tk: RingCore).
THEOREM TypeCorrect == Spec => []TypeOK
<1>1. Init => Inv  BY InitOK
<1>2. Inv /\ [Next]_vars => Inv'  BY StepOK
<1>3. Inv => TypeOK  BY DEF Inv
<1>. QED  BY <1>1, <1>2, <1>3, PTL DEF Spec

\* No operation overwrites, leaks or duplicates an element: the slots that
\* hold one are always exactly the window (ring.tk: push, pop, grow, clear).
THEOREM Window == Spec => []OwnsItsWindow
<1>1. Init => Inv  BY InitOK
<1>2. Inv /\ [Next]_vars => Inv'  BY StepOK
<1>3. Inv => OwnsItsWindow  BY DEF Inv
<1>. QED  BY <1>1, <1>2, <1>3, PTL DEF Spec

\* RingCore is a double-ended queue (ring.tk, for every length it grows to).
THEOREM Refinement == Spec => Implements
<1>1. Init => Inv /\ Abstract!Init  BY InitOK
<1>2. Inv /\ [Next]_vars => Inv' /\ [Abstract!Next]_(Abstract!vars)  BY StepOK
<1>. QED  BY <1>1, <1>2, PTL DEF Spec, Implements, Abstract!Spec
==============================================================================
