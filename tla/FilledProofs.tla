---------------------------- MODULE FilledProofs ----------------------------
(***************************************************************************)
(* Theorems about Ownership: no accepted text frees an object twice or     *)
(* drops a value twice (NoDoubleFree), but for the values that Sema itself *)
(* takes for filled and may not be, which ValueUnsure names.               *)
(*                                                                         *)
(* The code is typed once more.  Ahead of every instruction stands a set   *)
(* of slots that surely hold a value there, whatever way control came      *)
(* (Fills); a drop and a gift ask for it.  What Sema counts as not moved   *)
(* is such a set, at the end of the code made so far, for two reasons that *)
(* exclude each other's texts (Modes).  Either nothing jumps out of a      *)
(* loop, and what a branch that jumps says of its flags is right, because  *)
(* its end is not reached; or no value is moved in a branch, and then the  *)
(* flags of the values are the same on all paths.                          *)
(***************************************************************************)
EXTENDS OwnershipProofs

-----------------------------------------------------------------------------
(* Where a statement of a text stands                                      *)

OpenedBefore(tx, i) == {j \in 1..(i - 1) : tx[j].op \in Opens}
ClosedBefore(tx, i) == {j \in 1..(i - 1) : tx[j].op = "close"}
NestOf(tx, i) == Cardinality(OpenedBefore(tx, i)) - Cardinality(ClosedBefore(tx, i))

InsideOf(tx, i, op) ==
    \E j \in 1..(i - 1) : /\ tx[j].op = op
                          /\ \A k \in (j + 1)..i : NestOf(tx, k) > NestOf(tx, j)

MovesValue(s) == s.op \in {"cede", "write"} /\ Kind[s.v] = "value"
JumpOps       == {"return", "break", "continue"}

MovesIn(tx, op) == \E i \in DOMAIN tx : MovesValue(tx[i]) /\ InsideOf(tx, i, op)
JumpsOut(tx)    == \E i \in DOMAIN tx : tx[i].op \in JumpOps /\ InsideOf(tx, i, "loop")
DeepWrite(tx)   == \E i \in DOMAIN tx : /\ MovesValue(tx[i]) /\ tx[i].op = "write"
                                        /\ NestOf(tx, i) > 1

\* Nothing jumps out of a loop, or no value is moved in a branch.
Modes == {"calm", "still"}
Clean(M, tx) ==
    /\ ~MovesIn(tx, "loop") /\ ~DeepWrite(tx)
    /\ M = "calm"  => ~JumpsOut(tx)
    /\ M = "still" => ~MovesIn(tx, "if")

\* A text whose values are not unsure is one of either kind.
LEMMA SureIsClean == ~ValueUnsure => \E M \in Modes : Clean(M, text)
<1>. SUFFICES ASSUME ~ValueUnsure PROVE \E M \in Modes : Clean(M, text)
  OBVIOUS
<1>1. /\ \A i \in DOMAIN text : NestOf(text, i) = Nest(i)
      /\ \A i, op : InsideOf(text, i, op) <=> Inside(i, op)
  BY DEF NestOf, Nest, OpenedBefore, ClosedBefore, InsideOf, Inside
<1>2. JumpsOut(text) <=> LoopJumps
  BY <1>1 DEF JumpsOut, LoopJumps, Looped, JumpOps
<1>3. ~MovesIn(text, "loop") /\ ~DeepWrite(text)
  BY <1>1 DEF ValueUnsure, MovesIn, DeepWrite, MovesValue, Looped
<1>4. ~(MovesIn(text, "if") /\ LoopJumps)
  BY <1>1 DEF ValueUnsure, MovesIn, MovesValue
<1>5. CASE JumpsOut(text)
  BY <1>2, <1>3, <1>4, <1>5 DEF Clean, Modes
<1>6. CASE ~JumpsOut(text)
  BY <1>3, <1>6 DEF Clean, Modes
<1>. QED
  BY <1>5, <1>6

LEMMA NestType ==
    ASSUME NEW tx, NEW i \in Nat
    PROVE  /\ IsFiniteSet(OpenedBefore(tx, i)) /\ IsFiniteSet(ClosedBefore(tx, i))
           /\ NestOf(tx, i) \in Int
<1>1. IsFiniteSet(1..(i - 1))
  BY FS_Interval
<1>2. IsFiniteSet(OpenedBefore(tx, i)) /\ IsFiniteSet(ClosedBefore(tx, i))
  BY <1>1, FS_Subset DEF OpenedBefore, ClosedBefore
<1>. QED
  BY <1>2, FS_CardinalityType DEF NestOf

\* One statement more: what stands before it stands as it did.
LEMMA NestKept ==
    ASSUME NEW V, NEW tx \in Seq(V), NEW s \in V, NEW i \in 1..(Len(tx) + 1)
    PROVE  NestOf(Append(tx, s), i) = NestOf(tx, i)
<1>1. \A j \in 1..(i - 1) : Append(tx, s)[j] = tx[j]
  OBVIOUS
<1>2. /\ OpenedBefore(Append(tx, s), i) = OpenedBefore(tx, i)
      /\ ClosedBefore(Append(tx, s), i) = ClosedBefore(tx, i)
  BY <1>1 DEF OpenedBefore, ClosedBefore
<1>. QED
  BY <1>2 DEF NestOf

\* How a statement changes the depth.
Deepens(op) == IF op \in Opens THEN 1 ELSE IF op = "close" THEN -1 ELSE 0

LEMMA NestNext ==
    ASSUME NEW V, NEW tx \in Seq(V), NEW s \in V
    PROVE  NestOf(Append(tx, s), Len(tx) + 2) = NestOf(tx, Len(tx) + 1) + Deepens(s.op)
<1>. DEFINE m  == Len(tx) + 1
            t2 == Append(tx, s)
<1>1. /\ m \in Nat /\ m + 1 = Len(tx) + 2 /\ (m + 1) - 1 = m /\ t2[m] = s
      /\ m \notin 1..(m - 1)
      /\ \A j \in 1..(m - 1) : t2[j] = tx[j]
      /\ \A j : j \in 1..m <=> j \in 1..(m - 1) \/ j = m
  OBVIOUS
<1>. HIDE DEF m, t2
<1>2. OpenedBefore(t2, m + 1) = OpenedBefore(tx, m) \cup {j \in {m} : s.op \in Opens}
  BY <1>1 DEF OpenedBefore
<1>3. ClosedBefore(t2, m + 1) = ClosedBefore(tx, m) \cup {j \in {m} : s.op = "close"}
  BY <1>1 DEF ClosedBefore
<1>4. m \notin OpenedBefore(tx, m) /\ m \notin ClosedBefore(tx, m)
  BY <1>1 DEF OpenedBefore, ClosedBefore
<1>5. /\ IsFiniteSet(OpenedBefore(tx, m)) /\ IsFiniteSet(ClosedBefore(tx, m))
      /\ Cardinality(OpenedBefore(tx, m)) \in Nat /\ Cardinality(ClosedBefore(tx, m)) \in Nat
  BY <1>1, NestType, FS_CardinalityType
<1>6. Cardinality(OpenedBefore(t2, m + 1))
         = Cardinality(OpenedBefore(tx, m)) + (IF s.op \in Opens THEN 1 ELSE 0)
  <2>1. CASE s.op \in Opens
    <3>1. OpenedBefore(t2, m + 1) = OpenedBefore(tx, m) \cup {m}
      BY <1>2, <2>1
    <3>. QED
      BY <1>4, <1>5, <2>1, <3>1, FS_AddElement
  <2>2. CASE s.op \notin Opens
    <3>1. OpenedBefore(t2, m + 1) = OpenedBefore(tx, m)
      BY <1>2, <2>2
    <3>. QED
      BY <1>5, <2>2, <3>1
  <2>. QED
    BY <2>1, <2>2
<1>7. Cardinality(ClosedBefore(t2, m + 1))
         = Cardinality(ClosedBefore(tx, m)) + (IF s.op = "close" THEN 1 ELSE 0)
  <2>1. CASE s.op = "close"
    <3>1. ClosedBefore(t2, m + 1) = ClosedBefore(tx, m) \cup {m}
      BY <1>3, <2>1
    <3>. QED
      BY <1>4, <1>5, <2>1, <3>1, FS_AddElement
  <2>2. CASE s.op # "close"
    <3>1. ClosedBefore(t2, m + 1) = ClosedBefore(tx, m)
      BY <1>3, <2>2
    <3>. QED
      BY <1>5, <2>2, <3>1
  <2>. QED
    BY <2>1, <2>2
<1>8. "close" \notin Opens
  BY DEF Opens
<1>9. NestOf(t2, m + 1) = NestOf(tx, m) + Deepens(s.op)
  BY <1>5, <1>6, <1>7, <1>8 DEF NestOf, Deepens
<1>. QED
  BY <1>1, <1>9 DEF m, t2

LEMMA InsideKept ==
    ASSUME NEW V, NEW tx \in Seq(V), NEW s \in V, NEW i \in 1..(Len(tx) + 1), NEW op
    PROVE  InsideOf(Append(tx, s), i, op) <=> InsideOf(tx, i, op)
<1>1. \A k \in 1..i : NestOf(Append(tx, s), k) = NestOf(tx, k)
  BY NestKept
<1>2. \A j \in 1..(i - 1) : /\ Append(tx, s)[j] = tx[j] /\ j \in 1..i
                            /\ \A k \in (j + 1)..i : k \in 1..i
  OBVIOUS
<1>. QED
  BY <1>1, <1>2 DEF InsideOf

\* A text that goes on to be clean was clean, and the statement is harmless.
LEMMA CleanBefore ==
    ASSUME NEW V, NEW tx \in Seq(V), NEW s \in V, NEW M, Clean(M, Append(tx, s))
    PROVE  /\ Clean(M, tx)
           /\ MovesValue(s) => /\ ~InsideOf(tx, Len(tx) + 1, "loop")
                               /\ s.op = "write" => ~(NestOf(tx, Len(tx) + 1) > 1)
                               /\ M = "still" => ~InsideOf(tx, Len(tx) + 1, "if")
           /\ s.op \in JumpOps /\ M = "calm" => ~InsideOf(tx, Len(tx) + 1, "loop")
<1>. DEFINE m  == Len(tx) + 1
            t2 == Append(tx, s)
<1>1. /\ \A i \in DOMAIN tx : i \in DOMAIN t2 /\ i \in 1..m /\ t2[i] = tx[i]
      /\ m \in DOMAIN t2 /\ m \in 1..m /\ t2[m] = s
  OBVIOUS
<1>2. \A i \in 1..m : /\ NestOf(t2, i) = NestOf(tx, i)
                      /\ \A op : InsideOf(t2, i, op) <=> InsideOf(tx, i, op)
  BY NestKept, InsideKept
<1>. HIDE DEF m, t2
<1>3. /\ \A op : MovesIn(tx, op) => MovesIn(t2, op)
      /\ JumpsOut(tx) => JumpsOut(t2)
      /\ DeepWrite(tx) => DeepWrite(t2)
  BY <1>1, <1>2 DEF MovesIn, JumpsOut, DeepWrite
<1>4. /\ \A op : MovesValue(s) /\ InsideOf(tx, m, op) => MovesIn(t2, op)
      /\ s.op \in JumpOps /\ InsideOf(tx, m, "loop") => JumpsOut(t2)
      /\ MovesValue(s) /\ s.op = "write" /\ NestOf(tx, m) > 1 => DeepWrite(t2)
  BY <1>1, <1>2 DEF MovesIn, JumpsOut, DeepWrite
<1>5. Clean(M, t2)
  BY DEF t2
<1>6. /\ Clean(M, tx)
      /\ MovesValue(s) => /\ ~InsideOf(tx, m, "loop")
                          /\ s.op = "write" => ~(NestOf(tx, m) > 1)
                          /\ M = "still" => ~InsideOf(tx, m, "if")
      /\ s.op \in JumpOps /\ M = "calm" => ~InsideOf(tx, m, "loop")
  BY <1>3, <1>4, <1>5 DEF Clean
<1>. QED
  BY <1>6 DEF m

-----------------------------------------------------------------------------
(* The slots that hold a value                                             *)

\* What is so at a place that control does not come to.
Everything == Int

Values(tx, n) == SlotsOf(tx, n, {"value"})

\* Where the slots of X hold a value, instruction i may stand; W has what is
\* sure at each label.
Asks(i, X, W, tx, n) ==
    /\ i.do = "drop" => i.slot \in X
    /\ i.do = "give" => i.slot \in X \/ i.slot \in SlotsOf(tx, n, {"unique"})
    /\ i.do \in {"jmp", "br"} => W[i.to] \subseteq X
    /\ i.do = "label" => X \subseteq W[i.to]

Refill(i, X, tx, n) ==
    IF X = Everything THEN X
    ELSE IF i.do \in {"drop", "give"} THEN X \ {i.slot}
    ELSE IF i.do \in {"new", "write"} /\ i.slot \in Values(tx, n) THEN X \cup {i.slot}
    ELSE X

\* Instruction i may stand where X holds values, and Y does after it.
Suits(i, X, Y, W, tx, n) ==
    Asks(i, X, W, tx, n) /\ (~Leaves(i) => Y \subseteq Refill(i, X, tx, n))

\* V has what holds a value ahead of each instruction of c, and at its end.
Fills(c, V, W, tx, n) ==
    /\ c \in Seq(Instrs(n))
    /\ V \in [1..(Len(c) + 1) -> SUBSET Int] /\ V[1] = {}
    /\ \A i \in 1..Len(c) : Suits(c[i], V[i], V[i + 1], W, tx, n)

\* The code made so far can be typed so, and X holds values at its end.
Filled(g, X, W, tx, n) ==
    /\ X \in SUBSET Int
    /\ \E V : /\ Fills(g.code, V, W, tx, n)
              /\ g.live => X \subseteq V[Len(g.code) + 1]
              /\ ~g.live => Len(g.code) > 0 /\ Leaves(g.code[Len(g.code)])

LEMMA FilledLess ==
    ASSUME NEW g, NEW X, NEW W, NEW tx, NEW n, Filled(g, X, W, tx, n),
           NEW Y, Y \subseteq X
    PROVE  Filled(g, Y, W, tx, n)
<1>1. PICK V : /\ Fills(g.code, V, W, tx, n)
               /\ g.live => X \subseteq V[Len(g.code) + 1]
               /\ ~g.live => Len(g.code) > 0 /\ Leaves(g.code[Len(g.code)])
  BY DEF Filled
<1>2. Y \in SUBSET Int /\ (g.live => Y \subseteq V[Len(g.code) + 1])
  BY <1>1 DEF Filled
<1>. QED
  BY <1>1, <1>2 DEF Filled

LEMMA RefillType ==
    ASSUME NEW n \in Nat, NEW i, NEW X \in SUBSET Int, NEW tx
    PROVE  Refill(i, X, tx, n) \in SUBSET Int
<1>1. i.slot \in Values(tx, n) => i.slot \in Int
  BY DEF Values, SlotsOf
<1>. QED
  BY <1>1 DEF Refill

\* X is sure at the end of c.
Holds(c, V, X) == X \subseteq V[Len(c) + 1] \/ (Len(c) > 0 /\ Leaves(c[Len(c)]))

\* One instruction more; less than what was so may be taken for sure before it.
LEMMA FillsAppend ==
    ASSUME NEW n, NEW c, NEW V, NEW W, NEW tx, Fills(c, V, W, tx, n),
           NEW i \in Instrs(n), NEW X \in SUBSET Int, NEW Y \in SUBSET Int,
           Holds(c, V, X), Suits(i, X, Y, W, tx, n)
    PROVE  \E R : Fills(Append(c, i), R, W, tx, n) /\ R[Len(c) + 2] = Y
<1>. DEFINE e == Append(c, i)
            m == Len(c) + 1
            R == [j \in 1..(m + 1) |-> IF j = m + 1 THEN Y ELSE IF j = m THEN X ELSE V[j]]
<1>1. /\ e \in Seq(Instrs(n)) /\ Len(e) = m /\ m \in Nat /\ m > 0 /\ Len(c) \in Nat
      /\ \A j \in 1..Len(c) : e[j] = c[j]
      /\ e[m] = i
  BY Appended DEF Fills
<1>2. /\ V \in [1..m -> SUBSET Int] /\ V[1] = {}
      /\ \A j \in 1..Len(c) :
            /\ Asks(c[j], V[j], W, tx, n)
            /\ ~Leaves(c[j]) => V[j + 1] \subseteq Refill(c[j], V[j], tx, n)
  BY DEF Fills, Suits
<1>3. /\ R \in [1..(m + 1) -> SUBSET Int] /\ R[m + 1] = Y /\ R[m] = X
      /\ \A j \in 1..Len(c) : R[j] = V[j]
  BY <1>1, <1>2
<1>4. R[1] = {}
  <2>1. CASE Len(c) = 0
    <3>1. m = 1 /\ X \subseteq V[1]
      BY <1>1, <2>1 DEF Holds
    <3>2. R[1] = X
      BY <1>3, <3>1
    <3>. QED  BY <1>2, <3>1, <3>2
  <2>2. CASE Len(c) # 0
    <3>1. 1 \in 1..Len(c)
      BY <1>1, <2>2
    <3>. HIDE DEF R
    <3>. QED  BY <1>2, <1>3, <3>1
  <2>. QED  BY <2>1, <2>2
<1>. HIDE DEF R, e
<1>5. ASSUME NEW j \in 1..m
      PROVE  /\ Asks(e[j], R[j], W, tx, n)
             /\ ~Leaves(e[j]) => R[j + 1] \subseteq Refill(e[j], R[j], tx, n)
  <2>1. CASE j = m
    BY <1>1, <1>3, <2>1 DEF Suits
  <2>2. CASE j # m
    <3>1. j \in 1..Len(c) /\ (j + 1 = m \/ j + 1 \in 1..Len(c))
      BY <1>1, <2>2
    <3>2. e[j] = c[j] /\ R[j] = V[j]
      BY <1>1, <1>3, <3>1
    <3>3. ~Leaves(c[j]) => R[j + 1] \subseteq V[j + 1]
      <4>1. CASE j + 1 \in 1..Len(c)
        BY <1>3, <4>1
      <4>2. CASE j + 1 = m
        <5>1. j = Len(c) /\ R[j + 1] = X
          BY <1>1, <1>3, <3>1, <4>2
        <5>. QED  BY <4>2, <5>1 DEF Holds
      <4>. QED  BY <3>1, <4>1, <4>2
    <3>. QED
      BY <1>2, <3>1, <3>2, <3>3
  <2>. QED
    BY <2>1, <2>2
<1>6. Fills(e, R, W, tx, n)
  BY <1>1, <1>3, <1>4, <1>5 DEF Fills, Suits
<1>7. m + 1 = Len(c) + 2
  BY <1>1
<1>. QED
  BY <1>3, <1>6, <1>7 DEF e

\* The text goes on: what was typed stays so.
LEMMA FilledExtends ==
    ASSUME NEW n, NEW V, NEW tx \in Seq(V), NEW s \in V,
           NEW g, NEW X, NEW W, Filled(g, X, W, tx, n)
    PROVE  Filled(g, X, W, Append(tx, s), n)
<1>. DEFINE t2 == Append(tx, s)
<1>1. \A kinds : SlotsOf(tx, n, kinds) \subseteq SlotsOf(t2, n, kinds)
  <2>1. /\ Len(t2) = Len(tx) + 1 /\ Len(tx) \in Nat
        /\ \A k \in 1..Len(tx) : t2[k] = tx[k]
    OBVIOUS
  <2>. HIDE DEF t2
  <2>. QED  BY <2>1 DEF SlotsOf
<1>. HIDE DEF t2
<1>2. PICK U : /\ Fills(g.code, U, W, tx, n)
               /\ g.live => X \subseteq U[Len(g.code) + 1]
               /\ ~g.live => Len(g.code) > 0 /\ Leaves(g.code[Len(g.code)])
  BY DEF Filled
<1>3. ASSUME NEW i, NEW A, Asks(i, A, W, tx, n) PROVE Asks(i, A, W, t2, n)
  BY <1>1, <1>3 DEF Asks
<1>4. ASSUME NEW i, NEW A PROVE Refill(i, A, tx, n) \subseteq Refill(i, A, t2, n)
  BY <1>1 DEF Refill, Values
<1>5. Fills(g.code, U, W, t2, n)
  BY <1>2, <1>3, <1>4 DEF Fills, Suits
<1>. QED
  BY <1>2, <1>5 DEF Filled, t2

\* What W says of a label that no code names may be anything.
LEMMA FilledRelabel ==
    ASSUME NEW n, NEW g \in GenStates(n), NEW X, NEW W, NEW tx, Filled(g, X, W, tx, n),
           NEW U, \A l \in Jumps(g.code) \cup Placed(g.code) : U[l] = W[l]
    PROVE  Filled(g, X, U, tx, n)
<1>1. PICK V : /\ Fills(g.code, V, W, tx, n)
               /\ g.live => X \subseteq V[Len(g.code) + 1]
               /\ ~g.live => Len(g.code) > 0 /\ Leaves(g.code[Len(g.code)])
  BY DEF Filled
<1>2. \A i \in 1..Len(g.code) : g.code[i].do \in {"jmp", "br", "label"}
                                => U[g.code[i].to] = W[g.code[i].to]
  <2>1. DOMAIN g.code = 1..Len(g.code)
    BY GenType
  <2>. QED
    BY <2>1 DEF Jumps, Placed
<1>3. \A i \in 1..Len(g.code) : Asks(g.code[i], V[i], U, tx, n)
  BY <1>1, <1>2 DEF Fills, Suits, Asks
<1>4. Fills(g.code, V, U, tx, n)
  BY <1>1, <1>3 DEF Fills, Suits
<1>. QED
  BY <1>1, <1>4 DEF Filled

LEMMA EmitFilled ==
    ASSUME NEW n, NEW g \in GenStates(n), NEW W, NEW tx, NEW X, Filled(g, X, W, tx, n),
           NEW i \in Instrs(n), NEW Y \in SUBSET Int, Suits(i, X, Y, W, tx, n)
    PROVE  Filled(Emit(g, <<i>>), Y, W, tx, n)
<1>. DEFINE h == Emit(g, <<i>>)
<1>1. h.live = g.live /\ h.code = IF g.live THEN Append(g.code, i) ELSE g.code
  BY EmitOne
<1>2. g.code \in Seq(Instrs(n)) /\ g.live \in BOOLEAN
  BY GenType
<1>3. PICK V : /\ Fills(g.code, V, W, tx, n)
               /\ g.live => X \subseteq V[Len(g.code) + 1]
               /\ ~g.live => Len(g.code) > 0 /\ Leaves(g.code[Len(g.code)])
  BY DEF Filled
<1>. HIDE DEF h
<1>4. CASE g.live
  <2>1. X \in SUBSET Int
    BY DEF Filled
  <2>4. Holds(g.code, V, X)
    BY <1>3, <1>4 DEF Holds
  <2>2. PICK R : Fills(Append(g.code, i), R, W, tx, n) /\ R[Len(g.code) + 2] = Y
    BY <1>3, <2>1, <2>4, FillsAppend
  <2>3. Len(h.code) + 1 = Len(g.code) + 2
    BY <1>1, <1>2, <1>4
  <2>. QED
    BY <1>1, <1>4, <2>2, <2>3 DEF Filled, h
<1>5. CASE ~g.live
  BY <1>1, <1>3, <1>5 DEF Filled, h
<1>. QED
  BY <1>4, <1>5

\* The instruction after which nothing is emitted until a label.
LEMMA StopFilled ==
    ASSUME NEW n, NEW g \in GenStates(n), NEW W, NEW tx, NEW X, Filled(g, X, W, tx, n),
           NEW i \in Instrs(n), Leaves(i), Asks(i, X, W, tx, n), NEW Y \in SUBSET Int
    PROVE  Filled(Stop(Emit(g, <<i>>)), Y, W, tx, n)
<1>. DEFINE e == Emit(g, <<i>>)
            h == Stop(e)
<1>1. Filled(e, X, W, tx, n)
  <2>1. X \in SUBSET Int /\ Suits(i, X, X, W, tx, n)
    BY DEF Filled, Suits
  <2>. QED  BY <2>1, EmitFilled
<1>2. /\ e \in GenStates(n) /\ e.live = g.live
      /\ e.code = IF g.live THEN Append(g.code, i) ELSE g.code
  BY EmitOne
<1>3. g.code \in Seq(Instrs(n)) /\ g.live \in BOOLEAN
  BY GenType
<1>. HIDE DEF e
<1>4. h.code = e.code /\ h.live = FALSE
  BY <1>2 DEF Stop, GenStates
<1>5. PICK V : /\ Fills(e.code, V, W, tx, n)
               /\ ~e.live => Len(e.code) > 0 /\ Leaves(e.code[Len(e.code)])
  BY <1>1 DEF Filled
<1>6. Len(e.code) > 0 /\ Leaves(e.code[Len(e.code)])
  <2>1. CASE g.live
    <3>1. Len(e.code) = Len(g.code) + 1 /\ e.code[Len(e.code)] = i /\ Len(g.code) \in Nat
      BY <1>2, <1>3, <2>1
    <3>. QED  BY <3>1
  <2>. QED
    BY <1>2, <1>5, <2>1
<1>. HIDE DEF h
<1>7. Filled(h, Y, W, tx, n)
  BY <1>4, <1>5, <1>6 DEF Filled
<1>. QED
  BY <1>7 DEF e, h

\* At a label, what W says of it, as far as it is so on the way that falls
\* through to it.
LEMMA LabelFilled ==
    ASSUME NEW n, NEW g \in GenStates(n), NEW W, NEW tx, NEW X, Filled(g, X, W, tx, n),
           NEW at \in Nat, NEW w \in Labels, W[<<at, w>>] \in SUBSET Int,
           NEW Y, Y \subseteq X, Y \subseteq W[<<at, w>>]
    PROVE  Filled(Label(g, at, w), Y, W, tx, n)
<1>. DEFINE i == [do |-> "label", to |-> <<at, w>>]
            h == Label(g, at, w)
<1>1. i \in Instrs(n) /\ i.do = "label" /\ i.to = <<at, w>>
  BY DEF Instrs
<1>. HIDE DEF i
<1>2. g.code \in Seq(Instrs(n)) /\ g.live \in BOOLEAN /\ Append(g.code, i) \in Seq(Instrs(n))
  BY <1>1, GenType
<1>3. h = [g EXCEPT !.code = Append(g.code, i), !.live = TRUE]
  BY DEF Label, i
<1>4. h.code = Append(g.code, i) /\ h.live = TRUE
  BY <1>2, <1>3 DEF GenStates
<1>5. PICK V : /\ Fills(g.code, V, W, tx, n)
               /\ g.live => X \subseteq V[Len(g.code) + 1]
               /\ ~g.live => Len(g.code) > 0 /\ Leaves(g.code[Len(g.code)])
  BY DEF Filled
<1>6. Y \in SUBSET Int
  BY DEF Filled
<1>7. Suits(i, Y, Y, W, tx, n) /\ Holds(g.code, V, Y)
  <2>1. Asks(i, Y, W, tx, n)
    BY <1>1 DEF Asks
  <2>2. Refill(i, Y, tx, n) = Y
    BY <1>1 DEF Refill
  <2>3. Holds(g.code, V, Y)
    BY <1>2, <1>5 DEF Holds
  <2>. QED
    BY <2>1, <2>2, <2>3 DEF Suits
<1>8. PICK R : Fills(Append(g.code, i), R, W, tx, n) /\ R[Len(g.code) + 2] = Y
  BY <1>1, <1>5, <1>6, <1>7, FillsAppend
<1>9. Len(h.code) + 1 = Len(g.code) + 2
  BY <1>1, <1>2, <1>4
<1>. HIDE DEF h
<1>10. Filled(h, Y, W, tx, n)
  BY <1>4, <1>6, <1>8, <1>9 DEF Filled
<1>. QED
  BY <1>10 DEF h

-----------------------------------------------------------------------------
(* Unwinding                                                               *)

\* X without the slots D: at a place that is not reached it stays what it is.
Less(X, D) == IF X = Everything THEN X ELSE X \ D

LEMMA LessIs ==
    ASSUME NEW X \in SUBSET Int, NEW D
    PROVE  /\ Less(X, D) \in SUBSET Int /\ Less(X, D) \subseteq X
           /\ Less(X, D) = Everything <=> X = Everything
           /\ \A k \in X : k \notin D => k \in Less(X, D)
           /\ \A E : Less(Less(X, D), E) = Less(X, D \cup E)
BY DEF Less, Everything

\* The slots of all the entries from lo on, and of the frames from lo to hi.
SlotsFrom(entries, lo) == {entries[j].slot : j \in lo..Len(entries)}
Declared(frames, lo, hi) == UNION {SlotsFrom(frames[d].entries, 1) : d \in lo..hi}

\* What is dropped holds a value.
DropsIn(entries, X) ==
    \A j \in 1..Len(entries) : entries[j].how = "drop" => entries[j].slot \in X

LEMMA DroppedFilled ==
    ASSUME NEW n, NEW g \in GenStates(n), NEW W, NEW tx, NEW X, Filled(g, X, W, tx, n),
           NEW e \in Entries, EntryFits(e, tx, n), e.how = "drop" => e.slot \in X,
           NEW at \in Nat
    PROVE  LET h == Dropped(g, e, at)
           IN  h \in GenStates(n) /\ Filled(h, Less(X, {e.slot}), W, tx, n)
<1>. DEFINE i == [do |-> e.how, slot |-> e.slot, at |-> at]
            Y == Less(X, {e.slot})
<1>1. e.how \in {"none", "drop", "release"} /\ e.slot \in Nat
  BY DEF Entries
<1>2. X \in SUBSET Int
  BY DEF Filled
<1>3. Y \in SUBSET Int /\ Y \subseteq X
  BY <1>2, LessIs
<1>4. CASE e.how = "none"
  BY <1>3, <1>4, FilledLess DEF Dropped
<1>5. CASE e.how # "none"
  <2>1. e.slot \in 0..n
    BY <1>1, <1>5 DEF EntryFits, SlotsOf
  <2>2. /\ i \in Instrs(n) /\ i.do = e.how /\ i.slot = e.slot
    BY <1>1, <1>5, <2>1 DEF Instrs
  <2>. HIDE DEF i
  <2>3. Suits(i, X, Y, W, tx, n)
    <3>1. Asks(i, X, W, tx, n)
      BY <1>1, <1>5, <2>2 DEF Asks
    <3>2. Y \subseteq Refill(i, X, tx, n)
      BY <1>1, <1>3, <1>5, <2>2 DEF Refill, Less
    <3>. QED  BY <3>1, <3>2 DEF Suits
  <2>. HIDE DEF Y
  <2>4. Filled(Emit(g, <<i>>), Y, W, tx, n)
    BY <1>3, <2>2, <2>3, EmitFilled
  <2>5. Emit(g, <<i>>) \in GenStates(n)
    BY <2>2, EmitOne
  <2>6. Dropped(g, e, at) = Emit(g, <<i>>)
    BY <1>5 DEF Dropped, i
  <2>. QED
    BY <2>4, <2>5, <2>6 DEF Y
<1>. QED
  BY <1>4, <1>5

LEMMA CleanupFilled ==
    ASSUME NEW n, NEW g \in GenStates(n), NEW W, NEW tx, NEW X, Filled(g, X, W, tx, n),
           NEW entries \in Seq(Entries), NEW at \in Nat,
           \A j \in 1..Len(entries) :
              /\ EntryFits(entries[j], tx, n)
              /\ \A k \in 1..Len(entries) : entries[k].slot = entries[j].slot => k = j,
           DropsIn(entries, X)
    PROVE  LET h == Cleanup(g, entries, at)
           IN  h \in GenStates(n) /\ Filled(h, Less(X, SlotsFrom(entries, 1)), W, tx, n)
<1>. DEFINE b == Len(entries)
            rest(m) == SlotsFrom(entries, m + 1)
<1>0a. PICK f : Cleans(f, g, entries, at)
  BY CleanupIs
<1>1. /\ f[b] = g
      /\ \A k \in 0..(b - 1) : f[k] = Dropped(f[k + 1], entries[k + 1], at)
      /\ Cleanup(g, entries, at) = f[0]
  BY <1>0a DEF Cleans
<1>. DEFINE S == {m \in 0..b : /\ f[m] \in GenStates(n)
                               /\ Filled(f[m], Less(X, rest(m)), W, tx, n)}
<1>0. b \in Nat /\ \A j \in 1..b : entries[j] \in Entries
  OBVIOUS
<1>00. X \in SUBSET Int
  BY DEF Filled
<1>2. b \in S
  <2>1. rest(b) = {}
    BY <1>0 DEF SlotsFrom
  <2>2. Less(X, rest(b)) = X
    BY <2>1 DEF Less
  <2>3. f[b] \in GenStates(n) /\ Filled(f[b], X, W, tx, n)
    BY <1>1
  <2>4. b \in 0..b
    BY <1>0
  <2>. HIDE DEF rest, b
  <2>. QED
    BY <2>2, <2>3, <2>4
<1>3. ASSUME NEW m \in 0..b, m \in S, 0 < m PROVE m - 1 \in S
  <2>. DEFINE e == entries[m]
              B == Less(X, rest(m))
  <2>1. m \in 1..b /\ m - 1 \in 0..(b - 1) /\ m - 1 + 1 = m /\ m - 1 \in 0..b
    BY <1>0, <1>3
  <2>2. f[m - 1] = Dropped(f[m], e, at)
    BY <1>1, <2>1
  <2>3. f[m] \in GenStates(n) /\ Filled(f[m], B, W, tx, n)
    BY <1>3
  <2>4. e \in Entries /\ EntryFits(e, tx, n)
    BY <1>0, <2>1
  <2>5. rest(m - 1) = rest(m) \cup {e.slot}
    <3>1. m..b = (m + 1)..b \cup {m}
      BY <2>1, <1>0
    <3>. HIDE DEF b
    <3>3. rest(m - 1) = {entries[j].slot : j \in m..b}
      BY <2>1 DEF SlotsFrom, b
    <3>4. rest(m) = {entries[j].slot : j \in (m + 1)..b}
      BY DEF SlotsFrom, b
    <3>. HIDE DEF rest
    <3>. QED
      BY <3>1, <3>3, <3>4
  <2>6. e.how = "drop" => e.slot \in B
    <3>. SUFFICES ASSUME e.how = "drop" PROVE e.slot \in X /\ e.slot \notin rest(m)
      <4>. HIDE DEF rest, e
      <4>. QED  BY <1>00, LessIs
    <3>1. e.slot \in X
      BY <2>1 DEF DropsIn
    <3>2. \A j \in (m + 1)..b : j \in 1..b /\ j # m
      BY <1>0, <2>1
    <3>3. \A j \in (m + 1)..b : entries[j].slot # e.slot
      BY <2>1, <3>2
    <3>4. e.slot \notin rest(m)
      BY <3>3 DEF SlotsFrom
    <3>. QED
      BY <3>1, <3>4
  <2>. HIDE DEF e, B
  <2>7. LET h == Dropped(f[m], e, at)
        IN  h \in GenStates(n) /\ Filled(h, Less(B, {e.slot}), W, tx, n)
    BY <2>3, <2>4, <2>6, DroppedFilled
  <2>8. Less(B, {e.slot}) = Less(X, rest(m - 1))
    <3>. HIDE DEF rest
    <3>. QED  BY <1>00, <2>5, LessIs DEF B
  <2>. HIDE DEF rest
  <2>9. f[m - 1] \in GenStates(n) /\ Filled(f[m - 1], Less(X, rest(m - 1)), W, tx, n)
    BY <2>2, <2>7, <2>8
  <2>. QED
    BY <2>1, <2>9
<1>. HIDE DEF S, b
<1>4. \A m \in 0..b : m \in S
  BY <1>0, <1>2, <1>3, DownTo
<1>5. 0 \in S
  BY <1>0, <1>4
<1>6. rest(0) = SlotsFrom(entries, 1)
  OBVIOUS
<1>. HIDE DEF rest
<1>. QED
  BY <1>1, <1>5, <1>6 DEF S

\* The drops of the frames from lo to hi.
DropsOf(frames, lo, hi, X) == \A d \in lo..hi : DropsIn(frames[d].entries, X)

LEMMA UnwindFilled ==
    ASSUME NEW n, NEW g \in GenStates(n), NEW W, NEW tx, NEW X, Filled(g, X, W, tx, n),
           FramesFit(g.frames, tx, n), NEW depth \in 0..Len(g.frames), NEW at \in Nat,
           DropsOf(g.frames, depth + 1, Len(g.frames), X)
    PROVE  Filled(Unwind(g, depth, at),
                  Less(X, Declared(g.frames, depth + 1, Len(g.frames))), W, tx, n)
<1>. DEFINE b == Len(g.frames)
            rest(m) == Declared(g.frames, m + 1, b)
<1>0. g.frames \in Seq(Frames) /\ b \in Nat /\ depth \in Nat /\ depth <= b
  BY GenType
<1>00. X \in SUBSET Int
  BY DEF Filled
<1>1. PICK f : Unwinds(f, g, depth, at)
  BY <1>0, UnwindIs
<1>2. /\ f[b] = g
      /\ \A k \in depth..(b - 1) : f[k] = Cleanup(f[k + 1], g.frames[k + 1].entries, at)
      /\ Unwind(g, depth, at) = f[depth]
  BY <1>1 DEF Unwinds
<1>. DEFINE S == {m \in depth..b : /\ f[m] \in GenStates(n)
                                   /\ Filled(f[m], Less(X, rest(m)), W, tx, n)}
<1>3. b \in S
  <2>1. rest(b) = {}
    BY <1>0 DEF Declared
  <2>2. Less(X, rest(b)) = X
    BY <2>1 DEF Less
  <2>3. f[b] \in GenStates(n) /\ Filled(f[b], X, W, tx, n)
    BY <1>2
  <2>4. b \in depth..b
    BY <1>0
  <2>. HIDE DEF rest, b
  <2>. QED
    BY <2>2, <2>3, <2>4
<1>4. ASSUME NEW m \in depth..b, m \in S, depth < m PROVE m - 1 \in S
  <2>. DEFINE es == g.frames[m].entries
              B  == Less(X, rest(m))
  <2>1. /\ m \in 1..b /\ m - 1 \in depth..(b - 1) /\ m - 1 + 1 = m /\ m - 1 \in depth..b
        /\ m \in Nat /\ m <= b /\ m \in (depth + 1)..b
    BY <1>0, <1>4
  <2>2. f[m - 1] = Cleanup(f[m], es, at)
    BY <1>2, <2>1
  <2>3. f[m] \in GenStates(n) /\ Filled(f[m], B, W, tx, n)
    BY <1>4
  <2>4. es \in Seq(Entries)
    <3>1. g.frames[m] \in Frames
      BY <1>0, <2>1
    <3>. QED  BY <3>1 DEF Frames
  <2>5. \A j \in 1..Len(es) :
           /\ EntryFits(es[j], tx, n)
           /\ \A k \in 1..Len(es) : es[k].slot = es[j].slot => k = j
    BY <2>1 DEF FramesFit
  <2>6. rest(m - 1) = rest(m) \cup SlotsFrom(es, 1)
    <3>1. m..b = (m + 1)..b \cup {m}
      BY <1>0, <2>1
    <3>. HIDE DEF b
    <3>. QED
      BY <2>1, <3>1 DEF Declared
  <2>7. DropsIn(es, B)
    <3>1. DropsIn(es, X)
      BY <2>1 DEF DropsOf
    <3>2. \A d \in (m + 1)..b : d \in 1..b /\ d # m
      BY <1>0, <2>1
    <3>3. \A d \in (m + 1)..b : \A k \in 1..Len(g.frames[d].entries) :
             \A j \in 1..Len(es) : g.frames[d].entries[k].slot # es[j].slot
      BY <2>1, <3>2 DEF FramesFit
    <3>. HIDE DEF es, b
    <3>4. \A j \in 1..Len(es) : es[j].slot \notin rest(m)
      BY <3>3 DEF Declared, SlotsFrom
    <3>. HIDE DEF rest
    <3>5. \A k \in X : k \notin rest(m) => k \in B
      BY DEF Less
    <3>. HIDE DEF B
    <3>. QED
      BY <3>1, <3>4, <3>5 DEF DropsIn
  <2>. HIDE DEF es, B
  <2>8. LET h == Cleanup(f[m], es, at)
        IN  h \in GenStates(n) /\ Filled(h, Less(B, SlotsFrom(es, 1)), W, tx, n)
    BY <2>3, <2>4, <2>5, <2>7, CleanupFilled
  <2>9. Less(B, SlotsFrom(es, 1)) = Less(X, rest(m - 1))
    <3>. HIDE DEF rest
    <3>. QED  BY <1>00, <2>6, LessIs DEF B
  <2>. HIDE DEF rest
  <2>10. f[m - 1] \in GenStates(n) /\ Filled(f[m - 1], Less(X, rest(m - 1)), W, tx, n)
    BY <2>2, <2>8, <2>9
  <2>. QED
    BY <2>1, <2>10
<1>. HIDE DEF S, b
<1>5. \A m \in depth..b : m \in S
  BY <1>0, <1>3, <1>4, DownTo
<1>6. depth \in S
  BY <1>0, <1>5
<1>7. Filled(f[depth], Less(X, rest(depth)), W, tx, n)
  <2>. HIDE DEF rest
  <2>. QED  BY <1>6 DEF S
<1>. QED
  BY <1>2, <1>7 DEF b

-----------------------------------------------------------------------------
(* What Sema counts as not moved                                           *)

\* The slots of the values of a scope that are not moved.
HeldIn(entries, moved) ==
    {entries[j].slot : j \in {j \in 1..Len(entries) :
        Kind[entries[j].name] = "value" /\ ~moved[entries[j].name]}}

Full(F, S, d)  == HeldIn(F[d].entries, MovedMap(S[d].syms))
Sure(F, S, hi) == UNION {Full(F, S, d) : d \in 1..hi}

\* One of the scopes up to hi jumps on all its paths.
Ends(S, hi) == \E d \in 1..hi : S[d].jumps

\* What holds a value at the end of the code, as the scopes up to hi say.
Now(M, F, S, hi) == IF M = "calm" /\ Ends(S, hi) THEN Everything ELSE Sure(F, S, hi)

Branches   == {"if", "else"}
Exit(kind) == IF kind = "if" THEN "else" ELSE "end"

\* The flags that were put aside: those of the paths that meet the branch.
Saved(sc) == IF sc.kind = "if" THEN sc.before ELSE sc.then

\* What holds a value where the branch d ends, as those paths say.
Waiting(M, F, S, d) ==
    IF M = "calm" /\ (Ends(S, d - 1) \/ S[d].thenJumps) THEN Everything
    ELSE Sure(F, S, d - 2) \cup HeldIn(F[d - 1].entries, Saved(S[d]))

\* What W says of the labels of the scope d.
KeptAt(M, F, S, W, d) ==
    /\ S[d].kind \in Branches
       => Waiting(M, F, S, d) \subseteq W[<<F[d].at, Exit(S[d].kind)>>]
    /\ S[d].kind = "loop"
       => \A w \in {"cond", "after"} : W[<<F[d].at, w>>] = Now(M, F, S, d - 1)

Kept(M, F, S, W) == \A d \in 2..Len(S) : KeptAt(M, F, S, W, d)

\* Every symbol has its flag among those put aside.
Saves(S) == \A d \in 2..Len(S) : S[d].kind \in Branches =>
    /\ DOMAIN S[d - 1].syms \subseteq DOMAIN S[d].before
    /\ S[d].kind = "else" => DOMAIN S[d - 1].syms \subseteq DOMAIN S[d].then

\* The value v of scope d is not moved, on any path that meets again.
Untouched(S, d, v) ==
    /\ ~S[d].syms[v].moved
    /\ d < Len(S) /\ S[d + 1].kind \in Branches => ~S[d + 1].before[v]
    /\ d < Len(S) /\ S[d + 1].kind = "else" => ~S[d + 1].then[v]

\* A value that is dropped was never moved.
Spent(F, S) == \A d \in 1..Len(S) : \A j \in 1..Len(F[d].entries) :
    F[d].entries[j].how = "drop" => Untouched(S, d, F[d].entries[j].name)

\* The open scopes are where the frames say, one inside the other.
Opener(kind) == IF kind = "else" THEN "if" ELSE kind
NestedAt(F, tx, d) ==
    /\ F[d].at \in 1..Len(tx) /\ tx[F[d].at].op = Opener(F[d].kind)
    /\ NestOf(tx, F[d].at) = d - 2
    /\ \A k \in (F[d].at + 1)..(Len(tx) + 1) : NestOf(tx, k) > d - 2
Nested(F, tx) ==
    /\ NestOf(tx, Len(tx) + 1) = Len(F) - 1
    /\ \A d \in 2..Len(F) : NestedAt(F, tx, d)

\* No code names the end of an if before its else.
EndFree(g) == \A d \in 1..Len(g.frames) : g.frames[d].kind = "if" =>
    <<g.frames[d].at, "end">> \notin Jumps(g.code) \cup Placed(g.code)

Layout(g, S, tx) ==
    Saves(S) /\ Spent(g.frames, S) /\ Nested(g.frames, tx) /\ EndFree(g)

\* No scope in a loop jumps on all its paths.
LoopsStay(S) == \A d \in 2..Len(S) : S[d].kind = "loop" =>
    \A b \in d..Len(S) : ~S[b].jumps

\* The values have the flags they had before the branch.
SteadyAt(S, d) == S[d].kind \in Branches =>
    \A v \in DOMAIN S[d - 1].syms : Kind[v] = "value" =>
        /\ S[d].before[v] = S[d - 1].syms[v].moved
        /\ S[d].kind = "else" => S[d].then[v] = S[d - 1].syms[v].moved
Steady(S) == \A d \in 2..Len(S) : SteadyAt(S, d)

Tells(M, S) == (M = "calm" => LoopsStay(S)) /\ (M = "still" => Steady(S))

\* What is not moved holds a value.
Covers(M, g, S, W, tx, n) ==
    /\ W \in [Nat \X Labels -> SUBSET Int]
    /\ Filled(g, Now(M, g.frames, S, Len(S)), W, tx, n)
    /\ Kept(M, g.frames, S, W) /\ Tells(M, S)

\* What is known of the code and the scopes (Body).
Stands(g, S, tx, n) ==
    /\ n \in Nat /\ g \in GenStates(n) /\ tx \in Seq(Statements)
    /\ S \in Seq(Scope) /\ Len(S) > 0
    /\ FramesFit(g.frames, tx, n) /\ Named(g, S, tx, n)

LEMMA BodyStands ==
    ASSUME NEW g, NEW T, NEW S, NEW tx, NEW n, Body(g, T, S, tx, n)
    PROVE  Stands(g, S, tx, n)
BY DEF Body, Stands

LEMMA ScopeIs ==
    ASSUME NEW S \in Seq(Scope), NEW d \in 1..Len(S)
    PROVE  /\ S[d] \in Scope /\ S[d].kind \in ScopeKinds /\ S[d].syms \in Symbols
           /\ S[d].before \in Flags /\ S[d].then \in Flags
           /\ S[d].jumps \in BOOLEAN /\ S[d].thenJumps \in BOOLEAN
           /\ DOMAIN S[d].syms \subseteq Names
           /\ \A v \in DOMAIN S[d].syms :
                 /\ S[d].syms[v].moved \in BOOLEAN
                 /\ MovedMap(S[d].syms)[v] = S[d].syms[v].moved
<1>1. S[d] \in Scope
  OBVIOUS
<1>2. /\ S[d].kind \in ScopeKinds /\ S[d].syms \in Symbols
      /\ S[d].before \in Flags /\ S[d].then \in Flags
      /\ S[d].jumps \in BOOLEAN /\ S[d].thenJumps \in BOOLEAN
  BY <1>1 DEF Scope
<1>3. DOMAIN S[d].syms \subseteq Names /\ S[d].syms \in [DOMAIN S[d].syms -> Symbol]
  BY <1>2, TableElim DEF Symbols
<1>4. \A v \in DOMAIN S[d].syms : S[d].syms[v].moved \in BOOLEAN
  BY <1>3 DEF Symbol
<1>. QED
  BY <1>1, <1>2, <1>3, <1>4 DEF MovedMap

\* An entry stands for a symbol of its scope.
LEMMA EntryIs ==
    ASSUME NEW g, NEW S, NEW tx, NEW n, Stands(g, S, tx, n),
           NEW d \in 1..Len(S), NEW j \in 1..Len(g.frames[d].entries)
    PROVE  LET e == g.frames[d].entries[j]
           IN  /\ e \in Entries /\ e.slot \in 1..n /\ e.slot <= Len(tx)
               /\ tx[e.slot].v = e.name /\ g.sym[e.name] = e.slot
               /\ e.name \in DOMAIN S[d].syms /\ e.name \in Names
               /\ e.how = "drop" => Kind[e.name] = "value"
<1>. DEFINE e == g.frames[d].entries[j]
<1>1. d \in 1..Len(g.frames) /\ EntryNamed(e, g, S[d].syms, tx, n) /\ EntryFits(e, tx, n)
  BY DEF Stands, Named, FramesFit
<1>2. g.frames[d] \in Frames
  BY <1>1, GenType DEF Stands
<1>3. e \in Entries
  BY <1>2 DEF Frames
<1>. HIDE DEF e
<1>4. e.name \in Names
  BY <1>3 DEF Entries
<1>. QED
  BY <1>1, <1>3, <1>4 DEF EntryNamed, EntryFits, SlotsOf, e

\* The entry j of the scope d is the one that v has.
EntryFor(g, S, d, v, j) ==
    /\ j \in 1..Len(g.frames[d].entries)
    /\ g.frames[d].entries[j].name = v
    /\ g.frames[d].entries[j].slot = g.sym[v]
    /\ \A b \in 1..Len(S) : \A k \in 1..Len(g.frames[b].entries) :
          (\/ g.frames[b].entries[k].name = v
           \/ g.frames[b].entries[k].slot = g.sym[v]) => b = d /\ k = j

\* A symbol has one entry, and no two scopes have it.
LEMMA EntryOfSymbol ==
    ASSUME NEW g, NEW S, NEW tx, NEW n, Stands(g, S, tx, n),
           NEW d \in 1..Len(S), NEW v \in DOMAIN S[d].syms
    PROVE  \E j : EntryFor(g, S, d, v, j)
<1>1. PICK j \in 1..Len(g.frames[d].entries) : g.frames[d].entries[j].name = v
  BY DEF Stands, Named
<1>2. g.frames[d].entries[j].slot = g.sym[v]
  BY <1>1, EntryIs
<1>3. Len(g.frames) = Len(S)
  BY DEF Stands, Named
<1>4. ASSUME NEW b \in 1..Len(S), NEW k \in 1..Len(g.frames[b].entries),
             \/ g.frames[b].entries[k].name = v
             \/ g.frames[b].entries[k].slot = g.sym[v]
      PROVE  b = d /\ k = j
  <2>1. g.sym[g.frames[b].entries[k].name] = g.frames[b].entries[k].slot
    BY <1>3 DEF Stands, Named, EntryNamed
  <2>2. g.frames[b].entries[k].slot = g.sym[v]
    BY <1>4, <2>1
  <2>3. g.frames[b].entries[k].slot = g.frames[d].entries[j].slot
    BY <1>2, <2>2
  <2>. QED
    BY <1>3, <2>3 DEF Stands, FramesFit
<1>5. EntryFor(g, S, d, v, j)
  <2>1. \A b \in 1..Len(S) : \A k \in 1..Len(g.frames[b].entries) :
           (\/ g.frames[b].entries[k].name = v
            \/ g.frames[b].entries[k].slot = g.sym[v]) => b = d /\ k = j
    BY <1>4
  <2>. QED  BY <1>1, <1>2, <2>1 DEF EntryFor
<1>. QED
  BY <1>5

\* The slots are in the frames.
LEMMA FullType ==
    ASSUME NEW g, NEW S, NEW tx, NEW n, Stands(g, S, tx, n)
    PROVE  /\ \A d \in 1..Len(S) : \A m :
                 /\ HeldIn(g.frames[d].entries, m) \subseteq SlotsFrom(g.frames[d].entries, 1)
                 /\ HeldIn(g.frames[d].entries, m) \subseteq 1..n
           /\ \A M : \A hi \in 0..Len(S) :
                 Sure(g.frames, S, hi) \subseteq 1..n /\ Now(M, g.frames, S, hi) \in SUBSET Int
<1>1. ASSUME NEW d \in 1..Len(S), NEW m
      PROVE  /\ HeldIn(g.frames[d].entries, m) \subseteq SlotsFrom(g.frames[d].entries, 1)
             /\ HeldIn(g.frames[d].entries, m) \subseteq 1..n
  <2>1. \A j \in 1..Len(g.frames[d].entries) : g.frames[d].entries[j].slot \in 1..n
    BY EntryIs
  <2>. QED
    BY <2>1 DEF HeldIn, SlotsFrom
<1>2. n \in Nat /\ Len(S) \in Nat
  BY DEF Stands
<1>3. ASSUME NEW M, NEW hi \in 0..Len(S)
      PROVE  Sure(g.frames, S, hi) \subseteq 1..n /\ Now(M, g.frames, S, hi) \in SUBSET Int
  <2>1. \A d \in 1..hi : d \in 1..Len(S)
    BY <1>2
  <2>2. Sure(g.frames, S, hi) \subseteq 1..n
    BY <1>1, <2>1 DEF Sure, Full
  <2>3. Sure(g.frames, S, hi) \in SUBSET Int
    BY <1>2, <2>2
  <2>. QED
    BY <2>2, <2>3 DEF Now, Everything
<1>. QED
  BY <1>1, <1>3

\* What holds a value in the outer scopes is left when the inner are unwound.
LEMMA NowInner ==
    ASSUME NEW g, NEW S, NEW tx, NEW n, Stands(g, S, tx, n), NEW M, NEW hi \in 0..Len(S)
    PROVE  Now(M, g.frames, S, hi)
              \subseteq Less(Now(M, g.frames, S, Len(S)),
                             Declared(g.frames, hi + 1, Len(g.frames)))
<1>. DEFINE F == g.frames
            b == Len(S)
            D == Declared(F, hi + 1, Len(F))
<1>0. b \in Nat /\ Len(F) = b /\ hi \in Nat /\ hi <= b
  BY DEF Stands, Named
<1>1. Now(M, F, S, b) \in SUBSET Int /\ Now(M, F, S, hi) \in SUBSET Int
  <2>1. b \in 0..Len(S) /\ hi \in 0..Len(S)
    BY <1>0
  <2>. HIDE DEF b
  <2>. QED
    BY <2>1, FullType
<1>2. CASE M = "calm" /\ Ends(S, b)
  BY <1>1, <1>2 DEF Now, Less, Everything
<1>3. CASE ~(M = "calm" /\ Ends(S, b))
  <2>1. ~(M = "calm" /\ Ends(S, hi))
    BY <1>0, <1>3 DEF Ends
  <2>2. Now(M, F, S, b) = Sure(F, S, b) /\ Now(M, F, S, hi) = Sure(F, S, hi)
    BY <1>3, <2>1 DEF Now
  <2>3. Sure(F, S, hi) \subseteq Sure(F, S, b)
    BY <1>0 DEF Sure
  <2>4. ASSUME NEW k \in Sure(F, S, hi) PROVE k \notin D
    <3>1. PICK d \in 1..hi : k \in Full(F, S, d)
      BY DEF Sure
    <3>2. PICK j \in 1..Len(F[d].entries) : k = F[d].entries[j].slot
      BY <3>1 DEF Full, HeldIn
    <3>3. SUFFICES ASSUME k \in D PROVE FALSE
      OBVIOUS
    <3>4. PICK c \in (hi + 1)..Len(F) : k \in SlotsFrom(F[c].entries, 1)
      BY <3>3 DEF Declared
    <3>5. PICK i \in 1..Len(F[c].entries) : k = F[c].entries[i].slot
      BY <3>4 DEF SlotsFrom
    <3>6. d \in 1..Len(F) /\ c \in 1..Len(F) /\ c # d
      BY <1>0
    <3>. QED
      BY <3>2, <3>5, <3>6 DEF Stands, FramesFit
  <2>. HIDE DEF D, F, b
  <2>5. Now(M, F, S, hi) \subseteq Less(Now(M, F, S, b), D)
    BY <2>2, <2>3, <2>4 DEF Less, Everything
  <2>. QED
    BY <2>5 DEF D, F, b
<1>. QED
  BY <1>0, <1>2, <1>3

\* What is dropped holds a value.
LEMMA NowDrops ==
    ASSUME NEW g, NEW S, NEW tx, NEW n, Stands(g, S, tx, n), Spent(g.frames, S), NEW M,
           NEW lo \in Nat, lo > 0
    PROVE  DropsOf(g.frames, lo, Len(g.frames), Now(M, g.frames, S, Len(S)))
<1>. DEFINE F == g.frames
            b == Len(S)
<1>0. b \in Nat /\ Len(F) = b
  BY DEF Stands, Named
<1>1. SUFFICES ASSUME NEW d \in lo..b, NEW j \in 1..Len(F[d].entries),
                      F[d].entries[j].how = "drop"
               PROVE  F[d].entries[j].slot \in Now(M, F, S, b)
  BY <1>0 DEF DropsOf, DropsIn
<1>2. d \in 1..b
  BY <1>0
<1>. DEFINE e == F[d].entries[j]
<1>3. /\ e.slot \in 1..n /\ e.name \in DOMAIN S[d].syms /\ Kind[e.name] = "value"
      /\ ~S[d].syms[e.name].moved
  <2>1. /\ e.slot \in 1..n /\ e.name \in DOMAIN S[d].syms
        /\ e.how = "drop" => Kind[e.name] = "value"
    BY <1>2, EntryIs
  <2>2. ~S[d].syms[e.name].moved
    BY <1>1, <1>2 DEF Spent, Untouched
  <2>. QED  BY <1>1, <2>1, <2>2
<1>4. ~MovedMap(S[d].syms)[e.name]
  BY <1>2, <1>3, ScopeIs DEF Stands
<1>5. e.slot \in Full(F, S, d)
  BY <1>3, <1>4 DEF Full, HeldIn
<1>6. e.slot \in Sure(F, S, b)
  BY <1>2, <1>5 DEF Sure
<1>7. e.slot \in Int
  BY <1>3
<1>. HIDE DEF e
<1>8. e.slot \in Now(M, F, S, b)
  BY <1>6, <1>7 DEF Now, Everything
<1>. QED
  BY <1>8 DEF e

\* The entries have the names and the slots they had.
SameEntries(es, fs) ==
    /\ Len(fs) = Len(es)
    /\ \A j \in 1..Len(es) : fs[j].name = es[j].name /\ fs[j].slot = es[j].slot

LEMMA HeldLess ==
    ASSUME NEW es, NEW fs, SameEntries(es, fs), NEW m, NEW o,
           \A j \in 1..Len(es) : Kind[es[j].name] = "value" /\ ~o[es[j].name]
                                 => ~m[es[j].name]
    PROVE  HeldIn(fs, o) \subseteq HeldIn(es, m)
BY DEF HeldIn, SameEntries

LEMMA HeldSame ==
    ASSUME NEW es, NEW fs, SameEntries(es, fs), NEW m
    PROVE  HeldIn(fs, m) = HeldIn(es, m)
BY DEF HeldIn, SameEntries

LEMMA SureLess ==
    ASSUME NEW F, NEW S, NEW G, NEW R, NEW hi,
           \A d \in 1..hi : Full(G, R, d) \subseteq Full(F, S, d)
    PROVE  Sure(G, R, hi) \subseteq Sure(F, S, hi)
BY DEF Sure

\* What scope d keeps is about the scopes around it.
LEMMA KeptAtSame ==
    ASSUME NEW M, NEW F, NEW S, NEW W, NEW G, NEW R, NEW U, NEW d \in Nat, d > 1,
           KeptAt(M, F, S, W, d),
           R[d].kind = S[d].kind, G[d].at = F[d].at, R[d].thenJumps = S[d].thenJumps,
           \A w \in Labels : U[<<F[d].at, w>>] = W[<<F[d].at, w>>],
           \A b \in 1..(d - 1) : R[b].jumps = S[b].jumps,
           \A b \in 1..(d - 2) : Full(G, R, b) \subseteq Full(F, S, b),
           HeldIn(G[d - 1].entries, Saved(R[d])) \subseteq HeldIn(F[d - 1].entries, Saved(S[d])),
           S[d].kind = "loop" => \A b \in 1..(d - 1) : Full(G, R, b) = Full(F, S, b)
    PROVE  KeptAt(M, G, R, U, d)
<1>1. Ends(R, d - 1) = Ends(S, d - 1)
  BY DEF Ends
<1>2. Waiting(M, G, R, d) \subseteq Waiting(M, F, S, d)
  <2>1. Sure(G, R, d - 2) \subseteq Sure(F, S, d - 2)
    BY SureLess
  <2>. QED
    BY <1>1, <2>1 DEF Waiting
<1>3. S[d].kind = "loop" => Now(M, G, R, d - 1) = Now(M, F, S, d - 1)
  <2>1. S[d].kind = "loop" => Sure(G, R, d - 1) = Sure(F, S, d - 1)
    BY DEF Sure
  <2>. QED
    BY <1>1, <2>1 DEF Now
<1>4. S[d].kind \in Branches => Exit(S[d].kind) \in Labels
  BY DEF Exit, Labels
<1>5. "cond" \in Labels /\ "after" \in Labels
  BY DEF Labels
<1>. QED
  BY <1>2, <1>3, <1>4, <1>5 DEF KeptAt

\* A statement is inside all the scopes that are open.
LEMMA NestedInside ==
    ASSUME NEW F, NEW tx, Nested(F, tx), NEW d \in 2..Len(F)
    PROVE  InsideOf(tx, Len(tx) + 1, Opener(F[d].kind))
<1>1. NestedAt(F, tx, d)
  BY DEF Nested
<1>2. F[d].at \in 1..(Len(tx) + 1 - 1)
  BY <1>1 DEF NestedAt
<1>. QED
  BY <1>1, <1>2 DEF NestedAt, InsideOf

LEMMA NestedApart ==
    ASSUME NEW F, NEW tx, Nested(F, tx), NEW c \in 2..Len(F), NEW d \in 2..Len(F),
           F[c].at = F[d].at
    PROVE  c = d
BY DEF Nested, NestedAt

\* One statement more, which may open a scope or close one.
LEMMA NestedNext ==
    ASSUME NEW F, NEW tx \in Seq(Statements), NEW s \in Statements, Nested(F, tx),
           NEW G, Len(F) \in Nat, Len(G) = Len(F) + Deepens(s.op),
           \A d \in 1..Len(G) :
              IF d <= Len(F)
              THEN G[d].at = F[d].at /\ Opener(G[d].kind) = Opener(F[d].kind)
              ELSE G[d].at = Len(tx) + 1 /\ Opener(G[d].kind) = s.op
    PROVE  Nested(G, Append(tx, s))
<1>. DEFINE t2 == Append(tx, s)
            m  == Len(tx) + 1
<1>1. /\ m \in Nat /\ m > 0 /\ Len(t2) = m /\ t2[m] = s
      /\ \A k \in 1..Len(tx) : t2[k] = tx[k]
      /\ m + 1 = Len(tx) + 2
  OBVIOUS
<1>2. NestOf(t2, m + 1) = NestOf(tx, m) + Deepens(s.op)
  BY <1>1, NestNext
<1>3. \A k \in 1..m : NestOf(t2, k) = NestOf(tx, k)
  BY NestKept
<1>4. NestOf(tx, m) = Len(F) - 1 /\ Deepens(s.op) \in {0, 1, -1}
  BY DEF Nested, Deepens
<1>. HIDE DEF t2
<1>5. NestOf(t2, Len(t2) + 1) = Len(G) - 1
  BY <1>1, <1>2, <1>4
<1>6. ASSUME NEW d \in 2..Len(G) PROVE NestedAt(G, t2, d)
  <2>1. CASE d <= Len(F)
    <3>1. NestedAt(F, tx, d) /\ G[d].at = F[d].at /\ Opener(G[d].kind) = Opener(F[d].kind)
      BY <2>1 DEF Nested
    <3>2. F[d].at \in 1..Len(tx) /\ F[d].at \in 1..m /\ F[d].at \in 1..Len(t2)
      BY <1>1, <3>1 DEF NestedAt
    <3>3. t2[F[d].at].op = Opener(G[d].kind) /\ NestOf(t2, F[d].at) = d - 2
      BY <1>1, <1>3, <3>1, <3>2 DEF NestedAt
    <3>4. ASSUME NEW k \in (F[d].at + 1)..(m + 1) PROVE NestOf(t2, k) > d - 2
      <4>1. CASE k = m + 1
        BY <1>1, <1>5, <4>1
      <4>2. CASE k # m + 1
        <5>1. k \in (F[d].at + 1)..(Len(tx) + 1) /\ k \in 1..m
          BY <1>1, <3>2, <4>2
        <5>. QED  BY <1>3, <3>1, <5>1 DEF NestedAt
      <4>. QED  BY <4>1, <4>2
    <3>. QED
      BY <1>1, <3>1, <3>2, <3>3, <3>4 DEF NestedAt
  <2>2. CASE ~(d <= Len(F))
    <3>1. d = Len(F) + 1 /\ Deepens(s.op) = 1 /\ d = Len(G)
      BY <1>4, <2>2
    <3>2. G[d].at = m /\ Opener(G[d].kind) = s.op
      BY <2>2
    <3>3. NestOf(t2, m) = d - 2 /\ NestOf(t2, m + 1) > d - 2
      BY <1>1, <1>2, <1>3, <1>4, <3>1
    <3>4. \A k \in (m + 1)..(m + 1) : k = m + 1
      BY <1>1
    <3>. QED
      BY <1>1, <3>2, <3>3, <3>4 DEF NestedAt
  <2>. QED
    BY <2>1, <2>2
<1>7. Nested(G, t2)
  BY <1>5, <1>6 DEF Nested
<1>. QED
  BY <1>7 DEF t2

\* What a statement that moves a value, or jumps, says of the open scopes.
LEMMA CleanScopes ==
    ASSUME NEW g, NEW S, NEW tx, NEW n, Stands(g, S, tx, n), Nested(g.frames, tx),
           NEW s \in Statements, NEW M, Clean(M, Append(tx, s))
    PROVE  /\ Clean(M, tx)
           /\ MovesValue(s) =>
                 /\ \A d \in 2..Len(S) : S[d].kind # "loop"
                 /\ s.op = "write" => Len(S) <= 2
                 /\ M = "still" => \A d \in 2..Len(S) : S[d].kind \notin Branches
           /\ s.op \in JumpOps /\ M = "calm" => \A d \in 2..Len(S) : S[d].kind # "loop"
<1>1. tx \in Seq(Statements) /\ Len(g.frames) = Len(S) /\ Len(S) \in Nat
      /\ \A d \in 1..Len(S) : g.frames[d].kind = S[d].kind
  BY DEF Stands, Named
<1>2. /\ Clean(M, tx)
      /\ MovesValue(s) => /\ ~InsideOf(tx, Len(tx) + 1, "loop")
                          /\ s.op = "write" => ~(NestOf(tx, Len(tx) + 1) > 1)
                          /\ M = "still" => ~InsideOf(tx, Len(tx) + 1, "if")
      /\ s.op \in JumpOps /\ M = "calm" => ~InsideOf(tx, Len(tx) + 1, "loop")
  BY <1>1, CleanBefore
<1>3. NestOf(tx, Len(tx) + 1) = Len(S) - 1
  BY <1>1 DEF Nested
<1>4. \A d \in 2..Len(S) : InsideOf(tx, Len(tx) + 1, Opener(S[d].kind))
  BY <1>1, NestedInside
<1>5. \A d \in 2..Len(S) : /\ S[d].kind = "loop" => InsideOf(tx, Len(tx) + 1, "loop")
                           /\ S[d].kind \in Branches => InsideOf(tx, Len(tx) + 1, "if")
  BY <1>4 DEF Opener, Branches
<1>. QED
  BY <1>1, <1>2, <1>3, <1>5

-----------------------------------------------------------------------------
(* Statements that open and close no scope                                 *)

\* The flags that were put aside stay.
SameSaved(S, R) == \A d \in 1..Len(S) :
    /\ R[d].before = S[d].before /\ R[d].then = S[d].then
    /\ R[d].thenJumps = S[d].thenJumps

SameJumps(S, R, hi) == \A d \in 1..hi : R[d].jumps = S[d].jumps

\* No value of scope d is filled, or none is filled or moved.
NoneFilled(S, R, d) == \A v \in DOMAIN S[d].syms :
    Kind[v] = "value" /\ ~R[d].syms[v].moved => ~S[d].syms[v].moved
SameFlags(S, R, d) == \A v \in DOMAIN S[d].syms :
    Kind[v] = "value" => R[d].syms[v].moved = S[d].syms[v].moved

\* A value that is moved is no longer dropped.
NoneDropped(S, R, G) == \A d \in 1..Len(S) : \A j \in 1..Len(G[d].entries) :
    LET v == G[d].entries[j].name
    IN  R[d].syms[v].moved /\ ~S[d].syms[v].moved => G[d].entries[j].how # "drop"

\* h names no more ends of branches than g.
NoMoreEnds(g, h) == \A l \in Jumps(h.code) \cup Placed(h.code) :
    l[2] = "end" => l \in Jumps(g.code) \cup Placed(g.code)

LEMMA AlikeEntries ==
    ASSUME NEW F, NEW G, Alike(F, G), NEW d \in 1..Len(F)
    PROVE  SameEntries(F[d].entries, G[d].entries)
BY DEF Alike, SameEntries

LEMMA FullStays ==
    ASSUME NEW g, NEW S, NEW tx, NEW n, Stands(g, S, tx, n),
           NEW G, Alike(g.frames, G), NEW R, SameShape(S, R), NEW d \in 1..Len(S)
    PROVE  /\ NoneFilled(S, R, d) => Full(G, R, d) \subseteq Full(g.frames, S, d)
           /\ SameFlags(S, R, d)  => Full(G, R, d) = Full(g.frames, S, d)
<1>. DEFINE F == g.frames
            m == MovedMap(S[d].syms)
            o == MovedMap(R[d].syms)
<1>1. SameEntries(F[d].entries, G[d].entries) /\ SameEntries(G[d].entries, F[d].entries)
  <2>1. d \in 1..Len(F)
    BY DEF Stands, Named
  <2>2. SameEntries(F[d].entries, G[d].entries)
    BY <2>1, AlikeEntries
  <2>. QED  BY <2>2 DEF SameEntries
<1>2. \A j \in 1..Len(F[d].entries) : F[d].entries[j].name \in DOMAIN S[d].syms
  BY EntryIs
<1>3. DOMAIN R[d].syms = DOMAIN S[d].syms
  BY DEF SameShape
<1>4. \A v \in DOMAIN S[d].syms : m[v] = S[d].syms[v].moved /\ o[v] = R[d].syms[v].moved
  BY <1>3 DEF MovedMap
<1>. HIDE DEF m, o
<1>5. NoneFilled(S, R, d) => HeldIn(G[d].entries, o) \subseteq HeldIn(F[d].entries, m)
  <2>. SUFFICES ASSUME NoneFilled(S, R, d)
                PROVE  HeldIn(G[d].entries, o) \subseteq HeldIn(F[d].entries, m)
    OBVIOUS
  <2>1. \A j \in 1..Len(F[d].entries) :
           Kind[F[d].entries[j].name] = "value" /\ ~o[F[d].entries[j].name]
           => ~m[F[d].entries[j].name]
    BY <1>2, <1>4 DEF NoneFilled
  <2>. QED  BY <1>1, <2>1, HeldLess
<1>6. SameFlags(S, R, d) => HeldIn(F[d].entries, m) \subseteq HeldIn(G[d].entries, o)
  <2>. SUFFICES ASSUME SameFlags(S, R, d)
                PROVE  HeldIn(F[d].entries, m) \subseteq HeldIn(G[d].entries, o)
    OBVIOUS
  <2>1. \A j \in 1..Len(G[d].entries) :
           Kind[G[d].entries[j].name] = "value" /\ ~m[G[d].entries[j].name]
           => ~o[G[d].entries[j].name]
    BY <1>1, <1>2, <1>4 DEF SameFlags, SameEntries
  <2>. QED  BY <1>1, <2>1, HeldLess
<1>7. SameFlags(S, R, d) => NoneFilled(S, R, d)
  BY DEF SameFlags, NoneFilled
<1>. QED
  BY <1>5, <1>6, <1>7 DEF Full, m, o

LEMMA FullLess ==
    ASSUME NEW g, NEW S, NEW tx, NEW n, Stands(g, S, tx, n),
           NEW G, Alike(g.frames, G), NEW R, SameShape(S, R), NEW d \in 1..Len(S),
           NoneFilled(S, R, d)
    PROVE  Full(G, R, d) \subseteq Full(g.frames, S, d)
BY FullStays

LEMMA FullSame ==
    ASSUME NEW g, NEW S, NEW tx, NEW n, Stands(g, S, tx, n),
           NEW G, Alike(g.frames, G), NEW R, SameShape(S, R), NEW d \in 1..Len(S),
           SameFlags(S, R, d)
    PROVE  Full(G, R, d) = Full(g.frames, S, d)
BY FullStays

LEMMA KeptStays ==
    ASSUME NEW g, NEW S, NEW tx, NEW n, Stands(g, S, tx, n), NEW M, NEW W,
           Kept(M, g.frames, S, W),
           NEW G, Alike(g.frames, G), NEW R, SameShape(S, R), SameSaved(S, R),
           SameJumps(S, R, Len(S) - 1),
           \A d \in 1..(Len(S) - 2) : NoneFilled(S, R, d),
           \A d \in 2..Len(S) : S[d].kind = "loop" => \A b \in 1..(d - 1) : SameFlags(S, R, b)
    PROVE  Kept(M, G, R, W)
<1>. DEFINE F == g.frames
<1>1. Len(S) \in Nat /\ Len(F) = Len(S) /\ Len(R) = Len(S)
  BY DEF Stands, Named, SameShape
<1>2. ASSUME NEW d \in 2..Len(S) PROVE KeptAt(M, G, R, W, d)
  <2>1. /\ d \in Nat /\ d > 1 /\ d \in 1..Len(S) /\ d - 1 \in 1..Len(S)
        /\ \A b \in 1..(d - 1) : b \in 1..Len(S) /\ b \in 1..(Len(S) - 1)
        /\ \A b \in 1..(d - 2) : b \in 1..Len(S) /\ b \in 1..(Len(S) - 2)
    BY <1>1
  <2>2. KeptAt(M, F, S, W, d)
    BY DEF Kept
  <2>3. R[d].kind = S[d].kind /\ G[d].at = F[d].at /\ R[d].thenJumps = S[d].thenJumps
    BY <1>1, <2>1 DEF SameShape, Alike, SameSaved
  <2>4. \A b \in 1..(d - 1) : R[b].jumps = S[b].jumps
    BY <2>1 DEF SameJumps
  <2>5. \A b \in 1..(d - 2) : Full(G, R, b) \subseteq Full(F, S, b)
    BY <2>1, FullLess
  <2>6. HeldIn(G[d - 1].entries, Saved(R[d])) \subseteq HeldIn(F[d - 1].entries, Saved(S[d]))
    <3>1. Saved(R[d]) = Saved(S[d])
      BY <2>1, <2>3 DEF Saved, SameSaved
    <3>2. SameEntries(F[d - 1].entries, G[d - 1].entries)
      BY <1>1, <2>1, AlikeEntries
    <3>. HIDE DEF F
    <3>3. HeldIn(G[d - 1].entries, Saved(S[d])) = HeldIn(F[d - 1].entries, Saved(S[d]))
      BY <3>2, HeldSame
    <3>. QED  BY <3>1, <3>3
  <2>7. S[d].kind = "loop" => \A b \in 1..(d - 1) : Full(G, R, b) = Full(F, S, b)
    <3>. SUFFICES ASSUME S[d].kind = "loop", NEW b \in 1..(d - 1)
                  PROVE  Full(G, R, b) = Full(F, S, b)
      OBVIOUS
    <3>1. SameFlags(S, R, b) /\ b \in 1..Len(S)
      BY <2>1
    <3>. QED  BY <3>1, FullSame
  <2>. HIDE DEF F
  <2>. QED
    BY <2>1, <2>2, <2>3, <2>4, <2>5, <2>6, <2>7, KeptAtSame
<1>. QED
  BY <1>1, <1>2 DEF Kept

LEMMA LayoutStays ==
    ASSUME NEW g, NEW S, NEW tx, NEW n, Stands(g, S, tx, n), Layout(g, S, tx),
           NEW s \in Statements, Deepens(s.op) = 0,
           NEW h, Alike(g.frames, h.frames), NoMoreEnds(g, h),
           NEW R, SameShape(S, R), SameSaved(S, R), NoneDropped(S, R, h.frames)
    PROVE  Layout(h, R, Append(tx, s))
<1>. DEFINE F == g.frames
            G == h.frames
<1>1. /\ Len(S) \in Nat /\ Len(F) = Len(S) /\ Len(R) = Len(S) /\ Len(G) = Len(F)
      /\ tx \in Seq(Statements) /\ S \in Seq(Scope) /\ R \in Seq(Scope)
      /\ \A d \in 1..Len(S) : /\ R[d].kind = S[d].kind /\ DOMAIN R[d].syms = DOMAIN S[d].syms
                              /\ G[d].at = F[d].at /\ G[d].kind = F[d].kind
  <2>1. Len(S) \in Nat /\ Len(F) = Len(S) /\ tx \in Seq(Statements) /\ S \in Seq(Scope)
    BY DEF Stands, Named
  <2>2. Len(R) = Len(S) /\ Len(G) = Len(F) /\ R \in Seq(Scope)
    BY DEF SameShape, Alike
  <2>3. ASSUME NEW d \in 1..Len(S)
        PROVE  /\ R[d].kind = S[d].kind /\ DOMAIN R[d].syms = DOMAIN S[d].syms
               /\ G[d].at = F[d].at /\ G[d].kind = F[d].kind
    BY <2>1 DEF SameShape, Alike
  <2>. QED  BY <2>1, <2>2, <2>3
<1>2. Saves(R)
  <2>1. \A d \in 2..Len(R) : d \in 1..Len(S) /\ d - 1 \in 1..Len(S) /\ d \in 2..Len(S)
    BY <1>1
  <2>2. Saves(S)
    BY DEF Layout
  <2>. QED  BY <1>1, <2>1, <2>2 DEF Saves, SameSaved
<1>3. Spent(G, R)
  <2>1. SUFFICES ASSUME NEW d \in 1..Len(S), NEW j \in 1..Len(G[d].entries),
                        G[d].entries[j].how = "drop"
                 PROVE  Untouched(R, d, G[d].entries[j].name)
    BY <1>1 DEF Spent
  <2>2. /\ j \in 1..Len(F[d].entries) /\ G[d].entries[j].name = F[d].entries[j].name
        /\ F[d].entries[j].how = "drop"
    BY <1>1, <2>1 DEF Alike
  <2>. DEFINE v == G[d].entries[j].name
  <2>3. Untouched(S, d, v) /\ v \in DOMAIN S[d].syms
    <3>1. F[d].entries[j].name \in DOMAIN S[d].syms
      BY <2>2, EntryIs
    <3>2. Spent(F, S)
      BY DEF Layout
    <3>3. Untouched(S, d, F[d].entries[j].name)
      BY <2>2, <3>2 DEF Spent
    <3>. QED  BY <2>2, <3>1, <3>3
  <2>4. ~R[d].syms[v].moved
    <3>1. R[d].syms[v].moved \in BOOLEAN
      BY <1>1, <2>3, ScopeIs
    <3>. QED  BY <2>1, <2>3, <3>1 DEF NoneDropped, Untouched
  <2>. HIDE DEF v
  <2>5. Untouched(R, d, v)
    BY <1>1, <2>3, <2>4 DEF Untouched, SameSaved
  <2>. QED
    BY <2>5 DEF v
<1>4. Nested(G, Append(tx, s))
  <2>1. Nested(F, tx)
    BY DEF Layout
  <2>2. \A d \in 1..Len(G) : d <= Len(F) /\ G[d].at = F[d].at /\ Opener(G[d].kind) = Opener(F[d].kind)
    BY <1>1
  <2>3. Len(G) = Len(F) + Deepens(s.op)
    BY <1>1
  <2>. HIDE DEF F, G
  <2>. QED
    BY <1>1, <2>1, <2>2, <2>3, NestedNext
<1>5. EndFree(h)
  <2>1. SUFFICES ASSUME NEW d \in 1..Len(S), G[d].kind = "if"
                 PROVE  <<G[d].at, "end">> \notin Jumps(h.code) \cup Placed(h.code)
    BY <1>1 DEF EndFree
  <2>2. <<G[d].at, "end">> \notin Jumps(g.code) \cup Placed(g.code)
    BY <1>1, <2>1 DEF Layout, EndFree
  <2>3. <<G[d].at, "end">>[2] = "end"
    OBVIOUS
  <2>. QED
    BY <2>2, <2>3 DEF NoMoreEnds
<1>. QED
  BY <1>2, <1>3, <1>4, <1>5 DEF Layout

\* The scopes are as they were, as far as values and jumps go.
Quiet(S, R) == /\ SameShape(S, R) /\ SameSaved(S, R) /\ SameJumps(S, R, Len(S))
               /\ \A d \in 1..Len(S) : SameFlags(S, R, d)

\* They are, but for the flag of v.
Sets(S, R, d, v, b) ==
    /\ SameShape(S, R) /\ SameSaved(S, R) /\ SameJumps(S, R, Len(S))
    /\ R[d].syms[v].moved = b
    /\ \A c \in 1..Len(S) : \A u \in DOMAIN S[c].syms :
          c # d \/ u # v => R[c].syms[u].moved = S[c].syms[u].moved

LEMMA QuietSelf == ASSUME NEW S \in Seq(Scope) PROVE Quiet(S, S)
BY ShapeSelf DEF Quiet, SameSaved, SameJumps, SameFlags

LEMMA QuietIsTransitive ==
    ASSUME NEW S, NEW R, NEW U, Quiet(S, R), Quiet(R, U) PROVE Quiet(S, U)
<1>1. SameShape(S, U) /\ Len(R) = Len(S)
  BY ShapeIsTransitive DEF Quiet, SameShape
<1>2. \A d \in 1..Len(S) : DOMAIN R[d].syms = DOMAIN S[d].syms
  BY DEF Quiet, SameShape
<1>3. SameSaved(S, U) /\ SameJumps(S, U, Len(S))
  BY <1>1 DEF Quiet, SameSaved, SameJumps
<1>4. \A d \in 1..Len(S) : SameFlags(S, U, d)
  BY <1>1, <1>2 DEF Quiet, SameFlags
<1>. QED
  BY <1>1, <1>3, <1>4 DEF Quiet

\* R has the symbols new in the scope d, and is else as S.
Edited(S, d, new, R) == R = [S EXCEPT ![d] = [S[d] EXCEPT !.syms = new]]

LEMMA SymsEdit ==
    ASSUME NEW S \in Seq(Scope), NEW d \in 1..Len(S), NEW new, NEW E, Edited(S, d, new, E)
    PROVE  /\ SameSaved(S, E) /\ SameJumps(S, E, Len(S))
           /\ E[d].syms = new
           /\ \A c \in 1..Len(S) : c # d => E[c].syms = S[c].syms
<1>. DEFINE sc == [S[d] EXCEPT !.syms = new]
<1>1. S[d] \in Scope
  OBVIOUS
<1>2. /\ sc.syms = new /\ sc.before = S[d].before /\ sc.then = S[d].then
      /\ sc.thenJumps = S[d].thenJumps /\ sc.jumps = S[d].jumps
  BY <1>1 DEF Scope
<1>3. E = [S EXCEPT ![d] = sc]
  BY DEF Edited
<1>. HIDE DEF sc
<1>4. E[d] = sc /\ \A c \in 1..Len(S) : c # d => E[c] = S[c]
  BY <1>3
<1>5. SameSaved(S, E) /\ SameJumps(S, E, Len(S))
  BY <1>2, <1>4 DEF SameSaved, SameJumps
<1>6. E[d].syms = new /\ \A c \in 1..Len(S) : c # d => E[c].syms = S[c].syms
  BY <1>2, <1>4
<1>. QED
  BY <1>5, <1>6

LEMMA MovedSets ==
    ASSUME NEW S \in Seq(Scope), NEW d \in 1..Len(S), NEW v \in DOMAIN S[d].syms,
           NEW b \in BOOLEAN
    PROVE  Sets(S, [S EXCEPT ![d].syms[v].moved = b], d, v, b)
<1>. DEFINE new == [S[d].syms EXCEPT ![v] = [S[d].syms[v] EXCEPT !.moved = b]]
            R   == [S EXCEPT ![d] = [S[d] EXCEPT !.syms = new]]
<1>1. [S EXCEPT ![d].syms[v].moved = b] = R
  OBVIOUS
<1>2. SameShape(S, R)
  <2>1. SameShape(S, [S EXCEPT ![d].syms[v].moved = b])
    BY MovedShape
  <2>. HIDE DEF R
  <2>. QED  BY <1>1, <2>1
<1>3. /\ new[v].moved = b
      /\ \A u \in DOMAIN S[d].syms : u # v => new[u] = S[d].syms[u]
  <2>1. S[d].syms \in Symbols
    BY ScopeIs
  <2>2. S[d].syms \in [DOMAIN S[d].syms -> Symbol]
    BY <2>1, TableElim DEF Symbols
  <2>3. S[d].syms[v] \in Symbol
    BY <2>2
  <2>4. [S[d].syms[v] EXCEPT !.moved = b].moved = b
    BY <2>3 DEF Symbol
  <2>. QED  BY <2>4
<1>. HIDE DEF new
<1>0. Edited(S, d, new, R)
  BY DEF Edited
<1>. HIDE DEF R
<1>4. /\ SameSaved(S, R) /\ SameJumps(S, R, Len(S))
      /\ R[d].syms = new
      /\ \A c \in 1..Len(S) : c # d => R[c].syms = S[c].syms
  BY <1>0, SymsEdit
<1>5. Sets(S, R, d, v, b)
  BY <1>2, <1>3, <1>4 DEF Sets
<1>. QED
  BY <1>1, <1>5

\* The flag of a pointer.
LEMMA SetsQuiet ==
    ASSUME NEW S, NEW R, NEW d, NEW v, NEW b, Sets(S, R, d, v, b), Kind[v] # "value"
    PROVE  Quiet(S, R)
BY DEF Sets, Quiet, SameFlags

-----------------------------------------------------------------------------
(* The invariant of the compiler                                           *)

\* For a text of either kind, what is not moved holds a value.
Known(g, S, tx, n) ==
    /\ Stands(g, S, tx, n) /\ Layout(g, S, tx)
    /\ \A M \in Modes : Clean(M, tx) => \E W : Covers(M, g, S, W, tx, n)

\* From what is known to what h and R make of it, with the statement s.
Carried(M, g, S, h, R, tx, s, n) ==
    \A W : Covers(M, g, S, W, tx, n) => \E U : Covers(M, h, R, U, Append(tx, s), n)

LEMMA KnownNext ==
    ASSUME NEW g, NEW S, NEW tx, NEW n, Known(g, S, tx, n), NEW s \in Statements,
           NEW h, NEW R, Stands(h, R, Append(tx, s), n), Layout(h, R, Append(tx, s)),
           \A M \in Modes : Clean(M, Append(tx, s)) => Carried(M, g, S, h, R, tx, s, n)
    PROVE  Known(h, R, Append(tx, s), n)
<1>1. tx \in Seq(Statements) /\ Stands(g, S, tx, n) /\ Nested(g.frames, tx)
  BY DEF Known, Stands, Layout
<1>2. ASSUME NEW M \in Modes, Clean(M, Append(tx, s))
      PROVE  \E U : Covers(M, h, R, U, Append(tx, s), n)
  <2>1. Clean(M, tx)
    BY <1>1, <1>2, CleanScopes
  <2>2. PICK W : Covers(M, g, S, W, tx, n)
    BY <2>1 DEF Known
  <2>. QED
    BY <1>2, <2>2 DEF Carried
<1>. QED
  BY <1>2 DEF Known

\* Statements that leave the values as they are.
LEMMA NowQuiet ==
    ASSUME NEW g, NEW S, NEW tx, NEW n, Stands(g, S, tx, n),
           NEW G, Alike(g.frames, G), NEW R, Quiet(S, R), NEW M
    PROVE  Now(M, G, R, Len(R)) = Now(M, g.frames, S, Len(S))
<1>1. SameShape(S, R) /\ Len(R) = Len(S)
  BY DEF Quiet, SameShape
<1>2. \A d \in 1..Len(S) : Full(G, R, d) = Full(g.frames, S, d)
  <2>. TAKE d \in 1..Len(S)
  <2>1. SameFlags(S, R, d)
    BY DEF Quiet
  <2>. QED  BY <1>1, <2>1, FullSame
<1>3. Ends(R, Len(S)) = Ends(S, Len(S))
  BY DEF Quiet, SameJumps, Ends
<1>. QED
  BY <1>1, <1>2, <1>3 DEF Now, Sure

LEMMA TellsQuiet ==
    ASSUME NEW S \in Seq(Scope), NEW R, Quiet(S, R), NEW M, Tells(M, S)
    PROVE  Tells(M, R)
<1>1. /\ Len(R) = Len(S) /\ Len(S) \in Nat
      /\ \A d \in 1..Len(S) : R[d].kind = S[d].kind /\ DOMAIN R[d].syms = DOMAIN S[d].syms
      /\ \A d \in 1..Len(S) : R[d].jumps = S[d].jumps
      /\ SameSaved(S, R)
  BY DEF Quiet, SameShape, SameJumps
<1>2. M = "calm" => LoopsStay(R)
  <2>1. \A d \in 2..Len(S) : /\ d \in 1..Len(S)
                             /\ \A b \in d..Len(S) : b \in 1..Len(S)
    BY <1>1
  <2>. QED  BY <1>1, <2>1 DEF Tells, LoopsStay
<1>3. M = "still" => Steady(R)
  <2>1. ASSUME NEW d \in 2..Len(S), SteadyAt(S, d) PROVE SteadyAt(R, d)
    <3>1. d \in 1..Len(S) /\ d - 1 \in 1..Len(S)
      BY <1>1
    <3>2. SameFlags(S, R, d - 1)
      BY <3>1 DEF Quiet
    <3>. QED  BY <1>1, <2>1, <3>1, <3>2 DEF SteadyAt, SameFlags, SameSaved
  <2>. QED  BY <1>1, <2>1 DEF Tells, Steady
<1>. QED
  BY <1>2, <1>3 DEF Tells

LEMMA CoversQuiet ==
    ASSUME NEW g, NEW S, NEW tx, NEW n, Stands(g, S, tx, n),
           NEW M, NEW W, Covers(M, g, S, W, tx, n), NEW t2,
           NEW h, Alike(g.frames, h.frames), NEW R, Quiet(S, R),
           Filled(h, Now(M, g.frames, S, Len(S)), W, t2, n)
    PROVE  Covers(M, h, R, W, t2, n)
<1>1. Filled(h, Now(M, h.frames, R, Len(R)), W, t2, n)
  BY NowQuiet
<1>2. Tells(M, R)
  BY TellsQuiet DEF Covers, Stands
<1>3. Kept(M, h.frames, R, W)
  <2>1. /\ SameShape(S, R) /\ SameSaved(S, R) /\ SameJumps(S, R, Len(S) - 1)
        /\ Len(S) \in Nat
    BY DEF Quiet, SameJumps, Stands
  <2>2. \A d \in 1..Len(S) : SameFlags(S, R, d) /\ NoneFilled(S, R, d)
    BY DEF Quiet, SameFlags, NoneFilled
  <2>3. \A d \in 1..(Len(S) - 2) : NoneFilled(S, R, d)
    BY <2>1, <2>2
  <2>4. \A d \in 2..Len(S) : S[d].kind = "loop" => \A b \in 1..(d - 1) : SameFlags(S, R, b)
    BY <2>1, <2>2
  <2>5. Kept(M, g.frames, S, W)
    BY DEF Covers
  <2>. QED  BY <2>1, <2>3, <2>4, <2>5, KeptStays
<1>. QED
  BY <1>1, <1>2, <1>3 DEF Covers

\* What was sure at the end of the code of g is so at the end of that of h.
Carries(g, h, X, tx, n) == \A W : Filled(g, X, W, tx, n) => Filled(h, X, W, tx, n)

LEMMA CarriesTwice ==
    ASSUME NEW g, NEW h, NEW k, NEW X, NEW tx, NEW n,
           Carries(g, h, X, tx, n), Carries(h, k, X, tx, n)
    PROVE  Carries(g, k, X, tx, n)
BY DEF Carries

\* An instruction that neither drops a value nor names a label.
Idle(i) == i.do \notin {"drop", "give", "jmp", "br", "label", "ret"}

LEMMA EmitCarries ==
    ASSUME NEW n, NEW g \in GenStates(n), NEW i \in Instrs(n), Idle(i), NEW X, NEW tx
    PROVE  Carries(g, Emit(g, <<i>>), X, tx, n)
<1>. SUFFICES ASSUME NEW W, Filled(g, X, W, tx, n)
              PROVE  Filled(Emit(g, <<i>>), X, W, tx, n)
  BY DEF Carries
<1>1. X \in SUBSET Int
  BY DEF Filled
<1>2. Asks(i, X, W, tx, n) /\ X \subseteq Refill(i, X, tx, n)
  BY DEF Asks, Refill, Idle
<1>3. Suits(i, X, X, W, tx, n)
  BY <1>2 DEF Suits
<1>. QED
  BY <1>1, <1>3, EmitFilled

\* The names that are visible.
LEMMA SymIs ==
    ASSUME NEW g, NEW S, NEW tx, NEW n, Stands(g, S, tx, n), NEW v \in Shown(S)
    PROVE  /\ v \in Names /\ g.sym[v] \in 1..n /\ g.sym[v] <= Len(tx)
           /\ tx[g.sym[v]].v = v
           /\ \E d \in 1..Len(S) : v \in DOMAIN S[d].syms
<1>1. PICK d \in 1..Len(S) : v \in DOMAIN S[d].syms
  BY DEF Shown, Stands
<1>0. PICK k : EntryFor(g, S, d, v, k)
  BY <1>1, EntryOfSymbol
<1>2. PICK j \in 1..Len(g.frames[d].entries) :
         g.frames[d].entries[j].name = v /\ g.frames[d].entries[j].slot = g.sym[v]
  BY <1>0 DEF EntryFor
<1>. DEFINE e == g.frames[d].entries[j]
<1>3. /\ e.slot \in 1..n /\ e.slot <= Len(tx) /\ tx[e.slot].v = e.name /\ e.name \in Names
  BY EntryIs
<1>. QED
  BY <1>1, <1>2, <1>3

\* The statement s is compiled to h, and the values are as they were.
LEMMA KnownQuiet ==
    ASSUME NEW g, NEW S, NEW tx, NEW n, Known(g, S, tx, n), NEW s \in Statements,
           Deepens(s.op) = 0,
           NEW h, NEW R, Stands(h, R, Append(tx, s), n),
           Alike(g.frames, h.frames), NoMoreEnds(g, h), Quiet(S, R),
           \A M \in Modes : Carries(g, h, Now(M, g.frames, S, Len(S)), Append(tx, s), n)
    PROVE  Known(h, R, Append(tx, s), n)
<1>1. Stands(g, S, tx, n) /\ Layout(g, S, tx)
  BY DEF Known
<1>2. tx \in Seq(Statements) /\ Len(g.frames) = Len(S)
  BY <1>1 DEF Stands, Named
<1>3. NoneDropped(S, R, h.frames)
  <2>1. SUFFICES ASSUME NEW d \in 1..Len(S), NEW j \in 1..Len(h.frames[d].entries),
                        h.frames[d].entries[j].how = "drop",
                        R[d].syms[h.frames[d].entries[j].name].moved
                 PROVE  S[d].syms[h.frames[d].entries[j].name].moved
    BY DEF NoneDropped
  <2>2. /\ j \in 1..Len(g.frames[d].entries)
        /\ h.frames[d].entries[j].name = g.frames[d].entries[j].name
        /\ g.frames[d].entries[j].how = "drop"
    BY <1>2, <2>1 DEF Alike
  <2>3. /\ g.frames[d].entries[j].name \in DOMAIN S[d].syms
        /\ Kind[g.frames[d].entries[j].name] = "value"
    BY SMTT(30), <1>1, <2>2, EntryIs
  <2>4. SameFlags(S, R, d)
    BY DEF Quiet
  <2>. QED
    BY <2>1, <2>2, <2>3, <2>4 DEF SameFlags
<1>4. Layout(h, R, Append(tx, s))
  BY <1>1, <1>3, LayoutStays DEF Quiet
<1>5. ASSUME NEW M \in Modes PROVE Carried(M, g, S, h, R, tx, s, n)
  <2>1. SUFFICES ASSUME NEW W, Covers(M, g, S, W, tx, n)
                 PROVE  Covers(M, h, R, W, Append(tx, s), n)
    BY DEF Carried
  <2>2. Filled(g, Now(M, g.frames, S, Len(S)), W, Append(tx, s), n)
    BY <1>2, <2>1, FilledExtends DEF Covers
  <2>3. Filled(h, Now(M, g.frames, S, Len(S)), W, Append(tx, s), n)
    BY <2>2 DEF Carries
  <2>. QED
    BY <1>1, <2>1, <2>3, CoversQuiet
<1>. QED
  BY <1>4, <1>5, KnownNext

LEMMA EmitEnds ==
    ASSUME NEW n, NEW g \in GenStates(n), NEW i \in Instrs(n), i.do \notin Control
    PROVE  LET h == Emit(g, <<i>>)
           IN  /\ h \in GenStates(n) /\ h.frames = g.frames
               /\ Alike(g.frames, h.frames) /\ NoMoreEnds(g, h)
<1>. DEFINE h == Emit(g, <<i>>)
<1>1. h \in GenStates(n) /\ Plain(g, h)
  BY EmitOne, EmitPlain
<1>2. g.frames \in Seq(Frames)
  BY GenType
<1>. HIDE DEF h
<1>3. h.frames = g.frames /\ Alike(g.frames, h.frames)
  BY <1>1, <1>2, AlikeSelf DEF Plain
<1>4. NoMoreEnds(g, h)
  BY <1>1 DEF Plain, NoMoreEnds
<1>. QED
  BY <1>1, <1>3, <1>4 DEF h

\* A use, a write through a pointer, a rebinding.
LEMMA KnownEmit ==
    ASSUME NEW g, NEW S, NEW tx, NEW n, Known(g, S, tx, n), NEW s \in Statements,
           Deepens(s.op) = 0, NEW i \in Instrs(n), Idle(i), NEW R, Quiet(S, R),
           Stands(Emit(g, <<i>>), R, Append(tx, s), n)
    PROVE  Known(Emit(g, <<i>>), R, Append(tx, s), n)
<1>1. g \in GenStates(n) /\ i.do \notin Control
  BY DEF Known, Stands, Idle, Control
<1>. DEFINE h == Emit(g, <<i>>)
<1>2. Alike(g.frames, h.frames) /\ NoMoreEnds(g, h)
  BY <1>1, EmitEnds
<1>3. \A M \in Modes : Carries(g, h, Now(M, g.frames, S, Len(S)), Append(tx, s), n)
  BY <1>1, EmitCarries
<1>4. Stands(h, R, Append(tx, s), n)
  OBVIOUS
<1>. HIDE DEF h
<1>5. Known(h, R, Append(tx, s), n)
  BY <1>2, <1>3, <1>4, KnownQuiet
<1>. QED
  BY <1>5 DEF h

LEMMA NoMoreTwice ==
    ASSUME NEW g, NEW h, NEW k, NoMoreEnds(g, h), NoMoreEnds(h, k) PROVE NoMoreEnds(g, k)
BY DEF NoMoreEnds

\* An assignment to a pointer with no # on the left.
LEMMA KnownPair ==
    ASSUME NEW g, NEW S, NEW tx, NEW n, Known(g, S, tx, n), NEW s \in Statements,
           Deepens(s.op) = 0, NEW i \in Instrs(n), Idle(i), NEW j \in Instrs(n), Idle(j),
           NEW R, Quiet(S, R), Stands(Emit(g, <<i, j>>), R, Append(tx, s), n)
    PROVE  Known(Emit(g, <<i, j>>), R, Append(tx, s), n)
<1>. DEFINE e  == Emit(g, <<i>>)
            h  == Emit(e, <<j>>)
            t2 == Append(tx, s)
<1>1. g \in GenStates(n) /\ i.do \notin Control /\ j.do \notin Control
  BY DEF Known, Stands, Idle, Control
<1>2. h = Emit(g, <<i, j>>)
  <2>1. <<i>> \o <<j>> = <<i, j>>
    BY PairIs
  <2>2. Emit(g, <<i>> \o <<j>>) = Emit(Emit(g, <<i>>), <<j>>)
    BY <1>1, EmitTwo
  <2>. QED  BY <2>1, <2>2
<1>3. e \in GenStates(n) /\ e.frames = g.frames /\ NoMoreEnds(g, e)
  BY <1>1, EmitEnds
<1>4. \A X : Carries(g, e, X, t2, n)
  BY <1>1, EmitCarries
<1>. HIDE DEF e, t2
<1>5. h \in GenStates(n) /\ h.frames = e.frames /\ NoMoreEnds(e, h)
  BY <1>1, <1>3, EmitEnds
<1>6. \A X : Carries(e, h, X, t2, n)
  BY <1>1, <1>3, EmitCarries
<1>7. Stands(h, R, t2, n)
  BY <1>2 DEF t2
<1>. HIDE DEF h
<1>8. Alike(g.frames, h.frames)
  <2>1. g.frames \in Seq(Frames)
    BY <1>1, GenType
  <2>. QED  BY <1>3, <1>5, <2>1, AlikeSelf
<1>9. NoMoreEnds(g, h)
  BY <1>3, <1>5, NoMoreTwice
<1>10. \A M \in Modes : Carries(g, h, Now(M, g.frames, S, Len(S)), t2, n)
  <2>. TAKE M \in Modes
  <2>. DEFINE X == Now(M, g.frames, S, Len(S))
  <2>. HIDE DEF X
  <2>1. Carries(g, h, X, t2, n)
    BY <1>4, <1>6, CarriesTwice
  <2>. QED  BY <2>1 DEF X
<1>11. Known(h, R, t2, n)
  BY <1>7, <1>8, <1>9, <1>10, KnownQuiet DEF t2
<1>. QED
  BY <1>2, <1>11 DEF t2

\* One with a #.
LEMMA KnownAssign ==
    ASSUME NEW g, NEW S, NEW tx, NEW n, Known(g, S, tx, n), NEW s \in Statements,
           Deepens(s.op) = 0, NEW i \in Instrs(n), Idle(i), NEW j \in Instrs(n), Idle(j),
           NEW k \in Instrs(n), Idle(k), NEW R, Quiet(S, R),
           Stands(Emit(g, <<i, j, k>>), R, Append(tx, s), n)
    PROVE  Known(Emit(g, <<i, j, k>>), R, Append(tx, s), n)
<1>. DEFINE e  == Emit(g, <<i>>)
            f  == Emit(e, <<j>>)
            h  == Emit(f, <<k>>)
            t2 == Append(tx, s)
<1>1. /\ g \in GenStates(n)
      /\ i.do \notin Control /\ j.do \notin Control /\ k.do \notin Control
  BY DEF Known, Stands, Idle, Control
<1>2. h = Emit(g, <<i, j, k>>)
  BY <1>1, EmitThree
<1>3. e \in GenStates(n) /\ e.frames = g.frames /\ NoMoreEnds(g, e)
  BY <1>1, EmitEnds
<1>4. \A X : Carries(g, e, X, t2, n)
  BY <1>1, EmitCarries
<1>. HIDE DEF e, t2
<1>5. f \in GenStates(n) /\ f.frames = e.frames /\ NoMoreEnds(e, f)
  BY <1>1, <1>3, EmitEnds
<1>6. \A X : Carries(e, f, X, t2, n)
  BY <1>1, <1>3, EmitCarries
<1>. HIDE DEF f
<1>7. h \in GenStates(n) /\ h.frames = f.frames /\ NoMoreEnds(f, h)
  BY <1>1, <1>5, EmitEnds
<1>8. \A X : Carries(f, h, X, t2, n)
  BY <1>1, <1>5, EmitCarries
<1>9. Stands(h, R, t2, n)
  BY <1>2 DEF t2
<1>. HIDE DEF h
<1>10. Alike(g.frames, h.frames)
  <2>1. g.frames \in Seq(Frames)
    BY <1>1, GenType
  <2>. QED  BY <1>3, <1>5, <1>7, <2>1, AlikeSelf
<1>11. NoMoreEnds(g, h)
  BY <1>3, <1>5, <1>7, NoMoreTwice
<1>12. \A M \in Modes : Carries(g, h, Now(M, g.frames, S, Len(S)), t2, n)
  <2>. TAKE M \in Modes
  <2>. DEFINE X == Now(M, g.frames, S, Len(S))
  <2>. HIDE DEF X
  <2>1. Carries(g, f, X, t2, n)
    BY <1>4, <1>6, CarriesTwice
  <2>2. Carries(g, h, X, t2, n)
    BY <1>8, <2>1, CarriesTwice
  <2>. QED  BY <2>2 DEF X
<1>13. Known(h, R, t2, n)
  BY <1>9, <1>10, <1>11, <1>12, KnownQuiet DEF t2
<1>. QED
  BY <1>2, <1>13 DEF t2

\* What is full is a value.
LEMMA NowValues ==
    ASSUME NEW g, NEW S, NEW tx, NEW n, Stands(g, S, tx, n), NEW k \in Sure(g.frames, S, Len(S))
    PROVE  k \in 1..n /\ k <= Len(tx) /\ Kind[tx[k].v] = "value"
<1>1. PICK d \in 1..Len(S) : k \in Full(g.frames, S, d)
  BY DEF Sure
<1>2. PICK j \in 1..Len(g.frames[d].entries) :
         /\ k = g.frames[d].entries[j].slot
         /\ Kind[g.frames[d].entries[j].name] = "value"
  BY <1>1 DEF Full, HeldIn
<1>. DEFINE e == g.frames[d].entries[j]
<1>3. e.slot \in 1..n /\ e.slot <= Len(tx) /\ tx[e.slot].v = e.name
  BY EntryIs
<1>. QED
  BY <1>2, <1>3

\* A unique pointer is given away.
LEMMA KnownGive ==
    ASSUME NEW g, NEW S, NEW tx, NEW n, Known(g, S, tx, n), NEW s \in Statements,
           Deepens(s.op) = 0, NEW v \in Shown(S), Kind[v] = "unique", NEW i \in Instrs(n),
           i.do = "give", i.slot = g.sym[v], NEW R, Quiet(S, R),
           Stands(Emit(g, <<i>>), R, Append(tx, s), n)
    PROVE  Known(Emit(g, <<i>>), R, Append(tx, s), n)
<1>0. Stands(g, S, tx, n)
  BY DEF Known
<1>1. g \in GenStates(n) /\ i.do \notin Control /\ tx \in Seq(Statements)
  BY <1>0 DEF Stands, Control
<1>. DEFINE h  == Emit(g, <<i>>)
            t2 == Append(tx, s)
<1>2. Alike(g.frames, h.frames) /\ NoMoreEnds(g, h)
  BY <1>1, EmitEnds
<1>3. ASSUME NEW M \in Modes
      PROVE  Carries(g, h, Now(M, g.frames, S, Len(S)), t2, n)
  <2>. DEFINE X == Now(M, g.frames, S, Len(S))
  <2>1. SUFFICES ASSUME NEW W, Filled(g, X, W, t2, n) PROVE Filled(h, X, W, t2, n)
    BY DEF Carries
  <2>2. /\ g.sym[v] \in 1..n /\ g.sym[v] <= Len(tx) /\ tx[g.sym[v]].v = v
    BY <1>0, SymIs
  <2>3. g.sym[v] \in SlotsOf(t2, n, {"unique"})
    <3>1. Len(t2) = Len(tx) + 1 /\ Len(tx) \in Nat /\ t2[g.sym[v]] = tx[g.sym[v]]
      BY <1>1, <2>2
    <3>. HIDE DEF t2
    <3>. QED  BY <2>2, <3>1 DEF SlotsOf
  <2>4. g.sym[v] \notin Sure(g.frames, S, Len(S))
    <3>1. g.sym[v] \in Sure(g.frames, S, Len(S)) => Kind[tx[g.sym[v]].v] = "value"
      BY <1>0, NowValues
    <3>. QED  BY <2>2, <3>1
  <2>5. X = Everything \/ i.slot \notin X
    BY <2>4 DEF Now
  <2>. HIDE DEF X, t2, h
  <2>6. Asks(i, X, W, t2, n)
    BY <2>3 DEF Asks
  <2>7. X \subseteq Refill(i, X, t2, n)
    BY <2>5 DEF Refill
  <2>8. Suits(i, X, X, W, t2, n) /\ X \in SUBSET Int
    BY <2>1, <2>6, <2>7 DEF Suits, Filled
  <2>. QED
    BY <1>1, <2>1, <2>8, EmitFilled DEF h
<1>4. Stands(h, R, t2, n)
  OBVIOUS
<1>. HIDE DEF h, t2
<1>5. Known(h, R, t2, n)
  BY <1>2, <1>3, <1>4, KnownQuiet DEF t2
<1>. QED
  BY <1>5 DEF h, t2

-----------------------------------------------------------------------------
(* Statements that move a value or fill it                                 *)

\* The entry of v drops nothing.
NoDrop(G, hi, v) == \A c \in 1..hi : \A j \in 1..Len(G[c].entries) :
    G[c].entries[j].name = v => G[c].entries[j].how = "none"

\* The entry of a value that was given away drops nothing.
LEMMA SuppressDrops ==
    ASSUME NEW g, NEW S, NEW tx, NEW n, Stands(g, S, tx, n),
           NEW d \in 1..Len(S), NEW v \in DOMAIN S[d].syms, Kind[v] = "value"
    PROVE  NoDrop(Suppress(g, v).frames, Len(S), v)
<1>. DEFINE F   == g.frames
            has == {i \in DOMAIN F : \E j \in DOMAIN F[i].entries : F[i].entries[j].name = v}
            b   == CHOOSE i \in has : \A k \in has : k <= i
            es  == [j \in DOMAIN F[d].entries |->
                      IF F[d].entries[j].name = v
                      THEN [F[d].entries[j] EXCEPT !.how = "none"]
                      ELSE F[d].entries[j]]
            G   == [F EXCEPT ![d] = [F[d] EXCEPT !.entries = es]]
<1>0. /\ F \in Seq(Frames) /\ Len(F) = Len(S) /\ DOMAIN F = 1..Len(S) /\ Len(S) \in Nat
      /\ g \in GenStates(n)
  BY GenType DEF Stands, Named
<1>1. \A c \in 1..Len(S) : /\ F[c].entries \in Seq(Entries)
                           /\ DOMAIN F[c].entries = 1..Len(F[c].entries)
                           /\ \A j \in 1..Len(F[c].entries) : F[c].entries[j] \in Entries
  <2>. TAKE c \in 1..Len(S)
  <2>1. F[c] \in Frames
    BY <1>0
  <2>2. F[c].entries \in Seq(Entries)
    BY <2>1 DEF Frames
  <2>3. \A q \in Seq(Entries) : DOMAIN q = 1..Len(q) /\ \A j \in 1..Len(q) : q[j] \in Entries
    OBVIOUS
  <2>. HIDE DEF F
  <2>. QED  BY <2>2, <2>3
<1>2. /\ \A c \in 1..Len(S) : \A k \in 1..Len(F[c].entries) : F[c].entries[k].name = v => c = d
      /\ \E j \in 1..Len(F[d].entries) : F[d].entries[j].name = v
  <2>1. PICK j : EntryFor(g, S, d, v, j)
    BY EntryOfSymbol
  <2>. QED  BY <2>1 DEF EntryFor
<1>4. has = {d}
  BY <1>0, <1>1, <1>2
<1>5. b = d
  <2>. HIDE DEF has
  <2>1. d \in has /\ (\A k \in has : k <= d) /\ \A k \in has : k = d
    BY <1>0, <1>4
  <2>. QED  BY <2>1
<1>6. Suppress(g, v).frames = [F EXCEPT ![b].entries =
         [j \in DOMAIN @ |-> IF @[j].name = v THEN [@[j] EXCEPT !.how = "none"] ELSE @[j]]]
  <2>1. Suppress(g, v).frames = Undropped(F, v)
    BY <1>0, SuppressFrames
  <2>. QED  BY <2>1 DEF Undropped
<1>7. Suppress(g, v).frames = G
  <2>. HIDE DEF b, has, F
  <2>. QED  BY <1>5, <1>6
<1>8. \A j \in 1..Len(F[d].entries) :
         /\ es[j].name = v => es[j].how = "none"
  BY <1>1 DEF Entries
<1>9. Len(es) = Len(F[d].entries)
  BY <1>1
<1>. HIDE DEF es
<1>10. /\ G[d].entries = es
       /\ \A c \in 1..Len(S) : c # d => G[c].entries = F[c].entries
  <2>1. F[d] \in Frames
    BY <1>0
  <2>. HIDE DEF F
  <2>. QED  BY <1>0, <2>1 DEF Frames
<1>. HIDE DEF G, F
<1>11. \A c \in 1..Len(S) : \A j \in 1..Len(G[c].entries) :
          G[c].entries[j].name = v => G[c].entries[j].how = "none"
  <2>. TAKE c \in 1..Len(S)
  <2>1. CASE c = d
    BY <1>8, <1>9, <1>10, <2>1
  <2>2. CASE c # d
    BY <1>2, <1>10, <2>2
  <2>. QED  BY <2>1, <2>2
<1>. QED
  BY <1>7, <1>11 DEF NoDrop

\* What is not moved is full; what is moved is not.
LEMMA FullHas ==
    ASSUME NEW g, NEW S, NEW tx, NEW n, Stands(g, S, tx, n),
           NEW d \in 1..Len(S), NEW v \in DOMAIN S[d].syms, Kind[v] = "value"
    PROVE  /\ g.sym[v] \in Full(g.frames, S, d) <=> ~S[d].syms[v].moved
           /\ \A c \in 1..Len(S) : c # d => g.sym[v] \notin Full(g.frames, S, c)
<1>0. PICK j : EntryFor(g, S, d, v, j)
  BY EntryOfSymbol
<1>1. /\ j \in 1..Len(g.frames[d].entries)
      /\ g.frames[d].entries[j].name = v
      /\ g.frames[d].entries[j].slot = g.sym[v]
      /\ \A b \in 1..Len(S) : \A k \in 1..Len(g.frames[b].entries) :
            (\/ g.frames[b].entries[k].name = v
             \/ g.frames[b].entries[k].slot = g.sym[v]) => b = d /\ k = j
  BY <1>0 DEF EntryFor
<1>2. MovedMap(S[d].syms)[v] = S[d].syms[v].moved
  BY DEF MovedMap
<1>. QED
  BY <1>1, <1>2 DEF Full, HeldIn

\* A value is given away.
LEMMA KnownCede ==
    ASSUME NEW g, NEW S, NEW tx, NEW n, Known(g, S, tx, n), NEW s \in Statements,
           Deepens(s.op) = 0, NEW d \in 1..Len(S), NEW v \in DOMAIN S[d].syms,
           Kind[v] = "value", MovesValue(s), ~S[d].syms[v].moved,
           NEW i \in Instrs(n), i.do = "give", i.slot = g.sym[v],
           NEW R, Sets(S, R, d, v, TRUE),
           Stands(Suppress(Emit(g, <<i>>), v), R, Append(tx, s), n)
    PROVE  Known(Suppress(Emit(g, <<i>>), v), R, Append(tx, s), n)
<1>0. Stands(g, S, tx, n) /\ Layout(g, S, tx)
  BY DEF Known
<1>1. /\ g \in GenStates(n) /\ i.do \notin Control /\ tx \in Seq(Statements)
      /\ S \in Seq(Scope) /\ Len(S) \in Nat /\ Len(g.frames) = Len(S)
  BY <1>0 DEF Stands, Control, Named
<1>. DEFINE e  == Emit(g, <<i>>)
            h  == Suppress(e, v)
            t2 == Append(tx, s)
            F  == g.frames
            G  == h.frames
<1>2. e \in GenStates(n) /\ e.frames = F /\ NoMoreEnds(g, e)
  BY <1>1, EmitEnds
<1>3. h \in GenStates(n) /\ Alike(e.frames, G) /\ h.code = e.code /\ h.live = e.live
  <2>. HIDE DEF e
  <2>. QED  BY <1>2, SuppressAlike
<1>4. Stands(h, R, t2, n)
  OBVIOUS
<1>5. NoDrop(G, Len(S), v)
  <2>1. Suppress(g, v).frames = Undropped(F, v) /\ G = Undropped(e.frames, v)
    <3>. HIDE DEF e
    <3>. QED  BY <1>1, <1>2, SuppressFrames
  <2>2. G = Suppress(g, v).frames
    BY <1>2, <2>1
  <2>3. NoDrop(Suppress(g, v).frames, Len(S), v)
    BY <1>0, SuppressDrops
  <2>. QED  BY <2>2, <2>3
<1>. HIDE DEF e, h, t2
<1>6. Alike(F, G) /\ NoMoreEnds(g, h)
  BY <1>2, <1>3 DEF NoMoreEnds
<1>7. SameShape(S, R) /\ SameSaved(S, R) /\ SameJumps(S, R, Len(S))
  BY DEF Sets
<1>8. \A c \in 1..Len(S) : NoneFilled(S, R, c)
  BY DEF Sets, NoneFilled
<1>9. NoneDropped(S, R, G)
  <2>1. ASSUME NEW c \in 1..Len(S), NEW j \in 1..Len(G[c].entries),
               R[c].syms[G[c].entries[j].name].moved,
               ~S[c].syms[G[c].entries[j].name].moved
        PROVE  G[c].entries[j].how # "drop"
    <3>1. G[c].entries[j].name \in DOMAIN R[c].syms
      <4>1. Len(R) = Len(S)
        BY <1>7 DEF SameShape
      <4>. QED  BY <1>4, <4>1, EntryIs
    <3>2. DOMAIN R[c].syms = DOMAIN S[c].syms
      BY <1>7 DEF SameShape
    <3>3. c = d /\ G[c].entries[j].name = v
      BY <2>1, <3>1, <3>2 DEF Sets
    <3>. QED  BY <1>5, <3>3 DEF NoDrop
  <2>. QED  BY <2>1 DEF NoneDropped
<1>10. Layout(h, R, t2)
  BY <1>0, <1>6, <1>7, <1>9, LayoutStays DEF t2
<1>11. ASSUME NEW M \in Modes, Clean(M, t2), NEW W, Covers(M, g, S, W, tx, n)
       PROVE  Covers(M, h, R, W, t2, n)
  <2>1. /\ \A b \in 2..Len(S) : S[b].kind # "loop"
        /\ M = "still" => \A b \in 2..Len(S) : S[b].kind \notin Branches
    BY <1>0, <1>11, CleanScopes DEF Layout, t2
  <2>2. /\ W \in [Nat \X Labels -> SUBSET Int] /\ Kept(M, F, S, W)
        /\ Filled(g, Now(M, F, S, Len(S)), W, tx, n)
    BY <1>11 DEF Covers
  <2>3. Kept(M, G, R, W)
    <3>1. SameJumps(S, R, Len(S) - 1)
      BY <1>1, <1>7 DEF SameJumps
    <3>2. \A b \in 1..(Len(S) - 2) : NoneFilled(S, R, b)
      BY <1>1, <1>8
    <3>3. \A b \in 2..Len(S) : S[b].kind = "loop" => \A c \in 1..(b - 1) : SameFlags(S, R, c)
      BY <2>1
    <3>. QED  BY <1>0, <1>6, <1>7, <2>2, <3>1, <3>2, <3>3, KeptStays
  <2>4. Tells(M, R)
    <3>1. \A b \in 2..Len(R) : b \in 2..Len(S) /\ R[b].kind = S[b].kind
      BY <1>1, <1>7 DEF SameShape
    <3>. QED  BY <2>1, <3>1 DEF Tells, LoopsStay, Steady, SteadyAt
  <2>5. Filled(h, Now(M, G, R, Len(R)), W, t2, n)
    <3>. DEFINE X == Now(M, F, S, Len(S))
                Y == Now(M, G, R, Len(R))
    <3>1. Filled(g, X, W, t2, n)
      BY <1>1, <2>2, FilledExtends DEF t2
    <3>2. Len(R) = Len(S) /\ (Ends(R, Len(R)) <=> Ends(S, Len(S)))
      BY <1>7 DEF SameShape, Ends, SameJumps
    <3>3. \A c \in 1..Len(S) : Full(G, R, c) \subseteq Full(F, S, c)
      BY <1>0, <1>6, <1>7, <1>8, FullLess
    <3>4. i.slot \in Sure(F, S, Len(S))
      <4>1. g.sym[v] \in Full(F, S, d)
        BY <1>0, FullHas
      <4>. QED  BY <4>1 DEF Sure
    <3>5. i.slot \notin Sure(G, R, Len(R))
      <4>1. \A c \in 1..Len(S) : c # d => i.slot \notin Full(F, S, c)
        BY <1>0, FullHas
      <4>2. i.slot \notin Full(G, R, d)
        <5>1. h.sym = g.sym
          <6>1. e.sym = g.sym
            BY <1>1, EmitPlain DEF Plain, e
          <6>2. h.sym = e.sym
            BY <1>2, SuppressAlike DEF h
          <6>. QED  BY <6>1, <6>2
        <5>2. d \in 1..Len(R) /\ v \in DOMAIN R[d].syms /\ R[d].syms[v].moved
          BY <1>7, <3>2 DEF SameShape, Sets
        <5>3. h.sym[v] \in Full(G, R, d) <=> ~R[d].syms[v].moved
          BY <1>4, <5>2, FullHas
        <5>. QED  BY <5>1, <5>2, <5>3
      <4>. QED  BY <3>2, <3>3, <4>1, <4>2 DEF Sure
    <3>6. Sure(G, R, Len(R)) \subseteq Sure(F, S, Len(S))
      BY <3>2, <3>3, SureLess
    <3>7. i.slot \in 0..n
      <4>1. n \in Nat /\ Len(S) \in 0..Len(S)
        BY <1>0, <1>1 DEF Stands
      <4>2. Sure(F, S, Len(S)) \subseteq 1..n
        BY <1>0, <4>1, FullType
      <4>. QED  BY <3>4, <4>1, <4>2
    <3>8. i.slot \in X /\ (X = Everything \/ Y \subseteq X \ {i.slot})
      <4>1. n \in Nat
        BY <1>0 DEF Stands
      <4>. QED  BY <3>2, <3>4, <3>5, <3>6, <3>7, <4>1 DEF Now, Everything
    <3>9. Y \in SUBSET Int
      <4>1. Len(R) \in 0..Len(R)
        BY <1>1, <3>2
      <4>. QED  BY <1>4, <4>1, FullType
    <3>. HIDE DEF X, Y
    <3>10. Asks(i, X, W, t2, n)
      BY <3>8 DEF Asks
    <3>11. Y \subseteq Refill(i, X, t2, n)
      BY <3>8, <3>9 DEF Refill, Everything
    <3>12. Suits(i, X, Y, W, t2, n)
      BY <3>10, <3>11 DEF Suits
    <3>13. Filled(e, Y, W, t2, n)
      BY <1>1, <3>1, <3>9, <3>12, EmitFilled DEF e
    <3>14. Filled(h, Y, W, t2, n)
      BY <1>3, <3>13 DEF Filled
    <3>. QED  BY <3>14 DEF Y
  <2>. QED  BY <2>2, <2>3, <2>4, <2>5 DEF Covers
<1>12. \A M \in Modes : Clean(M, t2) => Carried(M, g, S, h, R, tx, s, n)
  BY <1>11 DEF Carried, t2
<1>13. Known(h, R, t2, n)
  BY <1>4, <1>10, <1>12, KnownNext DEF t2
<1>. QED
  BY <1>13 DEF h, e, t2

\* A value is written.
LEMMA KnownFill ==
    ASSUME NEW g, NEW S, NEW tx, NEW n, Known(g, S, tx, n), NEW s \in Statements,
           Deepens(s.op) = 0, NEW d \in 1..Len(S), NEW v \in DOMAIN S[d].syms,
           Kind[v] = "value", MovesValue(s), s.op = "write",
           NEW i \in Instrs(n), i.do = "write", i.slot = g.sym[v],
           NEW R, Sets(S, R, d, v, FALSE),
           Stands(Emit(g, <<i>>), R, Append(tx, s), n)
    PROVE  Known(Emit(g, <<i>>), R, Append(tx, s), n)
<1>0. Stands(g, S, tx, n) /\ Layout(g, S, tx)
  BY DEF Known
<1>1. /\ g \in GenStates(n) /\ i.do \notin Control /\ tx \in Seq(Statements) /\ n \in Nat
      /\ S \in Seq(Scope) /\ Len(S) \in Nat /\ Len(g.frames) = Len(S)
  BY <1>0 DEF Stands, Control, Named
<1>. DEFINE h  == Emit(g, <<i>>)
            t2 == Append(tx, s)
            F  == g.frames
<1>2. h \in GenStates(n) /\ h.frames = F /\ Alike(F, h.frames) /\ NoMoreEnds(g, h)
  BY <1>1, EmitEnds
<1>3. Stands(h, R, t2, n)
  OBVIOUS
<1>. HIDE DEF h, t2
<1>4. /\ SameShape(S, R) /\ SameSaved(S, R) /\ SameJumps(S, R, Len(S))
      /\ ~R[d].syms[v].moved
  BY DEF Sets
<1>5. NoneDropped(S, R, h.frames)
  <2>1. ASSUME NEW c \in 1..Len(S), NEW j \in 1..Len(h.frames[c].entries),
               R[c].syms[h.frames[c].entries[j].name].moved,
               ~S[c].syms[h.frames[c].entries[j].name].moved
        PROVE  FALSE
    <3>1. h.frames[c].entries[j].name \in DOMAIN S[c].syms
      BY <1>0, <1>2, EntryIs
    <3>. QED  BY <1>4, <2>1, <3>1 DEF Sets
  <2>. QED  BY <2>1 DEF NoneDropped
<1>6. Layout(h, R, t2)
  BY <1>0, <1>2, <1>4, <1>5, LayoutStays DEF t2
<1>7. Sure(h.frames, R, Len(R)) \subseteq Sure(F, S, Len(S)) \cup {i.slot}
  <2>1. Len(R) = Len(S)
    BY <1>4 DEF SameShape
  <2>2. SUFFICES ASSUME NEW c \in 1..Len(S), NEW k \in Full(F, R, c), k # i.slot
                 PROVE  k \in Full(F, S, c)
    BY <1>2, <2>1 DEF Sure
  <2>3. PICK j \in 1..Len(F[c].entries) :
           /\ k = F[c].entries[j].slot /\ Kind[F[c].entries[j].name] = "value"
           /\ ~MovedMap(R[c].syms)[F[c].entries[j].name]
    BY <2>2 DEF Full, HeldIn
  <2>. DEFINE u == F[c].entries[j].name
  <2>4. u \in DOMAIN S[c].syms /\ g.sym[u] = k
    <3>1. LET e == g.frames[c].entries[j]
          IN  g.sym[e.name] = e.slot /\ e.name \in DOMAIN S[c].syms
      BY <1>0, EntryIs
    <3>. QED  BY <2>3, <3>1
  <2>5. u \in DOMAIN R[c].syms
    BY <1>4, <2>4 DEF SameShape
  <2>6. ~R[c].syms[u].moved
    BY <2>3, <2>5 DEF MovedMap
  <2>7. u # v
    BY <2>2, <2>4
  <2>8. ~S[c].syms[u].moved
    BY <2>4, <2>6, <2>7 DEF Sets
  <2>9. ~MovedMap(S[c].syms)[u]
    BY <2>4, <2>8 DEF MovedMap
  <2>. QED  BY <2>3, <2>9 DEF Full, HeldIn
<1>8. i.slot \in Values(t2, n)
  <2>1. v \in Shown(S)
    BY DEF Shown
  <2>2. g.sym[v] \in 1..n /\ g.sym[v] <= Len(tx) /\ tx[g.sym[v]].v = v
    BY <1>0, <2>1, SymIs
  <2>3. Len(t2) = Len(tx) + 1 /\ Len(tx) \in Nat /\ t2[g.sym[v]] = tx[g.sym[v]]
    BY <1>1, <2>2 DEF t2
  <2>. QED  BY <2>2, <2>3 DEF Values, SlotsOf
<1>9. ASSUME NEW M \in Modes, Clean(M, t2), NEW W, Covers(M, g, S, W, tx, n)
      PROVE  Covers(M, h, R, W, t2, n)
  <2>1. /\ Len(S) <= 2 /\ \A b \in 2..Len(S) : S[b].kind # "loop"
        /\ M = "still" => \A b \in 2..Len(S) : S[b].kind \notin Branches
    BY <1>0, <1>9, CleanScopes DEF Layout, t2
  <2>2. /\ W \in [Nat \X Labels -> SUBSET Int] /\ Kept(M, F, S, W)
        /\ Filled(g, Now(M, F, S, Len(S)), W, tx, n)
    BY <1>9 DEF Covers
  <2>3. Kept(M, h.frames, R, W)
    <3>1. SameJumps(S, R, Len(S) - 1)
      BY <1>1, <1>4 DEF SameJumps
    <3>2. \A b \in 1..(Len(S) - 2) : NoneFilled(S, R, b)
      BY <1>1, <2>1
    <3>3. \A b \in 2..Len(S) : S[b].kind = "loop" => \A c \in 1..(b - 1) : SameFlags(S, R, c)
      BY <2>1
    <3>. QED  BY <1>0, <1>2, <1>4, <2>2, <3>1, <3>2, <3>3, KeptStays
  <2>4. Tells(M, R)
    <3>1. \A b \in 2..Len(R) : b \in 2..Len(S) /\ R[b].kind = S[b].kind
      BY <1>1, <1>4 DEF SameShape
    <3>. QED  BY <2>1, <3>1 DEF Tells, LoopsStay, Steady, SteadyAt
  <2>5. Filled(h, Now(M, h.frames, R, Len(R)), W, t2, n)
    <3>. DEFINE X == Now(M, F, S, Len(S))
                Y == Now(M, h.frames, R, Len(R))
    <3>1. Filled(g, X, W, t2, n)
      BY <1>1, <2>2, FilledExtends DEF t2
    <3>2. Len(R) = Len(S) /\ (Ends(R, Len(R)) <=> Ends(S, Len(S)))
      BY <1>4 DEF SameShape, Ends, SameJumps
    <3>3. X = Everything \/ Y \subseteq X \cup {i.slot}
      BY <1>7, <3>2 DEF Now
    <3>4. Y \in SUBSET Int
      <4>1. Len(R) \in 0..Len(R)
        BY <1>1, <3>2
      <4>. QED  BY <1>3, <4>1, FullType
    <3>. HIDE DEF X, Y
    <3>5. Asks(i, X, W, t2, n)
      BY DEF Asks
    <3>6. Y \subseteq Refill(i, X, t2, n)
      BY <1>8, <3>3, <3>4 DEF Refill, Everything
    <3>7. Suits(i, X, Y, W, t2, n)
      BY <3>5, <3>6 DEF Suits
    <3>8. Filled(h, Y, W, t2, n)
      BY <1>1, <3>1, <3>4, <3>7, EmitFilled DEF h
    <3>. QED  BY <3>8 DEF Y
  <2>. QED  BY <2>2, <2>3, <2>4, <2>5 DEF Covers
<1>10. \A M \in Modes : Clean(M, t2) => Carried(M, g, S, h, R, tx, s, n)
  BY <1>9 DEF Carried, t2
<1>11. Known(h, R, t2, n)
  BY <1>3, <1>6, <1>10, KnownNext DEF t2
<1>. QED
  BY <1>11 DEF h, t2

\* R are the scopes S with v, which is not moved, declared in the innermost.
Grown(S, R, v) ==
    /\ Adds(S, R, v) /\ SameSaved(S, R) /\ SameJumps(S, R, Len(S))
    /\ ~R[Len(S)].syms[v].moved
    /\ \A d \in 1..Len(S) : SameFlags(S, R, d)

\* What is declared to be a value is made.
Makes(i, v, k) == Kind[v] = "value" => i.do = "new" /\ i.slot = k

\* The scopes around the innermost hold what they held, and it holds v as well.
LEMMA FullGrown ==
    ASSUME NEW g, NEW S, NEW tx, NEW n, Stands(g, S, tx, n),
           NEW v, NEW R, Grown(S, R, v), NEW k, NEW G, Extended(g.frames, G, EntryOf(v, k)),
           NEW d \in 1..Len(S)
    PROVE  /\ d # Len(S) => Full(G, R, d) = Full(g.frames, S, d)
           /\ \A x \in Full(G, R, d) : x \in Full(g.frames, S, d)
                                       \/ (x = k /\ Kind[v] = "value")
<1>. DEFINE F == g.frames
            m == MovedMap(S[d].syms)
            o == MovedMap(R[d].syms)
<1>1. /\ Len(F) = Len(S) /\ d \in 1..Len(F) /\ S \in Seq(Scope)
      /\ d # Len(S) => G[d].entries = F[d].entries
  BY DEF Stands, Named, Extended
<1>2. \A j \in 1..Len(F[d].entries) : F[d].entries[j].name \in DOMAIN S[d].syms
  BY EntryIs
<1>3. DOMAIN S[d].syms \subseteq DOMAIN R[d].syms
  BY DEF Grown, Adds
<1>4. \A u \in DOMAIN S[d].syms : Kind[u] = "value" => o[u] = m[u]
  <2>1. \A u \in DOMAIN S[d].syms : m[u] = S[d].syms[u].moved /\ o[u] = R[d].syms[u].moved
    BY <1>3 DEF MovedMap
  <2>2. SameFlags(S, R, d)
    BY DEF Grown
  <2>. QED  BY <2>1, <2>2 DEF SameFlags
<1>. HIDE DEF m, o
<1>5. HeldIn(F[d].entries, o) = HeldIn(F[d].entries, m)
  BY <1>2, <1>4 DEF HeldIn
<1>6. \A x \in HeldIn(G[d].entries, o) : x \in HeldIn(F[d].entries, o)
                                         \/ (x = k /\ Kind[v] = "value")
  <2>. SUFFICES ASSUME NEW x \in HeldIn(G[d].entries, o)
                PROVE  x \in HeldIn(F[d].entries, o) \/ (x = k /\ Kind[v] = "value")
    OBVIOUS
  <2>1. PICK j \in 1..Len(G[d].entries) :
           /\ x = G[d].entries[j].slot /\ Kind[G[d].entries[j].name] = "value"
           /\ ~o[G[d].entries[j].name]
    BY DEF HeldIn
  <2>2. \/ j \in 1..Len(F[d].entries) /\ G[d].entries[j] = F[d].entries[j]
        \/ G[d].entries[j] = EntryOf(v, k)
    <3>. HIDE DEF F
    <3>. QED  BY <1>1, ExtendedEntry DEF F
  <2>3. CASE j \in 1..Len(F[d].entries) /\ G[d].entries[j] = F[d].entries[j]
    BY <2>1, <2>3 DEF HeldIn
  <2>4. CASE G[d].entries[j] = EntryOf(v, k)
    BY <2>1, <2>4 DEF EntryOf
  <2>. QED  BY <2>2, <2>3, <2>4
<1>. QED
  BY <1>1, <1>5, <1>6 DEF Full, m, o

LEMMA KeptGrown ==
    ASSUME NEW g, NEW S, NEW tx, NEW n, Stands(g, S, tx, n), NEW M, NEW W,
           Kept(M, g.frames, S, W),
           NEW v, NEW R, Grown(S, R, v), NEW k, NEW G, Extended(g.frames, G, EntryOf(v, k))
    PROVE  Kept(M, G, R, W)
<1>. DEFINE F == g.frames
<1>1. Len(S) \in Nat /\ S \in Seq(Scope) /\ Len(F) = Len(S) /\ Len(R) = Len(S)
  BY DEF Stands, Named, Grown, Adds
<1>2. SUFFICES ASSUME NEW d \in 2..Len(S) PROVE KeptAt(M, G, R, W, d)
  BY <1>1 DEF Kept
<1>3. /\ d \in Nat /\ d > 1 /\ d \in 1..Len(S) /\ d - 1 \in 1..Len(S) /\ d - 1 # Len(S)
      /\ \A b \in 1..(d - 1) : b \in 1..Len(S) /\ b # Len(S)
      /\ \A b \in 1..(d - 2) : b \in 1..(d - 1)
  BY <1>1
<1>4. KeptAt(M, F, S, W, d)
  BY DEF Kept
<1>5. /\ R[d].kind = S[d].kind /\ G[d].at = F[d].at /\ R[d].thenJumps = S[d].thenJumps
      /\ R[d].before = S[d].before /\ R[d].then = S[d].then
      /\ \A b \in 1..(d - 1) : R[b].jumps = S[b].jumps
      /\ G[d - 1].entries = F[d - 1].entries
  BY <1>1, <1>3 DEF Grown, Adds, SameSaved, SameJumps, Extended
<1>6. \A b \in 1..(d - 1) : Full(G, R, b) = Full(F, S, b)
  BY <1>3, FullGrown
<1>7. HeldIn(G[d - 1].entries, Saved(R[d])) \subseteq HeldIn(F[d - 1].entries, Saved(S[d]))
  BY <1>5 DEF Saved
<1>8. \A b \in 1..(d - 2) : Full(G, R, b) \subseteq Full(F, S, b)
  BY <1>3, <1>6
<1>. HIDE DEF F
<1>. QED
  BY <1>3, <1>4, <1>5, <1>6, <1>7, <1>8, KeptAtSame

LEMMA TellsGrown ==
    ASSUME NEW S \in Seq(Scope), NEW v, NEW R, Grown(S, R, v), NEW M, Tells(M, S)
    PROVE  Tells(M, R)
<1>1. Len(S) \in Nat /\ Len(R) = Len(S)
  BY DEF Grown, Adds
<1>2. LoopsStay(S) => LoopsStay(R)
  <2>1. \A d \in 2..Len(S) : d \in 1..Len(S) /\ \A b \in d..Len(S) : b \in 1..Len(S)
    BY <1>1
  <2>. QED  BY <1>1, <2>1 DEF LoopsStay, Grown, Adds, SameJumps
<1>3. Steady(S) => Steady(R)
  <2>1. SUFFICES ASSUME Steady(S), NEW d \in 2..Len(S) PROVE SteadyAt(R, d)
    BY <1>1 DEF Steady
  <2>2. d \in 1..Len(S) /\ d - 1 \in 1..Len(S) /\ d - 1 # Len(S)
    BY <1>1
  <2>3. SteadyAt(S, d)
    BY <2>1 DEF Steady
  <2>4. /\ R[d].kind = S[d].kind /\ DOMAIN R[d - 1].syms = DOMAIN S[d - 1].syms
        /\ R[d].before = S[d].before /\ R[d].then = S[d].then
    BY <2>2 DEF Grown, Adds, SameSaved
  <2>5. SameFlags(S, R, d - 1)
    BY <2>2 DEF Grown
  <2>. QED  BY <2>3, <2>4, <2>5 DEF SteadyAt, SameFlags
<1>. QED
  BY <1>2, <1>3 DEF Tells

LEMMA LayoutGrown ==
    ASSUME NEW g, NEW S, NEW tx, NEW n, Stands(g, S, tx, n), Layout(g, S, tx),
           NEW s \in Statements, Deepens(s.op) = 0,
           NEW v, NEW R, Grown(S, R, v), NEW k,
           NEW h, Extended(g.frames, h.frames, EntryOf(v, k)), NoMoreEnds(g, h)
    PROVE  Layout(h, R, Append(tx, s))
<1>. DEFINE F == g.frames
            G == h.frames
<1>1. /\ Len(S) \in Nat /\ S \in Seq(Scope) /\ tx \in Seq(Statements)
      /\ Len(F) = Len(S) /\ Len(R) = Len(S) /\ Len(G) = Len(S)
      /\ \A d \in 1..Len(S) : G[d].at = F[d].at /\ G[d].kind = F[d].kind
  BY DEF Stands, Named, Grown, Adds, Extended
<1>2. Saves(R)
  <2>1. \A d \in 2..Len(S) : d \in 1..Len(S) /\ d - 1 \in 1..Len(S) /\ d - 1 # Len(S)
    BY <1>1
  <2>2. Saves(S)
    BY DEF Layout
  <2>3. ASSUME NEW d \in 2..Len(S)
        PROVE  /\ R[d].kind = S[d].kind /\ DOMAIN R[d - 1].syms = DOMAIN S[d - 1].syms
               /\ R[d].before = S[d].before /\ R[d].then = S[d].then
    BY <2>1 DEF Grown, Adds, SameSaved
  <2>. QED  BY <1>1, <2>2, <2>3 DEF Saves
<1>3. Spent(G, R)
  <2>1. SUFFICES ASSUME NEW d \in 1..Len(S), NEW j \in 1..Len(G[d].entries),
                        G[d].entries[j].how = "drop"
                 PROVE  Untouched(R, d, G[d].entries[j].name)
    BY <1>1 DEF Spent
  <2>2. \/ j \in 1..Len(F[d].entries) /\ G[d].entries[j] = F[d].entries[j]
        \/ d = Len(F) /\ G[d].entries[j] = EntryOf(v, k)
    <3>1. d \in 1..Len(F)
      BY <1>1
    <3>. HIDE DEF F
    <3>. QED  BY SMTT(30), <3>1, ExtendedEntry DEF F
  <2>3. CASE j \in 1..Len(F[d].entries) /\ G[d].entries[j] = F[d].entries[j]
    <3>. DEFINE u == F[d].entries[j].name
    <3>1. u \in DOMAIN S[d].syms /\ Kind[u] = "value"
      <4>1. LET e == g.frames[d].entries[j]
            IN  e.name \in DOMAIN S[d].syms /\ (e.how = "drop" => Kind[e.name] = "value")
        BY SMTT(30), <2>3, EntryIs
      <4>. QED  BY <2>1, <2>3, <4>1
    <3>2. Untouched(S, d, u)
      BY <2>1, <2>3 DEF Layout, Spent
    <3>3. SameFlags(S, R, d)
      BY DEF Grown
    <3>4. ~R[d].syms[u].moved
      BY <3>1, <3>2, <3>3 DEF Untouched, SameFlags
    <3>5. d < Len(S) => /\ R[d + 1].kind = S[d + 1].kind
                        /\ R[d + 1].before = S[d + 1].before
                        /\ R[d + 1].then = S[d + 1].then
      <4>1. d < Len(S) => d + 1 \in 1..Len(S)
        BY <1>1
      <4>. QED  BY <4>1 DEF Grown, Adds, SameSaved
    <3>. HIDE DEF u
    <3>6. Untouched(R, d, u)
      BY <1>1, <3>2, <3>4, <3>5 DEF Untouched
    <3>. QED  BY <2>3, <3>6 DEF u
  <2>4. CASE d = Len(F) /\ G[d].entries[j] = EntryOf(v, k)
    <3>1. G[d].entries[j].name = v
      BY <2>4 DEF EntryOf
    <3>2. ~R[d].syms[v].moved
      BY <1>1, <2>4 DEF Grown
    <3>3. ~(d < Len(R))
      BY <1>1, <2>4
    <3>. QED  BY <3>1, <3>2, <3>3 DEF Untouched
  <2>. QED
    BY <2>2, <2>3, <2>4
<1>4. Nested(G, Append(tx, s))
  <2>1. Nested(F, tx)
    BY DEF Layout
  <2>2. \A d \in 1..Len(G) : d <= Len(F) /\ G[d].at = F[d].at /\ Opener(G[d].kind) = Opener(F[d].kind)
    BY <1>1
  <2>3. Len(G) = Len(F) + Deepens(s.op)
    BY <1>1
  <2>. HIDE DEF F, G
  <2>. QED
    BY <1>1, <2>1, <2>2, <2>3, NestedNext
<1>5. EndFree(h)
  <2>1. SUFFICES ASSUME NEW d \in 1..Len(S), G[d].kind = "if"
                 PROVE  <<G[d].at, "end">> \notin Jumps(h.code) \cup Placed(h.code)
    BY <1>1 DEF EndFree
  <2>2. <<G[d].at, "end">> \notin Jumps(g.code) \cup Placed(g.code)
    BY <1>1, <2>1 DEF Layout, EndFree
  <2>3. <<G[d].at, "end">>[2] = "end"
    OBVIOUS
  <2>. QED
    BY <2>2, <2>3 DEF NoMoreEnds
<1>. QED
  BY <1>2, <1>3, <1>4, <1>5 DEF Layout

\* A declaration.
LEMMA KnownDeclare ==
    ASSUME NEW g, NEW S, NEW tx, NEW n, Known(g, S, tx, n), NEW s \in Statements,
           Deepens(s.op) = 0, NEW v \in Names, NEW i \in Instrs(n), Idle(i),
           NEW k \in Nat, Makes(i, v, k), NEW R, Grown(S, R, v),
           Stands(Register(Emit(g, <<i>>), v, k), R, Append(tx, s), n)
    PROVE  Known(Register(Emit(g, <<i>>), v, k), R, Append(tx, s), n)
<1>0. Stands(g, S, tx, n) /\ Layout(g, S, tx)
  BY DEF Known
<1>1. /\ g \in GenStates(n) /\ i.do \notin Control /\ tx \in Seq(Statements) /\ n \in Nat
      /\ S \in Seq(Scope) /\ Len(S) \in Nat /\ Len(S) > 0 /\ Len(g.frames) = Len(S)
  BY <1>0 DEF Stands, Control, Named, Idle
<1>. DEFINE e  == Emit(g, <<i>>)
            h  == Register(e, v, k)
            t2 == Append(tx, s)
            F  == g.frames
            G  == h.frames
<1>2. e \in GenStates(n) /\ e.frames = F /\ NoMoreEnds(g, e)
  BY <1>1, EmitEnds
<1>3. /\ Extended(e.frames, G, EntryOf(v, k)) /\ h.code = e.code /\ h.live = e.live
      /\ h.sym = [e.sym EXCEPT ![v] = k]
  <2>1. Len(e.frames) > 0
    BY <1>1, <1>2
  <2>. HIDE DEF e
  <2>. QED  BY <1>2, <2>1, RegisterExtends
<1>4. Stands(h, R, t2, n)
  OBVIOUS
<1>5. /\ Extended(F, G, EntryOf(v, k)) /\ NoMoreEnds(g, h)
  BY <1>2, <1>3 DEF NoMoreEnds
<1>. HIDE DEF e, h, t2
<1>6. Layout(h, R, t2)
  BY <1>0, <1>5, LayoutGrown DEF t2
<1>7. Len(R) = Len(S) /\ Len(G) = Len(S)
  BY <1>1, <1>5 DEF Grown, Adds, Extended
<1>8. \A x \in Sure(G, R, Len(R)) : x \in Sure(F, S, Len(S)) \/ (x = k /\ Kind[v] = "value")
  <2>. SUFFICES ASSUME NEW d \in 1..Len(S), NEW x \in Full(G, R, d)
                PROVE  x \in Sure(F, S, Len(S)) \/ (x = k /\ Kind[v] = "value")
    BY <1>7 DEF Sure
  <2>1. \A y \in Full(G, R, d) : y \in Full(F, S, d) \/ (y = k /\ Kind[v] = "value")
    BY <1>0, <1>5, FullGrown
  <2>. QED  BY <2>1 DEF Sure
<1>9. Kind[v] = "value" => k \in Values(t2, n)
  <2>1. /\ Len(R) \in 1..Len(R) /\ v \in DOMAIN R[Len(R)].syms
    <3>1. Len(S) \in 1..Len(S)
      BY <1>1
    <3>2. Adds(S, R, v)
      BY DEF Grown
    <3>3. DOMAIN R[Len(S)].syms = DOMAIN S[Len(S)].syms \cup {v}
      BY <3>1, <3>2 DEF Adds
    <3>. QED  BY <1>7, <3>1, <3>3
  <2>2. v \in Shown(R)
    <3>1. Len(R) \in DOMAIN R
      BY <1>4, <2>1 DEF Stands
    <3>. QED  BY <2>1, <3>1 DEF Shown
  <2>3. h.sym[v] \in 1..n /\ h.sym[v] <= Len(t2) /\ t2[h.sym[v]].v = v
    BY <1>4, <2>2, SymIs
  <2>4. h.sym[v] = k
    <3>1. e.sym \in [Names -> Nat]
      BY <1>2, GenType
    <3>. QED  BY <1>3, <3>1
  <2>. QED  BY <2>3, <2>4 DEF Values, SlotsOf
<1>10. ASSUME NEW M \in Modes, NEW W, Covers(M, g, S, W, tx, n)
       PROVE  Covers(M, h, R, W, t2, n)
  <2>2. /\ W \in [Nat \X Labels -> SUBSET Int] /\ Kept(M, F, S, W) /\ Tells(M, S)
        /\ Filled(g, Now(M, F, S, Len(S)), W, tx, n)
    BY <1>10 DEF Covers
  <2>3. Kept(M, G, R, W)
    BY <1>0, <1>5, <2>2, KeptGrown
  <2>4. Tells(M, R)
    BY <1>1, <2>2, TellsGrown
  <2>5. Filled(h, Now(M, G, R, Len(R)), W, t2, n)
    <3>. DEFINE X == Now(M, F, S, Len(S))
                Y == Now(M, G, R, Len(R))
    <3>1. Filled(g, X, W, t2, n)
      BY <1>1, <2>2, FilledExtends DEF t2
    <3>2. Ends(R, Len(R)) <=> Ends(S, Len(S))
      BY <1>7 DEF Ends, SameJumps, Grown
    <3>3. X = Everything \/ \A x \in Y : x \in X \/ (x = k /\ Kind[v] = "value")
      BY <1>8, <3>2 DEF Now
    <3>4. Y \in SUBSET Int
      <4>1. Len(R) \in 0..Len(R)
        BY <1>1, <1>7
      <4>. QED  BY <1>4, <4>1, FullType
    <3>. HIDE DEF X, Y
    <3>5. Asks(i, X, W, t2, n)
      BY DEF Asks, Idle
    <3>6. Y \subseteq Refill(i, X, t2, n)
      <4>1. Kind[v] = "value" => i.do = "new" /\ i.slot = k
        BY DEF Makes
      <4>2. X = Everything => Refill(i, X, t2, n) = X
        BY DEF Refill
      <4>3. X \subseteq Refill(i, X, t2, n)
        BY DEF Refill, Idle
      <4>4. Kind[v] = "value" /\ X # Everything => k \in Refill(i, X, t2, n)
        BY <1>9, <4>1 DEF Refill
      <4>. QED  BY <3>3, <3>4, <4>2, <4>3, <4>4 DEF Everything
    <3>7. Suits(i, X, Y, W, t2, n)
      BY <3>5, <3>6 DEF Suits
    <3>8. Filled(e, Y, W, t2, n)
      BY <1>1, <3>1, <3>4, <3>7, EmitFilled DEF e
    <3>9. Filled(h, Y, W, t2, n)
      BY <1>3, <3>8 DEF Filled
    <3>. QED  BY <3>9 DEF Y
  <2>. QED  BY <2>2, <2>3, <2>4, <2>5 DEF Covers
<1>11. \A M \in Modes : Clean(M, t2) => Carried(M, g, S, h, R, tx, s, n)
  BY <1>10 DEF Carried, t2
<1>12. Known(h, R, t2, n)
  BY <1>4, <1>6, <1>11, KnownNext DEF t2
<1>. QED
  BY <1>12 DEF h, e, t2

-----------------------------------------------------------------------------
(* Statements that jump                                                    *)

LEMMA DroppedPlain ==
    ASSUME NEW n, NEW g \in GenStates(n), NEW e \in Entries, NEW tx, EntryFits(e, tx, n),
           NEW at \in Nat
    PROVE  LET h == Dropped(g, e, at) IN h \in GenStates(n) /\ Plain(g, h)
<1>. DEFINE i == [do |-> e.how, slot |-> e.slot, at |-> at]
<1>1. e.how \in {"none", "drop", "release"}
  BY DEF Entries
<1>2. CASE e.how = "none"
  BY <1>2 DEF Dropped, Plain
<1>3. CASE e.how # "none"
  <2>1. e.slot \in 0..n
    <3>1. e.slot \in 1..n
      BY <1>1, <1>3 DEF EntryFits, SlotsOf
    <3>. QED  BY <3>1
  <2>2. i \in Instrs(n) /\ i.do \notin Control
    BY <1>1, <1>3, <2>1 DEF Instrs, Control
  <2>. HIDE DEF i
  <2>3. Emit(g, <<i>>) \in GenStates(n) /\ Plain(g, Emit(g, <<i>>))
    BY <2>2, EmitOne, EmitPlain
  <2>4. Dropped(g, e, at) = Emit(g, <<i>>)
    BY <1>3 DEF Dropped, i
  <2>. QED  BY <2>3, <2>4
<1>. QED
  BY <1>2, <1>3

LEMMA CleanupPlain ==
    ASSUME NEW n, NEW g \in GenStates(n), NEW entries \in Seq(Entries), NEW tx,
           \A j \in 1..Len(entries) : EntryFits(entries[j], tx, n), NEW at \in Nat
    PROVE  LET h == Cleanup(g, entries, at) IN h \in GenStates(n) /\ Plain(g, h)
<1>. DEFINE b == Len(entries)
<1>1. PICK f : Cleans(f, g, entries, at)
  BY CleanupIs
<1>2. /\ f[b] = g
      /\ \A k \in 0..(b - 1) : f[k] = Dropped(f[k + 1], entries[k + 1], at)
      /\ Cleanup(g, entries, at) = f[0]
  BY <1>1 DEF Cleans
<1>. DEFINE S == {m \in 0..b : f[m] \in GenStates(n) /\ Plain(g, f[m])}
<1>0. b \in Nat /\ \A j \in 1..b : entries[j] \in Entries
  OBVIOUS
<1>3. b \in S
  <2>1. b \in 0..b /\ Plain(g, g)
    BY <1>0 DEF Plain
  <2>. HIDE DEF b
  <2>. QED  BY <1>2, <2>1
<1>4. ASSUME NEW m \in 0..b, m \in S, 0 < m PROVE m - 1 \in S
  <2>1. m \in 1..b /\ m - 1 \in 0..(b - 1) /\ m - 1 + 1 = m /\ m - 1 \in 0..b
    BY <1>0, <1>4
  <2>2. f[m - 1] = Dropped(f[m], entries[m], at)
    BY <1>2, <2>1
  <2>3. f[m] \in GenStates(n) /\ Plain(g, f[m])
    BY <1>4
  <2>4. entries[m] \in Entries /\ EntryFits(entries[m], tx, n)
    BY <1>0, <2>1
  <2>5. Dropped(f[m], entries[m], at) \in GenStates(n)
        /\ Plain(f[m], Dropped(f[m], entries[m], at))
    BY <2>3, <2>4, DroppedPlain
  <2>6. Plain(g, f[m - 1])
    BY <2>2, <2>3, <2>5, PlainIsTransitive
  <2>. QED  BY <2>1, <2>2, <2>5, <2>6
<1>. HIDE DEF S, b
<1>5. \A m \in 0..b : m \in S
  BY <1>0, <1>3, <1>4, DownTo
<1>6. 0 \in S
  BY <1>0, <1>5
<1>. QED
  BY <1>2, <1>6 DEF S

LEMMA UnwindPlain ==
    ASSUME NEW n, NEW g \in GenStates(n), NEW tx, FramesFit(g.frames, tx, n),
           NEW depth \in 0..Len(g.frames), NEW at \in Nat
    PROVE  LET h == Unwind(g, depth, at) IN h \in GenStates(n) /\ Plain(g, h)
<1>. DEFINE b == Len(g.frames)
<1>0. g.frames \in Seq(Frames) /\ b \in Nat /\ depth \in Nat /\ depth <= b
  BY GenType
<1>1. PICK f : Unwinds(f, g, depth, at)
  BY <1>0, UnwindIs
<1>2. /\ f[b] = g
      /\ \A k \in depth..(b - 1) : f[k] = Cleanup(f[k + 1], g.frames[k + 1].entries, at)
      /\ Unwind(g, depth, at) = f[depth]
  BY <1>1 DEF Unwinds
<1>. DEFINE S == {m \in depth..b : f[m] \in GenStates(n) /\ Plain(g, f[m])}
<1>3. b \in S
  <2>1. b \in depth..b /\ Plain(g, g)
    BY <1>0 DEF Plain
  <2>. HIDE DEF b
  <2>. QED  BY <1>2, <2>1
<1>4. ASSUME NEW m \in depth..b, m \in S, depth < m PROVE m - 1 \in S
  <2>. DEFINE es == g.frames[m].entries
  <2>1. m \in 1..b /\ m - 1 \in depth..(b - 1) /\ m - 1 + 1 = m /\ m - 1 \in depth..b
    BY <1>0, <1>4
  <2>2. f[m - 1] = Cleanup(f[m], es, at)
    BY <1>2, <2>1
  <2>3. f[m] \in GenStates(n) /\ Plain(g, f[m])
    BY <1>4
  <2>4. es \in Seq(Entries)
    <3>1. g.frames[m] \in Frames
      BY <1>0, <2>1
    <3>. QED  BY <3>1 DEF Frames
  <2>5. \A j \in 1..Len(es) : EntryFits(es[j], tx, n)
    BY <2>1 DEF FramesFit
  <2>. HIDE DEF es
  <2>6. Cleanup(f[m], es, at) \in GenStates(n) /\ Plain(f[m], Cleanup(f[m], es, at))
    BY <2>3, <2>4, <2>5, CleanupPlain
  <2>7. Plain(g, f[m - 1])
    BY <2>2, <2>3, <2>6, PlainIsTransitive
  <2>. QED  BY <2>1, <2>2, <2>6, <2>7
<1>. HIDE DEF S, b
<1>5. \A m \in depth..b : m \in S
  BY <1>0, <1>3, <1>4, DownTo
<1>6. depth \in S
  BY <1>0, <1>5
<1>. QED
  BY <1>2, <1>6 DEF S

\* R are the scopes S after a jump from the innermost.
Leaps(S, R) ==
    /\ SameShape(S, R) /\ SameSaved(S, R) /\ SameJumps(S, R, Len(S) - 1)
    /\ \A d \in 1..Len(S) : R[d].syms = S[d].syms

LEMMA JumpingLeaps ==
    ASSUME NEW S \in Seq(Scope), Len(S) > 0 PROVE Leaps(S, Jumping(S))
<1>. DEFINE R  == Jumping(S)
            sc == [S[Len(S)] EXCEPT !.jumps = TRUE, !.dead = TRUE]
<1>1. Len(S) \in 1..Len(S) /\ S[Len(S)] \in Scope /\ Len(S) \in Nat
  OBVIOUS
<1>2. /\ sc.syms = S[Len(S)].syms /\ sc.before = S[Len(S)].before
      /\ sc.then = S[Len(S)].then /\ sc.thenJumps = S[Len(S)].thenJumps
  BY <1>1 DEF Scope
<1>3. Jumping(S) = [S EXCEPT ![Len(S)] = sc]
  BY <1>1 DEF Jumping
<1>4. SameShape(S, R)
  BY JumpingShape
<1>. HIDE DEF sc
<1>5. /\ R[Len(S)] = sc
      /\ \A d \in 1..Len(S) : d # Len(S) => R[d] = S[d]
  BY <1>1, <1>3
<1>. HIDE DEF R
<1>6. SameSaved(S, R) /\ \A d \in 1..Len(S) : R[d].syms = S[d].syms
  BY <1>2, <1>5 DEF SameSaved
<1>7. SameJumps(S, R, Len(S) - 1)
  BY <1>1, <1>5 DEF SameJumps
<1>. QED
  BY <1>4, <1>6, <1>7 DEF Leaps, R

\* The code jumps away, whatever is asked of its end.
LeapsOn(M, g, S, h, tx, t2, n) ==
    \A W : Covers(M, g, S, W, tx, n) => \A Y \in SUBSET Int : Filled(h, Y, W, t2, n)

LEMMA KnownLeap ==
    ASSUME NEW g, NEW S, NEW tx, NEW n, Known(g, S, tx, n), NEW s \in Statements,
           Deepens(s.op) = 0, s.op \in JumpOps, NEW R, Leaps(S, R),
           NEW h, Stands(h, R, Append(tx, s), n),
           Alike(g.frames, h.frames), NoMoreEnds(g, h),
           \A M \in Modes : Clean(M, Append(tx, s)) => LeapsOn(M, g, S, h, tx, Append(tx, s), n)
    PROVE  Known(h, R, Append(tx, s), n)
<1>0. Stands(g, S, tx, n) /\ Layout(g, S, tx)
  BY DEF Known
<1>1. /\ S \in Seq(Scope) /\ Len(S) \in Nat /\ Len(S) > 0
  BY <1>0 DEF Stands
<1>. DEFINE t2 == Append(tx, s)
            G  == h.frames
<1>. HIDE DEF t2
<1>2. /\ SameShape(S, R) /\ SameSaved(S, R) /\ SameJumps(S, R, Len(S) - 1)
      /\ \A d \in 1..Len(S) : R[d].syms = S[d].syms
      /\ Len(R) = Len(S) /\ \A d \in 1..Len(S) : R[d].kind = S[d].kind
  BY DEF Leaps, SameShape
<1>3. \A d \in 1..Len(S) : SameFlags(S, R, d) /\ NoneFilled(S, R, d)
  BY <1>2 DEF SameFlags, NoneFilled
<1>4. NoneDropped(S, R, G)
  BY <1>2 DEF NoneDropped
<1>5. Layout(h, R, t2)
  BY <1>0, <1>2, <1>4, LayoutStays DEF t2
<1>6. ASSUME NEW M \in Modes, Clean(M, t2), NEW W, Covers(M, g, S, W, tx, n)
      PROVE  Covers(M, h, R, W, t2, n)
  <2>1. M = "calm" => \A b \in 2..Len(S) : S[b].kind # "loop"
    BY <1>0, <1>6, CleanScopes DEF Layout, t2
  <2>2. W \in [Nat \X Labels -> SUBSET Int] /\ Kept(M, g.frames, S, W) /\ Tells(M, S)
    BY <1>6 DEF Covers
  <2>3. Kept(M, G, R, W)
    <3>1. \A b \in 1..(Len(S) - 2) : NoneFilled(S, R, b)
      BY <1>1, <1>3
    <3>2. \A b \in 2..Len(S) : S[b].kind = "loop" => \A c \in 1..(b - 1) : SameFlags(S, R, c)
      BY <1>1, <1>3
    <3>. QED  BY <1>0, <1>2, <2>2, <3>1, <3>2, KeptStays
  <2>4. Tells(M, R)
    <3>1. \A b \in 2..Len(S) : b \in 1..Len(S) /\ b - 1 \in 1..Len(S)
      BY <1>1
    <3>2. M = "calm" => LoopsStay(R)
      BY <1>2, <2>1, <3>1 DEF LoopsStay
    <3>3. Steady(S) => Steady(R)
      BY <1>2, <3>1 DEF Steady, SteadyAt, SameSaved
    <3>. QED  BY <2>2, <3>2, <3>3 DEF Tells
  <2>5. Now(M, G, R, Len(R)) \in SUBSET Int
    <3>1. Len(R) \in 0..Len(R)
      BY <1>1, <1>2
    <3>. QED  BY <3>1, FullType
  <2>6. Filled(h, Now(M, G, R, Len(R)), W, t2, n)
    <3>1. LeapsOn(M, g, S, h, tx, t2, n)
      BY <1>6 DEF t2
    <3>. QED  BY <1>6, <2>5, <3>1 DEF LeapsOn
  <2>. QED  BY <2>2, <2>3, <2>4, <2>6 DEF Covers
<1>7. \A M \in Modes : Clean(M, t2) => Carried(M, g, S, h, R, tx, s, n)
  BY <1>6 DEF Carried, t2
<1>8. Known(h, R, t2, n)
  BY <1>5, <1>7, KnownNext DEF t2
<1>. QED
  BY <1>8 DEF t2

LEMMA FitAlike ==
    ASSUME NEW g, NEW S, NEW tx, NEW n, Stands(g, S, tx, n), NEW s \in Statements,
           NEW G, Alike(g.frames, G)
    PROVE  FramesFit(G, Append(tx, s), n)
<1>. DEFINE F  == g.frames
            t2 == Append(tx, s)
<1>1. FramesFit(F, tx, n) /\ tx \in Seq(Statements)
  BY DEF Stands
<1>2. /\ Len(G) = Len(F)
      /\ \A d \in 1..Len(F) : Len(G[d].entries) = Len(F[d].entries)
      /\ \A d \in 1..Len(F) : \A j \in 1..Len(F[d].entries) :
            /\ G[d].entries[j].slot = F[d].entries[j].slot
            /\ \/ G[d].entries[j].how = F[d].entries[j].how
               \/ G[d].entries[j].how = "none"
  BY DEF Alike
<1>3. \A kinds : SlotsOf(tx, n, kinds) \subseteq SlotsOf(t2, n, kinds)
  <2>1. /\ Len(t2) = Len(tx) + 1 /\ Len(tx) \in Nat
        /\ \A k \in 1..Len(tx) : t2[k] = tx[k]
    BY <1>1
  <2>. HIDE DEF t2
  <2>. QED  BY <2>1 DEF SlotsOf
<1>. HIDE DEF F, t2
<1>4. ASSUME NEW d \in 1..Len(G), NEW j \in 1..Len(G[d].entries)
      PROVE  /\ EntryFits(G[d].entries[j], t2, n)
             /\ \A b \in 1..Len(G) : \A k \in 1..Len(G[b].entries) :
                   G[b].entries[k].slot = G[d].entries[j].slot => b = d /\ k = j
  <2>1. d \in 1..Len(F) /\ j \in 1..Len(F[d].entries)
    BY <1>2
  <2>2. EntryFits(F[d].entries[j], tx, n)
    BY <1>1, <2>1 DEF FramesFit
  <2>3. EntryFits(G[d].entries[j], t2, n)
    BY <1>2, <1>3, <2>1, <2>2 DEF EntryFits
  <2>4. \A b \in 1..Len(F) : \A k \in 1..Len(F[b].entries) :
           F[b].entries[k].slot = F[d].entries[j].slot => b = d /\ k = j
    BY <1>1, <2>1 DEF FramesFit
  <2>5. ASSUME NEW b \in 1..Len(G), NEW k \in 1..Len(G[b].entries),
               G[b].entries[k].slot = G[d].entries[j].slot
        PROVE  b = d /\ k = j
    <3>1. b \in 1..Len(F) /\ k \in 1..Len(F[b].entries)
      BY <1>2
    <3>2. F[b].entries[k].slot = F[d].entries[j].slot
      BY <1>2, <2>1, <2>5, <3>1
    <3>. QED  BY <2>4, <3>1, <3>2
  <2>. QED  BY <2>3, <2>5
<1>. QED
  BY <1>4 DEF FramesFit, t2

\* The code of a return: x has the value in the register.
LEMMA KnownRet ==
    ASSUME NEW g, NEW S, NEW tx, NEW n, Known(g, S, tx, n), NEW s \in Statements,
           Deepens(s.op) = 0, s.op \in JumpOps, NEW R, Leaps(S, R),
           NEW x \in GenStates(n), Alike(g.frames, x.frames), NoMoreEnds(g, x),
           \A M \in Modes : Carries(g, x, Now(M, g.frames, S, Len(S)), Append(tx, s), n),
           NEW i \in Instrs(n), i.do = "ret", NEW at \in Nat,
           Stands(Stop(Emit(Unwind(x, 0, at), <<i>>)), R, Append(tx, s), n)
    PROVE  Known(Stop(Emit(Unwind(x, 0, at), <<i>>)), R, Append(tx, s), n)
<1>. DEFINE y  == Unwind(x, 0, at)
            z  == Emit(y, <<i>>)
            h  == Stop(z)
            t2 == Append(tx, s)
            F  == g.frames
<1>0. /\ Stands(g, S, tx, n) /\ Spent(F, S) /\ tx \in Seq(Statements) /\ Len(F) = Len(S)
      /\ g \in GenStates(n) /\ Len(S) \in Nat /\ S \in Seq(Scope)
  <2>1. Stands(g, S, tx, n) /\ Spent(F, S)
    BY DEF Known, Layout
  <2>2. tx \in Seq(Statements) /\ Len(F) = Len(S) /\ g \in GenStates(n) /\ S \in Seq(Scope)
    BY <2>1 DEF Stands, Named
  <2>. QED  BY <2>1, <2>2
<1>1. FramesFit(x.frames, t2, n)
  BY <1>0, FitAlike
<1>2. 0 \in 0..Len(x.frames) /\ Len(x.frames) = Len(F)
  BY <1>0 DEF Alike
<1>3. Stands(h, R, t2, n)
  OBVIOUS
<1>. HIDE DEF t2
<1>4. y \in GenStates(n) /\ Plain(x, y)
  BY <1>1, <1>2, UnwindPlain
<1>. HIDE DEF y
<1>5. i.do \notin Control /\ Leaves(i)
  BY DEF Control, Leaves
<1>6. z \in GenStates(n) /\ z.frames = y.frames /\ NoMoreEnds(y, z)
  BY <1>4, <1>5, EmitEnds
<1>. HIDE DEF z
<1>7. h.frames = z.frames /\ h.code = z.code
  BY <1>6 DEF Stop, GenStates
<1>. HIDE DEF h
<1>8. Alike(F, h.frames) /\ NoMoreEnds(g, h)
  BY <1>4, <1>6, <1>7 DEF NoMoreEnds, Plain
<1>9. ASSUME NEW M \in Modes, NEW W, Covers(M, g, S, W, tx, n), NEW Y \in SUBSET Int
      PROVE  Filled(h, Y, W, t2, n)
  <2>. DEFINE X == Now(M, F, S, Len(S))
              Z == Less(X, Declared(x.frames, 1, Len(x.frames)))
  <2>1. Filled(g, X, W, t2, n)
    <3>1. Filled(g, X, W, tx, n)
      BY <1>9 DEF Covers
    <3>. QED  BY <1>0, <3>1, FilledExtends DEF t2
  <2>2. Filled(x, X, W, t2, n)
    <3>1. Carries(g, x, X, t2, n)
      BY DEF t2
    <3>. QED  BY <2>1, <3>1 DEF Carries
  <2>3. DropsOf(x.frames, 1, Len(x.frames), X)
    <3>0. 1 \in Nat /\ 1 > 0
      OBVIOUS
    <3>1. DropsOf(F, 1, Len(F), X)
      BY <1>0, <3>0, NowDrops
    <3>. HIDE DEF X
    <3>2. ASSUME NEW d \in 1..Len(F), NEW j \in 1..Len(x.frames[d].entries),
                 x.frames[d].entries[j].how = "drop"
          PROVE  x.frames[d].entries[j].slot \in X
      <4>1. /\ j \in 1..Len(F[d].entries)
            /\ x.frames[d].entries[j].slot = F[d].entries[j].slot
            /\ F[d].entries[j].how = "drop"
        BY <3>2 DEF Alike
      <4>. QED  BY <3>1, <4>1 DEF DropsOf, DropsIn
    <3>. QED  BY <1>2, <3>2 DEF DropsOf, DropsIn
  <2>4. Filled(y, Z, W, t2, n)
    <3>. HIDE DEF X
    <3>1. 0 + 1 = 1
      OBVIOUS
    <3>. QED  BY <1>1, <1>2, <2>2, <2>3, <3>1, UnwindFilled DEF y
  <2>. HIDE DEF X, Z
  <2>5. Asks(i, Z, W, t2, n)
    BY DEF Asks
  <2>. QED  BY <1>4, <1>5, <2>4, <2>5, StopFilled DEF h, z
<1>10. \A M \in Modes : LeapsOn(M, g, S, h, tx, t2, n)
  BY <1>9 DEF LeapsOn
<1>11. Known(h, R, t2, n)
  BY <1>3, <1>8, <1>10, KnownLeap DEF t2
<1>. QED
  BY <1>11 DEF h, z, y, t2

LEMMA KnownReturnNone ==
    ASSUME NEW g, NEW S, NEW tx, NEW n, Known(g, S, tx, n), NEW s \in Statements,
           Deepens(s.op) = 0, s.op \in JumpOps, NEW R, Leaps(S, R), NEW at \in Nat,
           Stands(GenReturn(g, "", at), R, Append(tx, s), n)
    PROVE  Known(GenReturn(g, "", at), R, Append(tx, s), n)
<1>0. Stands(g, S, tx, n) /\ g \in GenStates(n) /\ g.frames \in Seq(Frames)
  BY GenType DEF Known, Stands
<1>1. GenReturn(g, "", at) = Stop(Emit(Unwind(g, 0, at), <<Ret0>>))
  BY DEF GenReturn
<1>2. Ret0 \in Instrs(n) /\ Ret0.do = "ret"
  BY DEF Ret0, Instrs
<1>3. Alike(g.frames, g.frames) /\ NoMoreEnds(g, g)
  BY <1>0, AlikeSelf DEF NoMoreEnds
<1>4. \A M \in Modes : Carries(g, g, Now(M, g.frames, S, Len(S)), Append(tx, s), n)
  BY DEF Carries
<1>5. Stands(Stop(Emit(Unwind(g, 0, at), <<Ret0>>)), R, Append(tx, s), n)
  BY <1>1
<1>. QED
  BY <1>0, <1>1, <1>2, <1>3, <1>4, <1>5, KnownRet

\* A handle or a value is loaded into the register.
LEMMA LoadTypes ==
    ASSUME NEW n \in Nat, NEW a \in 0..n, NEW f \in {"move", "share", "read"}, NEW at \in Nat,
           NEW i, i = [do |-> f, from |-> a, slot |-> 0, at |-> at],
           NEW j, j = [i EXCEPT !.do = "again"]
    PROVE  /\ i \in Instrs(n) /\ i.do \notin Control /\ Idle(i)
           /\ j \in Instrs(n) /\ j.do \notin Control /\ Idle(j)
<1>1. j = [do |-> "again", from |-> a, slot |-> 0, at |-> at] /\ 0 \in 0..n
  OBVIOUS
<1>2. i \in Instrs(n) /\ i.do \in {"move", "share", "read"}
  BY <1>1 DEF Instrs
<1>3. j \in Instrs(n) /\ j.do = "again"
  BY <1>1 DEF Instrs
<1>. QED
  BY <1>2, <1>3 DEF Idle, Control

Loads(g, e, t2, n) ==
    /\ e \in GenStates(n) /\ e.frames = g.frames /\ NoMoreEnds(g, e)
    /\ \A X : Carries(g, e, X, t2, n)

LEMMA LoadCarries ==
    ASSUME NEW n \in Nat, NEW g \in GenStates(n), NEW a \in 0..n,
           NEW f \in {"move", "share", "read"}, NEW at \in Nat,
           NEW i, i = [do |-> f, from |-> a, slot |-> 0, at |-> at],
           NEW j, j = [i EXCEPT !.do = "again"], NEW t2, NEW more \in BOOLEAN
    PROVE  Loads(g, Emit(g, IF more THEN <<i>> \o <<j>> ELSE <<i>> \o <<>>), t2, n)
<1>1. /\ i \in Instrs(n) /\ i.do \notin Control /\ Idle(i)
      /\ j \in Instrs(n) /\ j.do \notin Control /\ Idle(j)
  BY LoadTypes
<1>. DEFINE d == Emit(g, <<i>>)
            k == Emit(d, <<j>>)
<1>2. d \in GenStates(n) /\ d.frames = g.frames /\ NoMoreEnds(g, d)
  BY <1>1, EmitEnds
<1>3. \A X : Carries(g, d, X, t2, n)
  BY <1>1, EmitCarries
<1>4. Emit(g, <<i>> \o <<j>>) = k
  BY <1>1, EmitTwo
<1>5. Emit(g, <<i>> \o <<>>) = d
  <2>1. <<i>> \o <<>> = <<i>>
    BY NothingAdded
  <2>. QED  BY <2>1
<1>. HIDE DEF d
<1>6. k \in GenStates(n) /\ k.frames = d.frames /\ NoMoreEnds(d, k)
  BY <1>1, <1>2, EmitEnds
<1>7. \A X : Carries(d, k, X, t2, n)
  BY <1>1, <1>2, EmitCarries
<1>. HIDE DEF k
<1>8. \A X : Carries(g, k, X, t2, n)
  BY <1>3, <1>7, CarriesTwice
<1>9. k.frames = g.frames /\ NoMoreEnds(g, k)
  BY <1>2, <1>6, NoMoreTwice
<1>10. CASE more
  <2>1. Emit(g, IF more THEN <<i>> \o <<j>> ELSE <<i>> \o <<>>) = k
    BY <1>4, <1>10
  <2>. QED  BY <1>6, <1>8, <1>9, <2>1 DEF Loads
<1>11. CASE ~more
  <2>1. Emit(g, IF more THEN <<i>> \o <<j>> ELSE <<i>> \o <<>>) = d
    BY <1>5, <1>11
  <2>. QED  BY <1>2, <1>3, <2>1 DEF Loads
<1>. QED
  BY <1>10, <1>11

LEMMA KnownReturnValue ==
    ASSUME NEW g, NEW S, NEW tx, NEW n, Known(g, S, tx, n), NEW s \in Statements,
           Deepens(s.op) = 0, s.op \in JumpOps, NEW R, Leaps(S, R),
           NEW v, Handle(S, v), NEW at \in Nat,
           Stands(GenReturn(g, v, at), R, Append(tx, s), n)
    PROVE  Known(GenReturn(g, v, at), R, Append(tx, s), n)
<1>0. Stands(g, S, tx, n) /\ g \in GenStates(n) /\ n \in Nat
  BY DEF Known, Stands
<1>1. g.sym[v] \in 0..n /\ Fetch(v) \in {"move", "share", "read"}
  <2>1. g.sym[v] \in 1..n
    BY <1>0, SymIs DEF Handle
  <2>2. Fetch(v) \in {"move", "share", "read"}
    BY DEF Fetch
  <2>. QED  BY <1>0, <2>1, <2>2
<1>2. PICK i : i = [do |-> Fetch(v), from |-> g.sym[v], slot |-> 0, at |-> at]
  OBVIOUS
<1>3. PICK j : j = [i EXCEPT !.do = "again"]
  OBVIOUS
<1>4. PICK more \in BOOLEAN : more <=> Kind[v] = "shared"
  OBVIOUS
<1>5. PICK r : r = [do |-> "ret", value |-> TRUE]
  OBVIOUS
<1>. DEFINE e == Emit(g, IF more THEN <<i>> \o <<j>> ELSE <<i>> \o <<>>)
            x == Suppress(e, v)
            t2 == Append(tx, s)
<1>6. GenReturn(g, v, at) = Stop(Emit(Unwind(x, 0, at), <<r>>))
  <2>1. CASE Kind[v] = "shared"
    BY <1>2, <1>3, <1>4, <1>5, <2>1 DEF GenReturn, Handle
  <2>2. CASE Kind[v] # "shared"
    BY <1>2, <1>3, <1>4, <1>5, <2>2 DEF GenReturn, Handle
  <2>. QED  BY <2>1, <2>2
<1>7. r \in Instrs(n) /\ r.do = "ret"
  BY <1>5 DEF Instrs
<1>8. /\ e \in GenStates(n) /\ e.frames = g.frames /\ NoMoreEnds(g, e)
      /\ \A X : Carries(g, e, X, t2, n)
  <2>. HIDE DEF t2
  <2>. DEFINE a == g.sym[v]
              f == Fetch(v)
  <2>1. /\ n \in Nat /\ g \in GenStates(n) /\ a \in 0..n /\ f \in {"move", "share", "read"}
        /\ i = [do |-> f, from |-> a, slot |-> 0, at |-> at]
        /\ j = [i EXCEPT !.do = "again"] /\ more \in BOOLEAN
    BY <1>0, <1>1, <1>2, <1>3, <1>4
  <2>. HIDE DEF a, f
  <2>2. Loads(g, Emit(g, IF more THEN <<i>> \o <<j>> ELSE <<i>> \o <<>>), t2, n)
    BY <2>1, LoadCarries
  <2>. QED  BY <2>2 DEF Loads
<1>. HIDE DEF e, t2
<1>9. x \in GenStates(n) /\ Alike(e.frames, x.frames) /\ x.code = e.code /\ x.live = e.live
  BY <1>8, SuppressAlike
<1>. HIDE DEF x
<1>10. Alike(g.frames, x.frames) /\ NoMoreEnds(g, x)
  BY <1>8, <1>9 DEF NoMoreEnds
<1>11. \A M \in Modes : Carries(g, x, Now(M, g.frames, S, Len(S)), t2, n)
  <2>. TAKE M \in Modes
  <2>. DEFINE X == Now(M, g.frames, S, Len(S))
  <2>. HIDE DEF X
  <2>1. Carries(g, e, X, t2, n)
    BY <1>8
  <2>2. Carries(g, x, X, t2, n)
    BY <1>9, <2>1 DEF Carries, Filled
  <2>. QED  BY <2>2 DEF X
<1>12. Stands(Stop(Emit(Unwind(x, 0, at), <<r>>)), R, t2, n)
  BY <1>6 DEF t2
<1>13. Known(Stop(Emit(Unwind(x, 0, at), <<r>>)), R, t2, n)
  BY <1>7, <1>9, <1>10, <1>11, <1>12, KnownRet DEF t2
<1>. QED
  BY <1>6, <1>13 DEF t2

\* break and continue.
LEMMA KnownJump ==
    ASSUME NEW g, NEW S, NEW tx, NEW n, Known(g, S, tx, n), NEW s \in Statements,
           Deepens(s.op) = 0, s.op \in JumpOps, NEW R, Leaps(S, R),
           S[1].kind = "body", NEW b \in 1..Len(S), S[b].kind = "loop",
           NEW op, NEW at \in Nat,
           Stands(GenJump(g, op, at), R, Append(tx, s), n)
    PROVE  Known(GenJump(g, op, at), R, Append(tx, s), n)
<1>. DEFINE F == g.frames
            d == CHOOSE m \in DOMAIN F :
                    /\ F[m].kind = "loop"
                    /\ \A j \in (m + 1)..Len(F) : F[j].kind # "loop"
            w == IF op = "break" THEN "after" ELSE "cond"
            y == Unwind(g, d - 1, at)
            i == Jmp(F[d].at, w)
            z == Emit(y, <<i>>)
            h == Stop(z)
            t2 == Append(tx, s)
<1>0. /\ Stands(g, S, tx, n) /\ Layout(g, S, tx) /\ Spent(F, S) /\ tx \in Seq(Statements)
      /\ Len(F) = Len(S) /\ g \in GenStates(n) /\ Len(S) \in Nat /\ S \in Seq(Scope)
      /\ F \in Seq(Frames) /\ FramesFit(F, tx, n)
      /\ \A m \in 1..Len(S) : F[m].kind = S[m].kind
  <2>1. Stands(g, S, tx, n) /\ Layout(g, S, tx) /\ Spent(F, S)
    BY DEF Known, Layout
  <2>2. /\ tx \in Seq(Statements) /\ Len(F) = Len(S) /\ g \in GenStates(n) /\ S \in Seq(Scope)
        /\ FramesFit(F, tx, n) /\ \A m \in 1..Len(S) : F[m].kind = S[m].kind
    BY <2>1 DEF Stands, Named
  <2>. QED  BY <2>1, <2>2, GenType
<1>1. h = GenJump(g, op, at)
  BY DEF GenJump
<1>2. InnermostLoop(F, d)
  <2>1. \E m : InnermostLoop(F, m)
    BY <1>0, LoopExists
  <2>. HIDE DEF F
  <2>2. \E m \in DOMAIN F : /\ F[m].kind = "loop"
                            /\ \A j \in (m + 1)..Len(F) : F[j].kind # "loop"
    BY <2>1 DEF InnermostLoop
  <2>. QED  BY <2>2 DEF InnermostLoop
<1>. HIDE DEF d
<1>3. /\ d \in 2..Len(S) /\ S[d].kind = "loop" /\ d \in 1..Len(F)
      /\ d - 1 \in 0..Len(F) /\ d - 1 \in 0..Len(S) /\ d - 1 + 1 = d /\ d > 0 /\ d \in Nat
  <2>1. d \in 1..Len(S) /\ F[d].kind = "loop"
    BY <1>0, <1>2 DEF InnermostLoop
  <2>2. S[d].kind = "loop" /\ d # 1
    BY <1>0, <2>1
  <2>. QED  BY <1>0, <2>1, <2>2
<1>4. w \in {"cond", "after"} /\ w \in Labels
  BY DEF Labels
<1>5. F[d].at \in Nat
  <2>1. F[d] \in Frames
    BY <1>0, <1>3
  <2>. QED  BY <2>1 DEF Frames
<1>. HIDE DEF w
<1>6. i \in Instrs(n) /\ i.do = "jmp" /\ i.to = <<F[d].at, w>>
  <2>. HIDE DEF F
  <2>. QED  BY <1>4, <1>5, JmpType
<1>7. Stands(h, R, t2, n)
  BY <1>1
<1>8. y \in GenStates(n) /\ Plain(g, y)
  BY <1>0, <1>3, UnwindPlain
<1>. HIDE DEF y, i
<1>9. z \in GenStates(n) /\ z.frames = y.frames /\ NoMoreEnds(y, z)
  <2>1. z \in GenStates(n) /\ z.frames = y.frames
        /\ z.code = IF y.live THEN Append(y.code, i) ELSE y.code
    BY <1>6, <1>8, EmitOne
  <2>2. Jumps(z.code) \cup Placed(z.code)
           \subseteq (Jumps(y.code) \cup Placed(y.code)) \cup {i.to}
    <3>1. y.code \in Seq(Instrs(n))
      BY <1>8, GenType
    <3>. DEFINE c == y.code
    <3>. HIDE DEF z, c
    <3>2. c \in Seq(Instrs(n)) /\ i \in Instrs(n)
      BY <1>6, <3>1 DEF c
    <3>3. /\ i.do \in {"jmp", "br"} => Jumps(Append(c, i)) = Jumps(c) \cup {i.to}
          /\ i.do # "label" => Placed(Append(c, i)) = Placed(c)
      BY <3>2, Jumped
    <3>4. z.code = Append(c, i) \/ z.code = c
      BY <2>1 DEF c
    <3>. QED  BY <1>6, <3>3, <3>4 DEF c
  <2>3. i.to[2] # "end"
    BY <1>4, <1>6
  <2>. QED  BY <2>1, <2>2, <2>3 DEF NoMoreEnds
<1>. HIDE DEF z
<1>10. h.frames = z.frames /\ h.code = z.code
  BY <1>9 DEF Stop, GenStates
<1>. HIDE DEF h, t2
<1>11. Alike(F, h.frames) /\ NoMoreEnds(g, h)
  <2>1. Alike(F, F)
    BY <1>0, AlikeSelf
  <2>. QED  BY <1>8, <1>9, <1>10, <2>1 DEF NoMoreEnds, Plain
<1>12. ASSUME NEW M \in Modes, Clean(M, t2), NEW W, Covers(M, g, S, W, tx, n),
              NEW Y \in SUBSET Int
       PROVE  Filled(h, Y, W, t2, n)
  <2>. DEFINE X == Now(M, F, S, Len(S))
              Z == Less(X, Declared(F, d, Len(F)))
  <2>1. Filled(g, X, W, tx, n) /\ Kept(M, F, S, W)
    BY <1>12 DEF Covers
  <2>2. DropsOf(F, d, Len(F), X)
    BY <1>0, <1>3, NowDrops
  <2>3. Now(M, F, S, d - 1) \subseteq Z
    BY <1>0, <1>3, NowInner
  <2>4. W[<<F[d].at, w>>] = Now(M, F, S, d - 1)
    <3>1. KeptAt(M, F, S, W, d)
      BY <1>3, <2>1 DEF Kept
    <3>. QED  BY <1>3, <1>4, <3>1 DEF KeptAt
  <2>5. Filled(y, Z, W, tx, n)
    <3>. HIDE DEF X
    <3>. QED  BY <1>0, <1>3, <2>1, <2>2, UnwindFilled DEF y
  <2>. HIDE DEF X, Z
  <2>6. Asks(i, Z, W, tx, n)
    BY <1>6, <2>3, <2>4 DEF Asks
  <2>7. Leaves(i)
    BY <1>6 DEF Leaves
  <2>8. Filled(h, Y, W, tx, n)
    BY <1>6, <1>8, <2>5, <2>6, <2>7, StopFilled DEF h, z
  <2>. QED  BY <1>0, <2>8, FilledExtends DEF t2
<1>13. \A M \in Modes : Clean(M, t2) => LeapsOn(M, g, S, h, tx, t2, n)
  BY <1>12 DEF LeapsOn
<1>14. Known(h, R, t2, n)
  BY <1>7, <1>11, <1>13, KnownLeap DEF t2
<1>. QED
  BY <1>1, <1>14 DEF t2

-----------------------------------------------------------------------------
(* Statements that open a scope                                            *)

\* The labels that the code of g names.
Uses(g) == Jumps(g.code) \cup Placed(g.code)

LEMMA LabelsSeen ==
    ASSUME NEW g, NEW T, NEW S, NEW tx, NEW n, Body(g, T, S, tx, n), NEW l \in Uses(g)
    PROVE  l[1] \in 1..Len(tx)
<1>1. /\ g \in GenStates(n) /\ Len(T) = Len(tx)
      /\ Made(g, Owned(g.frames, 1, Len(g.frames)), T, tx, n)
  BY DEF Body
<1>. DEFINE c == g.code
<1>2. PICK A : Flow(c, A, T, tx, n)
  BY <1>1 DEF Made
<1>3. DOMAIN c = 1..Len(c)
  BY <1>1, GenType
<1>4. PICK i \in 1..Len(c) : c[i].do \in {"jmp", "br", "label"} /\ l = c[i].to
  BY <1>3 DEF Uses, Jumps, Placed
<1>. HIDE DEF c
<1>5. Fits(c[i], A[i], T, tx, n)
  BY <1>2 DEF Flow
<1>6. c[i].to[1] \in 1..Len(T)
  BY <1>4, <1>5 DEF Fits
<1>. QED
  BY <1>1, <1>4, <1>6

LEMMA LabelTypes ==
    ASSUME NEW n, NEW g \in GenStates(n), NEW at \in Nat, NEW w \in Labels
    PROVE  LET h == Label(g, at, w)
           IN  /\ h \in GenStates(n) /\ h.frames = g.frames
               /\ Uses(h) = Uses(g) \cup {<<at, w>>}
<1>. DEFINE i == [do |-> "label", to |-> <<at, w>>]
            h == Label(g, at, w)
<1>1. i \in Instrs(n) /\ i.do = "label" /\ i.to = <<at, w>>
  BY DEF Instrs
<1>. HIDE DEF i
<1>2. g.code \in Seq(Instrs(n)) /\ Append(g.code, i) \in Seq(Instrs(n))
  BY <1>1, GenType
<1>3. h = [g EXCEPT !.code = Append(g.code, i), !.live = TRUE]
  BY DEF Label, i
<1>4. h \in GenStates(n) /\ h.frames = g.frames /\ h.code = Append(g.code, i)
  BY <1>2, <1>3 DEF GenStates
<1>. HIDE DEF h
<1>5. /\ Jumps(Append(g.code, i)) = Jumps(g.code)
      /\ Placed(Append(g.code, i)) = Placed(g.code) \cup {i.to}
  <2>1. i \in Instrs(n) /\ i.do = "label" /\ i.do \notin {"jmp", "br"}
    BY <1>1
  <2>. QED  BY <1>2, <2>1, Jumped
<1>6. Uses(h) = Uses(g) \cup {<<at, w>>}
  BY <1>1, <1>4, <1>5 DEF Uses
<1>. QED
  BY <1>4, <1>6 DEF h

LEMMA EmitTypes ==
    ASSUME NEW n, NEW g \in GenStates(n), NEW i \in Instrs(n), i.do \in {"jmp", "br"}
    PROVE  LET h == Emit(g, <<i>>)
           IN  /\ h \in GenStates(n) /\ h.frames = g.frames
               /\ Uses(h) \subseteq Uses(g) \cup {i.to}
<1>. DEFINE h == Emit(g, <<i>>)
            c == g.code
<1>1. /\ h \in GenStates(n) /\ h.frames = g.frames
      /\ h.code = IF g.live THEN Append(c, i) ELSE c
  BY EmitOne
<1>2. c \in Seq(Instrs(n))
  BY GenType
<1>. HIDE DEF h, c
<1>3. /\ Jumps(Append(c, i)) = Jumps(c) \cup {i.to}
      /\ Placed(Append(c, i)) = Placed(c)
  <2>1. i.do # "label"
    OBVIOUS
  <2>. QED  BY <1>2, <2>1, Jumped
<1>4. Uses(h) \subseteq Uses(g) \cup {i.to}
  BY <1>1, <1>3 DEF Uses, c
<1>. QED
  BY <1>1, <1>4 DEF h

\* What is filled says nothing of the frames.
LEMMA FilledCode ==
    ASSUME NEW g, NEW X, NEW W, NEW tx, NEW n, Filled(g, X, W, tx, n),
           NEW h, h.code = g.code, h.live = g.live
    PROVE  Filled(h, X, W, tx, n)
BY DEF Filled

\* What is emitted before a scope is entered.
Entering(g, kind, at) ==
    CASE kind = "if"   -> Emit(g, <<Branch(at, "else")>>)
      [] kind = "loop" -> Emit(Label(g, at, "cond"), <<Branch(at, "after")>>)
      [] OTHER         -> g

\* h names labels of at besides those that g does, and no end of a branch.
AddsLabels(g, h, at) == \A l \in Uses(h) : l \in Uses(g) \/ (l[1] = at /\ l[2] # "end")

LEMMA EnteringTypes ==
    ASSUME NEW n, NEW g \in GenStates(n), NEW kind \in {"block", "if", "loop"}, NEW at \in Nat
    PROVE  LET e == Entering(g, kind, at)
           IN  e \in GenStates(n) /\ e.frames = g.frames /\ AddsLabels(g, e, at)
<1>. DEFINE e == Entering(g, kind, at)
            k == Label(g, at, "cond")
<1>1. "cond" \in Labels /\ "after" \in Labels /\ "else" \in Labels
  BY DEF Labels
<1>2. ASSUME NEW h \in GenStates(n), NEW w \in Labels, w # "end"
      PROVE  LET f == Emit(h, <<Branch(at, w)>>)
             IN  /\ f \in GenStates(n) /\ f.frames = h.frames
                 /\ \A l \in Uses(f) : l \in Uses(h) \/ (l[1] = at /\ l[2] # "end")
  <2>1. PICK i : i = Branch(at, w)
    OBVIOUS
  <2>2. i \in Instrs(n) /\ i.do = "br" /\ i.to = <<at, w>>
    BY <2>1, JmpType
  <2>. DEFINE f == Emit(h, <<i>>)
  <2>3. f \in GenStates(n) /\ f.frames = h.frames /\ Uses(f) \subseteq Uses(h) \cup {i.to}
    BY <1>2, <2>2, EmitTypes
  <2>4. i.to[1] = at /\ i.to[2] # "end"
    BY <1>2, <2>2
  <2>. HIDE DEF f
  <2>5. \A l \in Uses(f) : l \in Uses(h) \/ (l[1] = at /\ l[2] # "end")
    BY <2>3, <2>4
  <2>. QED  BY <2>1, <2>3, <2>5 DEF f
<1>3. CASE kind = "if"
  <2>1. e = Emit(g, <<Branch(at, "else")>>)
    BY <1>3 DEF Entering
  <2>. HIDE DEF e
  <2>2. LET f == Emit(g, <<Branch(at, "else")>>)
        IN  /\ f \in GenStates(n) /\ f.frames = g.frames
            /\ \A l \in Uses(f) : l \in Uses(g) \/ (l[1] = at /\ l[2] # "end")
    BY <1>1, <1>2
  <2>. QED  BY <2>1, <2>2 DEF e, AddsLabels
<1>4. CASE kind = "loop"
  <2>1. e = Emit(k, <<Branch(at, "after")>>)
    BY <1>4 DEF Entering
  <2>2. k \in GenStates(n) /\ k.frames = g.frames /\ Uses(k) = Uses(g) \cup {<<at, "cond">>}
    BY <1>1, LabelTypes
  <2>. HIDE DEF e, k
  <2>3. LET f == Emit(k, <<Branch(at, "after")>>)
        IN  /\ f \in GenStates(n) /\ f.frames = k.frames
            /\ \A l \in Uses(f) : l \in Uses(k) \/ (l[1] = at /\ l[2] # "end")
    BY <1>1, <1>2, <2>2
  <2>4. <<at, "cond">>[1] = at /\ <<at, "cond">>[2] # "end"
    OBVIOUS
  <2>5. \A l \in Uses(e) : l \in Uses(g) \/ (l[1] = at /\ l[2] # "end")
    BY <2>1, <2>2, <2>3, <2>4
  <2>. QED  BY <2>1, <2>2, <2>3, <2>5 DEF e, AddsLabels
<1>5. CASE kind = "block"
  <2>1. e = g
    BY <1>5 DEF Entering
  <2>. HIDE DEF e
  <2>. QED  BY <2>1 DEF e, AddsLabels
<1>. QED
  BY <1>3, <1>4, <1>5

LEMMA EnteringFilled ==
    ASSUME NEW n, NEW g \in GenStates(n), NEW W, NEW tx, NEW X, Filled(g, X, W, tx, n),
           NEW kind \in {"block", "if", "loop"}, NEW at \in Nat,
           \A w \in Labels : W[<<at, w>>] = X
    PROVE  Filled(Entering(g, kind, at), X, W, tx, n)
<1>. DEFINE e == Entering(g, kind, at)
            k == Label(g, at, "cond")
<1>1. "cond" \in Labels /\ "after" \in Labels /\ "else" \in Labels
  BY DEF Labels
<1>2. X \in SUBSET Int
  BY DEF Filled
<1>3. ASSUME NEW h \in GenStates(n), Filled(h, X, W, tx, n), NEW w \in Labels
      PROVE  Filled(Emit(h, <<Branch(at, w)>>), X, W, tx, n)
  <2>1. PICK i : i = Branch(at, w)
    OBVIOUS
  <2>2. i \in Instrs(n) /\ i.do = "br" /\ i.to = <<at, w>>
    BY <2>1, JmpType
  <2>3. Suits(i, X, X, W, tx, n)
    <3>1. Asks(i, X, W, tx, n)
      BY <2>2 DEF Asks
    <3>2. Refill(i, X, tx, n) = X
      BY <2>2 DEF Refill
    <3>. QED  BY <3>1, <3>2 DEF Suits
  <2>4. Filled(Emit(h, <<i>>), X, W, tx, n)
    BY <1>2, <1>3, <2>2, <2>3, EmitFilled
  <2>. QED  BY <2>1, <2>4
<1>4. CASE kind = "if"
  <2>1. e = Emit(g, <<Branch(at, "else")>>)
    BY <1>4 DEF Entering
  <2>. QED  BY <1>1, <1>3, <2>1
<1>5. CASE kind = "loop"
  <2>1. e = Emit(k, <<Branch(at, "after")>>)
    BY <1>5 DEF Entering
  <2>2. k \in GenStates(n)
    BY <1>1, LabelTypes
  <2>3. Filled(k, X, W, tx, n)
    <3>1. W[<<at, "cond">>] = X
      BY <1>1
    <3>. QED  BY <1>1, <1>2, <3>1, LabelFilled
  <2>. HIDE DEF k
  <2>. QED  BY <1>1, <1>3, <2>1, <2>2, <2>3
<1>6. CASE kind = "block"
  <2>1. e = g
    BY <1>6 DEF Entering
  <2>. QED  BY <2>1
<1>. QED
  BY <1>4, <1>5, <1>6

\* R are the scopes S with a new one inside, which starts from the flags of the
\* one around it.
Enters(S, R, kind) ==
    LET m == Len(S)
    IN  /\ R \in Seq(Scope) /\ Len(R) = m + 1
        /\ \A d \in 1..m : R[d] = S[d]
        /\ R[m + 1].kind = kind /\ DOMAIN R[m + 1].syms = {}
        /\ R[m + 1].before = MovedMap(S[m].syms)
        /\ ~R[m + 1].thenJumps /\ ~R[m + 1].jumps

\* G are the frames F with a new one inside.
Deeper(F, G, kind, at) ==
    LET m == Len(F)
    IN  /\ Len(G) = m + 1 /\ \A d \in 1..m : G[d] = F[d]
        /\ G[m + 1].kind = kind /\ G[m + 1].at = at /\ G[m + 1].entries = <<>>

\* The scopes around the innermost hold what they held, and it holds nothing.
AsBefore(M, F, S, G, R) ==
    /\ \A d \in 1..Len(S) : Full(G, R, d) = Full(F, S, d)
    /\ \A hi \in 0..Len(S) : Now(M, G, R, hi) = Now(M, F, S, hi)
    /\ \A hi \in 0..Len(S) : Sure(G, R, hi) = Sure(F, S, hi)
    /\ Now(M, G, R, Len(R)) = Now(M, F, S, Len(S))

LEMMA FullDeeper ==
    ASSUME NEW S, NEW R, NEW kind, Enters(S, R, kind), NEW F, NEW G, NEW at, Deeper(F, G, kind, at),
           Len(F) = Len(S), Len(S) \in Nat, NEW M
    PROVE  AsBefore(M, F, S, G, R)
<1>. DEFINE m == Len(S)
<1>1. /\ m \in Nat /\ Len(R) = m + 1 /\ \A d \in 1..m : G[d] = F[d] /\ R[d] = S[d]
      /\ G[m + 1].entries = <<>> /\ ~R[m + 1].jumps
  BY DEF Enters, Deeper
<1>2. \A d \in 1..m : Full(G, R, d) = Full(F, S, d)
  BY <1>1 DEF Full
<1>3. Full(G, R, m + 1) = {}
  <2>1. Len(G[m + 1].entries) = 0
    BY <1>1
  <2>2. 1..0 = {}
    OBVIOUS
  <2>. HIDE DEF m
  <2>. QED  BY <2>1, <2>2 DEF Full, HeldIn
<1>. HIDE DEF m
<1>4. \A hi \in 0..m : Sure(G, R, hi) = Sure(F, S, hi) /\ (Ends(R, hi) <=> Ends(S, hi))
  <2>1. \A hi \in 0..m : \A d \in 1..hi : d \in 1..m
    BY <1>1
  <2>. QED  BY <1>1, <1>2, <2>1 DEF Sure, Ends
<1>5. \A d : d \in 1..(m + 1) <=> d \in 1..m \/ d = m + 1
  BY <1>1
<1>6. Sure(G, R, m + 1) = Sure(G, R, m) /\ (Ends(R, m + 1) <=> Ends(R, m))
  BY <1>1, <1>3, <1>5 DEF Sure, Ends
<1>7. m \in 0..m
  BY <1>1
<1>8. /\ \A hi \in 0..m : Now(M, G, R, hi) = Now(M, F, S, hi)
      /\ Now(M, G, R, m + 1) = Now(M, F, S, m)
  BY <1>4, <1>6, <1>7 DEF Now
<1>. QED
  BY <1>1, <1>2, <1>4, <1>8 DEF m, AsBefore

\* U says of the labels of the frames up to hi what W does; it says X at at.
SaysSame(F, hi, W, U) == \A d \in 2..hi : \A w \in Labels : U[<<F[d].at, w>>] = W[<<F[d].at, w>>]
SaysAt(U, at, X) == \A w \in Labels : U[<<at, w>>] = X

LEMMA KeptDeeper ==
    ASSUME NEW g, NEW S, NEW tx, NEW n, Stands(g, S, tx, n), NEW kind \in {"block", "if", "loop"},
           NEW R, Enters(S, R, kind), NEW G, NEW at, Deeper(g.frames, G, kind, at),
           NEW M, NEW W, Kept(M, g.frames, S, W), NEW U,
           SaysSame(g.frames, Len(S), W, U), SaysAt(U, at, Now(M, g.frames, S, Len(S)))
    PROVE  Kept(M, G, R, U)
<1>. DEFINE F == g.frames
            m == Len(S)
<1>1. /\ m \in Nat /\ m > 0 /\ Len(F) = m /\ Len(R) = m + 1
      /\ \A d \in 1..m : G[d] = F[d] /\ R[d] = S[d]
      /\ G[m + 1].at = at /\ R[m + 1].kind = kind /\ R[m + 1].before = MovedMap(S[m].syms)
      /\ ~R[m + 1].thenJumps
  <2>1. m \in Nat /\ m > 0 /\ Len(F) = m
    BY DEF Stands, Named
  <2>2. /\ Len(R) = m + 1 /\ \A d \in 1..m : R[d] = S[d]
        /\ R[m + 1].kind = kind /\ R[m + 1].before = MovedMap(S[m].syms)
        /\ ~R[m + 1].thenJumps
    BY DEF Enters
  <2>3. (\A d \in 1..Len(F) : G[d] = F[d]) /\ G[Len(F) + 1].at = at
    BY DEF Deeper
  <2>. HIDE DEF m, F
  <2>. QED  BY <2>1, <2>2, <2>3
<1>0. Deeper(F, G, kind, at) /\ m \in Nat /\ Len(F) = Len(S)
  BY <1>1
<1>. HIDE DEF F
<1>2. /\ \A d \in 1..m : Full(G, R, d) = Full(F, S, d)
      /\ \A hi \in 0..m : Now(M, G, R, hi) = Now(M, F, S, hi) /\ Sure(G, R, hi) = Sure(F, S, hi)
  <2>1. AsBefore(M, F, S, G, R)
    BY <1>0, FullDeeper
  <2>. QED  BY <2>1 DEF AsBefore
<1>3. ASSUME NEW d \in 2..m PROVE KeptAt(M, G, R, U, d)
  <2>1. /\ d \in Nat /\ d > 1 /\ d \in 1..m /\ d - 1 \in 1..m
        /\ \A b \in 1..(d - 1) : b \in 1..m
        /\ \A b \in 1..(d - 2) : b \in 1..m
    BY <1>1
  <2>2. KeptAt(M, F, S, W, d)
    BY DEF Kept, F
  <2>3. \A w \in Labels : U[<<F[d].at, w>>] = W[<<F[d].at, w>>]
    BY DEF F, SaysSame
  <2>4. \A b \in 1..(d - 1) : R[b].jumps = S[b].jumps
    BY <1>1, <2>1
  <2>5. \A b \in 1..(d - 2) : Full(G, R, b) \subseteq Full(F, S, b)
    BY <1>2, <2>1
  <2>6. S[d].kind = "loop" => \A b \in 1..(d - 1) : Full(G, R, b) = Full(F, S, b)
    BY <1>2, <2>1
  <2>7. HeldIn(G[d - 1].entries, Saved(R[d])) \subseteq HeldIn(F[d - 1].entries, Saved(S[d]))
    BY <1>1, <2>1
  <2>8. R[d].kind = S[d].kind /\ G[d].at = F[d].at /\ R[d].thenJumps = S[d].thenJumps
    BY <1>1, <2>1
  <2>. HIDE DEF m
  <2>. QED
    BY <2>1, <2>2, <2>3, <2>4, <2>5, <2>6, <2>7, <2>8, KeptAtSame
<1>4. KeptAt(M, G, R, U, m + 1)
  <2>1. m + 1 - 1 = m /\ m + 1 - 2 = m - 1 /\ m - 1 \in 0..m /\ m \in 0..m /\ m \in 1..m
    BY <1>1
  <2>2. Now(M, G, R, m) = Now(M, F, S, m)
    BY <1>2, <2>1
  <2>3. kind = "if" => Waiting(M, G, R, m + 1) = Now(M, F, S, m)
    <3>1. Sure(F, S, m) = Sure(F, S, m - 1) \cup Full(F, S, m)
      <4>1. \A d : d \in 1..m <=> d \in 1..(m - 1) \/ d = m
        BY <1>1
      <4>. HIDE DEF m
      <4>. QED  BY <4>1 DEF Sure
    <3>2. kind = "if" => HeldIn(G[m].entries, Saved(R[m + 1])) = Full(F, S, m)
      BY <1>1, <2>1 DEF Saved, Full
    <3>3. Ends(R, m) <=> Ends(S, m)
      BY <1>1 DEF Ends
    <3>4. Sure(G, R, m - 1) = Sure(F, S, m - 1)
      BY <1>2, <2>1
    <3>. HIDE DEF m
    <3>5. Waiting(M, G, R, m + 1)
             = IF M = "calm" /\ (Ends(R, m) \/ R[m + 1].thenJumps) THEN Everything
               ELSE Sure(G, R, m - 1) \cup HeldIn(G[m].entries, Saved(R[m + 1]))
      <4>1. PICK d : d = m + 1
        OBVIOUS
      <4>2. d - 1 = m /\ d - 2 = m - 1
        BY <1>1, <4>1
      <4>. QED  BY <4>1, <4>2, Zenon DEF Waiting
    <3>. QED  BY <1>1, <3>1, <3>2, <3>3, <3>4, <3>5 DEF Now
  <2>4. /\ kind \in Branches => kind = "if"
        /\ Exit("if") \in Labels /\ "cond" \in Labels /\ "after" \in Labels
    BY DEF Branches, Exit, Labels
  <2>5. \A w \in Labels : U[<<at, w>>] = Now(M, F, S, m)
    BY DEF F, SaysAt
  <2>. HIDE DEF m
  <2>6. \A w \in {"cond", "after"} : U[<<at, w>>] = Now(M, F, S, m)
    BY <2>4, <2>5
  <2>7. kind = "if" => U[<<at, Exit(kind)>>] = Now(M, F, S, m)
    BY <2>4, <2>5
  <2>. QED
    BY <1>1, <2>1, <2>2, <2>3, <2>4, <2>6, <2>7 DEF KeptAt
<1>5. \A d : d \in 2..(m + 1) => d \in 2..m \/ d = m + 1
  BY <1>1
<1>. HIDE DEF m
<1>. QED
  BY <1>1, <1>3, <1>4, <1>5 DEF Kept

LEMMA LayoutDeeper ==
    ASSUME NEW g, NEW S, NEW tx, NEW n, Stands(g, S, tx, n), Layout(g, S, tx),
           NEW kind \in {"block", "if", "loop"}, NEW s \in Statements, s.op = kind,
           NEW R, Enters(S, R, kind), NEW at, at = Len(tx) + 1,
           NEW h, Deeper(g.frames, h.frames, kind, at),
           \A l \in Uses(g) : l[1] # at,
           AddsLabels(g, h, at)
    PROVE  Layout(h, R, Append(tx, s))
<1>. DEFINE F == g.frames
            G == h.frames
            m == Len(S)
<1>1. /\ m \in Nat /\ m > 0 /\ Len(F) = m /\ Len(R) = m + 1 /\ Len(G) = m + 1
      /\ S \in Seq(Scope) /\ tx \in Seq(Statements)
      /\ \A d \in 1..m : G[d] = F[d] /\ R[d] = S[d] /\ F[d].kind = S[d].kind
      /\ G[m + 1].at = at /\ G[m + 1].kind = kind /\ G[m + 1].entries = <<>>
      /\ R[m + 1].kind = kind /\ R[m + 1].before = MovedMap(S[m].syms)
      /\ \A d : d \in 1..(m + 1) <=> d \in 1..m \/ d = m + 1
      /\ \A d : d \in 2..(m + 1) <=> d \in 2..m \/ d = m + 1
  BY DEF Stands, Named, Enters, Deeper
<1>2. Saves(S) /\ Spent(F, S) /\ Nested(F, tx) /\ EndFree(g)
  BY DEF Layout
<1>3. kind # "else" /\ kind \in Opens
  BY DEF Opens
<1>. HIDE DEF F, G
<1>4. Saves(R)
  <2>1. ASSUME NEW d \in 2..m PROVE d - 1 \in 1..m /\ d \in 1..m
    BY <1>1
  <2>2. m + 1 - 1 = m /\ m \in 1..m /\ DOMAIN MovedMap(S[m].syms) = DOMAIN S[m].syms
    BY <1>1 DEF MovedMap
  <2>. HIDE DEF m
  <2>3. \A d \in 2..m : S[d].kind \in Branches =>
           /\ DOMAIN S[d - 1].syms \subseteq DOMAIN S[d].before
           /\ S[d].kind = "else" => DOMAIN S[d - 1].syms \subseteq DOMAIN S[d].then
    BY <1>2 DEF Saves, m
  <2>4. ASSUME NEW d \in 2..(m + 1), R[d].kind \in Branches
        PROVE  /\ DOMAIN R[d - 1].syms \subseteq DOMAIN R[d].before
               /\ R[d].kind = "else" => DOMAIN R[d - 1].syms \subseteq DOMAIN R[d].then
    <3>1. CASE d = m + 1
      BY <1>1, <1>3, <2>2, <3>1
    <3>2. CASE d \in 2..m
      <4>1. R[d] = S[d] /\ R[d - 1] = S[d - 1]
        BY <1>1, <2>1, <3>2
      <4>. QED  BY <2>3, <2>4, <3>2, <4>1
    <3>. QED  BY <1>1, <3>1, <3>2
  <2>. QED  BY <1>1, <2>4 DEF Saves
<1>5. Spent(G, R)
  <2>1. SUFFICES ASSUME NEW d \in 1..(m + 1), NEW j \in 1..Len(G[d].entries),
                        G[d].entries[j].how = "drop"
                 PROVE  Untouched(R, d, G[d].entries[j].name)
    BY <1>1 DEF Spent
  <2>2. d \in 1..m
    <3>1. d # m + 1
      <4>1. SUFFICES ASSUME d = m + 1 PROVE FALSE
        OBVIOUS
      <4>2. Len(G[d].entries) = 0
        BY <1>1, <4>1
      <4>. QED  BY <4>2
    <3>. QED  BY <1>1, <3>1
  <2>3. G[d] = F[d]
    BY <1>1, <2>2
  <2>. DEFINE v == G[d].entries[j].name
  <2>4. Untouched(S, d, v)
    <3>1. j \in 1..Len(F[d].entries) /\ F[d].entries[j].how = "drop"
      BY <2>1, <2>3
    <3>. QED  BY <1>2, <2>2, <2>3, <3>1 DEF Spent
  <2>5. v \in DOMAIN S[d].syms
    <3>1. j \in 1..Len(F[d].entries)
      BY <2>3
    <3>2. LET e == F[d].entries[j] IN e.name \in DOMAIN S[d].syms
      BY <2>2, <3>1, EntryIs DEF F
    <3>. QED  BY <2>3, <3>2
  <2>6. MovedMap(S[d].syms)[v] = S[d].syms[v].moved
    BY <1>1, <2>2, <2>5, ScopeIs
  <2>. HIDE DEF v
  <2>7. CASE d = m
    <3>1. d + 1 = m + 1 /\ R[d] = S[d]
      BY <1>1, <2>2, <2>7
    <3>. HIDE DEF m
    <3>2. R[d + 1].kind # "else" /\ R[d + 1].before[v] = S[d].syms[v].moved
      BY <1>1, <1>3, <2>6, <2>7, <3>1
    <3>3. Untouched(R, d, v)
      BY <2>4, <3>1, <3>2 DEF Untouched
    <3>. QED  BY <3>3 DEF v
  <2>8. CASE d # m
    <3>1. d + 1 \in 1..m /\ d < Len(S) /\ R[d] = S[d] /\ R[d + 1] = S[d + 1]
      BY <1>1, <2>2, <2>8
    <3>2. Untouched(R, d, v)
      BY <2>4, <3>1 DEF Untouched
    <3>. QED  BY <3>2 DEF v
  <2>. QED  BY <2>7, <2>8
<1>6. Nested(G, Append(tx, s))
  <2>1. Len(G) = Len(F) + Deepens(s.op)
    BY <1>1, <1>3 DEF Deepens
  <2>2. \A d \in 1..Len(G) :
           IF d <= Len(F)
           THEN G[d].at = F[d].at /\ Opener(G[d].kind) = Opener(F[d].kind)
           ELSE G[d].at = Len(tx) + 1 /\ Opener(G[d].kind) = s.op
    <3>. SUFFICES ASSUME NEW d \in 1..(m + 1)
                  PROVE  IF d <= m
                         THEN G[d].at = F[d].at /\ Opener(G[d].kind) = Opener(F[d].kind)
                         ELSE G[d].at = Len(tx) + 1 /\ Opener(G[d].kind) = s.op
      BY <1>1
    <3>1. CASE d <= m
      <4>1. d \in 1..m
        BY <1>1, <3>1
      <4>. QED  BY <1>1, <3>1, <4>1
    <3>2. CASE ~(d <= m)
      <4>1. d = m + 1
        BY <1>1, <3>2
      <4>. QED  BY <1>1, <1>3, <3>2, <4>1 DEF Opener
    <3>. QED  BY <3>1, <3>2
  <2>. QED
    BY <1>1, <1>2, <2>1, <2>2, NestedNext
<1>7. EndFree(h)
  <2>1. SUFFICES ASSUME NEW d \in 1..(m + 1), G[d].kind = "if"
                 PROVE  <<G[d].at, "end">> \notin Uses(h)
    BY <1>1 DEF EndFree, G, Uses
  <2>2. <<G[d].at, "end">>[1] = G[d].at /\ <<G[d].at, "end">>[2] = "end"
    OBVIOUS
  <2>3. <<G[d].at, "end">> \notin Uses(g)
    <3>1. CASE d = m + 1
      BY <1>1, <2>2, <3>1
    <3>2. CASE d \in 1..m
      <4>1. F[d].kind = "if" /\ G[d].at = F[d].at /\ d \in 1..Len(F)
        BY <1>1, <2>1, <3>2
      <4>. QED  BY <1>2, <4>1 DEF EndFree, F, Uses
    <3>. QED  BY <1>1, <3>1, <3>2
  <2>. QED  BY <2>2, <2>3 DEF AddsLabels
<1>. QED
  BY <1>4, <1>5, <1>6, <1>7 DEF Layout, G


LEMMA TellsDeeper ==
    ASSUME NEW S \in Seq(Scope), Len(S) > 0, NEW kind \in {"block", "if", "loop"},
           NEW R, Enters(S, R, kind), NEW M, Tells(M, S)
    PROVE  Tells(M, R)
<1>. DEFINE m == Len(S)
<1>1. /\ m \in Nat /\ m > 0 /\ Len(R) = m + 1 /\ \A d \in 1..m : R[d] = S[d]
      /\ R[m + 1].kind = kind /\ R[m + 1].before = MovedMap(S[m].syms) /\ ~R[m + 1].jumps
      /\ m + 1 - 1 = m /\ m \in 1..m
      /\ \A d \in 2..m : d \in 1..m /\ d - 1 \in 1..m
      /\ \A d \in 2..(m + 1) : d \in 2..m \/ d = m + 1
      /\ \A d \in 2..(m + 1) : \A b \in d..(m + 1) : (b \in d..m /\ d \in 2..m) \/ b = m + 1
  BY DEF Enters
<1>. HIDE DEF m
<1>2. LoopsStay(S) => LoopsStay(R)
  <2>. SUFFICES ASSUME LoopsStay(S), NEW d \in 2..(m + 1), R[d].kind = "loop", NEW b \in d..(m + 1)
                PROVE  ~R[b].jumps
    BY <1>1 DEF LoopsStay
  <2>1. CASE b = m + 1
    BY <1>1, <2>1
  <2>2. CASE b \in d..m /\ d \in 2..m
    <3>1. b \in 1..m /\ S[d].kind = "loop"
      BY <1>1, <2>2
    <3>2. ~S[b].jumps
      BY <2>2, <3>1 DEF LoopsStay, m
    <3>. QED  BY <1>1, <3>1, <3>2
  <2>. QED  BY <1>1, <2>1, <2>2
<1>3. Steady(S) => Steady(R)
  <2>. SUFFICES ASSUME Steady(S), NEW d \in 2..(m + 1) PROVE SteadyAt(R, d)
    BY <1>1 DEF Steady
  <2>1. CASE d = m + 1
    <3>. SUFFICES ASSUME R[d].kind \in Branches, NEW v \in DOMAIN R[d - 1].syms
                  PROVE  /\ R[d].before[v] = R[d - 1].syms[v].moved
                         /\ R[d].kind # "else"
      BY DEF SteadyAt
    <3>1. d - 1 = m /\ R[d - 1] = S[m] /\ v \in DOMAIN S[m].syms
      BY <1>1, <2>1
    <3>2. R[d].before[v] = S[m].syms[v].moved
      BY <1>1, <2>1, <3>1 DEF MovedMap
    <3>3. kind # "else"
      OBVIOUS
    <3>. QED  BY <1>1, <2>1, <3>1, <3>2, <3>3
  <2>2. CASE d \in 2..m
    <3>1. R[d] = S[d] /\ R[d - 1] = S[d - 1] /\ SteadyAt(S, d)
      BY <1>1, <2>2 DEF Steady, m
    <3>. QED  BY <3>1 DEF SteadyAt
  <2>. QED  BY <1>1, <2>1, <2>2
<1>. QED
  BY <1>2, <1>3 DEF Tells

\* A block, an if or a loop.
LEMMA KnownOpen ==
    ASSUME NEW g, NEW S, NEW tx, NEW n, Known(g, S, tx, n), NEW T, Body(g, T, S, tx, n),
           NEW kind \in {"block", "if", "loop"}, NEW s \in Statements, s.op = kind,
           NEW R, Enters(S, R, kind), NEW at, at = Len(tx) + 1,
           Stands(GenOpen(g, kind, at), R, Append(tx, s), n)
    PROVE  Known(GenOpen(g, kind, at), R, Append(tx, s), n)
<1>. DEFINE F == g.frames
            e == Entering(g, kind, at)
            h == GenOpen(g, kind, at)
            G == h.frames
            t2 == Append(tx, s)
<1>0. Stands(g, S, tx, n) /\ Layout(g, S, tx)
  BY DEF Known
<1>1. /\ g \in GenStates(n) /\ tx \in Seq(Statements) /\ S \in Seq(Scope) /\ Len(S) > 0
      /\ Len(F) = Len(S) /\ Len(S) \in Nat /\ at \in Nat /\ F \in Seq(Frames)
  <2>1. /\ g \in GenStates(n) /\ tx \in Seq(Statements) /\ S \in Seq(Scope) /\ Len(S) > 0
        /\ Len(F) = Len(S)
    BY <1>0 DEF Stands, Named
  <2>. QED  BY <2>1, GenType
<1>2. \A l \in Uses(g) : l[1] # at /\ l[1] \in 1..Len(tx)
  <2>1. \A l \in Uses(g) : l[1] \in 1..Len(tx)
    BY LabelsSeen
  <2>. QED  BY <1>1, <2>1
<1>3. h = [e EXCEPT !.frames = Append(@, Frame(kind, at))]
  BY DEF GenOpen, Entering
<1>4. e \in GenStates(n) /\ e.frames = F /\ AddsLabels(g, e, at)
  <2>1. g \in GenStates(n) /\ at \in Nat
    BY <1>1
  <2>2. LET x == Entering(g, kind, at)
        IN  x \in GenStates(n) /\ x.frames = g.frames /\ AddsLabels(g, x, at)
    BY <2>1, EnteringTypes, ZenonT(40)
  <2>. QED  BY <2>2
<1>. HIDE DEF e
<1>5. h.code = e.code /\ h.live = e.live /\ G = Append(F, Frame(kind, at))
  BY <1>3, <1>4 DEF GenStates
<1>6. Deeper(F, G, kind, at)
  <2>1. Frame(kind, at).kind = kind /\ Frame(kind, at).at = at /\ Frame(kind, at).entries = <<>>
    BY DEF Frame
  <2>. HIDE DEF h, F
  <2>. QED  BY <1>1, <1>5, <2>1 DEF Deeper
<1>7. AddsLabels(g, h, at)
  BY <1>4, <1>5 DEF Uses, AddsLabels
<1>8. Stands(h, R, t2, n)
  OBVIOUS
<1>. HIDE DEF h, t2
<1>9. Layout(h, R, t2)
  BY <1>0, <1>2, <1>6, <1>7, LayoutDeeper DEF t2
<1>10. ASSUME NEW M \in Modes, NEW W, Covers(M, g, S, W, tx, n)
       PROVE  \E U : Covers(M, h, R, U, t2, n)
  <2>. DEFINE X == Now(M, F, S, Len(S))
              U == [l \in Nat \X Labels |-> IF l[1] = at THEN X ELSE W[l]]
  <2>1. /\ W \in [Nat \X Labels -> SUBSET Int] /\ Kept(M, F, S, W) /\ Tells(M, S)
        /\ Filled(g, X, W, tx, n)
    BY <1>10 DEF Covers
  <2>2. X \in SUBSET Int
    BY <2>1 DEF Filled
  <2>. HIDE DEF X
  <2>3. U \in [Nat \X Labels -> SUBSET Int]
    BY <2>1, <2>2
  <2>4. \A w \in Labels : U[<<at, w>>] = X
    <3>1. \A w \in Labels : <<at, w>> \in Nat \X Labels /\ <<at, w>>[1] = at
      BY <1>1
    <3>. QED  BY <3>1
  <2>5. \A l \in Nat \X Labels : l[1] # at => U[l] = W[l]
    OBVIOUS
  <2>. HIDE DEF U
  <2>6. Filled(g, X, U, t2, n)
    <3>1. \A l \in Uses(g) : l \in Nat \X Labels
      <4>1. g.code \in Seq(Instrs(n)) /\ DOMAIN g.code = 1..Len(g.code)
        BY <1>1, GenType
      <4>2. \A i \in Instrs(n) : i.do \in {"jmp", "br", "label"} => i.to \in Nat \X Labels
        BY DEF Instrs
      <4>3. \A j \in DOMAIN g.code : g.code[j] \in Instrs(n)
        BY <4>1
      <4>. QED  BY <4>2, <4>3 DEF Uses, Jumps, Placed
    <3>2. \A l \in Jumps(g.code) \cup Placed(g.code) : U[l] = W[l]
      BY <1>2, <2>5, <3>1 DEF Uses
    <3>3. Filled(g, X, U, tx, n)
      BY <1>1, <2>1, <3>2, FilledRelabel
    <3>. QED  BY <1>1, <3>3, FilledExtends DEF t2
  <2>7. Filled(h, X, U, t2, n)
    <3>1. Filled(e, X, U, t2, n)
      BY <1>1, <2>4, <2>6, EnteringFilled DEF e
    <3>. QED  BY <1>5, <3>1, FilledCode
  <2>8. Now(M, G, R, Len(R)) = X
    <3>1. AsBefore(M, F, S, G, R)
      BY <1>1, <1>6, FullDeeper
    <3>. QED  BY <3>1 DEF AsBefore, X
  <2>9. Kept(M, G, R, U)
    <3>1. SaysSame(F, Len(S), W, U)
      <4>. SUFFICES ASSUME NEW d \in 2..Len(S), NEW w \in Labels
                    PROVE  U[<<F[d].at, w>>] = W[<<F[d].at, w>>]
        BY DEF SaysSame
      <4>1. F[d].at \in 1..Len(tx)
        <5>1. d \in 2..Len(F) /\ Nested(F, tx)
          BY <1>0, <1>1 DEF Layout
        <5>. QED  BY <5>1 DEF Nested, NestedAt
      <4>2. F[d].at # at /\ F[d].at \in Nat
        BY <1>1, <4>1
      <4>3. <<F[d].at, w>> \in Nat \X Labels /\ <<F[d].at, w>>[1] = F[d].at
        BY <4>2
      <4>. QED  BY <2>5, <4>2, <4>3
    <3>2. SaysAt(U, at, Now(M, g.frames, S, Len(S)))
      BY <2>4 DEF X, SaysAt
    <3>. QED  BY <1>0, <1>6, <2>1, <3>1, <3>2, KeptDeeper
  <2>10. Tells(M, R)
    BY <1>1, <2>1, TellsDeeper
  <2>. QED
    BY <2>3, <2>7, <2>8, <2>9, <2>10 DEF Covers
<1>11. \A M \in Modes : Clean(M, t2) => Carried(M, g, S, h, R, tx, s, n)
  BY <1>10 DEF Carried, t2
<1>12. Known(h, R, t2, n)
  BY <1>8, <1>9, <1>11, KnownNext DEF t2
<1>. QED
  BY <1>12 DEF h, t2


-----------------------------------------------------------------------------
(* Statements that close a scope                                           *)

LEMMA LeaveTypes ==
    ASSUME NEW g, NEW S, NEW tx, NEW n, Stands(g, S, tx, n), Len(S) > 1, NEW at \in Nat
    PROVE  LET h == Leaving(g, at)
           IN  /\ h \in GenStates(n) /\ h.frames = Front(g.frames) /\ Uses(h) = Uses(g)
               /\ h.code = Unwind(g, Len(S) - 1, at).code
               /\ h.live = Unwind(g, Len(S) - 1, at).live
<1>. DEFINE F == g.frames
            m == Len(S)
            k == Unwind(g, m - 1, at)
            h == Leaving(g, at)
<1>1. /\ g \in GenStates(n) /\ m \in Nat /\ m > 1 /\ Len(F) = m /\ FramesFit(F, tx, n)
      /\ F \in Seq(Frames) /\ m - 1 \in 0..m
  <2>1. g \in GenStates(n) /\ m \in Nat /\ Len(F) = m /\ FramesFit(F, tx, n)
    BY DEF Stands, Named
  <2>. QED  BY <2>1, GenType
<1>2. k \in GenStates(n) /\ Plain(g, k)
  BY <1>1, UnwindPlain
<1>3. h = [k EXCEPT !.frames = Front(k.frames)]
  BY <1>1 DEF Leaving
<1>. HIDE DEF k
<1>4. k.frames = F /\ Front(F) \in Seq(Frames)
  <2>1. Len(F) > 0 /\ k.frames = F
    BY <1>1, <1>2 DEF Plain
  <2>. HIDE DEF F
  <2>. QED  BY <1>1, <2>1, FrontIs
<1>5. /\ h \in GenStates(n) /\ h.frames = Front(F) /\ h.code = k.code /\ h.live = k.live
  BY <1>2, <1>3, <1>4 DEF GenStates
<1>. HIDE DEF h
<1>6. Uses(h) = Uses(g)
  BY <1>2, <1>5 DEF Plain, Uses
<1>. QED
  BY <1>5, <1>6 DEF h, k, m

\* What holds a value when the innermost scope is left: X did, at its end.
Outside(g, S, X) == Less(X, Declared(g.frames, Len(S), Len(S)))

LEMMA LeaveFilled ==
    ASSUME NEW g, NEW S, NEW tx, NEW n, Stands(g, S, tx, n), Spent(g.frames, S), Len(S) > 1,
           NEW at \in Nat, NEW M, NEW W,
           Filled(g, Now(M, g.frames, S, Len(S)), W, tx, n)
    PROVE  /\ Filled(Leaving(g, at), Outside(g, S, Now(M, g.frames, S, Len(S))), W, tx, n)
           /\ Now(M, g.frames, S, Len(S) - 1) \subseteq Outside(g, S, Now(M, g.frames, S, Len(S)))
           /\ Outside(g, S, Now(M, g.frames, S, Len(S))) \in SUBSET Int
           /\ M = "calm" /\ Ends(S, Len(S))
              => Outside(g, S, Now(M, g.frames, S, Len(S))) = Everything
<1>. DEFINE F == g.frames
            m == Len(S)
            X == Now(M, F, S, m)
            k == Unwind(g, m - 1, at)
            h == Leaving(g, at)
<1>1. /\ g \in GenStates(n) /\ m \in Nat /\ m > 1 /\ Len(F) = m /\ FramesFit(F, tx, n)
      /\ m - 1 \in 0..Len(F) /\ m - 1 + 1 = m /\ m > 0 /\ m - 1 \in 0..Len(S)
  BY DEF Stands, Named
<1>2. DropsOf(F, m, Len(F), X)
  BY <1>1, NowDrops
<1>3. Now(M, F, S, m - 1) \subseteq Less(X, Declared(F, m, Len(F)))
  BY <1>1, NowInner
<1>4. X \in SUBSET Int
  BY DEF Filled
<1>5. M = "calm" /\ Ends(S, m) => X = Everything
  BY DEF Now
<1>. HIDE DEF X
<1>6. Filled(k, Less(X, Declared(F, m, Len(F))), W, tx, n)
  <2>1. Filled(g, X, W, tx, n)
    BY DEF X
  <2>. QED  BY <1>1, <1>2, <2>1, UnwindFilled
<1>7. h.code = k.code /\ h.live = k.live
  BY <1>1, LeaveTypes
<1>. HIDE DEF h, k
<1>8. Filled(h, Less(X, Declared(F, m, Len(F))), W, tx, n)
  BY <1>6, <1>7, FilledCode
<1>9. Outside(g, S, X) = Less(X, Declared(F, m, Len(F)))
  BY <1>1 DEF Outside
<1>10. /\ Less(X, Declared(F, m, Len(F))) \in SUBSET Int
       /\ X = Everything => Less(X, Declared(F, m, Len(F))) = Everything
  BY <1>4, LessIs
<1>. QED
  BY <1>3, <1>5, <1>8, <1>9, <1>10 DEF h, X, m

\* R are the scopes S as far as the one around the innermost, which may have
\* other flags.
Around(S, R) == \A d \in 1..(Len(S) - 1) :
    /\ R[d].kind = S[d].kind /\ DOMAIN R[d].syms = DOMAIN S[d].syms
    /\ R[d].before = S[d].before /\ R[d].then = S[d].then
    /\ R[d].thenJumps = S[d].thenJumps
    /\ d < Len(S) - 1 => R[d].syms = S[d].syms /\ R[d].jumps = S[d].jumps

\* G are the frames F but for the innermost.
Within(F, G) == \A d \in 1..(Len(F) - 1) : G[d] = F[d]

LEMMA KeptAround ==
    ASSUME NEW g, NEW S, NEW tx, NEW n, Stands(g, S, tx, n), NEW R, Around(S, R),
           NEW G, Within(g.frames, G), NEW M, NEW W, Kept(M, g.frames, S, W),
           NEW U, SaysSame(g.frames, Len(S) - 1, W, U), NEW d \in 2..(Len(S) - 1)
    PROVE  KeptAt(M, G, R, U, d)
<1>. DEFINE F == g.frames
            m == Len(S)
<1>1. m \in Nat /\ Len(F) = m
  BY DEF Stands, Named
<1>2. /\ d \in Nat /\ d > 1 /\ d \in 1..(m - 1) /\ d - 1 \in 1..(m - 1) /\ d \in 2..m
      /\ \A b \in 1..(d - 1) : b \in 1..(m - 1) /\ b < m - 1
      /\ \A b \in 1..(d - 2) : b \in 1..(d - 1)
  BY <1>1
<1>3. KeptAt(M, F, S, W, d)
  BY <1>2 DEF Kept
<1>4. \A w \in Labels : U[<<F[d].at, w>>] = W[<<F[d].at, w>>]
  BY DEF SaysSame
<1>5. \A b \in 1..(d - 1) : R[b].jumps = S[b].jumps /\ R[b].syms = S[b].syms
  BY <1>2 DEF Around
<1>6. /\ R[d].kind = S[d].kind /\ R[d].thenJumps = S[d].thenJumps
      /\ R[d].before = S[d].before /\ R[d].then = S[d].then
  BY <1>2 DEF Around
<1>7. \A b \in 1..(m - 1) : G[b] = F[b]
  BY <1>1 DEF Within
<1>. HIDE DEF F, m
<1>8. \A b \in 1..(d - 1) : Full(G, R, b) = Full(F, S, b)
  BY <1>2, <1>5, <1>7 DEF Full
<1>9. \A b \in 1..(d - 2) : Full(G, R, b) \subseteq Full(F, S, b)
  BY <1>2, <1>8
<1>10. G[d].at = F[d].at /\ G[d - 1] = F[d - 1] /\ Saved(R[d]) = Saved(S[d])
  BY <1>2, <1>6, <1>7 DEF Saved
<1>11. HeldIn(G[d - 1].entries, Saved(R[d])) \subseteq HeldIn(F[d - 1].entries, Saved(S[d]))
  BY <1>10
<1>12. S[d].kind = "loop" => \A b \in 1..(d - 1) : Full(G, R, b) = Full(F, S, b)
  BY <1>8
<1>13. \A b \in 1..(d - 1) : R[b].jumps = S[b].jumps
  BY <1>5
<1>. QED
  BY <1>2, <1>3, <1>4, <1>6, <1>9, <1>10, <1>11, <1>12, <1>13, KeptAtSame

\* The value v of the scope around the innermost is full, and neither flag put
\* aside is set.
LEMMA SpentAround ==
    ASSUME NEW g, NEW S, NEW tx, NEW n, Stands(g, S, tx, n), Spent(g.frames, S),
           NEW R, Around(S, R), NEW G, Within(g.frames, G),
           NEW d \in 1..(Len(S) - 1), NEW j \in 1..Len(G[d].entries), G[d].entries[j].how = "drop"
    PROVE  /\ Untouched(S, d, G[d].entries[j].name)
           /\ G[d].entries[j].name \in DOMAIN S[d].syms
           /\ d < Len(S) - 1 /\ Len(R) >= Len(S) - 1 => Untouched(R, d, G[d].entries[j].name)
<1>. DEFINE F == g.frames
            m == Len(S)
            v == G[d].entries[j].name
<1>1. m \in Nat /\ Len(F) = m /\ d \in 1..m
  BY DEF Stands, Named
<1>2. G[d] = F[d]
  BY <1>1 DEF Within
<1>3. Untouched(S, d, v)
  BY <1>1, <1>2 DEF Spent
<1>4. v \in DOMAIN S[d].syms
  <2>1. j \in 1..Len(F[d].entries)
    BY <1>2
  <2>2. LET e == F[d].entries[j] IN e.name \in DOMAIN S[d].syms
    BY <1>1, <2>1, EntryIs
  <2>. QED  BY <1>2, <2>2
<1>. HIDE DEF v
<1>5. ASSUME d < m - 1, Len(R) >= m - 1 PROVE Untouched(R, d, v)
  <2>1. d + 1 \in 1..(m - 1) /\ d < Len(S)
    BY <1>1, <1>5
  <2>2. /\ R[d].syms = S[d].syms /\ R[d + 1].kind = S[d + 1].kind
        /\ R[d + 1].before = S[d + 1].before /\ R[d + 1].then = S[d + 1].then
    BY <1>5, <2>1 DEF Around
  <2>. QED  BY <1>3, <2>1, <2>2 DEF Untouched
<1>. QED
  BY <1>3, <1>4, <1>5 DEF v

\* The label of the innermost scope is that of no other.
LEMMA LabelsApart ==
    ASSUME NEW g, NEW S, NEW tx, NEW n, Stands(g, S, tx, n), Nested(g.frames, tx), Len(S) > 1
    PROVE  /\ \A d \in 2..(Len(S) - 1) : g.frames[d].at # g.frames[Len(S)].at
           /\ g.frames[Len(S)].at \in Nat
<1>. DEFINE F == g.frames
            m == Len(S)
<1>1. m \in Nat /\ Len(F) = m /\ m \in 2..Len(F) /\ tx \in Seq(Statements)
  BY DEF Stands, Named
<1>2. \A d \in 2..(m - 1) : d \in 2..Len(F) /\ d # m
  BY <1>1
<1>3. F[m].at \in 1..Len(tx)
  BY <1>1 DEF Nested, NestedAt
<1>. HIDE DEF m, F
<1>4. \A d \in 2..(m - 1) : F[d].at # F[m].at
  BY <1>1, <1>2, NestedApart DEF F
<1>. QED
  BY <1>1, <1>3, <1>4 DEF m, F

\* The flags where the scope f ends: what is moved on no path that comes there.
Meets(f, now) == CASE f.kind = "if"   -> AfterIf(now, f)
                   [] f.kind = "else" -> AfterElse(now, f)
                   [] OTHER           -> now

\* All paths through the scope f jump, an if without else being passed by.
AllJump(f) == CASE f.kind = "if"   -> FALSE
                [] f.kind = "else" -> f.jumps /\ f.thenJumps
                [] OTHER           -> f.jumps

\* R are the scopes S when the innermost is left.
Closes(S, R) ==
    /\ R \in Seq(Scope) /\ Len(S) > 1 /\ Len(R) = Len(S) - 1 /\ Around(S, R)
    /\ \A v \in DOMAIN S[Len(S) - 1].syms :
          R[Len(S) - 1].syms[v].moved
             = Meets(S[Len(S)], MovedMap(S[Len(S) - 1].syms))[v]
    /\ R[Len(S) - 1].jumps = (S[Len(S) - 1].jumps \/ AllJump(S[Len(S)]))

\* Which flags are not set after the scope f, where now are those ahead of it.
LEMMA MeetsFlag ==
    ASSUME NEW f, NEW now, NEW v \in DOMAIN now,
           f.jumps \in BOOLEAN, f.thenJumps \in BOOLEAN,
           f.kind \in Branches => v \in DOMAIN f.before,
           f.kind = "else" => v \in DOMAIN f.then
    PROVE  /\ ~Meets(f, now)[v] /\ f.kind = "if"
              => ~f.before[v] /\ (~now[v] \/ f.jumps)
           /\ ~Meets(f, now)[v] /\ f.kind = "else"
              => (~now[v] \/ (f.jumps /\ ~f.thenJumps)) /\ (~f.then[v] \/ f.thenJumps)
           /\ ~Meets(f, now)[v] /\ f.kind \notin Branches => ~now[v]
           /\ /\ ~now[v]
              /\ f.kind \in Branches => ~f.before[v]
              /\ f.kind = "else" => ~f.then[v]
              => ~Meets(f, now)[v]
<1>1. CASE f.kind = "if"
  <2>1. Meets(f, now)[v] = (f.before[v] \/ (now[v] /\ ~f.jumps))
    BY <1>1 DEF Meets, AfterIf, Branches
  <2>. QED  BY <1>1, <2>1 DEF Branches
<1>2. CASE f.kind = "else"
  <2>1. Meets(f, now) = AfterElse(now, f)
    BY <1>2 DEF Meets
  <2>2. CASE f.thenJumps
    <3>1. Meets(f, now)[v] = now[v]
      BY <2>1, <2>2 DEF AfterElse
    <3>. QED  BY <1>2, <2>2, <3>1 DEF Branches
  <2>3. CASE ~f.thenJumps /\ f.jumps
    <3>1. Meets(f, now)[v] = f.then[v]
      BY <2>1, <2>3 DEF AfterElse
    <3>. QED  BY <1>2, <2>3, <3>1 DEF Branches
  <2>4. CASE ~f.thenJumps /\ ~f.jumps
    <3>1. Meets(f, now)[v] = (now[v] \/ f.then[v])
      BY <1>2, <2>1, <2>4 DEF AfterElse
    <3>. QED  BY <1>2, <2>4, <3>1 DEF Branches
  <2>. QED  BY <2>2, <2>3, <2>4
<1>3. CASE f.kind \notin Branches
  <2>1. Meets(f, now) = now
    BY <1>3 DEF Meets, Branches
  <2>. QED  BY <1>3, <2>1 DEF Branches
<1>. QED
  BY <1>1, <1>2, <1>3 DEF Branches

\* A value that is not moved when a scope is left: on which paths it was not.
LEMMA ClosedFlag ==
    ASSUME NEW g, NEW S, NEW tx, NEW n, Stands(g, S, tx, n), Saves(S),
           NEW R, Closes(S, R), NEW M, Tells(M, S), M \in Modes,
           NEW v \in DOMAIN S[Len(S) - 1].syms, Kind[v] = "value",
           ~R[Len(S) - 1].syms[v].moved
    PROVE  /\ S[Len(S)].kind \in Branches /\ ~(M = "calm" /\ S[Len(S)].thenJumps)
              => ~Saved(S[Len(S)])[v]
           /\ ~(M = "calm" /\ S[Len(S)].jumps) => ~S[Len(S) - 1].syms[v].moved
<1>. DEFINE m == Len(S)
            f == S[m]
            syms == S[m - 1].syms
            now == MovedMap(syms)
<1>1. /\ S \in Seq(Scope) /\ m \in Nat /\ m > 1 /\ m \in 1..Len(S) /\ m - 1 \in 1..Len(S)
      /\ m \in 2..Len(S)
  BY DEF Stands, Closes
<1>2. /\ f.jumps \in BOOLEAN /\ f.thenJumps \in BOOLEAN
      /\ now[v] = syms[v].moved /\ v \in DOMAIN now /\ syms[v].moved \in BOOLEAN
  <2>1. f.jumps \in BOOLEAN /\ f.thenJumps \in BOOLEAN
    BY <1>1, ScopeIs
  <2>2. now[v] = syms[v].moved /\ syms[v].moved \in BOOLEAN
    BY <1>1, ScopeIs
  <2>. QED  BY <2>1, <2>2 DEF MovedMap
<1>3. /\ f.kind \in Branches => v \in DOMAIN f.before
      /\ f.kind = "else" => v \in DOMAIN f.then
  <2>1. f.kind \in Branches => DOMAIN syms \subseteq DOMAIN f.before
    BY <1>1 DEF Saves
  <2>2. f.kind \in Branches /\ f.kind = "else" => DOMAIN syms \subseteq DOMAIN f.then
    BY <1>1 DEF Saves
  <2>. QED  BY <2>1, <2>2 DEF Branches
<1>4. ~Meets(f, now)[v]
  BY <1>1 DEF Closes
<1>5. M = "still" /\ f.kind \in Branches
      => f.before[v] = syms[v].moved /\ (f.kind = "else" => f.then[v] = syms[v].moved)
  BY <1>1 DEF Tells, Steady, SteadyAt
<1>6. M = "calm" \/ M = "still"
  BY DEF Modes
<1>. HIDE DEF now, f, syms
<1>7. /\ f.kind = "if" => ~f.before[v] /\ (~now[v] \/ f.jumps)
      /\ f.kind = "else"
         => (~now[v] \/ (f.jumps /\ ~f.thenJumps)) /\ (~f.then[v] \/ f.thenJumps)
      /\ f.kind \notin Branches => ~now[v]
  BY <1>2, <1>3, <1>4, MeetsFlag
<1>8. CASE f.kind = "if"
  <2>1. Saved(f) = f.before
    BY <1>8 DEF Saved
  <2>2. f.kind \in Branches
    BY <1>8 DEF Branches
  <2>3. ~Saved(f)[v]
    BY <1>7, <1>8, <2>1
  <2>4. ~(M = "calm" /\ f.jumps) => ~syms[v].moved
    BY <1>2, <1>5, <1>6, <1>7, <1>8, <2>2
  <2>. QED  BY <2>3, <2>4 DEF f, syms
<1>9. CASE f.kind = "else"
  <2>1. Saved(f) = f.then
    BY <1>9 DEF Saved
  <2>2. f.kind \in Branches
    BY <1>9 DEF Branches
  <2>3. ~(M = "calm" /\ f.thenJumps) => ~f.then[v]
    BY <1>2, <1>5, <1>6, <1>7, <1>9, <2>2
  <2>4. ~(M = "calm" /\ f.jumps) => ~syms[v].moved
    BY <1>2, <1>5, <1>6, <1>7, <1>9, <2>2
  <2>. QED  BY <2>1, <2>3, <2>4 DEF f, syms
<1>10. CASE f.kind \notin Branches
  BY <1>2, <1>7, <1>10 DEF f, syms
<1>. QED
  BY <1>8, <1>9, <1>10 DEF Branches


\* Where control does not come, Z is everything.
Unreached(M, S, Z) == M = "calm" /\ Ends(S, Len(S)) => Z = Everything

\* Z is no less than there was around the innermost scope.
Remains(M, F, S, Z) == Now(M, F, S, Len(S) - 1) \subseteq Z /\ Unreached(M, S, Z)

\* What is left of the values when a scope is left: no more than there was
\* around it (Z), at the end of the branch, and where the loop was entered.
LEMMA NowClosed ==
    ASSUME NEW g, NEW S, NEW tx, NEW n, Stands(g, S, tx, n), Saves(S),
           NEW R, Closes(S, R), NEW h, NEW t2, Stands(h, R, t2, n),
           Within(g.frames, h.frames), NEW M \in Modes, Tells(M, S),
           NEW Z, Remains(M, g.frames, S, Z)
    PROVE  /\ Now(M, h.frames, R, Len(S) - 1) \subseteq Z
           /\ S[Len(S)].kind \in Branches
              => Now(M, h.frames, R, Len(S) - 1) \subseteq Waiting(M, g.frames, S, Len(S))
           /\ S[Len(S)].kind = "loop"
              => Now(M, h.frames, R, Len(S) - 1) \subseteq Now(M, g.frames, S, Len(S) - 1)
<1>. DEFINE F == g.frames
            G == h.frames
            m == Len(S)
            f == S[m]
            X == Now(M, G, R, m - 1)
<1>1. /\ S \in Seq(Scope) /\ m \in Nat /\ m > 1 /\ m - 1 \in 1..m /\ m \in 1..m
      /\ R \in Seq(Scope) /\ Len(R) = m - 1 /\ Len(F) = m /\ Len(G) = m - 1
      /\ m - 1 \in 1..Len(R) /\ m - 1 \in 0..Len(R) /\ m - 1 \in 1..(m - 1)
      /\ \A d : d \in 1..(m - 1) <=> d \in 1..(m - 2) \/ d = m - 1
      /\ \A d : d \in 1..m <=> d \in 1..(m - 1) \/ d = m
      /\ \A d \in 1..(m - 2) : d \in 1..(m - 1) /\ d < m - 1
      /\ m - 1 - 1 = m - 2
  BY DEF Stands, Named, Closes
<1>2. X \in SUBSET Int
  BY <1>1, FullType
<1>3. /\ \A d \in 1..(m - 2) : R[d].syms = S[d].syms /\ R[d].jumps = S[d].jumps
      /\ DOMAIN R[m - 1].syms = DOMAIN S[m - 1].syms
  <2>1. Around(S, R)
    BY DEF Closes
  <2>. QED  BY <1>1, <2>1 DEF Around
<1>4. \A d \in 1..(m - 1) : G[d] = F[d]
  BY <1>1 DEF Within
<1>5. /\ f.jumps \in BOOLEAN /\ R[m - 1].jumps = (S[m - 1].jumps \/ AllJump(f))
      /\ AllJump(f) => f.jumps /\ (f.kind \in Branches => f.thenJumps)
  <2>1. f.jumps \in BOOLEAN /\ R[m - 1].jumps = (S[m - 1].jumps \/ AllJump(f))
    BY <1>1, ScopeIs DEF Closes
  <2>2. AllJump(f) => f.jumps /\ (f.kind \in Branches => f.thenJumps)
    <3>. HIDE DEF f
    <3>1. CASE f.kind = "if"
      BY <3>1 DEF AllJump
    <3>2. CASE f.kind = "else"
      BY <3>2 DEF AllJump
    <3>3. CASE f.kind \notin {"if", "else"}
      BY <3>3 DEF AllJump, Branches
    <3>. QED  BY <3>1, <3>2, <3>3
  <2>. QED  BY <2>1, <2>2
<1>6. \A d \in 1..(m - 2) : Full(G, R, d) = Full(F, S, d)
  BY <1>1, <1>3, <1>4 DEF Full
<1>7. ASSUME NEW j \in 1..Len(F[m - 1].entries), Kind[F[m - 1].entries[j].name] = "value",
             ~MovedMap(R[m - 1].syms)[F[m - 1].entries[j].name]
      PROVE  /\ f.kind \in Branches /\ ~(M = "calm" /\ f.thenJumps)
                => ~Saved(f)[F[m - 1].entries[j].name]
             /\ ~(M = "calm" /\ f.jumps)
                => ~MovedMap(S[m - 1].syms)[F[m - 1].entries[j].name]
  <2>1. PICK v : v = F[m - 1].entries[j].name
    OBVIOUS
  <2>2. v \in DOMAIN S[m - 1].syms
    <3>1. LET e == F[m - 1].entries[j] IN e.name \in DOMAIN S[m - 1].syms
      BY <1>1, EntryIs
    <3>. QED  BY <2>1, <3>1
  <2>3. MovedMap(S[m - 1].syms)[v] = S[m - 1].syms[v].moved
    BY <1>1, <2>2, ScopeIs
  <2>4. v \in DOMAIN R[m - 1].syms
    BY <1>3, <2>2
  <2>5. MovedMap(R[m - 1].syms)[v] = R[m - 1].syms[v].moved
    BY <1>1, <2>4, ScopeIs
  <2>6. ~R[m - 1].syms[v].moved
    BY <1>7, <2>1, <2>5
  <2>7. Kind[v] = "value"
    BY <1>7, <2>1
  <2>8. /\ f.kind \in Branches /\ ~(M = "calm" /\ f.thenJumps) => ~Saved(f)[v]
        /\ ~(M = "calm" /\ f.jumps) => ~S[m - 1].syms[v].moved
    BY <2>2, <2>6, <2>7, ClosedFlag
  <2>. QED  BY <2>1, <2>3, <2>8
<1>8. G[m - 1] = F[m - 1]
  BY <1>1, <1>4
<1>9. Full(G, R, m - 1) = HeldIn(F[m - 1].entries, MovedMap(R[m - 1].syms))
  BY <1>8 DEF Full
<1>10. f.kind \in Branches /\ ~(M = "calm" /\ f.thenJumps)
       => Full(G, R, m - 1) \subseteq HeldIn(F[m - 1].entries, Saved(f))
  BY <1>7, <1>9 DEF HeldIn
<1>11. ~(M = "calm" /\ f.jumps) => Full(G, R, m - 1) \subseteq Full(F, S, m - 1)
  <2>1. Full(F, S, m - 1) = HeldIn(F[m - 1].entries, MovedMap(S[m - 1].syms))
    BY DEF Full
  <2>. QED  BY <1>7, <1>9, <2>1 DEF HeldIn
<1>12. /\ Ends(R, m - 1) <=> Ends(S, m - 2) \/ R[m - 1].jumps
       /\ Ends(S, m - 1) <=> Ends(S, m - 2) \/ S[m - 1].jumps
       /\ Ends(S, m) <=> Ends(S, m - 1) \/ f.jumps
  <2>. HIDE DEF m
  <2>1. Ends(S, m - 1) <=> Ends(S, m - 2) \/ S[m - 1].jumps
    BY <1>1 DEF Ends
  <2>2. Ends(R, m - 1) <=> Ends(S, m - 2) \/ R[m - 1].jumps
    BY <1>1, <1>3 DEF Ends
  <2>3. Ends(S, m) <=> Ends(S, m - 1) \/ f.jumps
    BY <1>1 DEF Ends
  <2>. QED  BY <2>1, <2>2, <2>3
<1>13. /\ Sure(G, R, m - 1) = Sure(F, S, m - 2) \cup Full(G, R, m - 1)
       /\ Sure(F, S, m - 1) = Sure(F, S, m - 2) \cup Full(F, S, m - 1)
  <2>. HIDE DEF m, F, G
  <2>1. Sure(G, R, m - 1) = Sure(F, S, m - 2) \cup Full(G, R, m - 1)
    BY <1>1, <1>6 DEF Sure
  <2>2. Sure(F, S, m - 1) = Sure(F, S, m - 2) \cup Full(F, S, m - 1)
    BY <1>1 DEF Sure
  <2>. QED  BY <2>1, <2>2
<1>. HIDE DEF F, G, m, f
<1>14. X = Everything \/ X = Sure(G, R, m - 1)
  BY DEF Now
<1>15. M = "calm" /\ Ends(R, m - 1) => M = "calm" /\ Ends(S, m)
  BY <1>5, <1>12
<1>16. X \subseteq Z
  <2>1. CASE M = "calm" /\ Ends(S, m)
    <3>1. Z = Everything
      BY <2>1 DEF m, Unreached, Remains
    <3>. QED  BY <1>2, <3>1 DEF Everything
  <2>2. CASE ~(M = "calm" /\ Ends(S, m))
    <3>1. X = Sure(G, R, m - 1)
      BY <1>15, <2>2 DEF Now
    <3>2. Now(M, F, S, m - 1) = Sure(F, S, m - 1)
      BY <1>12, <2>2 DEF Now
    <3>3. Full(G, R, m - 1) \subseteq Full(F, S, m - 1)
      BY <1>11, <1>12, <2>2
    <3>4. Now(M, F, S, m - 1) \subseteq Z
      BY DEF F, m, Remains
    <3>. HIDE DEF X
    <3>. QED  BY <1>13, <3>1, <3>2, <3>3, <3>4
  <2>. QED  BY <2>1, <2>2
<1>17. ASSUME f.kind \in Branches PROVE X \subseteq Waiting(M, F, S, m)
  <2>1. CASE M = "calm" /\ (Ends(S, m - 1) \/ f.thenJumps)
    <3>1. Waiting(M, F, S, m) = Everything
      BY <2>1 DEF Waiting, f
    <3>. QED  BY <1>2, <3>1 DEF Everything
  <2>2. CASE ~(M = "calm" /\ (Ends(S, m - 1) \/ f.thenJumps))
    <3>1. X = Sure(G, R, m - 1)
      BY <1>5, <1>12, <1>17, <2>2 DEF Now
    <3>2. Waiting(M, F, S, m) = Sure(F, S, m - 2) \cup HeldIn(F[m - 1].entries, Saved(f))
      BY <2>2 DEF Waiting, f
    <3>3. Full(G, R, m - 1) \subseteq HeldIn(F[m - 1].entries, Saved(f))
      BY <1>10, <1>17, <2>2
    <3>. HIDE DEF X
    <3>. QED  BY <1>13, <3>1, <3>2, <3>3
  <2>. QED  BY <2>1, <2>2
<1>18. ASSUME f.kind = "loop" PROVE X \subseteq Now(M, F, S, m - 1)
  <2>1. M = "calm" => ~f.jumps
    <3>1. m \in 2..Len(S) /\ m \in m..Len(S)
      BY <1>1 DEF m
    <3>. QED  BY <1>18, <3>1 DEF Tells, LoopsStay, f
  <2>2. ~(M = "calm" /\ f.jumps)
    BY <2>1
  <2>3. Full(G, R, m - 1) \subseteq Full(F, S, m - 1)
    BY <1>11, <2>2
  <2>4. M = "calm" => (Ends(R, m - 1) <=> Ends(S, m - 1))
    BY <1>5, <1>12, <2>1
  <2>5. Sure(G, R, m - 1) \subseteq Sure(F, S, m - 1)
    BY <1>13, <2>3
  <2>. QED  BY <2>4, <2>5 DEF Now
<1>. QED
  BY <1>16, <1>17, <1>18 DEF m, f, F, G


\* h names labels of at besides those that g does.
AddsOf(g, h, at) == \A l \in Uses(h) : l \in Uses(g) \/ l[1] = at

LEMMA EndFreeAround ==
    ASSUME NEW g, NEW S, NEW tx, NEW n, Stands(g, S, tx, n), Nested(g.frames, tx), EndFree(g),
           Len(S) > 1, S[1].kind = "body", NEW h, Within(g.frames, h.frames),
           AddsOf(g, h, g.frames[Len(S)].at)
    PROVE  \A d \in 1..(Len(S) - 1) : h.frames[d].kind = "if"
              => <<h.frames[d].at, "end">> \notin Jumps(h.code) \cup Placed(h.code)
<1>. DEFINE F == g.frames
            m == Len(S)
<1>1. m \in Nat /\ m > 1 /\ Len(F) = m /\ \A d \in 1..m : F[d].kind = S[d].kind
  BY DEF Stands, Named
<1>. SUFFICES ASSUME NEW d \in 1..(m - 1), h.frames[d].kind = "if"
              PROVE  <<h.frames[d].at, "end">> \notin Uses(h)
  BY DEF Uses
<1>2. h.frames[d] = F[d] /\ d \in 1..m
  BY <1>1 DEF Within
<1>3. F[d].kind = "if"
  BY <1>2
<1>4. d \in 2..(m - 1)
  <2>1. d # 1
    BY <1>1, <1>3
  <2>. QED  BY <1>1, <2>1
<1>5. F[d].at # F[m].at
  BY <1>4, LabelsApart
<1>6. <<F[d].at, "end">>[1] = F[d].at
  OBVIOUS
<1>7. <<F[d].at, "end">> \notin Uses(g)
  BY <1>1, <1>2, <1>3 DEF EndFree, Uses
<1>. QED
  BY <1>2, <1>5, <1>6, <1>7 DEF AddsOf

LEMMA LayoutClosed ==
    ASSUME NEW g, NEW S, NEW tx, NEW n, Stands(g, S, tx, n), Layout(g, S, tx),
           S[1].kind = "body", NEW s \in Statements, s.op = "close",
           NEW R, Closes(S, R), NEW h, NEW t2, Stands(h, R, t2, n),
           Within(g.frames, h.frames), AddsOf(g, h, g.frames[Len(S)].at)
    PROVE  Layout(h, R, Append(tx, s))
<1>. DEFINE F == g.frames
            G == h.frames
            m == Len(S)
<1>1. /\ S \in Seq(Scope) /\ m \in Nat /\ m > 1 /\ tx \in Seq(Statements)
      /\ Len(R) = m - 1 /\ Len(F) = m /\ Len(G) = m - 1 /\ Around(S, R)
  BY DEF Stands, Named, Closes
<1>2. Saves(S) /\ Spent(F, S) /\ Nested(F, tx) /\ EndFree(g)
  BY DEF Layout
<1>3. Saves(R)
  <2>1. SUFFICES ASSUME NEW d \in 2..(m - 1), R[d].kind \in Branches
                 PROVE  /\ DOMAIN R[d - 1].syms \subseteq DOMAIN R[d].before
                        /\ R[d].kind = "else" => DOMAIN R[d - 1].syms \subseteq DOMAIN R[d].then
    BY <1>1 DEF Saves
  <2>2. d \in 1..(m - 1) /\ d - 1 \in 1..(m - 1) /\ d \in 2..m
    BY <1>1
  <2>3. /\ R[d].kind = S[d].kind /\ R[d].before = S[d].before /\ R[d].then = S[d].then
        /\ DOMAIN R[d - 1].syms = DOMAIN S[d - 1].syms
    BY <1>1, <2>2 DEF Around
  <2>. QED  BY <1>2, <2>1, <2>2, <2>3 DEF Saves
<1>4. Spent(G, R)
  <2>1. SUFFICES ASSUME NEW d \in 1..(m - 1), NEW j \in 1..Len(G[d].entries),
                        G[d].entries[j].how = "drop"
                 PROVE  Untouched(R, d, G[d].entries[j].name)
    BY <1>1 DEF Spent
  <2>. DEFINE v == G[d].entries[j].name
  <2>2. /\ Untouched(S, d, v) /\ v \in DOMAIN S[d].syms
        /\ d < Len(S) - 1 /\ Len(R) >= Len(S) - 1 => Untouched(R, d, v)
    BY <1>1, <1>2, <2>1, SpentAround
  <2>. HIDE DEF v
  <2>3. CASE d < m - 1
    <3>1. Untouched(R, d, v)
      BY <1>1, <2>2, <2>3
    <3>. QED  BY <3>1 DEF v
  <2>4. CASE d = m - 1
    <3>. DEFINE f == S[m]
                now == MovedMap(S[m - 1].syms)
    <3>1. /\ m \in 1..Len(S) /\ m - 1 \in 1..Len(S) /\ m \in 2..Len(S) /\ d + 1 = m /\ d < Len(S)
          /\ v \in DOMAIN S[m - 1].syms
      BY <1>1, <2>2, <2>4
    <3>2. f.jumps \in BOOLEAN /\ f.thenJumps \in BOOLEAN
      BY <1>1, <3>1, ScopeIs
    <3>3. now[v] = S[m - 1].syms[v].moved /\ v \in DOMAIN now
      <4>1. now[v] = S[m - 1].syms[v].moved
        BY <1>1, <3>1, ScopeIs
      <4>. QED  BY <3>1, <4>1 DEF MovedMap
    <3>4. /\ f.kind \in Branches => v \in DOMAIN f.before
          /\ f.kind = "else" => v \in DOMAIN f.then
      <4>1. f.kind \in Branches => DOMAIN S[m - 1].syms \subseteq DOMAIN f.before
        BY <1>2, <3>1 DEF Saves
      <4>2. f.kind \in Branches /\ f.kind = "else" => DOMAIN S[m - 1].syms \subseteq DOMAIN f.then
        BY <1>2, <3>1 DEF Saves
      <4>. QED  BY <3>1, <4>1, <4>2 DEF Branches
    <3>5. /\ ~now[v]
          /\ f.kind \in Branches => ~f.before[v]
          /\ f.kind = "else" => ~f.then[v]
      <4>1. /\ ~S[d].syms[v].moved
            /\ d < Len(S) /\ S[d + 1].kind \in Branches => ~S[d + 1].before[v]
            /\ d < Len(S) /\ S[d + 1].kind = "else" => ~S[d + 1].then[v]
        BY <2>2 DEF Untouched
      <4>. QED  BY <2>4, <3>1, <3>3, <4>1
    <3>6. R[m - 1].syms[v].moved = Meets(f, now)[v]
      BY <3>1 DEF Closes
    <3>. HIDE DEF f, now
    <3>7. ~Meets(f, now)[v]
      BY <3>2, <3>3, <3>4, <3>5, MeetsFlag
    <3>8. ~R[d].syms[v].moved /\ ~(d < Len(R))
      BY <1>1, <2>4, <3>6, <3>7
    <3>9. Untouched(R, d, v)
      BY <3>8 DEF Untouched
    <3>. QED  BY <3>9 DEF v
  <2>. QED  BY <1>1, <2>3, <2>4
<1>5. Nested(G, Append(tx, s))
  <2>1. Len(G) = Len(F) + Deepens(s.op) /\ Len(F) \in Nat
    BY <1>1 DEF Deepens, Opens
  <2>2. \A d \in 1..Len(G) : d <= Len(F) /\ G[d].at = F[d].at /\ G[d].kind = F[d].kind
    <3>1. \A d \in 1..(m - 1) : d <= m /\ G[d] = F[d]
      BY <1>1 DEF Within
    <3>. QED  BY <1>1, <3>1
  <2>3. \A d \in 1..Len(G) :
           IF d <= Len(F)
           THEN G[d].at = F[d].at /\ Opener(G[d].kind) = Opener(F[d].kind)
           ELSE G[d].at = Len(tx) + 1 /\ Opener(G[d].kind) = s.op
    BY <2>2
  <2>. HIDE DEF F, G
  <2>. QED
    BY <1>1, <1>2, <2>1, <2>3, NestedNext
<1>6. EndFree(h)
  <2>1. \A d \in 1..(m - 1) : h.frames[d].kind = "if"
              => <<h.frames[d].at, "end">> \notin Jumps(h.code) \cup Placed(h.code)
    BY <1>1, <1>2, EndFreeAround
  <2>. QED  BY <1>1, <2>1 DEF EndFree
<1>. QED
  BY <1>3, <1>4, <1>5, <1>6 DEF Layout

LEMMA TellsClosed ==
    ASSUME NEW S \in Seq(Scope), NEW R, Closes(S, R), NEW M, Tells(M, S)
    PROVE  Tells(M, R)
<1>. DEFINE m == Len(S)
<1>1. m \in Nat /\ m > 1 /\ Len(R) = m - 1 /\ Around(S, R)
  BY DEF Closes
<1>2. LoopsStay(S) => LoopsStay(R)
  <2>. SUFFICES ASSUME LoopsStay(S), NEW d \in 2..(m - 1), R[d].kind = "loop",
                       NEW b \in d..(m - 1)
                PROVE  ~R[b].jumps
    BY <1>1 DEF LoopsStay
  <2>1. /\ d \in 2..m /\ d \in 1..(m - 1) /\ b \in d..m /\ b \in 1..(m - 1) /\ m \in d..m
        /\ m \in 1..Len(S) /\ m - 1 \in d..m
    BY <1>1
  <2>2. S[d].kind = "loop"
    BY <1>1, <2>1 DEF Around
  <2>3. ~S[b].jumps /\ ~S[m].jumps /\ ~S[m - 1].jumps
    BY <2>1, <2>2 DEF LoopsStay
  <2>4. CASE b < m - 1
    BY <1>1, <2>1, <2>3, <2>4 DEF Around
  <2>5. CASE b = m - 1
    <3>1. R[m - 1].jumps = (S[m - 1].jumps \/ AllJump(S[m]))
      BY DEF Closes
    <3>2. ~AllJump(S[m])
      <4>. DEFINE f == S[m]
      <4>1. ~f.jumps
        BY <2>3
      <4>. HIDE DEF f
      <4>2. f.kind = "if" => ~AllJump(f)
        BY DEF AllJump
      <4>3. f.kind = "else" => ~AllJump(f)
        BY <4>1 DEF AllJump
      <4>4. f.kind \notin {"if", "else"} => ~AllJump(f)
        BY <4>1 DEF AllJump
      <4>5. ~AllJump(f)
        BY <4>2, <4>3, <4>4
      <4>. QED  BY <4>5 DEF f
    <3>. QED  BY <2>3, <2>5, <3>1, <3>2
  <2>. QED  BY <1>1, <2>4, <2>5
<1>3. Steady(S) => Steady(R)
  <2>. SUFFICES ASSUME Steady(S), NEW d \in 2..(m - 1) PROVE SteadyAt(R, d)
    BY <1>1 DEF Steady
  <2>1. d \in 2..m /\ d \in 1..(m - 1) /\ d - 1 \in 1..(m - 1) /\ d - 1 < m - 1
    BY <1>1
  <2>2. /\ R[d].kind = S[d].kind /\ R[d].before = S[d].before /\ R[d].then = S[d].then
        /\ R[d - 1].syms = S[d - 1].syms
    BY <1>1, <2>1 DEF Around
  <2>3. SteadyAt(S, d)
    BY <2>1 DEF Steady
  <2>. QED  BY <2>2, <2>3 DEF SteadyAt
<1>. QED
  BY <1>2, <1>3 DEF Tells


\* What is emitted when the innermost scope was left.
Ending(e, kind, at) ==
    CASE kind = "if"   -> Label(e, at, "else")
      [] kind = "else" -> Label(e, at, "end")
      [] kind = "loop" -> Label(Emit(e, <<Jmp(at, "cond")>>), at, "after")
      [] OTHER         -> e

LEMMA JumpTypes ==
    ASSUME NEW n, NEW e \in GenStates(n), NEW at \in Nat, NEW w \in Labels
    PROVE  LET j == Emit(e, <<Jmp(at, w)>>)
           IN  j \in GenStates(n) /\ j.frames = e.frames /\ AddsOf(e, j, at)
<1>1. PICK i : i = Jmp(at, w)
  OBVIOUS
<1>2. i \in Instrs(n) /\ i.do = "jmp" /\ i.to = <<at, w>>
  BY <1>1, JmpType
<1>. DEFINE j == Emit(e, <<i>>)
<1>3. j \in GenStates(n) /\ j.frames = e.frames /\ Uses(j) \subseteq Uses(e) \cup {i.to}
  BY <1>2, EmitTypes
<1>4. i.to[1] = at
  BY <1>2
<1>. HIDE DEF j
<1>5. AddsOf(e, j, at)
  BY <1>3, <1>4 DEF AddsOf
<1>. QED
  BY <1>1, <1>3, <1>5 DEF j

LEMMA LabelAdds ==
    ASSUME NEW n, NEW e \in GenStates(n), NEW at \in Nat, NEW w \in Labels
    PROVE  LET j == Label(e, at, w)
           IN  j \in GenStates(n) /\ j.frames = e.frames /\ AddsOf(e, j, at)
<1>. DEFINE j == Label(e, at, w)
<1>1. j \in GenStates(n) /\ j.frames = e.frames /\ Uses(j) = Uses(e) \cup {<<at, w>>}
  BY LabelTypes
<1>2. <<at, w>>[1] = at
  OBVIOUS
<1>. HIDE DEF j
<1>3. AddsOf(e, j, at)
  BY <1>1, <1>2 DEF AddsOf
<1>. QED
  BY <1>1, <1>3 DEF j

LEMMA AddsTwice ==
    ASSUME NEW e, NEW j, NEW k, NEW at, AddsOf(e, j, at), AddsOf(j, k, at)
    PROVE  AddsOf(e, k, at)
BY DEF AddsOf

LEMMA EndingTypes ==
    ASSUME NEW n, NEW e \in GenStates(n), NEW kind, NEW at \in Nat
    PROVE  LET h == Ending(e, kind, at)
           IN  h.frames = e.frames /\ AddsOf(e, h, at)
<1>1. "cond" \in Labels /\ "after" \in Labels /\ "else" \in Labels /\ "end" \in Labels
  BY DEF Labels
<1>. DEFINE h == Ending(e, kind, at)
<1>2. CASE kind = "if"
  <2>1. h = Label(e, at, "else")
    BY <1>2 DEF Ending
  <2>2. LET j == Label(e, at, "else") IN j.frames = e.frames /\ AddsOf(e, j, at)
    BY <1>1, LabelAdds
  <2>. QED  BY <2>1, <2>2
<1>3. CASE kind = "else"
  <2>1. h = Label(e, at, "end")
    BY <1>3 DEF Ending
  <2>2. LET j == Label(e, at, "end") IN j.frames = e.frames /\ AddsOf(e, j, at)
    BY <1>1, LabelAdds
  <2>. QED  BY <2>1, <2>2
<1>4. CASE kind = "loop"
  <2>. DEFINE j == Emit(e, <<Jmp(at, "cond")>>)
              k == Label(j, at, "after")
  <2>1. h = k
    BY <1>4 DEF Ending
  <2>2. j \in GenStates(n) /\ j.frames = e.frames /\ AddsOf(e, j, at)
    BY <1>1, JumpTypes
  <2>. HIDE DEF j
  <2>3. k.frames = j.frames /\ AddsOf(j, k, at)
    BY <1>1, <2>2, LabelAdds
  <2>. HIDE DEF k, h
  <2>4. h.frames = e.frames /\ AddsOf(e, h, at)
    BY <2>1, <2>2, <2>3, AddsTwice
  <2>. QED  BY <2>4 DEF h
<1>5. CASE kind \notin {"if", "else", "loop"}
  <2>1. h = e
    BY <1>5 DEF Ending
  <2>. QED  BY <2>1 DEF AddsOf
<1>. QED
  BY <1>2, <1>3, <1>4, <1>5

LEMMA EndingFilled ==
    ASSUME NEW n, NEW e \in GenStates(n), NEW Z, NEW tx, NEW kind, NEW at \in Nat,
           NEW W \in [Nat \X Labels -> SUBSET Int], Filled(e, Z, W, tx, n),
           NEW Y, Y \subseteq Z,
           kind \in Branches => Y \subseteq W[<<at, Exit(kind)>>],
           kind = "loop" => W[<<at, "cond">>] \subseteq Z /\ Y \subseteq W[<<at, "after">>]
    PROVE  Filled(Ending(e, kind, at), Y, W, tx, n)
<1>1. "cond" \in Labels /\ "after" \in Labels /\ "else" \in Labels /\ "end" \in Labels
  BY DEF Labels
<1>2. \A w \in Labels : W[<<at, w>>] \in SUBSET Int
  OBVIOUS
<1>. DEFINE h == Ending(e, kind, at)
<1>3. CASE kind = "if"
  <2>1. h = Label(e, at, "else") /\ Exit(kind) = "else" /\ kind \in Branches
    BY <1>3 DEF Ending, Exit, Branches
  <2>2. Y \subseteq W[<<at, "else">>]
    BY <2>1
  <2>3. Filled(Label(e, at, "else"), Y, W, tx, n)
    BY <1>1, <1>2, <2>2, LabelFilled
  <2>. QED  BY <2>1, <2>3
<1>4. CASE kind = "else"
  <2>1. h = Label(e, at, "end") /\ Exit(kind) = "end" /\ kind \in Branches
    BY <1>4 DEF Ending, Exit, Branches
  <2>2. Y \subseteq W[<<at, "end">>]
    BY <2>1
  <2>3. Filled(Label(e, at, "end"), Y, W, tx, n)
    BY <1>1, <1>2, <2>2, LabelFilled
  <2>. QED  BY <2>1, <2>3
<1>5. CASE kind = "loop"
  <2>1. PICK i : i = Jmp(at, "cond")
    OBVIOUS
  <2>2. i \in Instrs(n) /\ i.do = "jmp" /\ i.to = <<at, "cond">>
    BY <1>1, <2>1, JmpType
  <2>3. W[<<at, "cond">>] \subseteq Z /\ Y \subseteq W[<<at, "after">>] /\ Y \in SUBSET Int
    BY <1>1, <1>2, <1>5
  <2>4. Suits(i, Z, Y, W, tx, n)
    BY <2>2, <2>3 DEF Suits, Asks, Leaves
  <2>. DEFINE j == Emit(e, <<i>>)
  <2>5. Filled(j, Y, W, tx, n)
    BY <2>2, <2>3, <2>4, EmitFilled
  <2>6. j \in GenStates(n)
    BY <2>2, EmitOne
  <2>. HIDE DEF j
  <2>7. Filled(Label(j, at, "after"), Y, W, tx, n)
    BY <1>1, <1>2, <2>3, <2>5, <2>6, LabelFilled
  <2>8. h = Label(j, at, "after")
    BY <1>5, <2>1 DEF Ending, j
  <2>. QED  BY <2>7, <2>8
<1>6. CASE kind \notin {"if", "else", "loop"}
  <2>1. h = e
    BY <1>6 DEF Ending
  <2>. QED  BY <2>1, FilledLess
<1>. QED
  BY <1>3, <1>4, <1>5, <1>6


LEMMA EndTypes ==
    ASSUME NEW g, NEW S, NEW tx, NEW n, Stands(g, S, tx, n), Nested(g.frames, tx),
           Len(S) > 1, NEW at \in Nat
    PROVE  /\ GenEnd(g, at) = Ending(Leaving(g, at), S[Len(S)].kind, g.frames[Len(S)].at)
           /\ GenEnd(g, at).frames = Front(g.frames)
           /\ AddsOf(g, GenEnd(g, at), g.frames[Len(S)].at)
           /\ Within(g.frames, GenEnd(g, at).frames)
<1>. DEFINE m == Len(S)
            e == Leaving(g, at)
            i == g.frames[m].at
            kind == S[m].kind
            h == Ending(e, kind, i)
<1>1. /\ m \in Nat /\ m > 1 /\ Len(g.frames) = m /\ g.frames[m].kind = kind
      /\ g.frames \in Seq(Frames)
  <2>1. /\ m \in Nat /\ m > 1 /\ Len(g.frames) = m /\ g \in GenStates(n)
        /\ \A d \in 1..m : g.frames[d].kind = S[d].kind
    BY DEF Stands, Named
  <2>2. m \in 1..m
    BY <2>1
  <2>. QED  BY <2>1, <2>2, GenType
<1>2. i \in Nat
  BY LabelsApart
<1>3. e \in GenStates(n) /\ e.frames = Front(g.frames) /\ Uses(e) = Uses(g)
  BY LeaveTypes
<1>4. Last(g.frames) = g.frames[m] /\ \A d \in 1..(m - 1) : Front(g.frames)[d] = g.frames[d]
  <2>. DEFINE F == g.frames
  <2>1. Len(F) = m /\ F \in Seq(Frames)
    BY <1>1
  <2>. HIDE DEF F, m
  <2>2. Last(F) = F[m] /\ \A d \in 1..(m - 1) : Front(F)[d] = F[d]
    BY <1>1, <2>1, FrontIs DEF Last
  <2>. QED  BY <2>2 DEF F
<1>5. GenEnd(g, at) = h
  BY <1>1, <1>4 DEF GenEnd, Leaving, Ending
<1>. HIDE DEF e
<1>6. h.frames = e.frames /\ AddsOf(e, h, i)
  BY <1>2, <1>3, EndingTypes
<1>. HIDE DEF h
<1>7. AddsOf(g, h, i)
  BY <1>3, <1>6 DEF AddsOf
<1>8. Within(g.frames, h.frames)
  BY <1>1, <1>3, <1>4, <1>6 DEF Within
<1>. QED
  BY <1>3, <1>5, <1>6, <1>7, <1>8 DEF e, h

\* The end of a scope.
LEMMA KnownClose ==
    ASSUME NEW g, NEW S, NEW tx, NEW n, Known(g, S, tx, n), S[1].kind = "body",
           NEW s \in Statements, s.op = "close", NEW R, Closes(S, R), NEW at \in Nat,
           Stands(GenEnd(g, at), R, Append(tx, s), n)
    PROVE  Known(GenEnd(g, at), R, Append(tx, s), n)
<1>. DEFINE F == g.frames
            m == Len(S)
            i == F[m].at
            e == Leaving(g, at)
            h == GenEnd(g, at)
            G == h.frames
            t2 == Append(tx, s)
<1>0. Stands(g, S, tx, n) /\ Layout(g, S, tx)
  BY DEF Known
<1>1. Saves(S) /\ Spent(F, S) /\ Nested(F, tx) /\ EndFree(g)
  BY <1>0 DEF Layout
<1>2. /\ S \in Seq(Scope) /\ m \in Nat /\ m > 1 /\ tx \in Seq(Statements)
      /\ Len(R) = m - 1 /\ Len(F) = m /\ Around(S, R) /\ m \in 2..Len(S)
  BY <1>0 DEF Stands, Named, Closes
<1>3. /\ h = Ending(e, S[m].kind, i) /\ AddsOf(g, h, i) /\ Within(F, G)
  BY <1>0, <1>1, <1>2, EndTypes
<1>4. i \in Nat /\ e \in GenStates(n)
  <2>1. i \in Nat
    BY <1>0, <1>1, <1>2, LabelsApart
  <2>2. LET x == Leaving(g, at) IN x \in GenStates(n)
    BY <1>0, <1>2, LeaveTypes
  <2>. QED  BY <2>1, <2>2
<1>5. Stands(h, R, t2, n)
  OBVIOUS
<1>. HIDE DEF h, t2
<1>6. Layout(h, R, t2)
  BY <1>0, <1>3, <1>5, LayoutClosed DEF t2
<1>7. ASSUME NEW M \in Modes, NEW W, Covers(M, g, S, W, tx, n)
      PROVE  Covers(M, h, R, W, t2, n)
  <2>. DEFINE X == Now(M, F, S, m)
              Z == Outside(g, S, X)
              Y == Now(M, G, R, m - 1)
  <2>1. /\ W \in [Nat \X Labels -> SUBSET Int] /\ Kept(M, F, S, W) /\ Tells(M, S)
        /\ Filled(g, X, W, tx, n)
    BY <1>7 DEF Covers
  <2>2. /\ Filled(e, Z, W, tx, n) /\ Now(M, F, S, m - 1) \subseteq Z
        /\ Unreached(M, S, Z)
    <3>1. Stands(g, S, tx, n) /\ Spent(g.frames, S) /\ Len(S) > 1
      BY <1>0, <1>1, <1>2
    <3>2. Filled(g, Now(M, g.frames, S, Len(S)), W, tx, n)
      BY <2>1
    <3>. QED  BY <3>1, <3>2, LeaveFilled DEF Unreached
  <2>. HIDE DEF Z
  <2>3. /\ Y \subseteq Z
        /\ S[m].kind \in Branches => Y \subseteq Waiting(M, F, S, m)
        /\ S[m].kind = "loop" => Y \subseteq Now(M, F, S, m - 1)
    <3>1. Stands(g, S, tx, n) /\ Saves(S) /\ Closes(S, R) /\ Stands(h, R, t2, n)
      BY <1>0, <1>1, <1>5
    <3>2. Within(g.frames, h.frames) /\ Tells(M, S) /\ Remains(M, g.frames, S, Z)
      BY <1>3, <2>1, <2>2 DEF Remains
    <3>. QED  BY <3>1, <3>2, NowClosed, Zenon
  <2>4. KeptAt(M, F, S, W, m)
    BY <1>2, <2>1 DEF Kept
  <2>5. /\ S[m].kind \in Branches => Y \subseteq W[<<i, Exit(S[m].kind)>>]
        /\ S[m].kind = "loop" => W[<<i, "cond">>] \subseteq Z /\ Y \subseteq W[<<i, "after">>]
    <3>. HIDE DEF Y
    <3>. QED  BY <2>2, <2>3, <2>4 DEF KeptAt
  <2>6. Filled(e, Z, W, t2, n)
    BY <1>2, <2>2, FilledExtends DEF t2
  <2>. HIDE DEF e, Y, i
  <2>7. Filled(h, Y, W, t2, n)
    BY <1>3, <1>4, <2>1, <2>3, <2>5, <2>6, EndingFilled
  <2>8. Kept(M, G, R, W)
    <3>1. SaysSame(F, Len(S) - 1, W, W)
      BY DEF SaysSame
    <3>2. \A d \in 2..(Len(S) - 1) : KeptAt(M, G, R, W, d)
      BY <1>0, <1>2, <1>3, <2>1, <3>1, KeptAround
    <3>. QED  BY <1>2, <3>2 DEF Kept
  <2>9. Tells(M, R)
    BY <1>2, <2>1, TellsClosed
  <2>. QED
    BY <1>2, <2>1, <2>7, <2>8, <2>9 DEF Covers, Y
<1>8. \A M \in Modes : Clean(M, t2) => Carried(M, g, S, h, R, tx, s, n)
  BY <1>7 DEF Carried, t2
<1>9. Known(h, R, t2, n)
  BY <1>0, <1>5, <1>6, <1>8, KnownNext DEF t2
<1>. QED
  BY <1>9 DEF h, t2


\* R are the scopes S when the branch that was taken ends and the other begins.
Elses(S, R) ==
    LET m == Len(S)
    IN  /\ R \in Seq(Scope) /\ Len(R) = m /\ Around(S, R)
        /\ \A v \in DOMAIN S[m - 1].syms : v \in DOMAIN S[m].before
              => R[m - 1].syms[v].moved = S[m].before[v]
        /\ R[m - 1].jumps = S[m - 1].jumps
        /\ R[m].kind = "else" /\ R[m].before = S[m].before
        /\ R[m].then = MovedMap(S[m - 1].syms) /\ R[m].thenJumps = S[m].jumps /\ ~R[m].jumps

\* G are the frames F, the innermost being that of the other branch now.
Turned(F, G) ==
    LET m == Len(F)
    IN  /\ Len(G) = m /\ Within(F, G)
        /\ G[m].kind = "else" /\ G[m].at = F[m].at /\ G[m].entries = <<>>

LEMMA NowElse ==
    ASSUME NEW g, NEW S, NEW tx, NEW n, Stands(g, S, tx, n), Saves(S), InIf(S),
           NEW R, Elses(S, R), NEW h, NEW t2, Stands(h, R, t2, n),
           Turned(g.frames, h.frames), NEW M \in Modes,
           NEW Z, Remains(M, g.frames, S, Z)
    PROVE  /\ Now(M, h.frames, R, Len(R)) \subseteq Waiting(M, g.frames, S, Len(S))
           /\ Now(M, h.frames, R, Len(R)) \in SUBSET Int
           /\ Waiting(M, h.frames, R, Len(S)) \subseteq Z
           /\ Waiting(M, h.frames, R, Len(S)) \in SUBSET Int
<1>. DEFINE F == g.frames
            G == h.frames
            m == Len(S)
            f == S[m]
            Y == Now(M, G, R, m)
            V == Waiting(M, G, R, m)
<1>1. /\ S \in Seq(Scope) /\ m \in Nat /\ m > 1 /\ m - 1 \in 1..m /\ m \in 1..m
      /\ R \in Seq(Scope) /\ Len(R) = m /\ Len(F) = m /\ Len(G) = m /\ f.kind = "if"
      /\ m - 1 \in 1..Len(R) /\ m \in 0..Len(R) /\ m - 1 \in 1..(m - 1) /\ m - 1 \in 0..m
      /\ \A d : d \in 1..(m - 1) <=> d \in 1..(m - 2) \/ d = m - 1
      /\ \A d : d \in 1..m <=> d \in 1..(m - 1) \/ d = m
      /\ \A d \in 1..(m - 2) : d \in 1..(m - 1) /\ d < m - 1
      /\ m \in 2..Len(S)
  BY DEF Stands, Named, Elses, InIf
<1>2. /\ R[m].kind = "else" /\ R[m].then = MovedMap(S[m - 1].syms)
      /\ R[m].thenJumps = f.jumps /\ ~R[m].jumps /\ R[m - 1].jumps = S[m - 1].jumps
      /\ Around(S, R)
  BY DEF Elses
<1>3. /\ \A d \in 1..(m - 1) : G[d] = F[d]
      /\ G[m].entries = <<>>
  BY <1>1 DEF Turned, Within
<1>4. /\ \A d \in 1..(m - 2) : R[d].syms = S[d].syms /\ R[d].jumps = S[d].jumps
      /\ DOMAIN R[m - 1].syms = DOMAIN S[m - 1].syms
  BY <1>1, <1>2 DEF Around
<1>5. \A d \in 1..(m - 2) : Full(G, R, d) = Full(F, S, d)
  BY <1>1, <1>3, <1>4 DEF Full
<1>6. Full(G, R, m) = {}
  <2>1. Len(G[m].entries) = 0
    BY <1>3
  <2>2. 1..0 = {}
    OBVIOUS
  <2>. HIDE DEF m, G
  <2>. QED  BY <2>1, <2>2 DEF Full, HeldIn
<1>7. Full(G, R, m - 1) \subseteq HeldIn(F[m - 1].entries, f.before)
  <2>1. Full(G, R, m - 1) = HeldIn(F[m - 1].entries, MovedMap(R[m - 1].syms))
    <3>1. G[m - 1] = F[m - 1]
      BY <1>1, <1>3
    <3>. QED  BY <3>1 DEF Full
  <2>2. DOMAIN S[m - 1].syms \subseteq DOMAIN f.before
    BY <1>1 DEF Saves, Branches
  <2>3. ASSUME NEW j \in 1..Len(F[m - 1].entries)
        PROVE  MovedMap(R[m - 1].syms)[F[m - 1].entries[j].name] = f.before[F[m - 1].entries[j].name]
    <3>1. PICK v : v = F[m - 1].entries[j].name
      OBVIOUS
    <3>2. v \in DOMAIN S[m - 1].syms
      <4>1. LET e == F[m - 1].entries[j] IN e.name \in DOMAIN S[m - 1].syms
        BY <1>1, EntryIs
      <4>. QED  BY <3>1, <4>1
    <3>3. MovedMap(R[m - 1].syms)[v] = R[m - 1].syms[v].moved
      BY <1>1, <1>4, <3>2, ScopeIs
    <3>4. R[m - 1].syms[v].moved = f.before[v]
      BY <2>2, <3>2 DEF Elses
    <3>. QED  BY <3>1, <3>3, <3>4
  <2>. QED  BY <2>1, <2>3 DEF HeldIn
<1>8. HeldIn(G[m - 1].entries, Saved(R[m])) = Full(F, S, m - 1)
  <2>1. G[m - 1] = F[m - 1]
    BY <1>1, <1>3
  <2>. QED  BY <1>2, <2>1 DEF Saved, Full
<1>9. /\ Ends(R, m) <=> Ends(S, m - 1)
      /\ Ends(R, m - 1) <=> Ends(S, m - 1)
      /\ Ends(S, m) <=> Ends(S, m - 1) \/ f.jumps
  <2>. HIDE DEF m
  <2>1. Ends(R, m - 1) <=> Ends(S, m - 1)
    BY <1>1, <1>2, <1>4 DEF Ends
  <2>2. Ends(R, m) <=> Ends(R, m - 1)
    BY <1>1, <1>2 DEF Ends
  <2>3. Ends(S, m) <=> Ends(S, m - 1) \/ f.jumps
    BY <1>1 DEF Ends
  <2>. QED  BY <2>1, <2>2, <2>3
<1>10. /\ Sure(G, R, m) = Sure(F, S, m - 2) \cup Full(G, R, m - 1)
       /\ Sure(F, S, m - 1) = Sure(F, S, m - 2) \cup Full(F, S, m - 1)
       /\ Sure(G, R, m - 2) = Sure(F, S, m - 2)
  <2>. HIDE DEF m, F, G
  <2>1. Sure(G, R, m) = Sure(F, S, m - 2) \cup Full(G, R, m - 1)
    BY <1>1, <1>5, <1>6 DEF Sure
  <2>2. Sure(F, S, m - 1) = Sure(F, S, m - 2) \cup Full(F, S, m - 1)
    BY <1>1 DEF Sure
  <2>3. Sure(G, R, m - 2) = Sure(F, S, m - 2)
    BY <1>5 DEF Sure
  <2>. QED  BY <2>1, <2>2, <2>3
<1>11. Y \in SUBSET Int
  BY <1>1, FullType
<1>12. Now(M, F, S, m - 1) \in SUBSET Int
  BY <1>1, FullType
<1>13. Now(M, F, S, m - 1) \subseteq Z
  BY DEF Remains
<1>. HIDE DEF m, F, G
<1>14. Y \subseteq Waiting(M, F, S, m)
  <2>1. CASE M = "calm" /\ (Ends(S, m - 1) \/ f.thenJumps)
    <3>1. Waiting(M, F, S, m) = Everything
      BY <2>1 DEF Waiting
    <3>. QED  BY <1>11, <3>1 DEF Everything
  <2>2. CASE ~(M = "calm" /\ (Ends(S, m - 1) \/ f.thenJumps))
    <3>1. Y = Sure(G, R, m)
      BY <1>9, <2>2 DEF Now
    <3>2. Waiting(M, F, S, m) = Sure(F, S, m - 2) \cup HeldIn(F[m - 1].entries, f.before)
      BY <1>1, <2>2 DEF Waiting, Saved
    <3>. HIDE DEF Y
    <3>. QED  BY <1>7, <1>10, <3>1, <3>2
  <2>. QED  BY <2>1, <2>2
<1>15. V \subseteq Z /\ V \in SUBSET Int
  <2>1. CASE M = "calm" /\ (Ends(R, m - 1) \/ R[m].thenJumps)
    <3>1. V = Everything
      BY <2>1 DEF Waiting
    <3>2. Z = Everything
      BY <1>2, <1>9, <2>1 DEF Unreached, Remains, m
    <3>. QED  BY <3>1, <3>2 DEF Everything
  <2>2. CASE ~(M = "calm" /\ (Ends(R, m - 1) \/ R[m].thenJumps))
    <3>1. V = Sure(F, S, m - 1)
      BY <1>8, <1>10, <2>2 DEF Waiting
    <3>2. Now(M, F, S, m - 1) = Sure(F, S, m - 1)
      BY <1>9, <2>2 DEF Now
    <3>. QED  BY <1>12, <1>13, <3>1, <3>2
  <2>. QED  BY <2>1, <2>2
<1>. QED
  BY <1>1, <1>11, <1>14, <1>15 DEF F, G, m


LEMMA LayoutElse ==
    ASSUME NEW g, NEW S, NEW tx, NEW n, Stands(g, S, tx, n), Layout(g, S, tx), InIf(S),
           S[1].kind = "body", NEW s \in Statements, s.op = "else",
           NEW R, Elses(S, R), NEW h, NEW t2, Stands(h, R, t2, n),
           Turned(g.frames, h.frames), AddsOf(g, h, g.frames[Len(S)].at)
    PROVE  Layout(h, R, Append(tx, s))
<1>. DEFINE F == g.frames
            G == h.frames
            m == Len(S)
<1>1. /\ S \in Seq(Scope) /\ m \in Nat /\ m > 1 /\ tx \in Seq(Statements)
      /\ Len(R) = m /\ Len(F) = m /\ Len(G) = m /\ Around(S, R) /\ S[m].kind = "if"
      /\ m \in 2..Len(S) /\ m \in 1..m
      /\ \A d : d \in 1..m <=> d \in 1..(m - 1) \/ d = m
      /\ \A d : d \in 2..m <=> d \in 2..(m - 1) \/ d = m
  BY DEF Stands, Named, Elses, InIf
<1>2. Saves(S) /\ Spent(F, S) /\ Nested(F, tx) /\ EndFree(g)
  BY DEF Layout
<1>3. /\ R[m].kind = "else" /\ R[m].before = S[m].before
      /\ R[m].then = MovedMap(S[m - 1].syms)
  BY DEF Elses
<1>4. Within(F, G) /\ G[m].kind = "else" /\ G[m].at = F[m].at /\ G[m].entries = <<>>
  BY <1>1 DEF Turned
<1>5. DOMAIN S[m - 1].syms \subseteq DOMAIN S[m].before
  BY <1>1, <1>2 DEF Saves, Branches
<1>6. Saves(R)
  <2>1. SUFFICES ASSUME NEW d \in 2..m, R[d].kind \in Branches
                 PROVE  /\ DOMAIN R[d - 1].syms \subseteq DOMAIN R[d].before
                        /\ R[d].kind = "else" => DOMAIN R[d - 1].syms \subseteq DOMAIN R[d].then
    BY <1>1 DEF Saves
  <2>2. d - 1 \in 1..(m - 1) /\ d \in 2..m
    BY <1>1
  <2>3. DOMAIN R[d - 1].syms = DOMAIN S[d - 1].syms
    BY <1>1, <2>2 DEF Around
  <2>4. CASE d = m
    BY <1>3, <1>5, <2>3, <2>4 DEF MovedMap
  <2>5. CASE d # m
    <3>1. d \in 1..(m - 1)
      BY <1>1, <2>5
    <3>2. R[d].kind = S[d].kind /\ R[d].before = S[d].before /\ R[d].then = S[d].then
      BY <1>1, <3>1 DEF Around
    <3>. QED  BY <1>2, <2>1, <2>2, <2>3, <3>2 DEF Saves
  <2>. QED  BY <2>4, <2>5
<1>7. Spent(G, R)
  <2>1. SUFFICES ASSUME NEW d \in 1..m, NEW j \in 1..Len(G[d].entries),
                        G[d].entries[j].how = "drop"
                 PROVE  Untouched(R, d, G[d].entries[j].name)
    BY <1>1 DEF Spent
  <2>0. d \in 1..(m - 1)
    <3>1. d # m
      <4>1. SUFFICES ASSUME d = m PROVE FALSE
        OBVIOUS
      <4>2. Len(G[d].entries) = 0
        BY <1>4, <4>1
      <4>. QED  BY <4>2
    <3>. QED  BY <1>1, <3>1
  <2>. DEFINE v == G[d].entries[j].name
  <2>2. /\ Untouched(S, d, v) /\ v \in DOMAIN S[d].syms
        /\ d < Len(S) - 1 /\ Len(R) >= Len(S) - 1 => Untouched(R, d, v)
    BY <1>1, <1>2, <1>4, <2>0, <2>1, SpentAround
  <2>. HIDE DEF v
  <2>3. CASE d < m - 1
    <3>1. Untouched(R, d, v)
      BY <1>1, <2>2, <2>3
    <3>. QED  BY <3>1 DEF v
  <2>4. CASE d = m - 1
    <3>1. /\ d + 1 = m /\ d < m /\ v \in DOMAIN S[m - 1].syms /\ m - 1 \in 1..Len(S)
      BY <1>1, <2>2, <2>4
    <3>2. ~S[d].syms[v].moved /\ ~S[d + 1].before[v]
      <4>1. S[d + 1].kind \in Branches
        BY <1>1, <3>1 DEF Branches
      <4>. QED  BY <2>2, <3>1, <4>1 DEF Untouched
    <3>3. R[m - 1].syms[v].moved = S[m].before[v]
      BY <1>5, <3>1 DEF Elses
    <3>4. MovedMap(S[m - 1].syms)[v] = S[m - 1].syms[v].moved
      BY <1>1, <3>1, ScopeIs
    <3>5. ~R[d].syms[v].moved /\ ~R[d + 1].before[v] /\ ~R[d + 1].then[v]
      BY <1>3, <2>4, <3>1, <3>2, <3>3, <3>4
    <3>6. Untouched(R, d, v)
      BY <3>5 DEF Untouched
    <3>. QED  BY <3>6 DEF v
  <2>. QED  BY <1>1, <2>0, <2>3, <2>4
<1>8. Nested(G, Append(tx, s))
  <2>1. Len(G) = Len(F) + Deepens(s.op) /\ Len(F) \in Nat
    BY <1>1 DEF Deepens, Opens
  <2>2. F[m].kind = "if"
    BY <1>1 DEF Stands, Named
  <2>3. \A d \in 1..Len(G) :
           IF d <= Len(F)
           THEN G[d].at = F[d].at /\ Opener(G[d].kind) = Opener(F[d].kind)
           ELSE G[d].at = Len(tx) + 1 /\ Opener(G[d].kind) = s.op
    <3>. SUFFICES ASSUME NEW d \in 1..m
                  PROVE  G[d].at = F[d].at /\ Opener(G[d].kind) = Opener(F[d].kind)
      BY <1>1
    <3>1. CASE d = m
      BY <1>4, <2>2, <3>1 DEF Opener
    <3>2. CASE d # m
      <4>1. d \in 1..(Len(F) - 1)
        BY <1>1, <3>2
      <4>2. G[d] = F[d]
        BY <1>4, <4>1 DEF Within
      <4>. QED  BY <4>2
    <3>. QED  BY <3>1, <3>2
  <2>. HIDE DEF F, G
  <2>. QED
    BY <1>1, <1>2, <2>1, <2>3, NestedNext
<1>9. EndFree(h)
  <2>1. \A d \in 1..(m - 1) : h.frames[d].kind = "if"
              => <<h.frames[d].at, "end">> \notin Jumps(h.code) \cup Placed(h.code)
    BY <1>1, <1>2, <1>4, EndFreeAround
  <2>. QED  BY <1>1, <1>4, <2>1 DEF EndFree
<1>. QED
  BY <1>6, <1>7, <1>8, <1>9 DEF Layout

LEMMA TellsElse ==
    ASSUME NEW S \in Seq(Scope), Saves(S), InIf(S), NEW R, Elses(S, R), NEW M, Tells(M, S)
    PROVE  Tells(M, R)
<1>. DEFINE m == Len(S)
<1>1. /\ m \in Nat /\ m > 1 /\ Len(R) = m /\ Around(S, R) /\ S[m].kind = "if"
      /\ R[m].kind = "else" /\ ~R[m].jumps /\ R[m].before = S[m].before
      /\ R[m].then = MovedMap(S[m - 1].syms) /\ R[m - 1].jumps = S[m - 1].jumps
      /\ m \in 2..Len(S) /\ m - 1 \in 1..Len(S) /\ m - 1 \in 1..(m - 1)
  BY DEF Elses, InIf
<1>2. LoopsStay(S) => LoopsStay(R)
  <2>. SUFFICES ASSUME LoopsStay(S), NEW d \in 2..m, R[d].kind = "loop", NEW b \in d..m
                PROVE  ~R[b].jumps
    BY <1>1 DEF LoopsStay
  <2>1. d # m
    BY <1>1
  <2>2. d \in 1..(m - 1) /\ d \in 2..Len(S) /\ b \in d..Len(S) /\ b \in 1..m
    BY <1>1, <2>1
  <2>3. S[d].kind = "loop"
    BY <1>1, <2>2 DEF Around
  <2>4. ~S[b].jumps
    BY <2>2, <2>3 DEF LoopsStay
  <2>5. CASE b = m
    BY <1>1, <2>5
  <2>6. CASE b = m - 1
    BY <1>1, <2>4, <2>6
  <2>7. CASE b < m - 1
    <3>1. b \in 1..(m - 1)
      BY <1>1, <2>2, <2>7
    <3>2. R[b].jumps = S[b].jumps
      BY <1>1, <2>7, <3>1 DEF Around
    <3>. QED  BY <2>4, <3>2
  <2>. QED  BY <1>1, <2>2, <2>5, <2>6, <2>7
<1>3. Steady(S) => Steady(R)
  <2>. SUFFICES ASSUME Steady(S), NEW d \in 2..m PROVE SteadyAt(R, d)
    BY <1>1 DEF Steady
  <2>1. CASE d = m
    <3>. SUFFICES ASSUME NEW v \in DOMAIN R[m - 1].syms, Kind[v] = "value"
                  PROVE  /\ R[m].before[v] = R[m - 1].syms[v].moved
                         /\ R[m].then[v] = R[m - 1].syms[v].moved
      BY <2>1 DEF SteadyAt
    <3>1. v \in DOMAIN S[m - 1].syms
      BY <1>1 DEF Around
    <3>2. S[m].kind \in Branches
      BY <1>1 DEF Branches
    <3>3. S[m].before[v] = S[m - 1].syms[v].moved
      BY <1>1, <3>1, <3>2 DEF Steady, SteadyAt
    <3>4. v \in DOMAIN S[m].before
      BY <1>1, <3>1, <3>2 DEF Saves
    <3>5. R[m - 1].syms[v].moved = S[m].before[v]
      BY <3>1, <3>4 DEF Elses
    <3>6. MovedMap(S[m - 1].syms)[v] = S[m - 1].syms[v].moved
      BY <1>1, <3>1, ScopeIs
    <3>. QED  BY <1>1, <3>3, <3>5, <3>6
  <2>2. CASE d # m
    <3>1. d \in 2..Len(S) /\ d \in 1..(m - 1) /\ d - 1 \in 1..(m - 1) /\ d - 1 < m - 1
      BY <1>1, <2>2
    <3>2. /\ R[d].kind = S[d].kind /\ R[d].before = S[d].before /\ R[d].then = S[d].then
          /\ R[d - 1].syms = S[d - 1].syms
      BY <1>1, <3>1 DEF Around
    <3>3. SteadyAt(S, d)
      BY <3>1 DEF Steady
    <3>. QED  BY <3>2, <3>3 DEF SteadyAt
  <2>. QED  BY <2>1, <2>2
<1>. QED
  BY <1>2, <1>3 DEF Tells


\* What is emitted between the branches, when the first was left.
Turning(e, i) == Label(Emit(e, <<Jmp(i, "end")>>), i, "else")

LEMMA TurningTypes ==
    ASSUME NEW n, NEW e \in GenStates(n), NEW i \in Nat
    PROVE  LET k == Turning(e, i)
           IN  k \in GenStates(n) /\ k.frames = e.frames /\ AddsOf(e, k, i)
<1>. DEFINE j == Emit(e, <<Jmp(i, "end")>>)
            k == Label(j, i, "else")
<1>1. "else" \in Labels /\ "end" \in Labels
  BY DEF Labels
<1>2. j \in GenStates(n) /\ j.frames = e.frames /\ AddsOf(e, j, i)
  BY <1>1, JumpTypes
<1>3. Turning(e, i) = k
  BY DEF Turning
<1>. HIDE DEF j
<1>4. k \in GenStates(n) /\ k.frames = j.frames /\ AddsOf(j, k, i)
  BY <1>1, <1>2, LabelAdds
<1>. HIDE DEF k
<1>5. AddsOf(e, k, i)
  BY <1>2, <1>4, AddsTwice
<1>. QED
  BY <1>2, <1>3, <1>4, <1>5

LEMMA TurningFilled ==
    ASSUME NEW n, NEW e \in GenStates(n), NEW Z, NEW tx, NEW i \in Nat,
           NEW W \in [Nat \X Labels -> SUBSET Int], Filled(e, Z, W, tx, n),
           NEW Y \in SUBSET Int, Y \subseteq W[<<i, "else">>], W[<<i, "end">>] \subseteq Z
    PROVE  Filled(Turning(e, i), Y, W, tx, n)
<1>1. "else" \in Labels /\ "end" \in Labels
  BY DEF Labels
<1>2. PICK x : x = Jmp(i, "end")
  OBVIOUS
<1>3. x \in Instrs(n) /\ x.do = "jmp" /\ x.to = <<i, "end">>
  BY <1>1, <1>2, JmpType
<1>4. Suits(x, Z, Y, W, tx, n)
  BY <1>3 DEF Suits, Asks, Leaves
<1>. DEFINE j == Emit(e, <<x>>)
<1>5. Filled(j, Y, W, tx, n)
  BY <1>3, <1>4, EmitFilled
<1>6. j \in GenStates(n)
  BY <1>3, EmitOne
<1>7. Turning(e, i) = Label(j, i, "else")
  BY <1>2 DEF Turning
<1>8. W[<<i, "else">>] \in SUBSET Int
  BY <1>1
<1>. HIDE DEF j
<1>9. Filled(Label(j, i, "else"), Y, W, tx, n)
  BY <1>1, <1>5, <1>6, <1>8, LabelFilled
<1>. QED
  BY <1>7, <1>9

LEMMA ElseTypes ==
    ASSUME NEW g, NEW S, NEW tx, NEW n, Stands(g, S, tx, n), Nested(g.frames, tx),
           InIf(S), NEW at \in Nat
    PROVE  LET k == Turning(Leaving(g, at), g.frames[Len(S)].at)
               h == GenElse(g, at)
           IN  /\ h.code = k.code /\ h.live = k.live
               /\ AddsOf(g, h, g.frames[Len(S)].at) /\ Turned(g.frames, h.frames)
<1>. DEFINE m == Len(S)
            F == g.frames
            e == Leaving(g, at)
            i == F[m].at
            k == Turning(e, i)
            fr == Frame("else", i)
            h == GenElse(g, at)
<1>1. /\ m \in Nat /\ m > 1 /\ Len(F) = m /\ F \in Seq(Frames) /\ m \in 1..m
  BY GenType DEF Stands, Named, InIf
<1>2. i \in Nat
  BY LabelsApart DEF InIf
<1>3. e \in GenStates(n) /\ e.frames = Front(F) /\ Uses(e) = Uses(g)
  BY LeaveTypes DEF InIf
<1>4. /\ Last(F) = F[m] /\ Front(F) \in Seq(Frames) /\ Len(Front(F)) = m - 1
      /\ \A d \in 1..(m - 1) : Front(F)[d] = F[d]
  <2>. HIDE DEF F, m
  <2>. QED  BY <1>1, FrontIs DEF Last
<1>5. h = [k EXCEPT !.frames = Append(@, fr)]
  BY <1>1, <1>4 DEF GenElse, Leaving, Turning
<1>6. fr.kind = "else" /\ fr.at = i /\ fr.entries = <<>>
  BY DEF Frame
<1>. HIDE DEF e, fr, F, m, h
<1>7. k \in GenStates(n) /\ k.frames = e.frames /\ AddsOf(e, k, i)
  BY <1>2, <1>3, TurningTypes
<1>. HIDE DEF k
<1>8. h.code = k.code /\ h.live = k.live /\ h.frames = Append(k.frames, fr)
  BY <1>5, <1>7 DEF GenStates
<1>9. AddsOf(g, h, i)
  BY <1>3, <1>7, <1>8 DEF AddsOf, Uses
<1>10. Turned(F, h.frames)
  <2>. DEFINE Fr == Front(F)
  <2>1. Fr \in Seq(Frames) /\ Len(Fr) = m - 1 /\ h.frames = Append(Fr, fr)
        /\ \A d \in 1..(m - 1) : Fr[d] = F[d]
    BY <1>3, <1>4, <1>7, <1>8
  <2>. HIDE DEF Fr
  <2>2. /\ Len(h.frames) = m /\ h.frames[m] = fr
        /\ \A d \in 1..(m - 1) : h.frames[d] = F[d]
    BY <1>1, <2>1
  <2>. QED  BY <1>1, <1>6, <2>2 DEF Turned, Within
<1>. QED
  BY <1>8, <1>9, <1>10 DEF h, k, e, F, m

\* The other branch begins.
LEMMA KnownElse ==
    ASSUME NEW g, NEW S, NEW tx, NEW n, Known(g, S, tx, n), S[1].kind = "body", InIf(S),
           NEW s \in Statements, s.op = "else", NEW R, Elses(S, R), NEW at \in Nat,
           Stands(GenElse(g, at), R, Append(tx, s), n)
    PROVE  Known(GenElse(g, at), R, Append(tx, s), n)
<1>. DEFINE F == g.frames
            m == Len(S)
            i == F[m].at
            e == Leaving(g, at)
            k == Turning(e, i)
            h == GenElse(g, at)
            G == h.frames
            t2 == Append(tx, s)
<1>0. Stands(g, S, tx, n) /\ Layout(g, S, tx)
  BY DEF Known
<1>1. Saves(S) /\ Spent(F, S) /\ Nested(F, tx) /\ EndFree(g)
  BY <1>0 DEF Layout
<1>2. /\ S \in Seq(Scope) /\ m \in Nat /\ m > 1 /\ tx \in Seq(Statements) /\ g \in GenStates(n)
      /\ Len(R) = m /\ Len(F) = m /\ Around(S, R) /\ m \in 2..Len(S) /\ m \in 1..m
      /\ S[m].kind = "if" /\ R[m].kind = "else" /\ F[m].kind = "if"
      /\ \A d : d \in 2..m <=> d \in 2..(m - 1) \/ d = m
  BY <1>0 DEF Stands, Named, Elses, InIf
<1>3. h.code = k.code /\ h.live = k.live /\ AddsOf(g, h, i) /\ Turned(F, G)
  BY <1>0, <1>1, <1>2, ElseTypes
<1>4. i \in Nat /\ e \in GenStates(n)
  <2>1. i \in Nat
    BY <1>0, <1>1, <1>2, LabelsApart
  <2>2. LET x == Leaving(g, at) IN x \in GenStates(n)
    BY <1>0, <1>2, LeaveTypes
  <2>. QED  BY <2>1, <2>2
<1>5. Stands(h, R, t2, n)
  OBVIOUS
<1>6. Within(F, G) /\ G[m].at = i
  BY <1>2, <1>3 DEF Turned
<1>. HIDE DEF h, t2
<1>7. Layout(h, R, t2)
  BY <1>0, <1>3, <1>5, LayoutElse DEF t2
<1>8. \A d \in 2..(m - 1) : F[d].at # i
  BY <1>0, <1>1, <1>2, LabelsApart
<1>9. <<i, "end">> \notin Uses(g)
  BY <1>1, <1>2 DEF EndFree, Uses
<1>10. ASSUME NEW M \in Modes, NEW W, Covers(M, g, S, W, tx, n)
       PROVE  \E U : Covers(M, h, R, U, t2, n)
  <2>. DEFINE X == Now(M, F, S, m)
              Z == Outside(g, S, X)
              Y == Now(M, G, R, m)
              V == Waiting(M, G, R, m)
              U == [W EXCEPT ![<<i, "end">>] = V]
  <2>1. /\ W \in [Nat \X Labels -> SUBSET Int] /\ Kept(M, F, S, W) /\ Tells(M, S)
        /\ Filled(g, X, W, tx, n)
    BY <1>10 DEF Covers
  <2>2. Stands(g, S, tx, n) /\ Spent(g.frames, S) /\ Len(S) > 1 /\ Saves(S)
    BY <1>0, <1>1, <1>2
  <2>3. Now(M, F, S, m - 1) \subseteq Z /\ Unreached(M, S, Z)
    <3>1. Filled(g, Now(M, g.frames, S, Len(S)), W, tx, n)
      BY <2>1
    <3>. QED  BY <2>2, <3>1, LeaveFilled DEF Unreached
  <2>. HIDE DEF Z
  <2>4. /\ Y \subseteq Waiting(M, F, S, m) /\ Y \in SUBSET Int
        /\ V \subseteq Z /\ V \in SUBSET Int
    <3>1. Stands(h, R, t2, n) /\ Turned(g.frames, h.frames)
      BY <1>3, <1>5
    <3>2. Remains(M, g.frames, S, Z)
      BY <2>3 DEF Remains
    <3>3. /\ Now(M, h.frames, R, Len(R)) \subseteq Waiting(M, g.frames, S, Len(S))
          /\ Now(M, h.frames, R, Len(R)) \in SUBSET Int
          /\ Waiting(M, h.frames, R, Len(S)) \subseteq Z
          /\ Waiting(M, h.frames, R, Len(S)) \in SUBSET Int
      BY <2>2, <3>1, <3>2, NowElse, Zenon
    <3>. QED  BY <1>2, <3>3
  <2>5. KeptAt(M, F, S, W, m)
    BY <1>2, <2>1 DEF Kept
  <2>6. Waiting(M, F, S, m) \subseteq W[<<i, "else">>]
    BY <1>2, <2>5 DEF KeptAt, Branches, Exit
  <2>. HIDE DEF Y, V
  <2>7. /\ U \in [Nat \X Labels -> SUBSET Int] /\ U[<<i, "end">>] = V
        /\ \A l : l # <<i, "end">> => U[l] = W[l]
    <3>1. <<i, "end">> \in Nat \X Labels
      BY <1>4 DEF Labels
    <3>2. U[<<i, "end">>] = V /\ U \in [Nat \X Labels -> SUBSET Int]
      BY <2>1, <2>4, <3>1
    <3>3. ASSUME NEW l, l # <<i, "end">> PROVE U[l] = W[l]
      <4>1. DOMAIN W = Nat \X Labels /\ DOMAIN U = DOMAIN W
        BY <2>1
      <4>. QED  BY <3>3, <4>1
    <3>. QED  BY <3>2, <3>3
  <2>. HIDE DEF U
  <2>8. Filled(g, X, U, tx, n)
    <3>1. \A l \in Jumps(g.code) \cup Placed(g.code) : U[l] = W[l]
      BY <1>9, <2>7 DEF Uses
    <3>. QED  BY <1>2, <2>1, <3>1, FilledRelabel
  <2>9. Filled(e, Z, U, t2, n)
    <3>1. Filled(g, Now(M, g.frames, S, Len(S)), U, tx, n)
      BY <2>8
    <3>2. Filled(Leaving(g, at), Outside(g, S, Now(M, g.frames, S, Len(S))), U, tx, n)
      BY <2>2, <3>1, LeaveFilled
    <3>3. Filled(e, Z, U, tx, n)
      BY <3>2 DEF Z
    <3>. QED  BY <1>2, <3>3, FilledExtends DEF t2
  <2>10. Filled(k, Y, U, t2, n)
    <3>1. Y \subseteq U[<<i, "else">>]
      <4>1. <<i, "else">> # <<i, "end">>
        OBVIOUS
      <4>. QED  BY <2>4, <2>6, <2>7, <4>1
    <3>2. U[<<i, "end">>] \subseteq Z
      BY <2>4, <2>7
    <3>. HIDE DEF e, i
    <3>. QED  BY <1>4, <2>4, <2>7, <2>9, <3>1, <3>2, TurningFilled
  <2>11. Filled(h, Y, U, t2, n)
    BY <1>3, <2>10, FilledCode
  <2>12. Kept(M, G, R, U)
    <3>1. SaysSame(F, Len(S) - 1, W, U)
      <4>. SUFFICES ASSUME NEW d \in 2..(m - 1), NEW w \in Labels
                    PROVE  U[<<F[d].at, w>>] = W[<<F[d].at, w>>]
        BY DEF SaysSame
      <4>1. <<F[d].at, w>> # <<i, "end">>
        BY <1>8
      <4>. QED  BY <2>7, <4>1
    <3>2. \A d \in 2..(Len(S) - 1) : KeptAt(M, G, R, U, d)
      BY <1>0, <1>2, <1>6, <2>1, <3>1, KeptAround
    <3>3. KeptAt(M, G, R, U, m)
      <4>1. Exit(R[m].kind) = "end" /\ R[m].kind # "loop"
        BY <1>2 DEF Exit
      <4>2. Waiting(M, G, R, m) \subseteq U[<<G[m].at, Exit(R[m].kind)>>]
        BY <1>6, <2>7, <4>1 DEF V
      <4>. QED  BY <4>1, <4>2 DEF KeptAt
    <3>. QED  BY <1>2, <3>2, <3>3 DEF Kept
  <2>13. Tells(M, R)
    BY <1>1, <1>2, <2>1, TellsElse
  <2>. QED
    BY <1>2, <2>7, <2>11, <2>12, <2>13 DEF Covers, Y
<1>11. \A M \in Modes : Clean(M, t2) => Carried(M, g, S, h, R, tx, s, n)
  BY <1>10 DEF Carried, t2
<1>12. Known(h, R, t2, n)
  BY <1>0, <1>5, <1>7, <1>11, KnownNext DEF t2
<1>. QED
  BY <1>12 DEF h, t2

-----------------------------------------------------------------------------
(* One more statement                                                      *)

\* The text tx, of which all is known, goes on with s, and is compiled then.
GoesOn(tx, S, s, R, n) ==
    /\ Known(GenBody(tx), S, tx, n) /\ S[1].kind = "body" /\ s \in Statements
    /\ Compiles(S, tx, n) /\ Compiles(R, Append(tx, s), n)

LEMMA AdvanceIs ==
    ASSUME NEW tx, NEW S, NEW s, NEW R, NEW n, GoesOn(tx, S, s, R, n)
    PROVE  /\ Known(GenBody(tx), S, tx, n) /\ Stands(GenBody(tx), S, tx, n)
           /\ S[1].kind = "body" /\ s \in Statements
           /\ Len(tx) \in Nat /\ Len(tx) + 1 \in Nat /\ n \in Nat
           /\ GenBody(Append(tx, s)) = GenStatement(GenBody(tx), s, Len(tx) + 1)
           /\ Stands(GenStatement(GenBody(tx), s, Len(tx) + 1), R, Append(tx, s), n)
<1>1. /\ Known(GenBody(tx), S, tx, n) /\ S[1].kind = "body" /\ s \in Statements
      /\ Compiles(R, Append(tx, s), n)
  BY DEF GoesOn
<1>2. Stands(GenBody(tx), S, tx, n) /\ tx \in Seq(Statements) /\ n \in Nat
  BY <1>1 DEF Known, Stands
<1>3. GenBody(Append(tx, s)) = GenStatement(GenBody(tx), s, Len(tx) + 1)
  BY <1>1, <1>2, GenNext
<1>4. Stands(GenBody(Append(tx, s)), R, Append(tx, s), n)
  BY <1>1, BodyStands DEF Compiles
<1>5. Len(tx) \in Nat /\ Len(tx) + 1 \in Nat
  BY <1>2
<1>. QED
  BY <1>1, <1>2, <1>3, <1>4, <1>5

LEMMA AdvanceNew ==
    ASSUME NEW tx, NEW S, NEW s, NEW R, NEW n, GoesOn(tx, S, s, R, n), Len(tx) < n,
           NEW v \in Names, s = [op |-> "new", v |-> v], Grown(S, R, v)
    PROVE  Known(GenBody(Append(tx, s)), R, Append(tx, s), n)
<1>1. PICK g : g = GenBody(tx)
  OBVIOUS
<1>2. PICK k : k = Len(tx) + 1
  OBVIOUS
<1>3. /\ Known(g, S, tx, n) /\ s \in Statements /\ k \in Nat
      /\ GenBody(Append(tx, s)) = GenStatement(g, s, k)
      /\ Stands(GenStatement(g, s, k), R, Append(tx, s), n)
  BY <1>1, <1>2, AdvanceIs
<1>4. k \in 0..n
  BY <1>2, AdvanceIs
<1>5. PICK i : i = [do |-> "new", slot |-> k, at |-> k]
  OBVIOUS
<1>6. i \in Instrs(n) /\ Idle(i) /\ Makes(i, v, k)
  BY <1>3, <1>4, <1>5 DEF Instrs, Idle, Makes
<1>7. GenStatement(g, s, k) = Register(Emit(g, <<i>>), v, k)
  BY <1>5 DEF GenStatement
<1>8. Deepens(s.op) = 0
  BY DEF Deepens, Opens
<1>9. Stands(Register(Emit(g, <<i>>), v, k), R, Append(tx, s), n)
  BY <1>3, <1>7
<1>10. Known(Register(Emit(g, <<i>>), v, k), R, Append(tx, s), n)
  BY <1>3, <1>6, <1>8, <1>9, KnownDeclare, Zenon
<1>. QED
  BY <1>3, <1>7, <1>10

LEMMA AdvanceFrom ==
    ASSUME NEW tx, NEW S, NEW s, NEW R, NEW n, GoesOn(tx, S, s, R, n), Len(tx) < n,
           NEW v \in Names, Kind[v] \in Pointers, NEW w \in Shown(S),
           s = [op |-> "from", v |-> v, w |-> w], Grown(S, R, v)
    PROVE  Known(GenBody(Append(tx, s)), R, Append(tx, s), n)
<1>1. PICK g : g = GenBody(tx)
  OBVIOUS
<1>2. PICK k : k = Len(tx) + 1
  OBVIOUS
<1>3. /\ Known(g, S, tx, n) /\ s \in Statements /\ k \in Nat
      /\ GenBody(Append(tx, s)) = GenStatement(g, s, k)
      /\ Stands(GenStatement(g, s, k), R, Append(tx, s), n)
      /\ Stands(g, S, tx, n)
  BY <1>1, <1>2, AdvanceIs
<1>4. k \in 0..n /\ g.sym[w] \in 0..n
  <2>1. k \in 0..n /\ n \in Nat
    BY <1>2, AdvanceIs
  <2>2. g.sym[w] \in 1..n
    BY <1>3, SymIs
  <2>. QED  BY <2>1, <2>2
<1>5. PICK i : i = [do |-> Fetch(w), from |-> g.sym[w], slot |-> k, at |-> k]
  OBVIOUS
<1>6. i \in Instrs(n) /\ Idle(i) /\ Makes(i, v, k)
  <2>1. Fetch(w) \in {"move", "share", "read"}
    BY DEF Fetch
  <2>2. i \in Instrs(n)
    BY <1>3, <1>4, <1>5, <2>1 DEF Instrs
  <2>. QED
    BY <1>5, <2>1, <2>2 DEF Idle, Makes, Pointers
<1>7. GenStatement(g, s, k) = Register(Emit(g, <<i>>), v, k)
  BY <1>5 DEF GenStatement
<1>8. Deepens(s.op) = 0
  BY DEF Deepens, Opens
<1>9. Stands(Register(Emit(g, <<i>>), v, k), R, Append(tx, s), n)
  BY <1>3, <1>7
<1>10. Known(Register(Emit(g, <<i>>), v, k), R, Append(tx, s), n)
  BY <1>3, <1>6, <1>8, <1>9, KnownDeclare, Zenon
<1>. QED
  BY <1>3, <1>7, <1>10

LEMMA AdvanceRef ==
    ASSUME NEW tx, NEW S, NEW s, NEW R, NEW n, GoesOn(tx, S, s, R, n), Len(tx) < n,
           NEW v \in Names, Kind[v] = "ref", NEW w \in Shown(S), NEW x,
           NEW sharp, s = [op |-> "ref", v |-> v, w |-> w, x |-> x, sharp |-> sharp],
           Grown(S, R, v)
    PROVE  Known(GenBody(Append(tx, s)), R, Append(tx, s), n)
<1>1. PICK g : g = GenBody(tx)
  OBVIOUS
<1>2. PICK k : k = Len(tx) + 1
  OBVIOUS
<1>3. /\ Known(g, S, tx, n) /\ s \in Statements /\ k \in Nat
      /\ GenBody(Append(tx, s)) = GenStatement(g, s, k)
      /\ Stands(GenStatement(g, s, k), R, Append(tx, s), n)
      /\ Stands(g, S, tx, n)
  BY <1>1, <1>2, AdvanceIs
<1>4. k \in 0..n /\ g.sym[w] \in 0..n
  <2>1. k \in 0..n /\ n \in Nat
    BY <1>2, AdvanceIs
  <2>2. g.sym[w] \in 1..n
    BY <1>3, SymIs
  <2>. QED  BY <2>1, <2>2
<1>5. PICK i : i = [do |-> "refer", from |-> g.sym[w], slot |-> k, at |-> k]
  OBVIOUS
<1>6. i \in Instrs(n) /\ Idle(i) /\ Makes(i, v, k)
  BY <1>3, <1>4, <1>5 DEF Instrs, Idle, Makes
<1>7. GenStatement(g, s, k) = Register(Emit(g, <<i>>), v, k)
  BY <1>5 DEF GenStatement
<1>8. Deepens(s.op) = 0
  BY DEF Deepens, Opens
<1>9. Stands(Register(Emit(g, <<i>>), v, k), R, Append(tx, s), n)
  BY <1>3, <1>7
<1>10. Known(Register(Emit(g, <<i>>), v, k), R, Append(tx, s), n)
  BY <1>3, <1>6, <1>8, <1>9, KnownDeclare, Zenon
<1>. QED
  BY <1>3, <1>7, <1>10

LEMMA AdvanceUse ==
    ASSUME NEW tx, NEW S, NEW s, NEW R, NEW n, GoesOn(tx, S, s, R, n),
           NEW op \in {"use", "lend", "write"}, NEW v \in Shown(S),
           s = [op |-> op, v |-> v], Quiet(S, R)
    PROVE  Known(GenBody(Append(tx, s)), R, Append(tx, s), n)
<1>1. PICK g : g = GenBody(tx)
  OBVIOUS
<1>2. PICK k : k = Len(tx) + 1
  OBVIOUS
<1>3. /\ Known(g, S, tx, n) /\ s \in Statements /\ k \in Nat
      /\ GenBody(Append(tx, s)) = GenStatement(g, s, k)
      /\ Stands(GenStatement(g, s, k), R, Append(tx, s), n)
      /\ Stands(g, S, tx, n)
  BY <1>1, <1>2, AdvanceIs
<1>4. g.sym[v] \in 0..n
  <2>1. g.sym[v] \in 1..n /\ n \in Nat
    BY <1>3, SymIs, AdvanceIs
  <2>. QED  BY <2>1
<1>5. PICK do : do = IF op = "write" THEN "write" ELSE "use"
  OBVIOUS
<1>6. PICK i : i = [do |-> do, slot |-> g.sym[v], at |-> k]
  OBVIOUS
<1>7. i \in Instrs(n) /\ Idle(i)
  BY <1>3, <1>4, <1>5, <1>6 DEF Instrs, Idle
<1>8. GenStatement(g, s, k) = Emit(g, <<i>>)
  BY <1>5, <1>6 DEF GenStatement
<1>9. Deepens(s.op) = 0
  BY DEF Deepens, Opens
<1>10. Stands(Emit(g, <<i>>), R, Append(tx, s), n)
  BY <1>3, <1>8
<1>11. Known(Emit(g, <<i>>), R, Append(tx, s), n)
  BY <1>3, <1>7, <1>9, <1>10, KnownEmit, Zenon
<1>. QED
  BY <1>3, <1>8, <1>11

LEMMA AdvanceFill ==
    ASSUME NEW tx, NEW S, NEW s, NEW R, NEW n, GoesOn(tx, S, s, R, n),
           NEW d \in 1..Len(S), NEW v \in DOMAIN S[d].syms, Kind[v] = "value",
           s = [op |-> "write", v |-> v], Sets(S, R, d, v, FALSE)
    PROVE  Known(GenBody(Append(tx, s)), R, Append(tx, s), n)
<1>1. PICK g : g = GenBody(tx)
  OBVIOUS
<1>2. PICK k : k = Len(tx) + 1
  OBVIOUS
<1>3. /\ Known(g, S, tx, n) /\ s \in Statements /\ k \in Nat
      /\ GenBody(Append(tx, s)) = GenStatement(g, s, k)
      /\ Stands(GenStatement(g, s, k), R, Append(tx, s), n)
      /\ Stands(g, S, tx, n)
  BY <1>1, <1>2, AdvanceIs
<1>4. g.sym[v] \in 0..n
  <2>1. v \in Shown(S)
    BY DEF Shown
  <2>2. g.sym[v] \in 1..n /\ n \in Nat
    BY <1>3, <2>1, SymIs, AdvanceIs
  <2>. QED  BY <2>2
<1>5. PICK i : i = [do |-> "write", slot |-> g.sym[v], at |-> k]
  OBVIOUS
<1>6. i \in Instrs(n) /\ i.do = "write" /\ i.slot = g.sym[v]
  BY <1>3, <1>4, <1>5 DEF Instrs
<1>7. GenStatement(g, s, k) = Emit(g, <<i>>)
  BY <1>5 DEF GenStatement
<1>8. Deepens(s.op) = 0 /\ MovesValue(s) /\ s.op = "write"
  BY DEF Deepens, Opens, MovesValue
<1>9. Stands(Emit(g, <<i>>), R, Append(tx, s), n)
  BY <1>3, <1>7
<1>10. Known(Emit(g, <<i>>), R, Append(tx, s), n)
  BY <1>3, <1>6, <1>8, <1>9, KnownFill, Zenon
<1>. QED
  BY <1>3, <1>7, <1>10

LEMMA AdvanceRebind ==
    ASSUME NEW tx, NEW S, NEW s, NEW R, NEW n, GoesOn(tx, S, s, R, n),
           NEW v \in Shown(S), NEW w \in Shown(S),
           s = [op |-> "rebind", v |-> v, w |-> w], Quiet(S, R)
    PROVE  Known(GenBody(Append(tx, s)), R, Append(tx, s), n)
<1>1. PICK g : g = GenBody(tx)
  OBVIOUS
<1>2. PICK k : k = Len(tx) + 1
  OBVIOUS
<1>3. /\ Known(g, S, tx, n) /\ s \in Statements /\ k \in Nat
      /\ GenBody(Append(tx, s)) = GenStatement(g, s, k)
      /\ Stands(GenStatement(g, s, k), R, Append(tx, s), n)
      /\ Stands(g, S, tx, n)
  BY <1>1, <1>2, AdvanceIs
<1>4. g.sym[v] \in 0..n /\ g.sym[w] \in 0..n
  <2>1. g.sym[v] \in 1..n /\ g.sym[w] \in 1..n /\ n \in Nat
    BY <1>3, SymIs, AdvanceIs
  <2>. QED  BY <2>1
<1>5. PICK i : i = [do |-> "refer", from |-> g.sym[w], slot |-> g.sym[v], at |-> k]
  OBVIOUS
<1>6. i \in Instrs(n) /\ Idle(i)
  BY <1>3, <1>4, <1>5 DEF Instrs, Idle
<1>7. GenStatement(g, s, k) = Emit(g, <<i>>)
  BY <1>5 DEF GenStatement
<1>8. Deepens(s.op) = 0
  BY DEF Deepens, Opens
<1>9. Stands(Emit(g, <<i>>), R, Append(tx, s), n)
  BY <1>3, <1>7
<1>10. Known(Emit(g, <<i>>), R, Append(tx, s), n)
  BY <1>3, <1>6, <1>8, <1>9, KnownEmit, Zenon
<1>. QED
  BY <1>3, <1>7, <1>10

LEMMA AdvanceAssign ==
    ASSUME NEW tx, NEW S, NEW s, NEW R, NEW n, GoesOn(tx, S, s, R, n),
           NEW v \in Shown(S), NEW w, Source(S, v, w), NEW sharp \in BOOLEAN,
           s = [op |-> "assign", v |-> v, w |-> w, sharp |-> sharp], Quiet(S, R)
    PROVE  Known(GenBody(Append(tx, s)), R, Append(tx, s), n)
<1>1. PICK g : g = GenBody(tx)
  OBVIOUS
<1>2. PICK k : k = Len(tx) + 1
  OBVIOUS
<1>3. /\ Known(g, S, tx, n) /\ s \in Statements /\ k \in Nat
      /\ GenBody(Append(tx, s)) = GenStatement(g, s, k)
      /\ Stands(GenStatement(g, s, k), R, Append(tx, s), n)
      /\ Stands(g, S, tx, n) /\ n \in Nat
  BY <1>1, <1>2, AdvanceIs
<1>4. g.sym[v] \in 0..n
  <2>1. g.sym[v] \in 1..n
    BY <1>3, SymIs
  <2>. QED  BY <1>3, <2>1
<1>5. PICK i : i = Assigned(g, w, k)
  OBVIOUS
<1>6. i \in Instrs(n) /\ Idle(i)
  <2>0. PICK j : j = [do |-> "new", slot |-> 0, at |-> k]
    OBVIOUS
  <2>3. j \in Instrs(n) /\ Idle(j)
    BY <1>3, <2>0 DEF Instrs, Idle
  <2>1. CASE w = ""
    <3>1. i = j
      BY <1>5, <2>0, <2>1 DEF Assigned
    <3>. QED  BY <2>3, <3>1, Zenon
  <2>2. CASE w # ""
    <3>1. w \in Shown(S)
      BY <2>2, Zenon DEF Source
    <3>2. g.sym[w] \in 1..n
      BY <1>3, <3>1, SymIs
    <3>3. g.sym[w] \in 0..n
      BY <1>3, <3>2
    <3>4. Fetch(w) \in {"move", "share", "read"}
      BY DEF Fetch
    <3>5. i = [do |-> Fetch(w), from |-> g.sym[w], slot |-> 0, at |-> k]
      BY <1>5, <2>2 DEF Assigned
    <3>. QED  BY <1>3, <3>3, <3>4, <3>5 DEF Instrs, Idle
  <2>. QED  BY <2>1, <2>2
<1>7. Deepens(s.op) = 0
  BY DEF Deepens, Opens
<1>8. GenStatement(g, s, k) = GenAssign(g, s, k)
  BY DEF GenStatement
<1>9. CASE sharp = TRUE
  <2>1. PICK r : r = [do |-> "release", slot |-> g.sym[v], at |-> k]
    OBVIOUS
  <2>2. PICK t : t = [do |-> "store", slot |-> g.sym[v]]
    OBVIOUS
  <2>3. r \in Instrs(n) /\ Idle(r) /\ t \in Instrs(n) /\ Idle(t)
    BY <1>3, <1>4, <2>1, <2>2 DEF Instrs, Idle
  <2>4. GenStatement(g, s, k) = Emit(g, <<i, r, t>>)
    BY <1>5, <1>8, <1>9, <2>1, <2>2 DEF GenAssign, Assigned
  <2>5. Stands(Emit(g, <<i, r, t>>), R, Append(tx, s), n)
    BY <1>3, <2>4
  <2>6. Known(Emit(g, <<i, r, t>>), R, Append(tx, s), n)
    BY <1>3, <1>6, <1>7, <2>3, <2>5, KnownAssign, Zenon
  <2>. QED
    BY <1>3, <2>4, <2>6
<1>10. CASE sharp = FALSE
  <2>1. PICK do \in {"put", "graft"} :
           do = IF w = "" /\ Kind[v] = "shared" THEN "graft" ELSE "put"
    OBVIOUS
  <2>2. PICK t : t = [do |-> do, slot |-> g.sym[v]]
    OBVIOUS
  <2>3. t \in Instrs(n) /\ Idle(t)
    BY <1>4, <2>1, <2>2 DEF Instrs, Idle
  <2>4. GenStatement(g, s, k) = Emit(g, <<i, t>>)
    BY <1>5, <1>8, <1>10, <2>1, <2>2 DEF GenAssign, Assigned
  <2>5. Stands(Emit(g, <<i, t>>), R, Append(tx, s), n)
    BY <1>3, <2>4
  <2>6. Known(Emit(g, <<i, t>>), R, Append(tx, s), n)
    BY <1>3, <1>6, <1>7, <2>3, <2>5, KnownPair, Zenon
  <2>. QED
    BY <1>3, <2>4, <2>6
<1>. QED
  BY <1>9, <1>10

LEMMA AdvanceGive ==
    ASSUME NEW tx, NEW S, NEW s, NEW R, NEW n, GoesOn(tx, S, s, R, n),
           NEW v \in Shown(S), Kind[v] = "unique",
           s = [op |-> "cede", v |-> v], Quiet(S, R)
    PROVE  Known(GenBody(Append(tx, s)), R, Append(tx, s), n)
<1>1. PICK g : g = GenBody(tx)
  OBVIOUS
<1>2. PICK k : k = Len(tx) + 1
  OBVIOUS
<1>3. /\ Known(g, S, tx, n) /\ s \in Statements /\ k \in Nat
      /\ GenBody(Append(tx, s)) = GenStatement(g, s, k)
      /\ Stands(GenStatement(g, s, k), R, Append(tx, s), n)
      /\ Stands(g, S, tx, n) /\ n \in Nat
  BY <1>1, <1>2, AdvanceIs
<1>4. g.sym[v] \in 0..n
  <2>1. g.sym[v] \in 1..n
    BY <1>3, SymIs
  <2>. QED  BY <1>3, <2>1
<1>5. PICK i : i = [do |-> "give", slot |-> g.sym[v], at |-> k]
  OBVIOUS
<1>6. i \in Instrs(n) /\ i.do = "give" /\ i.slot = g.sym[v]
  BY <1>3, <1>4, <1>5 DEF Instrs
<1>7. GenStatement(g, s, k) = Emit(g, <<i>>)
  <2>1. GenStatement(g, s, k) = Suppress(Emit(g, <<i>>), v)
    BY <1>5 DEF GenStatement
  <2>. QED  BY <2>1 DEF Suppress
<1>8. Deepens(s.op) = 0
  BY DEF Deepens, Opens
<1>9. Stands(Emit(g, <<i>>), R, Append(tx, s), n)
  BY <1>3, <1>7
<1>10. Known(Emit(g, <<i>>), R, Append(tx, s), n)
  BY <1>3, <1>6, <1>8, <1>9, KnownGive, Zenon
<1>. QED
  BY <1>3, <1>7, <1>10

LEMMA AdvanceCede ==
    ASSUME NEW tx, NEW S, NEW s, NEW R, NEW n, GoesOn(tx, S, s, R, n),
           NEW d \in 1..Len(S), NEW v \in DOMAIN S[d].syms, Kind[v] = "value",
           ~S[d].syms[v].moved,
           s = [op |-> "cede", v |-> v], Sets(S, R, d, v, TRUE)
    PROVE  Known(GenBody(Append(tx, s)), R, Append(tx, s), n)
<1>1. PICK g : g = GenBody(tx)
  OBVIOUS
<1>2. PICK k : k = Len(tx) + 1
  OBVIOUS
<1>3. /\ Known(g, S, tx, n) /\ s \in Statements /\ k \in Nat
      /\ GenBody(Append(tx, s)) = GenStatement(g, s, k)
      /\ Stands(GenStatement(g, s, k), R, Append(tx, s), n)
      /\ Stands(g, S, tx, n)
  BY <1>1, <1>2, AdvanceIs
<1>4. g.sym[v] \in 0..n
  <2>1. v \in Shown(S)
    BY DEF Shown
  <2>2. g.sym[v] \in 1..n /\ n \in Nat
    BY <1>3, <2>1, SymIs, AdvanceIs
  <2>. QED  BY <2>2
<1>5. PICK i : i = [do |-> "give", slot |-> g.sym[v], at |-> k]
  OBVIOUS
<1>6. i \in Instrs(n) /\ i.do = "give" /\ i.slot = g.sym[v]
  BY <1>3, <1>4, <1>5 DEF Instrs
<1>7. GenStatement(g, s, k) = Suppress(Emit(g, <<i>>), v)
  BY <1>5 DEF GenStatement
<1>8. Deepens(s.op) = 0 /\ MovesValue(s)
  BY DEF Deepens, Opens, MovesValue
<1>9. Stands(Suppress(Emit(g, <<i>>), v), R, Append(tx, s), n)
  BY <1>3, <1>7
<1>10. Known(Suppress(Emit(g, <<i>>), v), R, Append(tx, s), n)
  BY <1>3, <1>6, <1>8, <1>9, KnownCede, Zenon
<1>. QED
  BY <1>3, <1>7, <1>10

LEMMA AdvanceReturn ==
    ASSUME NEW tx, NEW S, NEW s, NEW R, NEW n, GoesOn(tx, S, s, R, n),
           NEW v, v = "" \/ Handle(S, v),
           s = [op |-> "return", v |-> v], Leaps(S, R)
    PROVE  Known(GenBody(Append(tx, s)), R, Append(tx, s), n)
<1>1. PICK g : g = GenBody(tx)
  OBVIOUS
<1>2. PICK k : k = Len(tx) + 1
  OBVIOUS
<1>3. /\ Known(g, S, tx, n) /\ s \in Statements /\ k \in Nat
      /\ GenBody(Append(tx, s)) = GenStatement(g, s, k)
      /\ Stands(GenStatement(g, s, k), R, Append(tx, s), n)
  BY <1>1, <1>2, AdvanceIs
<1>4. GenStatement(g, s, k) = GenReturn(g, v, k)
  BY DEF GenStatement
<1>5. Deepens(s.op) = 0 /\ s.op \in JumpOps
  BY DEF Deepens, Opens, JumpOps
<1>6. Stands(GenReturn(g, v, k), R, Append(tx, s), n)
  BY <1>3, <1>4
<1>7. Known(GenReturn(g, v, k), R, Append(tx, s), n)
  <2>1. CASE v = ""
    <3>1. Stands(GenReturn(g, "", k), R, Append(tx, s), n)
      BY <1>6, <2>1
    <3>2. Known(GenReturn(g, "", k), R, Append(tx, s), n)
      BY <1>3, <1>5, <3>1, KnownReturnNone, Zenon
    <3>. QED  BY <2>1, <3>2
  <2>2. CASE Handle(S, v)
    BY <1>3, <1>5, <1>6, <2>2, KnownReturnValue, Zenon
  <2>. QED  BY <2>1, <2>2
<1>. QED
  BY <1>3, <1>4, <1>7

LEMMA AdvanceJump ==
    ASSUME NEW tx, NEW S, NEW s, NEW R, NEW n, GoesOn(tx, S, s, R, n),
           NEW op \in {"break", "continue"}, NEW b \in 1..Len(S), S[b].kind = "loop",
           s = [op |-> op], Leaps(S, R)
    PROVE  Known(GenBody(Append(tx, s)), R, Append(tx, s), n)
<1>1. PICK g : g = GenBody(tx)
  OBVIOUS
<1>2. PICK k : k = Len(tx) + 1
  OBVIOUS
<1>3. /\ Known(g, S, tx, n) /\ s \in Statements /\ k \in Nat /\ S[1].kind = "body"
      /\ GenBody(Append(tx, s)) = GenStatement(g, s, k)
      /\ Stands(GenStatement(g, s, k), R, Append(tx, s), n)
  BY <1>1, <1>2, AdvanceIs
<1>4. GenStatement(g, s, k) = GenJump(g, op, k)
  BY DEF GenStatement
<1>5. Deepens(s.op) = 0 /\ s.op \in JumpOps
  BY DEF Deepens, Opens, JumpOps
<1>6. Stands(GenJump(g, op, k), R, Append(tx, s), n)
  BY <1>3, <1>4
<1>7. Known(GenJump(g, op, k), R, Append(tx, s), n)
  BY <1>3, <1>5, <1>6, KnownJump, Zenon
<1>. QED
  BY <1>3, <1>4, <1>7

LEMMA AdvanceOpen ==
    ASSUME NEW tx, NEW S, NEW s, NEW R, NEW n, GoesOn(tx, S, s, R, n),
           NEW kind \in {"block", "if", "loop"}, s = [op |-> kind], Enters(S, R, kind)
    PROVE  Known(GenBody(Append(tx, s)), R, Append(tx, s), n)
<1>1. PICK g : g = GenBody(tx)
  OBVIOUS
<1>2. PICK k : k = Len(tx) + 1
  OBVIOUS
<1>3. /\ Known(g, S, tx, n) /\ s \in Statements /\ k \in Nat
      /\ GenBody(Append(tx, s)) = GenStatement(g, s, k)
      /\ Stands(GenStatement(g, s, k), R, Append(tx, s), n)
  BY <1>1, <1>2, AdvanceIs
<1>4. GenStatement(g, s, k) = GenOpen(g, kind, k)
  BY DEF GenStatement
<1>5. PICK T : Body(g, T, S, tx, n)
  BY <1>1 DEF GoesOn, Compiles
<1>6. Stands(GenOpen(g, kind, k), R, Append(tx, s), n) /\ s.op = kind
  BY <1>3, <1>4
<1>7. Known(GenOpen(g, kind, k), R, Append(tx, s), n)
  BY <1>2, <1>3, <1>5, <1>6, KnownOpen, Zenon
<1>. QED
  BY <1>3, <1>4, <1>7

LEMMA AdvanceElse ==
    ASSUME NEW tx, NEW S, NEW s, NEW R, NEW n, GoesOn(tx, S, s, R, n),
           InIf(S), s = [op |-> "else"], Elses(S, R)
    PROVE  Known(GenBody(Append(tx, s)), R, Append(tx, s), n)
<1>1. PICK g : g = GenBody(tx)
  OBVIOUS
<1>2. PICK k : k = Len(tx) + 1
  OBVIOUS
<1>3. /\ Known(g, S, tx, n) /\ s \in Statements /\ k \in Nat /\ S[1].kind = "body"
      /\ GenBody(Append(tx, s)) = GenStatement(g, s, k)
      /\ Stands(GenStatement(g, s, k), R, Append(tx, s), n)
  BY <1>1, <1>2, AdvanceIs
<1>4. GenStatement(g, s, k) = GenElse(g, k)
  BY DEF GenStatement
<1>5. Stands(GenElse(g, k), R, Append(tx, s), n) /\ s.op = "else"
  BY <1>3, <1>4
<1>6. Known(GenElse(g, k), R, Append(tx, s), n)
  BY <1>3, <1>5, KnownElse, Zenon
<1>. QED
  BY <1>3, <1>4, <1>6

LEMMA AdvanceClose ==
    ASSUME NEW tx, NEW S, NEW s, NEW R, NEW n, GoesOn(tx, S, s, R, n),
           s = [op |-> "close"], Closes(S, R)
    PROVE  Known(GenBody(Append(tx, s)), R, Append(tx, s), n)
<1>1. PICK g : g = GenBody(tx)
  OBVIOUS
<1>2. PICK k : k = Len(tx) + 1
  OBVIOUS
<1>3. /\ Known(g, S, tx, n) /\ s \in Statements /\ k \in Nat /\ S[1].kind = "body"
      /\ GenBody(Append(tx, s)) = GenStatement(g, s, k)
      /\ Stands(GenStatement(g, s, k), R, Append(tx, s), n)
  BY <1>1, <1>2, AdvanceIs
<1>4. GenStatement(g, s, k) = GenEnd(g, k)
  BY DEF GenStatement
<1>5. Stands(GenEnd(g, k), R, Append(tx, s), n) /\ s.op = "close"
  BY <1>3, <1>4
<1>6. Known(GenEnd(g, k), R, Append(tx, s), n)
  BY <1>3, <1>5, KnownClose, Zenon
<1>. QED
  BY <1>3, <1>4, <1>6

-----------------------------------------------------------------------------
(* The checker                                                             *)

\* The invariant of the checker, next to BorrowInv and CheckInv.
KnownInv ==
    phase \in {"check", "accepted"} => Known(GenBody(text), scopes, text, profile.len)

LEMMA DepthIs ==
    ASSUME NEW v \in Visible, scopes \in Seq(Scope)
    PROVE  Depth(v) \in 1..Len(scopes) /\ v \in DOMAIN scopes[Depth(v)].syms
<1>. DEFINE has == {i \in DOMAIN scopes : v \in DOMAIN scopes[i].syms}
<1>1. has \subseteq 0..Len(scopes) /\ has # {} /\ Len(scopes) \in Nat
  BY DEF Visible
<1>2. Depth(v) = CHOOSE i \in has : \A j \in has : j <= i
  BY DEF Depth
<1>3. \A i \in has : i \in 1..Len(scopes) /\ v \in DOMAIN scopes[i].syms
  OBVIOUS
<1>. HIDE DEF has
<1>4. \E i \in has : \A j \in has : j <= i
  BY <1>1, Largest
<1>5. Depth(v) \in has
  BY <1>2, <1>4
<1>. QED
  BY <1>3, <1>5

LEMMA DefineGrown ==
    ASSUME NEW S \in Seq(Scope), Len(S) > 0, NEW v \in Names, v \notin Shown(S),
           NEW from \in Places \cup {<<>>}, NEW x \in BOOLEAN, NEW sharp \in BOOLEAN
    PROVE  Grown(S, Define(S, v, from, x, sharp), v)
<1>. DEFINE n   == Len(S)
            new == Put(S[n].syms, v, [moved |-> FALSE, from |-> from,
                                      exclusive |-> x, sharp |-> sharp])
            R   == [S EXCEPT ![n] = [S[n] EXCEPT !.syms = new]]
<1>1. n \in 1..Len(S) /\ Len(S) \in Nat
  OBVIOUS
<1>2. Define(S, v, from, x, sharp) = R
  BY DEF Define
<1>3. Adds(S, Define(S, v, from, x, sharp), v)
  BY DefineAdds
<1>4. /\ ~new[v].moved
      /\ \A u \in DOMAIN S[n].syms : u # v => new[u] = S[n].syms[u]
  BY DEF Put
<1>5. v \notin DOMAIN S[n].syms
  BY <1>1 DEF Shown
<1>. HIDE DEF new
<1>0. Edited(S, n, new, R)
  BY DEF Edited
<1>. HIDE DEF R
<1>6. /\ SameSaved(S, R) /\ SameJumps(S, R, Len(S)) /\ R[n].syms = new
      /\ \A c \in 1..Len(S) : c # n => R[c].syms = S[c].syms
  <2>. HIDE DEF n
  <2>. QED  BY <1>0, <1>1, SymsEdit
<1>7. \A d \in 1..Len(S) : SameFlags(S, R, d)
  BY <1>4, <1>5, <1>6 DEF SameFlags
<1>8. ~R[Len(S)].syms[v].moved
  BY <1>4, <1>6
<1>. QED
  BY <1>2, <1>3, <1>6, <1>7, <1>8 DEF Grown

LEMMA GrownQuiet ==
    ASSUME NEW S \in Seq(Scope), Len(S) > 0, NEW R, NEW v, Grown(S, R, v), NEW U, NEW d,
           NEW w, NEW b, Sets(R, U, d, w, b), Kind[w] # "value", w # v
    PROVE  Grown(S, U, v)
<1>1. /\ Adds(S, R, v) /\ Len(R) = Len(S) /\ Len(S) \in 1..Len(S)
      /\ v \in DOMAIN R[Len(S)].syms
      /\ \A c \in 1..Len(S) : DOMAIN S[c].syms \subseteq DOMAIN R[c].syms
  <2>1. Adds(S, R, v)
    BY DEF Grown
  <2>2. Len(S) \in 1..Len(S)
    OBVIOUS
  <2>3. /\ Len(R) = Len(S)
        /\ \A c \in 1..Len(S) : DOMAIN R[c].syms = IF c = Len(S)
                                  THEN DOMAIN S[c].syms \cup {v} ELSE DOMAIN S[c].syms
    BY <2>1 DEF Adds
  <2>. QED  BY <2>1, <2>2, <2>3
<1>2. Adds(S, U, v)
  BY <1>1, AddsShape DEF Sets
<1>3. SameSaved(S, U) /\ SameJumps(S, U, Len(S))
  BY <1>1 DEF Grown, Sets, SameSaved, SameJumps
<1>4. ~U[Len(S)].syms[v].moved
  BY <1>1 DEF Grown, Sets
<1>5. ASSUME NEW c \in 1..Len(S) PROVE SameFlags(S, U, c)
  <2>1. \A u \in DOMAIN S[c].syms : Kind[u] = "value" =>
           /\ R[c].syms[u].moved = S[c].syms[u].moved
           /\ U[c].syms[u].moved = R[c].syms[u].moved
    BY <1>1 DEF Grown, Sets, SameFlags
  <2>. QED  BY <2>1 DEF SameFlags
<1>. QED
  BY <1>2, <1>3, <1>4, <1>5 DEF Grown

\* What a statement does that is not refused.
LEMMA StatementIs ==
    ASSUME NEW s, NEW errors, NEW R, NEW led, Statement(s, errors, R, led),
           phase = "check", phase' = "check"
    PROVE  errors = {} /\ scopes' = R /\ text' = Append(text, s)
BY DEF Statement

LEMMA Advanced ==
    ASSUME BorrowInv, CheckInv, KnownInv, phase = "check", Grows, phase' = "check",
           NEW s \in Statements, text' = Append(text, s), NEW R, scopes' = R
    PROVE  GoesOn(text, scopes, s, R, profile.len)
<1>1. Compiles(scopes', text', profile.len)
  BY DEF Grows
<1>2. Compiles(R, Append(text, s), profile.len)
  BY <1>1
<1>3. Known(GenBody(text), scopes, text, profile.len)
  BY DEF KnownInv
<1>4. scopes[1].kind = "body" /\ Compiles(scopes, text, profile.len)
  BY WhileCompiling
<1>. QED
  BY <1>2, <1>3, <1>4 DEF GoesOn

LEMMA Learns ==
    ASSUME Grows, NEW s, text' = Append(text, s), NEW R, scopes' = R,
           Known(GenBody(Append(text, s)), R, Append(text, s), profile.len)
    PROVE  KnownInv'
<1>1. profile' = profile
  BY DEF Grows
<1>2. Known(GenBody(text'), scopes', text', profile'.len)
  BY <1>1
<1>. QED
  BY <1>2 DEF KnownInv

LEMMA KnowsNew ==
    ASSUME BorrowInv, CheckInv, KnownInv, NEW v \in profile.names, DeclareNew(v),
           phase' = "check"
    PROVE  KnownInv'
<1>1. Grows /\ phase = "check" /\ Len(text) < profile.len
  BY GrowsNew, MayWriteChecks DEF DeclareNew
<1>2. PICK s : s = [op |-> "new", v |-> v]
  OBVIOUS
<1>3. PICK R : R = Define(scopes, v, <<>>, FALSE, FALSE)
  OBVIOUS
<1>4. /\ v \in Names /\ v \notin Shown(scopes)
      /\ scopes \in Seq(Scope) /\ Len(scopes) > 0
  BY <1>1, WhileCompiling DEF DeclareNew, MayDeclare
<1>5. Statement(s, {}, R, ledger)
  BY <1>2, <1>3 DEF DeclareNew
<1>6. scopes' = R /\ text' = Append(text, s)
  BY <1>1, <1>5, StatementIs
<1>7. Grown(scopes, R, v)
  BY <1>3, <1>4, DefineGrown
<1>8. s \in Statements
  BY <1>2, <1>4 DEF Statements, Ops
<1>9. GoesOn(text, scopes, s, R, profile.len)
  BY <1>1, <1>6, <1>8, Advanced
<1>10. Known(GenBody(Append(text, s)), R, Append(text, s), profile.len)
  BY <1>1, <1>2, <1>4, <1>7, <1>9, AdvanceNew
<1>. QED
  BY <1>1, <1>6, <1>10, Learns

LEMMA KnowsFrom ==
    ASSUME BorrowInv, CheckInv, KnownInv, NEW v \in profile.names, NEW w,
           DeclareFrom(v, w), phase' = "check"
    PROVE  KnownInv'
<1>1. Grows /\ phase = "check" /\ Len(text) < profile.len
  BY GrowsFrom, MayWriteChecks DEF DeclareFrom
<1>2. PICK s : s = [op |-> "from", v |-> v, w |-> w]
  OBVIOUS
<1>3. PICK D : D = Define(scopes, v, <<>>, FALSE, FALSE)
  OBVIOUS
<1>4. PICK R : R = IF Kind[w] = "unique" THEN SetMoved(D, w, TRUE) ELSE D
  OBVIOUS
<1>5. /\ v \in Names /\ v \notin Shown(scopes) /\ Kind[v] \in Pointers
      /\ w \in Visible /\ w \in Shown(scopes) /\ w \in Names /\ Kind[w] = Kind[v] /\ w # v
      /\ scopes \in Seq(Scope) /\ Len(scopes) > 0
  BY <1>1, WhileCompiling DEF DeclareFrom, MayDeclare, Owners, Pointers
<1>6. PICK e : e = IF Kind[w] = "unique" THEN MoveErrors(w) ELSE ReadErrors(w, v)
  OBVIOUS
<1>7. Statement(s, e, R, ledger)
  BY <1>2, <1>3, <1>4, <1>6 DEF DeclareFrom
<1>8. scopes' = R /\ text' = Append(text, s)
  BY <1>1, <1>7, StatementIs
<1>9. Grown(scopes, D, v)
  BY <1>3, <1>5, DefineGrown
<1>10. Grown(scopes, R, v)
  <2>1. CASE Kind[w] = "unique"
    <3>1. PICK d : d = Depth(w)
      OBVIOUS
    <3>2. d \in 1..Len(scopes) /\ w \in DOMAIN scopes[d].syms
      BY <1>5, <3>1, DepthIs
    <3>3. D \in Seq(Scope) /\ d \in 1..Len(D) /\ w \in DOMAIN D[d].syms
      <4>1. Adds(scopes, D, v)
        BY <1>9 DEF Grown
      <4>. QED  BY <3>2, <4>1 DEF Adds
    <3>4. R = [D EXCEPT ![d].syms[w].moved = TRUE]
      BY <1>4, <2>1, <3>1 DEF SetMoved
    <3>5. Sets(D, R, d, w, TRUE)
      BY <3>3, <3>4, MovedSets
    <3>. QED  BY <1>5, <1>9, <2>1, <3>5, GrownQuiet
  <2>2. CASE Kind[w] # "unique"
    BY <1>4, <1>9, <2>2
  <2>. QED  BY <2>1, <2>2
<1>11. s \in Statements
  BY <1>2, <1>5 DEF Statements, Ops
<1>12. GoesOn(text, scopes, s, R, profile.len)
  BY <1>1, <1>8, <1>11, Advanced
<1>13. Known(GenBody(Append(text, s)), R, Append(text, s), profile.len)
  BY <1>1, <1>2, <1>5, <1>10, <1>12, AdvanceFrom
<1>. QED
  BY <1>1, <1>8, <1>13, Learns

LEMMA KnowsRef ==
    ASSUME BorrowInv, CheckInv, KnownInv, NEW r \in profile.names, NEW place \in Places,
           NEW wanted \in BOOLEAN, NEW sharp \in BOOLEAN,
           DeclareRef(r, place, wanted, sharp), phase' = "check"
    PROVE  KnownInv'
<1>1. Grows /\ phase = "check" /\ Len(text) < profile.len
  BY GrowsRef, MayWriteChecks DEF DeclareRef
<1>2. PICK x \in BOOLEAN : x = Exclusive(place, wanted)
  BY DEF Exclusive
<1>3. PICK w : w = place[1]
  OBVIOUS
<1>4. PICK s : s = [op |-> "ref", v |-> r, w |-> w, x |-> x, sharp |-> sharp]
  OBVIOUS
<1>0. PICK f \in Places \cup {<<>>} : f = IF sharp THEN <<>> ELSE place
  OBVIOUS
<1>5. PICK R : R = Define(scopes, r, f, x, sharp)
  OBVIOUS
<1>13. PICK led : led = IF sharp THEN Record(ledger, place, x)
                        ELSE Commit(Record(ledger, place, x), place)
  OBVIOUS
<1>6. /\ r \in Names /\ r \notin Shown(scopes) /\ Kind[r] = "ref"
      /\ w \in Shown(scopes) /\ w \in Names
      /\ scopes \in Seq(Scope) /\ Len(scopes) > 0
  BY <1>1, <1>3, WhileCompiling DEF DeclareRef, MayDeclare
<1>7. Statement(s, BorrowErrors(place, x, r), R, led)
  BY <1>0, <1>2, <1>3, <1>4, <1>5, <1>13 DEF DeclareRef
<1>8. scopes' = R /\ text' = Append(text, s)
  BY <1>1, <1>7, StatementIs
<1>9. Grown(scopes, R, r)
  BY <1>5, <1>6, DefineGrown
<1>10. s \in Statements
  BY <1>4, <1>6 DEF Statements, Ops
<1>11. GoesOn(text, scopes, s, R, profile.len)
  BY <1>1, <1>8, <1>10, Advanced
<1>12. Known(GenBody(Append(text, s)), R, Append(text, s), profile.len)
  BY <1>1, <1>4, <1>6, <1>9, <1>11, AdvanceRef
<1>. QED
  BY <1>1, <1>8, <1>12, Learns

LEMMA KnowsUse ==
    ASSUME BorrowInv, CheckInv, KnownInv, NEW v, Use(v), phase' = "check"
    PROVE  KnownInv'
<1>1. Grows /\ phase = "check"
  BY GrowsUse, MayWriteChecks DEF Use
<1>2. PICK s : s = [op |-> "use", v |-> v]
  OBVIOUS
<1>3. v \in Shown(scopes) /\ v \in Names /\ scopes \in Seq(Scope)
  BY <1>1, WhileCompiling DEF Use
<1>4. Statement(s, ReadErrors(v, ""), scopes, ledger)
  BY <1>2 DEF Use
<1>5. scopes' = scopes /\ text' = Append(text, s)
  BY <1>1, <1>4, StatementIs
<1>6. s \in Statements
  BY <1>2, <1>3 DEF Statements, Ops
<1>7. GoesOn(text, scopes, s, scopes, profile.len)
  BY <1>1, <1>5, <1>6, Advanced
<1>8. Known(GenBody(Append(text, s)), scopes, Append(text, s), profile.len)
  BY <1>2, <1>3, <1>7, QuietSelf, AdvanceUse
<1>. QED
  BY <1>1, <1>5, <1>8, Learns

LEMMA KnowsLend ==
    ASSUME BorrowInv, CheckInv, KnownInv, NEW place \in Places, Lend(place),
           phase' = "check"
    PROVE  KnownInv'
<1>1. Grows /\ phase = "check"
  BY GrowsLend, MayWriteChecks DEF Lend
<1>2. PICK v : v = place[1]
  OBVIOUS
<1>3. PICK s : s = [op |-> "lend", v |-> v]
  OBVIOUS
<1>4. v \in Shown(scopes) /\ v \in Names /\ scopes \in Seq(Scope)
  BY <1>1, <1>2, WhileCompiling DEF Lend
<1>5. Statement(s, BorrowErrors(place, FALSE, ""), scopes, Record(ledger, place, FALSE))
  BY <1>2, <1>3 DEF Lend
<1>6. scopes' = scopes /\ text' = Append(text, s)
  BY <1>1, <1>5, StatementIs
<1>7. s \in Statements
  BY <1>3, <1>4 DEF Statements, Ops
<1>8. GoesOn(text, scopes, s, scopes, profile.len)
  BY <1>1, <1>6, <1>7, Advanced
<1>9. Known(GenBody(Append(text, s)), scopes, Append(text, s), profile.len)
  BY <1>3, <1>4, <1>8, QuietSelf, AdvanceUse
<1>. QED
  BY <1>1, <1>6, <1>9, Learns

LEMMA KnowsWrite ==
    ASSUME BorrowInv, CheckInv, KnownInv, NEW v, Write(v), phase' = "check"
    PROVE  KnownInv'
<1>1. Grows /\ phase = "check"
  BY GrowsWrite, MayWriteChecks DEF Write
<1>2. PICK s : s = [op |-> "write", v |-> v]
  OBVIOUS
<1>3. PICK R : R = SetMoved(scopes, v, FALSE)
  OBVIOUS
<1>4. v \in Visible /\ v \in Shown(scopes) /\ v \in Names /\ scopes \in Seq(Scope)
  BY <1>1, WhileCompiling DEF Write
<1>5. Statement(s, WriteErrors(v), R, ledger)
  BY <1>2, <1>3 DEF Write
<1>6. scopes' = R /\ text' = Append(text, s)
  BY <1>1, <1>5, StatementIs
<1>7. s \in Statements
  BY <1>2, <1>4 DEF Statements, Ops
<1>8. GoesOn(text, scopes, s, R, profile.len)
  BY <1>1, <1>6, <1>7, Advanced
<1>9. PICK d \in 1..Len(scopes) : d = Depth(v) /\ v \in DOMAIN scopes[d].syms
  BY <1>4, DepthIs
<1>10. Sets(scopes, R, d, v, FALSE)
  <2>1. R = [scopes EXCEPT ![d].syms[v].moved = FALSE]
    BY <1>3, <1>9 DEF SetMoved
  <2>. QED  BY <1>4, <1>9, <2>1, MovedSets
<1>11. Known(GenBody(Append(text, s)), R, Append(text, s), profile.len)
  <2>1. CASE Kind[v] = "value"
    BY <1>2, <1>8, <1>9, <1>10, <2>1, AdvanceFill
  <2>2. CASE Kind[v] # "value"
    <3>1. Quiet(scopes, R)
      BY <1>10, <2>2, SetsQuiet
    <3>. QED  BY <1>2, <1>4, <1>8, <3>1, AdvanceUse
  <2>. QED  BY <2>1, <2>2
<1>. QED
  BY <1>1, <1>6, <1>11, Learns

LEMMA KnowsCede ==
    ASSUME BorrowInv, CheckInv, KnownInv, NEW v, Cede(v), phase' = "check"
    PROVE  KnownInv'
<1>1. Grows /\ phase = "check"
  BY GrowsCede, MayWriteChecks DEF Cede
<1>2. PICK s : s = [op |-> "cede", v |-> v]
  OBVIOUS
<1>3. PICK R : R = SetMoved(scopes, v, TRUE)
  OBVIOUS
<1>4. PICK x : x = {w \in {"cede in loop"} : Kind[v] = "unique" /\
                       \E i \in (Depth(v) + 1)..Len(scopes) : scopes[i].kind = "loop"}
  OBVIOUS
<1>5. /\ v \in Visible /\ v \in Shown(scopes) /\ v \in Names
      /\ scopes \in Seq(Scope) /\ Kind[v] \in {"unique", "value"}
  BY <1>1, WhileCompiling DEF Cede
<1>6. Statement(s, MoveErrors(v) \cup x, R, ledger)
  BY <1>2, <1>3, <1>4 DEF Cede
<1>7. /\ MoveErrors(v) \cup x = {} /\ scopes' = R /\ text' = Append(text, s)
  BY <1>1, <1>6, StatementIs
<1>8. s \in Statements
  BY <1>2, <1>5 DEF Statements, Ops
<1>9. GoesOn(text, scopes, s, R, profile.len)
  BY <1>1, <1>7, <1>8, Advanced
<1>10. PICK d \in 1..Len(scopes) : d = Depth(v) /\ v \in DOMAIN scopes[d].syms
  BY <1>5, DepthIs
<1>11. Sets(scopes, R, d, v, TRUE)
  <2>1. R = [scopes EXCEPT ![d].syms[v].moved = TRUE]
    BY <1>3, <1>10 DEF SetMoved
  <2>. QED  BY <1>5, <1>10, <2>1, MovedSets
<1>12. ~scopes[d].syms[v].moved
  <2>1. ReadErrors(v, "") = {}
    BY <1>7 DEF MoveErrors
  <2>2. {e \in {"moved"} : Sym(v).moved} = {}
    BY <2>1 DEF ReadErrors
  <2>3. ~Sym(v).moved
    BY <2>2
  <2>. QED  BY <1>10, <2>3 DEF Sym
<1>13. Known(GenBody(Append(text, s)), R, Append(text, s), profile.len)
  <2>1. CASE Kind[v] = "value"
    BY <1>2, <1>9, <1>10, <1>11, <1>12, <2>1, AdvanceCede
  <2>2. CASE Kind[v] = "unique"
    <3>1. Quiet(scopes, R)
      BY <1>11, <2>2, SetsQuiet
    <3>. QED  BY <1>2, <1>5, <1>9, <2>2, <3>1, AdvanceGive
  <2>. QED  BY <1>5, <2>1, <2>2
<1>. QED
  BY <1>1, <1>7, <1>13, Learns

LEMMA KnowsRebind ==
    ASSUME BorrowInv, CheckInv, KnownInv, NEW r, NEW place \in Places,
           NEW sharp \in BOOLEAN, Rebind(r, place, sharp), phase' = "check"
    PROVE  KnownInv'
<1>1. Grows /\ phase = "check"
  BY GrowsRebind, MayWriteChecks DEF Rebind
<1>2. PICK w : w = place[1]
  OBVIOUS
<1>3. PICK s : s = [op |-> "rebind", v |-> r, w |-> w]
  OBVIOUS
<1>4. PICK led : led = IF sharp THEN Upgrade(Record(ledger, place, FALSE), place)
                       ELSE Record(ledger, place, FALSE)
  OBVIOUS
<1>5. /\ r \in Visible /\ r \in Shown(scopes) /\ r \in Names
      /\ w \in Shown(scopes) /\ w \in Names /\ scopes \in Seq(Scope)
  BY <1>1, <1>2, WhileCompiling DEF Rebind
<1>6. PICK e : e = BorrowErrors(place, FALSE, "")
                   \cup {x \in {"lifetime"} : Depth(r) < Depth(w)}
  OBVIOUS
<1>7. Statement(s, e, scopes, led)
  BY <1>2, <1>3, <1>4, <1>6 DEF Rebind
<1>8. scopes' = scopes /\ text' = Append(text, s)
  BY <1>1, <1>7, StatementIs
<1>9. s \in Statements
  BY <1>3, <1>5 DEF Statements, Ops
<1>10. GoesOn(text, scopes, s, scopes, profile.len)
  BY <1>1, <1>8, <1>9, Advanced
<1>11. Quiet(scopes, scopes)
  BY <1>5, QuietSelf
<1>12. Known(GenBody(Append(text, s)), scopes, Append(text, s), profile.len)
  BY <1>3, <1>5, <1>10, <1>11, AdvanceRebind
<1>. QED
  BY <1>1, <1>8, <1>12, Learns

LEMMA KnowsAssign ==
    ASSUME BorrowInv, CheckInv, KnownInv, NEW v, NEW w \in profile.names \cup {""},
           NEW sharp \in BOOLEAN, Assign(v, w, sharp), phase' = "check"
    PROVE  KnownInv'
<1>1. Grows /\ phase = "check"
  BY GrowsAssign, MayWriteChecks DEF Assign
<1>2. PICK moves : moves = (w # "" /\ Kind[v] = "unique")
  OBVIOUS
<1>3. PICK D : D = IF moves THEN SetMoved(scopes, w, TRUE) ELSE scopes
  OBVIOUS
<1>4. PICK R : R = [D EXCEPT ![Depth(v)].syms[v].moved = FALSE]
  OBVIOUS
<1>5. PICK s : s = [op |-> "assign", v |-> v, w |-> w, sharp |-> sharp]
  OBVIOUS
<1>6. PICK e : e = WriteErrors(v)
                   \cup (IF moves THEN MoveErrors(w)
                         ELSE IF w # "" THEN ReadErrors(w, "") ELSE {})
  OBVIOUS
<1>7. /\ v \in Visible /\ v \in Shown(scopes) /\ v \in Names /\ Kind[v] \in Pointers
      /\ w \in MaybeNames /\ Source(scopes, v, w) /\ scopes \in Seq(Scope)
      /\ w # "" => w \in Visible /\ Kind[w] = Kind[v]
  BY <1>1, WhileCompiling DEF Assign, Owners, Pointers, MaybeNames, Source
<1>8. Statement(s, e, R, ledger)
  BY <1>2, <1>3, <1>4, <1>5, <1>6 DEF Assign
<1>9. scopes' = R /\ text' = Append(text, s)
  BY <1>1, <1>8, StatementIs
<1>10. s \in Statements
  BY <1>5, <1>7 DEF Statements, Ops, MaybeNames
<1>11. GoesOn(text, scopes, s, R, profile.len)
  BY <1>1, <1>9, <1>10, Advanced
<1>12. Quiet(scopes, D)
  <2>1. CASE moves
    <3>1. w \in Visible /\ Kind[w] = "unique"
      BY <1>2, <1>7, <2>1
    <3>2. PICK d \in 1..Len(scopes) : d = Depth(w) /\ w \in DOMAIN scopes[d].syms
      BY <1>7, <3>1, DepthIs
    <3>3. D = [scopes EXCEPT ![d].syms[w].moved = TRUE]
      BY <1>3, <2>1, <3>2 DEF SetMoved
    <3>4. Sets(scopes, D, d, w, TRUE)
      BY <1>7, <3>2, <3>3, MovedSets
    <3>. QED  BY <3>1, <3>4, SetsQuiet
  <2>2. CASE ~moves
    BY <1>3, <1>7, <2>2, QuietSelf
  <2>. QED  BY <2>1, <2>2
<1>13. Quiet(D, R)
  <2>1. PICK d \in 1..Len(scopes) : d = Depth(v) /\ v \in DOMAIN scopes[d].syms
    BY <1>7, DepthIs
  <2>2. D \in Seq(Scope) /\ d \in 1..Len(D) /\ v \in DOMAIN D[d].syms
    BY <1>12, <2>1 DEF Quiet, SameShape
  <2>3. R = [D EXCEPT ![d].syms[v].moved = FALSE]
    BY <1>4, <2>1
  <2>4. Sets(D, R, d, v, FALSE)
    BY <2>2, <2>3, MovedSets
  <2>5. Kind[v] # "value"
    BY <1>7 DEF Pointers
  <2>. QED  BY <2>4, <2>5, SetsQuiet
<1>14. Quiet(scopes, R)
  BY <1>12, <1>13, QuietIsTransitive
<1>15. Known(GenBody(Append(text, s)), R, Append(text, s), profile.len)
  BY <1>5, <1>7, <1>11, <1>14, AdvanceAssign
<1>. QED
  BY <1>1, <1>9, <1>15, Learns

LEMMA KnowsReturn ==
    ASSUME BorrowInv, CheckInv, KnownInv, NEW v \in profile.names \cup {""}, Return(v),
           phase' = "check"
    PROVE  KnownInv'
<1>1. Grows /\ phase = "check"
  BY GrowsReturn, MayWriteChecks DEF Return
<1>2. PICK s : s = [op |-> "return", v |-> v]
  OBVIOUS
<1>3. PICK R : R = Jumping(scopes)
  OBVIOUS
<1>4. PICK e : e = IF v = "" THEN {} ELSE IF Kind[v] = "unique" THEN MoveErrors(v)
                   ELSE ReadErrors(v, "")
  OBVIOUS
<1>5. v \in MaybeNames /\ Returned(scopes, v)
  BY <1>1, WhileCompiling DEF Return, MaybeNames, Returned, Handle
<1>6. Statement(s, e, R, ledger)
  BY <1>2, <1>3, <1>4 DEF Return
<1>7. scopes' = R /\ text' = Append(text, s)
  BY <1>1, <1>6, StatementIs
<1>8. s \in Statements
  BY <1>2, <1>5 DEF Statements, Ops, MaybeNames
<1>9. GoesOn(text, scopes, s, R, profile.len)
  BY <1>1, <1>7, <1>8, Advanced
<1>10. Leaps(scopes, R)
  BY <1>1, <1>3, WhileCompiling, JumpingLeaps
<1>11. Known(GenBody(Append(text, s)), R, Append(text, s), profile.len)
  BY <1>2, <1>5, <1>9, <1>10, AdvanceReturn DEF Returned
<1>. QED
  BY <1>1, <1>7, <1>11, Learns

LEMMA KnowsJump ==
    ASSUME BorrowInv, CheckInv, KnownInv, NEW op \in {"break", "continue"}, Jump(op),
           phase' = "check"
    PROVE  KnownInv'
<1>1. Grows /\ phase = "check"
  BY GrowsJump, MayWriteChecks DEF Jump
<1>2. PICK s : s = [op |-> op]
  OBVIOUS
<1>3. PICK R : R = Jumping(scopes)
  OBVIOUS
<1>4. PICK b \in 1..Len(scopes) : scopes[b].kind = "loop"
  BY <1>1, WhileCompiling DEF Jump, InLoop
<1>5. Statement(s, {}, R, ledger)
  BY <1>2, <1>3 DEF Jump
<1>6. scopes' = R /\ text' = Append(text, s)
  BY <1>1, <1>5, StatementIs
<1>7. s \in Statements
  BY <1>2 DEF Statements, Ops
<1>8. GoesOn(text, scopes, s, R, profile.len)
  BY <1>1, <1>6, <1>7, Advanced
<1>9. Leaps(scopes, R)
  BY <1>1, <1>3, WhileCompiling, JumpingLeaps
<1>10. Known(GenBody(Append(text, s)), R, Append(text, s), profile.len)
  BY <1>2, <1>4, <1>8, <1>9, AdvanceJump
<1>. QED
  BY <1>1, <1>6, <1>10, Learns

LEMMA KnowsOpen ==
    ASSUME BorrowInv, CheckInv, KnownInv, NEW kind, Open(kind), phase' = "check"
    PROVE  KnownInv'
<1>1. /\ Grows /\ phase = "check" /\ kind \in {"block", "if", "loop"}
  BY GrowsOpen DEF Open, MayWrite
<1>2. PICK s : s = [op |-> kind]
  OBVIOUS
<1>3. PICK sc : sc = [NewScope(kind) EXCEPT !.before = MovedMap(Here.syms)]
  OBVIOUS
<1>4. PICK R : R = Append(scopes, sc)
  OBVIOUS
<1>5. scopes \in Seq(Scope) /\ Len(scopes) > 0 /\ Len(scopes) \in Nat
  BY <1>1, WhileCompiling
<1>6. scopes' = R /\ text' = Append(text, s)
  BY <1>2, <1>3, <1>4 DEF Open
<1>7. s \in Statements
  BY <1>1, <1>2 DEF Statements, Ops
<1>8. GoesOn(text, scopes, s, R, profile.len)
  BY <1>1, <1>6, <1>7, Advanced
<1>9. /\ sc \in Scope /\ sc.kind = kind /\ DOMAIN sc.syms = {}
      /\ sc.before = MovedMap(Here.syms) /\ ~sc.thenJumps /\ ~sc.jumps
  <2>1. kind \in ScopeKinds
    BY <1>1 DEF ScopeKinds
  <2>2. NewScope(kind) \in Scope
    BY <2>1, NewScopeType
  <2>3. MovedMap(Here.syms) \in Flags
    BY <1>1, HereType, MovedMapType
  <2>4. sc \in Scope /\ sc.before = MovedMap(Here.syms)
    BY <1>3, <2>2, <2>3 DEF Scope
  <2>5. sc.kind = kind /\ sc.syms = NoSymbols /\ ~sc.thenJumps /\ ~sc.jumps
    BY <1>3 DEF NewScope
  <2>. QED  BY <2>4, <2>5 DEF NoSymbols
<1>10. Enters(scopes, R, kind)
  <2>1. Here = scopes[Len(scopes)]
    BY <1>1, HereType
  <2>2. /\ R \in Seq(Scope) /\ Len(R) = Len(scopes) + 1 /\ R[Len(scopes) + 1] = sc
        /\ \A d \in 1..Len(scopes) : R[d] = scopes[d]
    BY <1>4, <1>5, <1>9
  <2>. QED  BY <1>9, <2>1, <2>2 DEF Enters
<1>11. Known(GenBody(Append(text, s)), R, Append(text, s), profile.len)
  BY <1>1, <1>2, <1>8, <1>10, AdvanceOpen
<1>. QED
  BY <1>1, <1>6, <1>11, Learns

\* T are the scopes S without the innermost, with other flags in the scope n
\* around it.
Reflagged(S, n, F, moved, jumps, dead, T) ==
    /\ n = Len(S) - 1 /\ F = Front(S)
    /\ T = [F EXCEPT ![n] = [F[n] EXCEPT !.syms = WithMoved(F[n].syms, moved),
                                         !.jumps = jumps, !.dead = dead]]

\* The flags are those of moved.
Outward(S, n, moved, jumps, T) ==
    /\ T \in Seq(Scope) /\ Len(T) = n /\ Around(S, T) /\ T[n].jumps = jumps
    /\ \A v \in DOMAIN S[n].syms : v \in DOMAIN moved
          => T[n].syms[v].moved = moved[v]

LEMMA OutwardIs ==
    ASSUME NEW S \in Seq(Scope), Len(S) > 1, NEW moved \in Flags, NEW jumps \in BOOLEAN,
           NEW dead \in BOOLEAN, NEW n, NEW F, NEW T,
           Reflagged(S, n, F, moved, jumps, dead, T)
    PROVE  Outward(S, n, moved, jumps, T)
<1>0. n = Len(S) - 1 /\ F = Front(S)
  BY DEF Reflagged
<1>1. /\ n \in Nat /\ n > 0 /\ Len(S) \in Nat /\ n \in 1..n /\ n \in 1..Len(S)
      /\ \A d \in 1..n : d \in 1..Len(S)
  BY <1>0
<1>2. F \in Seq(Scope) /\ Len(F) = n /\ \A d \in 1..n : F[d] = S[d]
  <2>1. Len(S) > 0
    BY <1>1
  <2>. QED  BY <1>0, <1>1, <2>1, FrontIs
<1>3. F[n] \in Scope /\ F[n] = S[n]
  BY <1>1, <1>2
<1>4. PICK new : new = WithMoved(F[n].syms, moved)
  OBVIOUS
<1>5. PICK sc : sc = [F[n] EXCEPT !.syms = new, !.jumps = jumps, !.dead = dead]
  OBVIOUS
<1>6. T = [F EXCEPT ![n] = sc]
  BY <1>4, <1>5 DEF Reflagged
<1>7. SameShape(F, T)
  <2>1. F \in Seq(Scope) /\ Len(F) > 0 /\ n = Len(F)
    BY <1>1, <1>2
  <2>2. SameShape(F, [F EXCEPT ![Len(F)] =
               [F[Len(F)] EXCEPT !.syms = WithMoved(F[Len(F)].syms, moved),
                                 !.jumps = jumps, !.dead = dead]])
    BY <2>1, FlagsShape, Zenon
  <2>. QED  BY <2>1, <2>2, Zenon DEF Reflagged
<1>8. /\ sc.syms = new /\ sc.kind = F[n].kind /\ sc.before = F[n].before
      /\ sc.then = F[n].then /\ sc.thenJumps = F[n].thenJumps /\ sc.jumps = jumps
  BY <1>3, <1>5 DEF Scope
<1>9. T[n] = sc /\ \A d \in 1..n : d # n => T[d] = F[d]
  <2>1. DOMAIN F = 1..n
    BY <1>2
  <2>. QED  BY <1>1, <1>6, <2>1, Zenon
<1>10. T \in Seq(Scope) /\ Len(T) = n
  BY <1>2, <1>7 DEF SameShape
<1>11. DOMAIN new = DOMAIN S[n].syms
  BY <1>3, <1>4 DEF WithMoved
<1>12. ASSUME NEW v \in DOMAIN S[n].syms, v \in DOMAIN moved
       PROVE  new[v].moved = moved[v]
  <2>1. S[n].syms \in Symbols
    BY <1>1, ScopeIs
  <2>2. S[n].syms \in [DOMAIN S[n].syms -> Symbol]
    BY <2>1, TableElim DEF Symbols
  <2>3. S[n].syms[v] \in Symbol
    BY <2>2
  <2>4. [S[n].syms[v] EXCEPT !.moved = moved[v]].moved = moved[v]
    BY <2>3 DEF Symbol
  <2>. QED  BY <1>3, <1>4, <1>12, <2>4 DEF WithMoved
<1>13. ASSUME NEW d \in 1..(Len(S) - 1)
       PROVE  /\ T[d].kind = S[d].kind /\ DOMAIN T[d].syms = DOMAIN S[d].syms
              /\ T[d].before = S[d].before /\ T[d].then = S[d].then
              /\ T[d].thenJumps = S[d].thenJumps
              /\ d < Len(S) - 1 => T[d].syms = S[d].syms /\ T[d].jumps = S[d].jumps
  <2>1. d \in 1..n
    BY <1>0
  <2>2. CASE d = n
    <3>1. ~(n < Len(S) - 1)
      BY <1>0, <1>1
    <3>. QED  BY <1>3, <1>8, <1>9, <1>11, <2>2, <3>1, Zenon
  <2>3. CASE d # n
    <3>1. T[d] = S[d]
      BY <1>2, <1>9, <2>1, <2>3
    <3>. QED  BY <3>1
  <2>. QED  BY <2>2, <2>3
<1>14. Around(S, T)
  BY <1>13 DEF Around
<1>. QED
  BY <1>8, <1>9, <1>10, <1>12, <1>14 DEF Outward

LEMMA KnowsClose ==
    ASSUME BorrowInv, CheckInv, KnownInv, Close, phase' = "check"
    PROVE  KnownInv'
<1>1. Grows /\ phase = "check" /\ Len(scopes) > 1
  BY GrowsClose DEF Close
<1>2. scopes \in Seq(Scope) /\ Len(scopes) \in Nat
  BY <1>1, WhileCompiling
<1>3. PICK s : s = [op |-> "close"]
  OBVIOUS
<1>4. PICK f : f = Here
  OBVIOUS
<1>5. PICK n : n = Len(scopes) - 1
  OBVIOUS
<1>6. PICK F : F = Front(scopes)
  OBVIOUS
<1>7. /\ n \in 1..Len(scopes) /\ Len(F) = n /\ F[n] = scopes[n]
  <2>1. n \in Nat /\ n \in 1..Len(scopes) /\ n \in 1..(Len(scopes) - 1) /\ Len(scopes) > 0
    BY <1>1, <1>2, <1>5
  <2>. QED  BY <1>2, <1>5, <1>6, <2>1, FrontIs
<1>8. PICK now : now = MovedMap(scopes[n].syms)
  OBVIOUS
<1>9. PICK moved : moved = Meets(f, now)
  OBVIOUS
<1>10. PICK jumps : jumps = (scopes[n].jumps \/ AllJump(f))
  OBVIOUS
<1>11. PICK dead : dead = (f.dead /\ f.kind = "block")
  OBVIOUS
<1>12. f \in Scope /\ f = scopes[Len(scopes)] /\ f.dead \in BOOLEAN
       /\ f.jumps \in BOOLEAN /\ f.thenJumps \in BOOLEAN
  BY <1>1, <1>4, HereType
<1>13. scopes[n].syms \in Symbols /\ scopes[n].jumps \in BOOLEAN
  BY <1>2, <1>7, ScopeIs
<1>14. now \in Flags /\ DOMAIN now = DOMAIN scopes[n].syms
  BY <1>8, <1>13, MovedMapType DEF MovedMap
<1>15. moved \in Flags
  <2>1. AfterIf(now, f) \in Flags /\ AfterElse(now, f) \in Flags
    BY <1>12, <1>14, AfterType
  <2>. QED  BY <1>9, <1>14, <2>1 DEF Meets
<1>16. DOMAIN scopes[n].syms \subseteq DOMAIN moved
  <2>1. Saves(scopes)
    BY <1>1 DEF KnownInv, Known, Layout
  <2>2. Len(scopes) \in 2..Len(scopes)
    BY <1>1, <1>2
  <2>3. f.kind = "else" => DOMAIN scopes[n].syms \subseteq DOMAIN f.then
    BY <1>5, <1>12, <2>1, <2>2 DEF Saves, Branches
  <2>4. f.kind = "else" => DOMAIN scopes[n].syms \subseteq DOMAIN AfterElse(now, f)
    BY <1>14, <2>3 DEF AfterElse
  <2>5. DOMAIN scopes[n].syms \subseteq DOMAIN AfterIf(now, f)
    BY <1>14 DEF AfterIf
  <2>. QED  BY <1>9, <1>14, <2>4, <2>5 DEF Meets
<1>17. jumps \in BOOLEAN /\ dead \in BOOLEAN
  BY <1>10, <1>11, <1>12, <1>13 DEF AllJump
<1>18. PICK R : R = [F EXCEPT ![n] = [F[n] EXCEPT !.syms = WithMoved(F[n].syms, moved),
                                              !.jumps = jumps, !.dead = dead]]
  OBVIOUS
<1>19. scopes' = R /\ text' = Append(text, s)
  <2>1. F[n].jumps = scopes[n].jumps
    BY <1>7
  <2>2. /\ text' = Append(text, s)
        /\ scopes' = [F EXCEPT ![n].syms = WithMoved(@, moved),
                               ![n].jumps = @ \/ AllJump(f), ![n].dead = dead]
    BY <1>3, <1>4, <1>5, <1>6, <1>8, <1>9, <1>11 DEF Close, Outer, Meets, AllJump
  <2>. QED  BY <1>7, <1>10, <1>18, <2>1, <2>2
<1>20. /\ R \in Seq(Scope) /\ Len(R) = n /\ Around(scopes, R) /\ R[n].jumps = jumps
       /\ \A v \in DOMAIN scopes[n].syms : v \in DOMAIN moved
             => R[n].syms[v].moved = moved[v]
  <2>1. Reflagged(scopes, n, F, moved, jumps, dead, R)
    BY <1>5, <1>6, <1>18 DEF Reflagged
  <2>2. Outward(scopes, n, moved, jumps, R)
    BY <1>1, <1>2, <1>15, <1>17, <2>1, OutwardIs, Zenon
  <2>. QED  BY <2>2 DEF Outward
<1>21. Closes(scopes, R)
  <2>1. \A v \in DOMAIN scopes[n].syms :
           R[n].syms[v].moved = Meets(scopes[Len(scopes)], MovedMap(scopes[n].syms))[v]
    BY <1>8, <1>9, <1>12, <1>16, <1>20
  <2>2. R[n].jumps = (scopes[n].jumps \/ AllJump(scopes[Len(scopes)]))
    BY <1>10, <1>12, <1>20
  <2>. QED  BY <1>1, <1>5, <1>20, <2>1, <2>2, Zenon DEF Closes
<1>22. s \in Statements
  BY <1>3 DEF Statements, Ops
<1>23. GoesOn(text, scopes, s, R, profile.len)
  BY <1>1, <1>19, <1>22, Advanced
<1>24. Known(GenBody(Append(text, s)), R, Append(text, s), profile.len)
  BY <1>3, <1>21, <1>23, AdvanceClose
<1>. QED
  BY <1>1, <1>19, <1>24, Learns

LEMMA KnowsElse ==
    ASSUME BorrowInv, CheckInv, KnownInv, Else, phase' = "check"
    PROVE  KnownInv'
<1>1. Grows /\ phase = "check" /\ Here.kind = "if"
  BY GrowsElse DEF Else
<1>2. scopes \in Seq(Scope) /\ Len(scopes) \in Nat /\ Len(scopes) > 1
  BY <1>1, WhileCompiling, NotTheBody
<1>3. PICK s : s = [op |-> "else"]
  OBVIOUS
<1>4. PICK f : f = Here
  OBVIOUS
<1>5. PICK n : n = Len(scopes) - 1
  OBVIOUS
<1>6. PICK F : F = Front(scopes)
  OBVIOUS
<1>7. /\ n \in 1..Len(scopes) /\ Len(F) = n /\ F[n] = scopes[n] /\ F \in Seq(Scope)
  <2>1. n \in Nat /\ n \in 1..Len(scopes) /\ n \in 1..(Len(scopes) - 1) /\ Len(scopes) > 0
    BY <1>2, <1>5
  <2>. QED  BY <1>2, <1>5, <1>6, <2>1, FrontIs
<1>8. /\ f \in Scope /\ f = scopes[Len(scopes)] /\ f.before \in Flags
      /\ f.jumps \in BOOLEAN /\ f.kind = "if"
  BY <1>1, <1>4, HereType
<1>9. /\ scopes[n].syms \in Symbols /\ scopes[n].jumps \in BOOLEAN
      /\ F[n] \in Scope /\ F[n].jumps \in BOOLEAN /\ F[n].dead \in BOOLEAN
  <2>1. scopes[n] \in Scope
    BY <1>2, <1>7
  <2>. QED  BY <1>7, <2>1 DEF Scope
<1>10. PICK now : now = MovedMap(scopes[n].syms)
  OBVIOUS
<1>11. now \in Flags
  BY <1>9, <1>10, MovedMapType
<1>12. PICK sc : sc = [NewScope("else") EXCEPT !.before = f.before, !.then = now,
                                               !.thenJumps = f.jumps]
  OBVIOUS
<1>13. /\ sc \in Scope /\ sc.kind = "else" /\ sc.before = f.before /\ sc.then = now
       /\ sc.thenJumps = f.jumps /\ ~sc.jumps
  <2>1. NewScope("else") \in Scope
    BY NewScopeType DEF ScopeKinds
  <2>2. sc \in Scope
    BY <1>8, <1>11, <1>12, <2>1 DEF Scope
  <2>. QED  BY <1>12, <2>2 DEF NewScope
<1>14. PICK T : T = [F EXCEPT ![n].syms = WithMoved(@, f.before)]
  OBVIOUS
<1>15. PICK R : R = Append(T, sc)
  OBVIOUS
<1>16. /\ T \in Seq(Scope) /\ Len(T) = n /\ Around(scopes, T) /\ T[n].jumps = F[n].jumps
       /\ \A v \in DOMAIN scopes[n].syms : v \in DOMAIN f.before
             => T[n].syms[v].moved = f.before[v]
  <2>1. PICK o : o = F[n]
    OBVIOUS
  <2>2. PICK new : new = WithMoved(o.syms, f.before)
    OBVIOUS
  <2>3. [o EXCEPT !.syms = new, !.jumps = o.jumps, !.dead = o.dead] = [o EXCEPT !.syms = new]
    <3>1. o \in Scope
      BY <1>9, <2>1
    <3>. QED  BY <3>1 DEF Scope
  <2>4. T = [F EXCEPT ![n] = [o EXCEPT !.syms = new]]
    BY <1>14, <2>1, <2>2
  <2>5. T = [F EXCEPT ![n] = [F[n] EXCEPT !.syms = WithMoved(F[n].syms, f.before),
                                         !.jumps = F[n].jumps, !.dead = F[n].dead]]
    BY <2>1, <2>2, <2>3, <2>4
  <2>6. Reflagged(scopes, n, F, f.before, F[n].jumps, F[n].dead, T)
    BY <1>5, <1>6, <2>5, Zenon DEF Reflagged
  <2>7. Outward(scopes, n, f.before, F[n].jumps, T)
    BY <1>2, <1>8, <1>9, <2>6, OutwardIs, Zenon
  <2>. QED  BY <2>7 DEF Outward
<1>17. scopes' = R /\ text' = Append(text, s)
  <2>1. scopes' = T \o <<sc>> /\ text' = Append(text, s)
    BY <1>3, <1>4, <1>5, <1>6, <1>10, <1>12, <1>14 DEF Else, Outer
  <2>. QED  BY <1>13, <1>15, <1>16, <2>1
<1>18. /\ R \in Seq(Scope) /\ Len(R) = Len(scopes) /\ R[Len(scopes)] = sc /\ R[n] = T[n]
       /\ \A d \in 1..n : R[d] = T[d]
  BY <1>2, <1>5, <1>7, <1>13, <1>15, <1>16
<1>19. Elses(scopes, R)
  <2>1. Around(scopes, R)
    <3>1. \A d \in 1..(Len(scopes) - 1) : R[d] = T[d]
      BY <1>5, <1>18
    <3>. QED  BY <1>16, <3>1 DEF Around
  <2>2. \A v \in DOMAIN scopes[n].syms : v \in DOMAIN scopes[Len(scopes)].before
           => R[n].syms[v].moved = scopes[Len(scopes)].before[v]
    BY <1>8, <1>16, <1>18
  <2>3. R[n].jumps = scopes[n].jumps
    BY <1>7, <1>16, <1>18
  <2>4. /\ R[Len(scopes)].kind = "else"
        /\ R[Len(scopes)].before = scopes[Len(scopes)].before
        /\ R[Len(scopes)].then = MovedMap(scopes[n].syms)
        /\ R[Len(scopes)].thenJumps = scopes[Len(scopes)].jumps
        /\ ~R[Len(scopes)].jumps
    BY <1>8, <1>10, <1>13, <1>18
  <2>. QED  BY <1>5, <1>18, <2>1, <2>2, <2>3, <2>4, Zenon DEF Elses
<1>20. InIf(scopes)
  BY <1>2, <1>8 DEF InIf
<1>21. s \in Statements
  BY <1>3 DEF Statements, Ops
<1>22. GoesOn(text, scopes, s, R, profile.len)
  BY <1>1, <1>17, <1>21, Advanced
<1>23. Known(GenBody(Append(text, s)), R, Append(text, s), profile.len)
  BY <1>3, <1>19, <1>20, <1>22, AdvanceElse
<1>. QED
  BY <1>1, <1>17, <1>23, Learns

LEMMA KnownInvInit == Init => KnownInv
<1>. SUFFICES ASSUME Init PROVE KnownInv
  OBVIOUS
<1>1. PICK n : n = profile.len
  OBVIOUS
<1>2. scopes = <<NewScope("body")>> /\ text = <<>> /\ n \in Nat
  BY <1>1, BoundsArePositive DEF Init, BorrowInit
<1>3. Known(Gen0, <<NewScope("body")>>, <<>>, n)
  <2>. DEFINE S == <<NewScope("body")>>
              F == <<Frame("body", 0)>>
  <2>1. NewScope("body").kind = "body" /\ DOMAIN NewScope("body").syms = {}
    BY DEF NewScope, NoSymbols
  <2>2. Len(S) = 1 /\ S[1].kind = "body" /\ DOMAIN S[1].syms = {} /\ ~S[1].jumps
    BY <2>1 DEF NewScope
  <2>3. /\ Gen0.frames = F /\ Gen0.code = <<>> /\ Gen0.live = TRUE
        /\ Len(F) = 1 /\ F[1].kind = "body" /\ F[1].entries = <<>>
    BY DEF Gen0, Frame
  <2>4. Stands(Gen0, S, <<>>, n)
    BY <1>2, EmptyCompiles, GenNothing, BodyStands DEF Compiles
  <2>. HIDE DEF S, F
  <2>5. Layout(Gen0, S, <<>>)
    <3>1. Saves(S)
      BY <2>2 DEF Saves
    <3>2. Spent(F, S)
      BY <2>2, <2>3 DEF Spent
    <3>3. Nested(F, <<>>)
      <4>1. NestOf(<<>>, 1) = 0
        <5>1. OpenedBefore(<<>>, 1) = {} /\ ClosedBefore(<<>>, 1) = {}
          BY DEF OpenedBefore, ClosedBefore
        <5>. QED  BY <5>1, FS_EmptySet DEF NestOf
      <4>2. Len(<<>>) + 1 = 1 /\ Len(F) - 1 = 0 /\ 2..Len(F) = {}
        BY <2>3
      <4>. QED  BY <4>1, <4>2 DEF Nested
    <3>4. EndFree(Gen0)
      BY <2>3 DEF EndFree
    <3>. QED  BY <2>3, <3>1, <3>2, <3>3, <3>4 DEF Layout
  <2>6. ASSUME NEW M \in Modes PROVE \E W : Covers(M, Gen0, S, W, <<>>, n)
    <3>1. PICK W : W = [l \in Nat \X Labels |-> {}]
      OBVIOUS
    <3>2. W \in [Nat \X Labels -> SUBSET Int]
      BY <3>1
    <3>3. Now(M, F, S, Len(S)) = {}
      <4>1. ~Ends(S, Len(S))
        BY <2>2 DEF Ends
      <4>2. Full(F, S, 1) = {}
        BY <2>3 DEF Full, HeldIn
      <4>3. Sure(F, S, Len(S)) = {}
        BY <2>2, <4>2 DEF Sure
      <4>. QED  BY <4>1, <4>3 DEF Now
    <3>4. Filled(Gen0, {}, W, <<>>, n)
      <4>1. PICK V : V = [i \in 1..1 |-> {}]
        OBVIOUS
      <4>2. V \in [1..1 -> SUBSET Int] /\ V[1] = {}
        BY <4>1
      <4>3. Fills(<<>>, V, W, <<>>, n)
        BY <4>2 DEF Fills
      <4>. QED  BY <2>3, <4>2, <4>3 DEF Filled
    <3>5. Kept(M, F, S, W) /\ Tells(M, S)
      BY <2>2 DEF Kept, Tells, LoopsStay, Steady
    <3>. QED  BY <2>3, <3>2, <3>3, <3>4, <3>5 DEF Covers
  <2>. QED  BY <2>4, <2>5, <2>6 DEF Known, S
<1>. QED
  BY <1>1, <1>2, <1>3, GenNothing DEF KnownInv

LEMMA BorrowNextKnows ==
    ASSUME BorrowInv, CheckInv, KnownInv, BorrowNext, phase' = "check"
    PROVE  KnownInv'
<1>1. ASSUME NEW v \in profile.names, DeclareNew(v) \/ Use(v) \/ Write(v) \/ Cede(v)
      PROVE  KnownInv'
  BY <1>1, KnowsNew, KnowsUse, KnowsWrite, KnowsCede
<1>2. ASSUME NEW v \in profile.names \cap Owners, NEW w \in profile.names \cap Owners,
             DeclareFrom(v, w)
      PROVE  KnownInv'
  BY <1>2, KnowsFrom
<1>3. ASSUME NEW v \in profile.names, NEW w \in profile.names \cup {""},
             NEW sharp \in BOOLEAN, Assign(v, w, sharp)
      PROVE  KnownInv'
  BY <1>3, KnowsAssign
<1>4. ASSUME NEW r \in profile.names, NEW place \in Places, NEW sharp \in BOOLEAN,
             Rebind(r, place, sharp) \/ \E x \in BOOLEAN : DeclareRef(r, place, x, sharp)
      PROVE  KnownInv'
  BY <1>4, KnowsRebind, KnowsRef
<1>5. ASSUME NEW place \in Places, Lend(place) PROVE KnownInv'
  BY <1>5, KnowsLend
<1>6. ASSUME NEW v \in profile.names \cup {""}, Return(v) PROVE KnownInv'
  BY <1>6, KnowsReturn
<1>7. ASSUME NEW op \in {"break", "continue"}, Jump(op) PROVE KnownInv'
  BY <1>7, KnowsJump
<1>8. ASSUME NEW kind \in {"block", "if", "loop"}, Open(kind) PROVE KnownInv'
  BY <1>8, KnowsOpen
<1>9. CASE Else
  BY <1>9, KnowsElse
<1>10. CASE Close
  BY <1>10, KnowsClose
<1>11. CASE Accept
  BY <1>11 DEF Accept
<1>. QED
  BY <1>1, <1>2, <1>3, <1>4, <1>5, <1>6, <1>7, <1>8, <1>9, <1>10, <1>11 DEF BorrowNext

LEMMA KnownInvNext == BorrowInv /\ CheckInv /\ KnownInv /\ [Next]_vars => KnownInv'
<1>. SUFFICES ASSUME BorrowInv, CheckInv, KnownInv, [Next]_vars PROVE KnownInv'
  OBVIOUS
<1>1. CASE BorrowNext
  <2>1. phase = "check" /\ (Grows \/ Accept)
    BY <1>1, BorrowNextGrows
  <2>2. CASE phase' = "check"
    BY <1>1, <2>2, BorrowNextKnows
  <2>3. CASE Accept
    BY <2>1, <2>3 DEF Accept, KnownInv
  <2>4. CASE phase' = "refused"
    BY <2>4 DEF KnownInv
  <2>. QED  BY <2>1, <2>2, <2>3, <2>4 DEF Grows
<1>2. CASE Generate
  BY <1>2 DEF Generate, KnownInv
<1>3. CASE \/ New \/ Move \/ Share \/ Read \/ Store \/ PlainStore \/ Graft \/ Access
           \/ Overwrite \/ Release \/ Give \/ BranchOn \/ Follow
  <2>1. phase = "run" /\ UNCHANGED checkVars
    BY <1>3 DEF New, Move, Share, Read, Store, PlainStore, Graft, Access, Overwrite,
                Release, Give, BranchOn, Follow, Running, checkVars
  <2>. QED
    BY <2>1 DEF KnownInv, checkVars
<1>4. CASE Ret
  BY <1>4 DEF Ret, KnownInv
<1>5. CASE UNCHANGED vars
  BY <1>5 DEF vars, checkVars, KnownInv
<1>. QED
  BY <1>1, <1>2, <1>3, <1>4, <1>5 DEF Next


-----------------------------------------------------------------------------
(* The function                                                            *)

\* The code of a whole function can be typed so.
LEMMA FunctionIsFilled ==
    ASSUME NEW scs, NEW tx, NEW n, Compiles(scs, tx, n), Known(GenBody(tx), scs, tx, n),
           NEW M \in Modes, Clean(M, tx)
    PROVE  \E V, W : /\ Fills(Emit(Unwind(GenBody(tx), 0, Len(tx)), <<Ret0>>).code,
                              V, W, tx, n)
                     /\ W \in [Nat \X Labels -> SUBSET Int]
<1>1. PICK g : g = GenBody(tx)
  OBVIOUS
<1>2. Known(g, scs, tx, n)
  BY <1>1
<1>3. PICK T : Body(g, T, scs, tx, n)
  BY <1>1 DEF Compiles
<1>. DEFINE F == g.frames
            X == Now(M, F, scs, Len(scs))
            k == Unwind(g, 0, Len(tx))
            h == Emit(k, <<Ret0>>)
<1>4. /\ Stands(g, scs, tx, n) /\ Spent(F, scs) /\ n \in Nat /\ g \in GenStates(n)
      /\ Len(F) = Len(scs) /\ FramesFit(F, tx, n) /\ Len(tx) \in Nat
  <2>1. Stands(g, scs, tx, n) /\ Spent(F, scs)
    BY <1>2 DEF Known, Layout
  <2>2. tx \in Seq(Statements)
    BY <2>1 DEF Stands
  <2>3. Len(tx) \in Nat
    BY <2>2
  <2>. QED  BY <2>1, <2>3 DEF Stands, Named
<1>5. PICK W : Covers(M, g, scs, W, tx, n)
  BY <1>2 DEF Known
<1>6. W \in [Nat \X Labels -> SUBSET Int] /\ Filled(g, X, W, tx, n)
  BY <1>5 DEF Covers
<1>7. DropsOf(F, 1, Len(F), X)
  <2>0. 1 \in Nat /\ 1 > 0
    OBVIOUS
  <2>. QED  BY <1>4, <2>0, NowDrops
<1>. HIDE DEF X
<1>8. PICK Z : Filled(k, Z, W, tx, n)
  <2>0. 0 + 1 = 1 /\ 0 \in 0..Len(F)
    BY <1>4
  <2>1. Filled(k, Less(X, Declared(F, 1, Len(F))), W, tx, n)
    BY <1>4, <1>6, <1>7, <2>0, UnwindFilled
  <2>. HIDE DEF k
  <2>. QED  BY <2>1
<1>9. k \in GenStates(n)
  <2>0. 0 \in 0..Len(F)
    BY <1>4
  <2>. QED  BY <1>4, <2>0, UnwindPlain
<1>. HIDE DEF k
<1>10. /\ Ret0 \in Instrs(n) /\ Ret0.do = "ret" /\ Leaves(Ret0)
  BY DEF Ret0, Instrs, Leaves
<1>11. Asks(Ret0, Z, W, tx, n)
  BY <1>10 DEF Asks
<1>12. {} \in SUBSET Int
  OBVIOUS
<1>13. Filled(Stop(h), {}, W, tx, n)
  BY <1>8, <1>9, <1>10, <1>11, <1>12, StopFilled
<1>14. Stop(h).code = h.code
  <2>1. h \in GenStates(n)
    BY <1>9, <1>10, EmitOne
  <2>. HIDE DEF h
  <2>. QED  BY <2>1 DEF Stop, GenStates
<1>. HIDE DEF h
<1>15. PICK V : Fills(h.code, V, W, tx, n)
  BY <1>13, <1>14 DEF Filled
<1>. QED
  BY <1>1, <1>6, <1>15 DEF h, k


-----------------------------------------------------------------------------
(* A run keeps what is sure                                                *)

\* The slots of X hold values that were not dropped, each one its own.
Live(X, sl, hp, tx, n) ==
    /\ X \subseteq Values(tx, n)
    /\ \A k \in X : sl[k] \in 1..Len(hp) /\ hp[sl[k]].owners > 0
    /\ \A j, k \in X : sl[j] = sl[k] => j = k

\* Slots of values and of pointers are others, and none is the register.
LEMMA ValuesApart ==
    ASSUME NEW tx, NEW n
    PROVE  /\ 0 \notin Values(tx, n)
           /\ \A k \in Values(tx, n) : /\ k \in SlotsOf(tx, n, {"value"}) /\ k \in 1..n
                                       /\ Kind[tx[k].v] = "value"
           /\ \A k \in SlotsOf(tx, n, Pointers) : k \notin Values(tx, n)
           /\ \A k \in SlotsOf(tx, n, {"unique"}) : k \notin Values(tx, n)
           /\ \A k \in SlotsOf(tx, n, {"ref"}) : k \notin Values(tx, n)
BY DEF Values, SlotsOf, Pointers

\* The slots that are sure to hold a value are not all there are.
LEMMA LiveRefill ==
    ASSUME NEW X, NEW sl, NEW hp, NEW tx, NEW n, Live(X, sl, hp, tx, n), NEW i
    PROVE  Refill(i, X, tx, n) =
              IF i.do \in {"drop", "give"} THEN X \ {i.slot}
              ELSE IF i.do \in {"new", "write"} /\ i.slot \in Values(tx, n) THEN X \cup {i.slot}
              ELSE X
<1>1. 0 \notin X /\ 0 \in Everything
  BY ValuesApart DEF Live, Everything
<1>. QED
  BY <1>1 DEF Refill

LEMMA LiveLess ==
    ASSUME NEW X, NEW sl, NEW hp, NEW tx, NEW n, Live(X, sl, hp, tx, n), NEW Y, Y \subseteq X
    PROVE  Live(Y, sl, hp, tx, n)
BY DEF Live

\* A slot of another kind is written.
LEMMA LivePut ==
    ASSUME NEW X, NEW sl, NEW hp, NEW tx, NEW n, Live(X, sl, hp, tx, n),
           NEW k, k \notin Values(tx, n), NEW s2, NEW x, Writes(sl, s2, k, x, n)
    PROVE  Live(X, s2, hp, tx, n)
<1>1. \A j \in X : j \in Values(tx, n)
  BY DEF Live
<1>2. \A j \in X : j \in 0..n /\ j # k
  BY <1>1, ValuesApart
<1>3. \A j \in X : s2[j] = sl[j]
  BY <1>2, WritesEffect
<1>. QED
  BY <1>1, <1>3 DEF Live

\* Y has no more than X, and k if it is the slot of a value.
Gains(Y, X, k, tx, n) == \A j \in Y : j \in X \/ (j = k /\ k \in Values(tx, n))

\* An object is made: its slot is sure to hold a value, if it is a value's.
LEMMA LiveMakes ==
    ASSUME NEW X, NEW sl, NEW hp \in Seq(Objects), NEW tx, NEW n, Live(X, sl, hp, tx, n),
           NEW k, NEW s2, NEW x, x = Len(hp) + 1, Writes(sl, s2, k, x, n),
           NEW e \in Objects, e.owners = 1, NEW h2, h2 = Append(hp, e),
           NEW Y, Gains(Y, X, k, tx, n)
    PROVE  Live(Y, s2, h2, tx, n)
<1>1. /\ Len(h2) = x /\ h2[x] = e /\ x \in 1..Len(h2) /\ x \notin 1..Len(hp)
      /\ \A j \in 1..Len(hp) : j \in 1..Len(h2) /\ h2[j] = hp[j]
  OBVIOUS
<1>2. \A j \in X : j \in 0..n
  BY ValuesApart DEF Live
<1>3. s2[k] = x
  BY WritesEffect
<1>4. \A j \in X : j # k => s2[j] = sl[j]
  BY <1>2, WritesEffect
<1>5. \A j \in X : sl[j] \in 1..Len(hp) /\ hp[sl[j]].owners > 0 /\ j \in Values(tx, n)
  BY DEF Live
<1>6. \A i, j \in X : sl[i] = sl[j] => i = j
  BY DEF Live
<1>0. \A j \in Y : j \in X \/ (j = k /\ k \in Values(tx, n))
  BY DEF Gains
<1>7. Y \subseteq Values(tx, n)
  BY <1>0, <1>5
<1>8. ASSUME NEW j \in Y PROVE s2[j] \in 1..Len(h2) /\ h2[s2[j]].owners > 0
  <2>1. CASE j = k
    BY <1>1, <1>3, <2>1
  <2>2. CASE j # k
    <3>1. j \in X
      BY <1>0, <2>2
    <3>. QED  BY <1>1, <1>4, <1>5, <2>2, <3>1
  <2>. QED  BY <2>1, <2>2
<1>9. ASSUME NEW i \in Y, NEW j \in Y, s2[i] = s2[j] PROVE i = j
  <2>1. CASE i = k \/ j = k
    BY <1>0, <1>1, <1>3, <1>4, <1>5, <1>9, <2>1
  <2>2. CASE i # k /\ j # k
    BY <1>0, <1>4, <1>6, <1>9, <2>2
  <2>. QED  BY <2>1, <2>2
<1>. QED
  BY <1>7, <1>8, <1>9 DEF Live

\* An object is counted that is none of theirs.
LEMMA LiveCounts ==
    ASSUME NEW X, NEW sl, NEW hp \in Seq(Objects), NEW tx, NEW n, Live(X, sl, hp, tx, n),
           NEW o \in 0..Len(hp), NEW d \in Int, NEW h2, Counted(hp, h2, o, d),
           NEW Y, Y \subseteq X, \A k \in Y : sl[k] # o
    PROVE  Live(Y, sl, h2, tx, n)
<1>1. /\ Len(h2) = Len(hp) /\ \A i \in 1..Len(hp) : i # o => h2[i] = hp[i]
  BY CountedEffect
<1>. QED
  BY <1>1 DEF Live

\* What is counted is the field owners; an owner that is lost leaves it alone.
LEMMA CountedOwners ==
    ASSUME NEW hp \in Seq(Objects), NEW o \in 0..Len(hp), NEW d \in Int, NEW h2,
           Counted(hp, h2, o, d), o # 0, hp[o].owners # 0
    PROVE  h2[o].owners = hp[o].owners + d
<1>1. o \in 1..Len(hp) /\ hp[o] \in Objects
  OBVIOUS
<1>2. PICK x : x = [hp[o] EXCEPT !.owners = @ + d]
  OBVIOUS
<1>3. x.owners = hp[o].owners + d
  BY <1>1, <1>2 DEF Objects
<1>4. h2 = [hp EXCEPT ![o] = x]
  BY <1>2 DEF Counted
<1>5. h2[o] = x
  BY <1>1, <1>4
<1>. QED
  BY <1>3, <1>5

LEMMA LosesOwners ==
    ASSUME NEW hp \in Seq(Objects), NEW o \in 0..Len(hp), NEW h2, Loses(hp, h2, o)
    PROVE  \A i \in 1..Len(hp) : h2[i].owners = hp[i].owners
<1>1. CASE o = 0
  BY <1>1 DEF Loses
<1>2. CASE o # 0
  <2>1. o \in 1..Len(hp) /\ hp[o] \in Objects
    BY <1>2
  <2>2. PICK x : x = [hp[o] EXCEPT !.lost = @ + 1]
    OBVIOUS
  <2>3. x.owners = hp[o].owners
    BY <2>1, <2>2 DEF Objects
  <2>4. h2 = [hp EXCEPT ![o] = x]
    BY <1>2, <2>2 DEF Loses
  <2>. QED  BY <2>1, <2>3, <2>4
<1>. QED
  BY <1>1, <1>2

LEMMA LiveLoses ==
    ASSUME NEW X, NEW sl, NEW hp \in Seq(Objects), NEW tx, NEW n, Live(X, sl, hp, tx, n),
           NEW o \in 0..Len(hp), NEW h2, Loses(hp, h2, o)
    PROVE  Live(X, sl, h2, tx, n)
<1>1. /\ Len(h2) = Len(hp)
      /\ \A i \in 1..Len(hp) : h2[i].owners = hp[i].owners
  BY LosesEffect, LosesOwners
<1>. QED
  BY <1>1 DEF Live

\* Where an object gains an owner, no one loses.
LEMMA LiveGains ==
    ASSUME NEW X, NEW sl, NEW hp \in Seq(Objects), NEW tx, NEW n, Live(X, sl, hp, tx, n),
           NEW o \in 0..Len(hp), NEW h2, Counted(hp, h2, o, 1)
    PROVE  Live(X, sl, h2, tx, n)
<1>1. 1 \in Int
  OBVIOUS
<1>2. /\ Len(h2) = Len(hp) /\ \A i \in 1..Len(hp) : i # o => h2[i] = hp[i]
      /\ o # 0 /\ hp[o].owners # 0 => h2[o].owners = hp[o].owners + 1
  BY <1>1, CountedEffect, CountedOwners
<1>3. \A i \in 1..Len(hp) : hp[i].owners \in Int
  <2>1. \A i \in 1..Len(hp) : hp[i] \in Objects
    OBVIOUS
  <2>. QED  BY <2>1 DEF Objects
<1>4. \A i \in 1..Len(hp) : hp[i].owners > 0 => h2[i].owners > 0
  <2>. SUFFICES ASSUME NEW i \in 1..Len(hp), hp[i].owners > 0 PROVE h2[i].owners > 0
    OBVIOUS
  <2>1. CASE i = o
    <3>1. o # 0 /\ hp[o].owners # 0
      BY <2>1
    <3>2. h2[i].owners = hp[i].owners + 1
      BY <1>2, <2>1, <3>1
    <3>3. \A p \in Int : p > 0 => p + 1 > 0
      OBVIOUS
    <3>. QED  BY <1>3, <3>2, <3>3
  <2>2. CASE i # o
    <3>1. h2[i] = hp[i]
      BY <1>2, <2>2
    <3>. QED  BY <3>1
  <2>. QED  BY <2>1, <2>2
<1>. QED
  BY <1>2, <1>4 DEF Live

\* What a pointer leads to is in no slot of a value.
LEMMA PointedElsewhere ==
    ASSUME NEW A, NEW sl, NEW hp, NEW tx, NEW n, Memory(A, sl, hp, tx, n),
           NEW X, Live(X, sl, hp, tx, n), NEW t \in SlotsOf(tx, n, Pointers)
    PROVE  \A k \in X : sl[k] # sl[t]
<1>. SUFFICES ASSUME NEW k \in X, sl[k] = sl[t] PROVE FALSE
  OBVIOUS
<1>1. k \in SlotsOf(tx, n, {"value"}) /\ sl[k] \in 1..Len(hp)
  BY ValuesApart DEF Live
<1>2. hp[sl[k]].kind = "value"
  <2>1. sl[k] # 0
    BY <1>1
  <2>. QED  BY <1>1, <2>1, Valued
<1>3. PointsTo(sl[t], hp)
  BY DEF Memory, Handles, Leads
<1>. QED
  BY <1>1, <1>2, <1>3 DEF PointsTo


\* The slots that V names ahead of the instruction to run next hold values.
Filling(V, W) ==
    /\ Fills(code, V, W, text, profile.len)
    /\ Live(V[pc], slots, heap, text, profile.len)

LEMMA KeepsIs ==
    ASSUME NEW S, NEW T, At(S, T), NEW V, NEW W, Filling(V, W)
    PROVE  /\ Live(V[pc], slots, heap, text, profile.len)
           /\ Memory(S[pc], slots, heap, text, profile.len)
           /\ Asks(Instr, V[pc], W, text, profile.len)
           /\ ~Leaves(Instr) => V[pc + 1] \subseteq Refill(Instr, V[pc], text, profile.len)
           /\ profile.len \in Nat /\ heap \in Seq(Objects) /\ Len(heap) \in Nat
           /\ DOMAIN slots = 0..profile.len
<1>1. pc \in 1..Len(code) /\ Memory(S[pc], slots, heap, text, profile.len)
  BY DEF At
<1>2. Suits(code[pc], V[pc], V[pc + 1], W, text, profile.len)
  BY <1>1 DEF Filling, Fills
<1>3. heap \in Seq(Objects) /\ profile.len \in Nat
  BY <1>1 DEF Memory
<1>4. Len(heap) \in Nat
  BY <1>3
<1>. QED
  BY <1>1, <1>2, <1>3, <1>4, InstrFits DEF Filling, Suits, Instr

\* The next instruction, with what is sure after this one.
LEMMA KeepsOn ==
    ASSUME NEW V, NEW W, Filling(V, W), UNCHANGED <<code, checkVars>>,
           Live(V[pc'], slots', heap', text, profile.len)
    PROVE  Filling(V, W)'
<1>1. code' = code /\ text' = text /\ profile' = profile
  BY DEF checkVars
<1>2. Fills(code', V, W, text', profile'.len)
  BY <1>1 DEF Filling
<1>3. Live(V[pc'], slots', heap', text', profile'.len)
  BY <1>1
<1>. QED
  BY <1>2, <1>3 DEF Filling

\* The instruction writes no slot of a value and leaves the heap.
LEMMA KeepsPut ==
    ASSUME NEW S, NEW T, At(S, T), NEW V, NEW W, Filling(V, W), ~Leaves(Instr),
           pc' = pc + 1, UNCHANGED <<code, checkVars, heap>>,
           Instr.do \notin {"new", "write", "drop", "give"},
           NEW s2, NEW k, NEW x, Writes(slots, s2, k, x, profile.len),
           k \notin Values(text, profile.len), slots' = s2
    PROVE  Filling(V, W)'
<1>1. /\ Live(V[pc], slots, heap, text, profile.len)
      /\ V[pc + 1] \subseteq Refill(Instr, V[pc], text, profile.len)
  BY KeepsIs
<1>2. V[pc + 1] \subseteq V[pc]
  BY <1>1, LiveRefill
<1>3. Live(V[pc], s2, heap, text, profile.len)
  BY <1>1, LivePut
<1>4. Live(V[pc + 1], s2, heap, text, profile.len)
  BY <1>2, <1>3, LiveLess
<1>5. Live(V[pc'], slots', heap', text, profile.len)
  BY <1>4
<1>. QED
  BY <1>5, KeepsOn

\* The instruction touches neither the slots nor the heap.
LEMMA KeepsStill ==
    ASSUME NEW S, NEW T, At(S, T), NEW V, NEW W, Filling(V, W), ~Leaves(Instr),
           pc' = pc + 1, UNCHANGED <<code, checkVars, heap, slots>>,
           Instr.do \notin {"new", "write", "drop", "give"}
    PROVE  Filling(V, W)'
<1>1. /\ Live(V[pc], slots, heap, text, profile.len)
      /\ V[pc + 1] \subseteq Refill(Instr, V[pc], text, profile.len)
  BY KeepsIs
<1>2. V[pc + 1] \subseteq V[pc]
  BY <1>1, LiveRefill
<1>4. Live(V[pc + 1], slots, heap, text, profile.len)
  BY <1>1, <1>2, LiveLess
<1>5. Live(V[pc'], slots', heap', text, profile.len)
  BY <1>4
<1>. QED
  BY <1>5, KeepsOn

LEMMA KeepsNew ==
    ASSUME NEW S, NEW T, At(S, T), NEW V, NEW W, Filling(V, W), New PROVE Filling(V, W)'
<1>1. PICK n, i : n = profile.len /\ i = Instr
  OBVIOUS
<1>2. PICK e : e = [kind |-> Kind[text[Instr.at].v], owners |-> 1, lost |-> 0]
  OBVIOUS
<1>3. PICK x : x = Len(heap) + 1
  OBVIOUS
<1>4. /\ i.do = "new" /\ pc' = pc + 1 /\ UNCHANGED <<code, checkVars>>
      /\ heap' = Append(heap, e) /\ slots' = [slots EXCEPT ![i.slot] = x]
  BY <1>1, <1>2, <1>3 DEF New, Running, NewObject
<1>5. ~Leaves(i)
  BY <1>4 DEF Leaves
<1>6. /\ Live(V[pc], slots, heap, text, n) /\ n \in Nat /\ heap \in Seq(Objects)
      /\ V[pc + 1] \subseteq Refill(i, V[pc], text, n)
      /\ DOMAIN slots = 0..n /\ Fits(i, S[pc], T, text, n)
  BY <1>1, <1>5, KeepsIs, InstrFits
<1>7. i.slot \in 0..n /\ Kind[text[i.at].v] \in {"unique", "shared", "value"}
  BY <1>4, <1>6, FitsNew
<1>8. e \in Objects /\ e.owners = 1
  BY <1>1, <1>2, <1>7 DEF Objects
<1>9. Writes(slots, slots', i.slot, x, n)
  BY <1>4, <1>6, <1>7 DEF Writes
<1>10. Gains(V[pc + 1], V[pc], i.slot, text, n)
  BY <1>4, <1>6, LiveRefill DEF Gains
<1>11. Live(V[pc + 1], slots', heap', text, n)
  BY <1>3, <1>4, <1>6, <1>8, <1>9, <1>10, LiveMakes, Zenon
<1>12. Live(V[pc'], slots', heap', text, profile.len)
  BY <1>1, <1>4, <1>11
<1>. QED
  BY <1>4, <1>12, KeepsOn

LEMMA KeepsMove ==
    ASSUME NEW S, NEW T, At(S, T), NEW V, NEW W, Filling(V, W), Move PROVE Filling(V, W)'
<1>1. PICK n, i : n = profile.len /\ i = Instr
  OBVIOUS
<1>2. PICK s1 : s1 = [slots EXCEPT ![i.from] = 0]
  OBVIOUS
<1>3. /\ i.do = "move" /\ pc' = pc + 1 /\ UNCHANGED <<code, checkVars, heap>>
      /\ slots' = [slots EXCEPT ![i.from] = 0, ![i.slot] = slots[i.from]]
  BY <1>1 DEF Move, Running
<1>4. slots' = [s1 EXCEPT ![i.slot] = slots[i.from]]
  BY <1>2, <1>3
<1>5. ~Leaves(i)
  BY <1>3 DEF Leaves
<1>6. /\ Live(V[pc], slots, heap, text, n) /\ n \in Nat
      /\ V[pc + 1] \subseteq Refill(i, V[pc], text, n)
      /\ DOMAIN slots = 0..n /\ Fits(i, S[pc], T, text, n)
  BY <1>1, <1>5, KeepsIs, InstrFits
<1>7. /\ i.from \in SlotsOf(text, n, Pointers)
      /\ i.slot \in {0} \cup SlotsOf(text, n, Pointers)
  BY <1>3, <1>6, FitsMove
<1>8. /\ i.from \in 0..n /\ i.from \notin Values(text, n)
      /\ i.slot \in 0..n /\ i.slot \notin Values(text, n)
  BY <1>6, <1>7, PointerSlot, ValuesApart
<1>9. Writes(slots, s1, i.from, 0, n)
  BY <1>2, <1>6, <1>8 DEF Writes
<1>10. DOMAIN s1 = 0..n
  BY <1>9, WritesEffect
<1>11. Writes(s1, slots', i.slot, slots[i.from], n)
  BY <1>4, <1>8, <1>10 DEF Writes
<1>12. Live(V[pc], s1, heap, text, n)
  BY <1>6, <1>8, <1>9, LivePut
<1>13. Live(V[pc], slots', heap, text, n)
  BY <1>8, <1>11, <1>12, LivePut
<1>14. V[pc + 1] \subseteq V[pc]
  BY <1>3, <1>6, LiveRefill
<1>15. Live(V[pc + 1], slots', heap, text, n)
  BY <1>13, <1>14, LiveLess
<1>16. Live(V[pc'], slots', heap', text, profile.len)
  BY <1>1, <1>3, <1>15
<1>. QED
  BY <1>3, <1>16, KeepsOn

LEMMA KeepsShare ==
    ASSUME NEW S, NEW T, At(S, T), NEW V, NEW W, Filling(V, W), Share PROVE Filling(V, W)'
<1>1. PICK n, i : n = profile.len /\ i = Instr
  OBVIOUS
<1>2. PICK o : o = slots[i.from]
  OBVIOUS
<1>3. /\ i.do \in {"share", "again"} /\ pc' = pc + 1 /\ UNCHANGED <<code, checkVars>>
      /\ slots' = [slots EXCEPT ![i.slot] = o] /\ heap' = Count(o, 1)
  BY <1>1, <1>2 DEF Share, Running
<1>4. Counted(heap, heap', o, 1)
  BY <1>3 DEF Counted, Count, Freed
<1>5. ~Leaves(i)
  BY <1>3 DEF Leaves
<1>6. /\ Live(V[pc], slots, heap, text, n) /\ n \in Nat /\ heap \in Seq(Objects)
      /\ V[pc + 1] \subseteq Refill(i, V[pc], text, n)
      /\ DOMAIN slots = 0..n /\ Fits(i, S[pc], T, text, n)
      /\ Memory(S[pc], slots, heap, text, n)
  BY <1>1, <1>5, KeepsIs, InstrFits
<1>7. o \in 0..Len(heap) /\ i.slot \in {0} \cup SlotsOf(text, n, Pointers)
  <2>1. CASE i.do = "share"
    BY <1>2, <1>6, <2>1, FitsMove, Pointed
  <2>2. CASE i.do = "again"
    <3>1. i.slot = 0
      BY <1>6, <2>2, FitsAgain
    <3>2. slots[0] = slots[i.from]
      BY <1>1, <2>2 DEF At, Instr
    <3>3. slots[0] \in 0..Len(heap)
      BY <1>6, Registered
    <3>. QED  BY <1>2, <3>1, <3>2, <3>3
  <2>. QED  BY <1>3, <2>1, <2>2
<1>8. i.slot \in 0..n /\ i.slot \notin Values(text, n)
  BY <1>6, <1>7, PointerSlot, ValuesApart
<1>9. Writes(slots, slots', i.slot, o, n)
  BY <1>3, <1>6, <1>8 DEF Writes
<1>10. Live(V[pc], slots, heap', text, n)
  BY <1>4, <1>6, <1>7, LiveGains
<1>11. Live(V[pc], slots', heap', text, n)
  BY <1>8, <1>9, <1>10, LivePut
<1>12. V[pc + 1] \subseteq V[pc]
  BY <1>3, <1>6, LiveRefill
<1>13. Live(V[pc + 1], slots', heap', text, n)
  BY <1>11, <1>12, LiveLess
<1>14. Live(V[pc'], slots', heap', text, profile.len)
  BY <1>1, <1>3, <1>13
<1>. QED
  BY <1>3, <1>14, KeepsOn

LEMMA KeepsRead ==
    ASSUME NEW S, NEW T, At(S, T), NEW V, NEW W, Filling(V, W), Read PROVE Filling(V, W)'
<1>1. PICK n, i : n = profile.len /\ i = Instr
  OBVIOUS
<1>2. PICK x : x = IF Instr.do = "refer" /\ Kind[text[Instr.from].v] = "value"
                   THEN -Instr.from ELSE slots[Instr.from]
  OBVIOUS
<1>3. /\ i.do \in {"read", "refer"} /\ pc' = pc + 1 /\ UNCHANGED <<code, checkVars, heap>>
      /\ slots' = [slots EXCEPT ![i.slot] = x]
  BY <1>1, <1>2 DEF Read, Running
<1>4. ~Leaves(i)
  BY <1>3 DEF Leaves
<1>5. n \in Nat /\ DOMAIN slots = 0..n /\ Fits(i, S[pc], T, text, n)
  BY <1>1, InstrFits
<1>6. i.slot = 0 \/ i.slot \in SlotsOf(text, n, {"ref"})
  BY <1>3, <1>5, FitsRead, FitsRefer
<1>7. i.slot \in 0..n /\ i.slot \notin Values(text, n)
  <2>1. SlotsOf(text, n, {"ref"}) \subseteq 0..n /\ 0 \in 0..n
    BY <1>5 DEF SlotsOf
  <2>. QED  BY <1>6, <2>1, ValuesApart
<1>8. Writes(slots, slots', i.slot, x, n)
  BY <1>3, <1>5, <1>7 DEF Writes
<1>9. Instr.do \notin {"new", "write", "drop", "give"} /\ ~Leaves(Instr)
  BY <1>1, <1>3, <1>4
<1>. QED
  BY <1>1, <1>3, <1>7, <1>8, <1>9, KeepsPut

LEMMA KeepsStore ==
    ASSUME NEW S, NEW T, At(S, T), NEW V, NEW W, Filling(V, W), Store PROVE Filling(V, W)'
<1>1. PICK n, i : n = profile.len /\ i = Instr
  OBVIOUS
<1>2. /\ i.do = "store" /\ pc' = pc + 1 /\ UNCHANGED <<code, checkVars, heap>>
      /\ slots' = [slots EXCEPT ![i.slot] = slots[0]]
  BY <1>1 DEF Store, Running
<1>3. n \in Nat /\ DOMAIN slots = 0..n /\ Fits(i, S[pc], T, text, n)
  BY <1>1, InstrFits
<1>4. i.slot \in SlotsOf(text, n, Pointers)
  BY <1>2, <1>3, FitsStore
<1>5. i.slot \in 0..n /\ i.slot \notin Values(text, n)
  BY <1>3, <1>4, PointerSlot, ValuesApart
<1>6. Writes(slots, slots', i.slot, slots[0], n)
  BY <1>2, <1>3, <1>5 DEF Writes
<1>7. Instr.do \notin {"new", "write", "drop", "give"} /\ ~Leaves(Instr)
  BY <1>1, <1>2 DEF Leaves
<1>. QED
  BY <1>1, <1>2, <1>5, <1>6, <1>7, KeepsPut

LEMMA KeepsPlainStore ==
    ASSUME NEW S, NEW T, At(S, T), NEW V, NEW W, Filling(V, W), PlainStore
    PROVE  Filling(V, W)'
<1>1. PICK n, i : n = profile.len /\ i = Instr
  OBVIOUS
<1>2. PICK o : o = slots[i.slot]
  OBVIOUS
<1>3. /\ i.do = "put" /\ pc' = pc + 1 /\ UNCHANGED <<code, checkVars>>
      /\ slots' = [slots EXCEPT ![i.slot] = slots[0]] /\ heap' = Lose(o)
  BY <1>1, <1>2 DEF PlainStore, Running
<1>4. Loses(heap, heap', o)
  BY <1>3 DEF Loses, Lose
<1>5. ~Leaves(i)
  BY <1>3 DEF Leaves
<1>6. /\ Live(V[pc], slots, heap, text, n) /\ n \in Nat /\ heap \in Seq(Objects)
      /\ V[pc + 1] \subseteq Refill(i, V[pc], text, n)
      /\ DOMAIN slots = 0..n /\ Fits(i, S[pc], T, text, n)
      /\ Memory(S[pc], slots, heap, text, n)
  BY <1>1, <1>5, KeepsIs, InstrFits
<1>7. i.slot \in SlotsOf(text, n, Pointers)
  BY <1>3, <1>6, FitsPut
<1>8. o \in 0..Len(heap) /\ i.slot \in 0..n /\ i.slot \notin Values(text, n)
  BY <1>2, <1>6, <1>7, Pointed, PointerSlot, ValuesApart
<1>9. Writes(slots, slots', i.slot, slots[0], n)
  BY <1>3, <1>6, <1>8 DEF Writes
<1>10. Live(V[pc], slots, heap', text, n)
  BY <1>4, <1>6, <1>8, LiveLoses
<1>11. Live(V[pc], slots', heap', text, n)
  BY <1>8, <1>9, <1>10, LivePut
<1>12. V[pc + 1] \subseteq V[pc]
  BY <1>3, <1>6, LiveRefill
<1>13. Live(V[pc + 1], slots', heap', text, n)
  BY <1>11, <1>12, LiveLess
<1>14. Live(V[pc'], slots', heap', text, profile.len)
  BY <1>1, <1>3, <1>13
<1>. QED
  BY <1>3, <1>14, KeepsOn

LEMMA KeepsGraft ==
    ASSUME NEW S, NEW T, At(S, T), NEW V, NEW W, Filling(V, W), Graft
    PROVE  Filling(V, W)'
<1>1. PICK n, i : n = profile.len /\ i = Instr
  OBVIOUS
<1>2. PICK o : o = slots[0]
  OBVIOUS
<1>3. /\ i.do = "graft" /\ pc' = pc + 1 /\ UNCHANGED <<code, checkVars, slots>>
      /\ heap' = Lose(o)
  BY <1>1, <1>2 DEF Graft, Running
<1>4. Loses(heap, heap', o)
  BY <1>3 DEF Loses, Lose
<1>5. ~Leaves(i)
  BY <1>3 DEF Leaves
<1>6. /\ Live(V[pc], slots, heap, text, n) /\ n \in Nat /\ heap \in Seq(Objects)
      /\ V[pc + 1] \subseteq Refill(i, V[pc], text, n)
      /\ Fits(i, S[pc], T, text, n) /\ Memory(S[pc], slots, heap, text, n)
  BY <1>1, <1>5, KeepsIs, InstrFits
<1>7. 0 \in S[pc]
  BY <1>3, <1>6, FitsPut
<1>8. o \in 0..Len(heap)
  BY <1>2, <1>6, <1>7, Registered
<1>9. Live(V[pc], slots, heap', text, n)
  BY <1>4, <1>6, <1>8, LiveLoses
<1>10. V[pc + 1] \subseteq V[pc]
  BY <1>3, <1>6, LiveRefill
<1>11. Live(V[pc + 1], slots, heap', text, n)
  BY <1>9, <1>10, LiveLess
<1>12. Live(V[pc'], slots', heap', text, profile.len)
  BY <1>1, <1>3, <1>11
<1>. QED
  BY <1>3, <1>12, KeepsOn

LEMMA KeepsAccess ==
    ASSUME NEW S, NEW T, At(S, T), NEW V, NEW W, Filling(V, W), Access PROVE Filling(V, W)'
<1>1. /\ Instr.do = "use" /\ pc' = pc + 1 /\ UNCHANGED <<code, checkVars, slots, heap>>
  BY DEF Access, Running
<1>2. ~Leaves(Instr) /\ Instr.do \notin {"new", "write", "drop", "give"}
  BY <1>1 DEF Leaves
<1>. QED
  BY <1>1, <1>2, KeepsStill

\* A value that is overwritten: its slot, or the one that a reference leads to,
\* holds a new one.
LEMMA KeepsOverwrite ==
    ASSUME NEW S, NEW T, At(S, T), NEW V, NEW W, Filling(V, W), Overwrite
    PROVE  Filling(V, W)'
<1>1. PICK n, i : n = profile.len /\ i = Instr
  OBVIOUS
<1>2. PICK y : y = slots[i.slot]
  OBVIOUS
<1>3. PICK t : t = IF y < 0 THEN -y ELSE i.slot
  OBVIOUS
<1>4. PICK e : e = [kind |-> "value", owners |-> 1, lost |-> 0]
  OBVIOUS
<1>5. PICK x : x = Len(heap) + 1
  OBVIOUS
<1>6. /\ i.do = "write" /\ pc' = pc + 1 /\ UNCHANGED <<code, checkVars>>
      /\ Kind[text[t].v] = "value"
         => heap' = Append(heap, e) /\ slots' = [slots EXCEPT ![t] = x]
      /\ Kind[text[t].v] # "value" => UNCHANGED <<heap, slots>>
  BY <1>1, <1>2, <1>3, <1>4, <1>5 DEF Overwrite, Running, NewObject
<1>7. ~Leaves(i)
  BY <1>6 DEF Leaves
<1>8. /\ Live(V[pc], slots, heap, text, n) /\ n \in Nat /\ heap \in Seq(Objects)
      /\ V[pc + 1] \subseteq Refill(i, V[pc], text, n)
      /\ DOMAIN slots = 0..n /\ Fits(i, S[pc], T, text, n)
      /\ Memory(S[pc], slots, heap, text, n)
  BY <1>1, <1>7, KeepsIs, InstrFits
<1>9. /\ slots \in [0..n -> (-n)..Len(heap)] /\ i.slot \in 1..n /\ i.slot \in 0..n
      /\ \A k \in 0..n : slots[k] < 0 => k \in SlotsOf(text, n, {"ref"})
  <2>1. i.slot \in 1..n
    BY <1>6, <1>8, FitsAccess
  <2>2. i.slot \in 0..n
    BY <1>8, <2>1
  <2>. QED  BY <1>8, <2>1, <2>2 DEF Memory, SlotsFit
<1>10. y < 0 => i.slot \notin Values(text, n)
  BY <1>2, <1>9, ValuesApart
<1>11. t \in 0..n
  <2>1. y \in (-n)..Len(heap) /\ Len(heap) \in Nat
    BY <1>2, <1>8, <1>9
  <2>2. CASE y < 0
    BY <1>3, <1>8, <2>1, <2>2
  <2>3. CASE ~(y < 0)
    BY <1>3, <1>9, <2>3
  <2>. QED  BY <2>2, <2>3
<1>12. i.slot \in Values(text, n) => t = i.slot
  BY <1>3, <1>10
<1>13. \A j \in V[pc + 1] : j \in V[pc] \/ (j = i.slot /\ i.slot \in Values(text, n))
  BY <1>6, <1>8, LiveRefill
<1>14. Kind[text[t].v] = "value" => Live(V[pc + 1], slots', heap', text, n)
  <2>. SUFFICES ASSUME Kind[text[t].v] = "value"
                PROVE  Live(V[pc + 1], slots', heap', text, n)
    OBVIOUS
  <2>1. heap' = Append(heap, e) /\ slots' = [slots EXCEPT ![t] = x]
    BY <1>6
  <2>2. Writes(slots, slots', t, x, n)
    BY <1>8, <1>11, <2>1 DEF Writes
  <2>3. Gains(V[pc + 1], V[pc], t, text, n)
    BY <1>12, <1>13 DEF Gains
  <2>4. e \in Objects /\ e.owners = 1
    BY <1>4 DEF Objects
  <2>. QED
    BY <1>5, <1>8, <2>1, <2>2, <2>3, <2>4, LiveMakes, Zenon
<1>15. Kind[text[t].v] # "value" => Live(V[pc + 1], slots', heap', text, n)
  <2>. SUFFICES ASSUME Kind[text[t].v] # "value"
                PROVE  Live(V[pc + 1], slots', heap', text, n)
    OBVIOUS
  <2>1. slots' = slots /\ heap' = heap
    BY <1>6
  <2>2. i.slot \notin Values(text, n)
    BY <1>12, ValuesApart
  <2>3. V[pc + 1] \subseteq V[pc]
    BY <1>13, <2>2
  <2>4. Live(V[pc + 1], slots, heap, text, n)
    BY <1>8, <2>3, LiveLess
  <2>. QED  BY <2>1, <2>4
<1>16. Live(V[pc'], slots', heap', text, profile.len)
  BY <1>1, <1>6, <1>14, <1>15
<1>. QED
  BY <1>6, <1>16, KeepsOn

\* A slot that is dropped, or given, holds a value that is alive.
LEMMA KeepsAlive ==
    ASSUME NEW S, NEW T, At(S, T), NEW V, NEW W, Filling(V, W),
           Instr.do \in {"drop", "give"}, Instr.slot \in Values(text, profile.len)
    PROVE  /\ Instr.slot \in V[pc] /\ slots[Instr.slot] \in 0..Len(heap)
           /\ ~Freed(slots[Instr.slot])
           /\ \A k \in V[pc] \ {Instr.slot} : slots[k] # slots[Instr.slot]
<1>1. /\ Live(V[pc], slots, heap, text, profile.len)
      /\ Asks(Instr, V[pc], W, text, profile.len)
      /\ heap \in Seq(Objects) /\ Len(heap) \in Nat
  BY KeepsIs
<1>2. Instr.slot \notin SlotsOf(text, profile.len, {"unique"})
  BY ValuesApart
<1>3. Instr.slot \in V[pc]
  BY <1>1, <1>2 DEF Asks
<1>4. slots[Instr.slot] \in 1..Len(heap) /\ heap[slots[Instr.slot]].owners > 0
  BY <1>1, <1>3 DEF Live
<1>5. \A k \in V[pc] \ {Instr.slot} : slots[k] # slots[Instr.slot]
  BY <1>1, <1>3 DEF Live
<1>6. slots[Instr.slot] \in 0..Len(heap) /\ heap[slots[Instr.slot]].owners # 0
  BY <1>1, <1>4
<1>. QED
  BY <1>3, <1>5, <1>6 DEF Freed

LEMMA KeepsRelease ==
    ASSUME NEW S, NEW T, At(S, T), NEW V, NEW W, Filling(V, W), Release
    PROVE  Filling(V, W)'
<1>1. PICK n, i : n = profile.len /\ i = Instr
  OBVIOUS
<1>2. PICK o : o = slots[i.slot]
  OBVIOUS
<1>3. /\ i.do \in {"release", "drop"} /\ pc' = pc + 1
      /\ UNCHANGED <<code, checkVars, slots>> /\ heap' = Count(o, -1)
  BY <1>1, <1>2 DEF Release, Running
<1>4. Counted(heap, heap', o, -1)
  BY <1>3 DEF Counted, Count, Freed
<1>5. ~Leaves(i)
  BY <1>3 DEF Leaves
<1>6. /\ Live(V[pc], slots, heap, text, n) /\ n \in Nat /\ heap \in Seq(Objects)
      /\ V[pc + 1] \subseteq Refill(i, V[pc], text, n)
      /\ Fits(i, S[pc], T, text, n) /\ Memory(S[pc], slots, heap, text, n)
  BY <1>1, <1>5, KeepsIs, InstrFits
<1>7. o \in 0..Len(heap) /\ V[pc + 1] \subseteq V[pc] /\ \A k \in V[pc + 1] : slots[k] # o
  <2>1. CASE i.do = "release"
    <3>1. i.slot \in SlotsOf(text, n, Pointers)
      BY <1>6, <2>1, FitsRelease
    <3>2. o \in 0..Len(heap) /\ \A k \in V[pc] : slots[k] # o
      BY <1>2, <1>6, <3>1, Pointed, PointedElsewhere
    <3>3. V[pc + 1] \subseteq V[pc]
      BY <1>6, <2>1, LiveRefill
    <3>. QED  BY <3>2, <3>3
  <2>2. CASE i.do = "drop"
    <3>1. i.slot \in Values(text, n)
      BY <1>6, <2>2, FitsDrop DEF Values
    <3>2. o \in 0..Len(heap) /\ \A k \in V[pc] \ {i.slot} : slots[k] # o
      BY <1>1, <1>2, <2>2, <3>1, KeepsAlive
    <3>3. V[pc + 1] \subseteq V[pc] \ {i.slot}
      BY <1>6, <2>2, LiveRefill
    <3>. QED  BY <3>2, <3>3
  <2>. QED  BY <1>3, <2>1, <2>2
<1>8. -1 \in Int
  OBVIOUS
<1>9. Live(V[pc + 1], slots, heap', text, n)
  BY <1>4, <1>6, <1>7, <1>8, LiveCounts
<1>10. Live(V[pc'], slots', heap', text, profile.len)
  BY <1>1, <1>3, <1>9
<1>. QED
  BY <1>3, <1>10, KeepsOn

LEMMA KeepsGive ==
    ASSUME NEW S, NEW T, At(S, T), NEW V, NEW W, Filling(V, W), Give
    PROVE  Filling(V, W)'
<1>1. PICK n, i : n = profile.len /\ i = Instr
  OBVIOUS
<1>2. PICK o : o = slots[i.slot]
  OBVIOUS
<1>3. /\ i.do = "give" /\ pc' = pc + 1 /\ UNCHANGED <<code, checkVars>>
      /\ heap' = Count(o, -1)
      /\ slots' = IF Kind[text[i.slot].v] = "unique"
                  THEN [slots EXCEPT ![i.slot] = 0] ELSE slots
  BY <1>1, <1>2 DEF Give, Running
<1>4. Counted(heap, heap', o, -1)
  BY <1>3 DEF Counted, Count, Freed
<1>5. ~Leaves(i)
  BY <1>3 DEF Leaves
<1>6. /\ Live(V[pc], slots, heap, text, n) /\ n \in Nat /\ heap \in Seq(Objects)
      /\ V[pc + 1] \subseteq Refill(i, V[pc], text, n) /\ DOMAIN slots = 0..n
      /\ Fits(i, S[pc], T, text, n) /\ Memory(S[pc], slots, heap, text, n)
  BY <1>1, <1>5, KeepsIs, InstrFits
<1>7. \/ i.slot \in SlotsOf(text, n, {"value"}) /\ Kind[text[i.slot].v] # "unique"
      \/ i.slot \in S[pc] \cap SlotsOf(text, n, Pointers) /\ Kind[text[i.slot].v] = "unique"
  BY <1>3, <1>6, FitsGive
<1>8. V[pc + 1] \subseteq V[pc] \ {i.slot}
  BY <1>3, <1>6, LiveRefill
<1>9. -1 \in Int /\ V[pc + 1] \subseteq V[pc]
  BY <1>8
<1>10. CASE i.slot \in SlotsOf(text, n, {"value"}) /\ Kind[text[i.slot].v] # "unique"
  <2>1. i.slot \in Values(text, n) /\ slots' = slots
    BY <1>3, <1>10 DEF Values
  <2>2. o \in 0..Len(heap) /\ \A k \in V[pc] \ {i.slot} : slots[k] # o
    BY <1>1, <1>2, <1>3, <2>1, KeepsAlive
  <2>3. \A k \in V[pc + 1] : slots[k] # o
    BY <1>8, <2>2
  <2>4. Live(V[pc + 1], slots, heap', text, n)
    BY <1>4, <1>6, <1>9, <2>2, <2>3, LiveCounts
  <2>5. Live(V[pc'], slots', heap', text, profile.len)
    BY <1>1, <1>3, <2>1, <2>4
  <2>. QED  BY <1>3, <2>5, KeepsOn
<1>11. CASE /\ i.slot \in S[pc] \cap SlotsOf(text, n, Pointers)
            /\ Kind[text[i.slot].v] = "unique"
  <2>1. i.slot \in 0..n /\ i.slot \notin Values(text, n)
    BY <1>6, <1>11, PointerSlot, ValuesApart
  <2>2. slots' = [slots EXCEPT ![i.slot] = 0]
    BY <1>3, <1>11
  <2>3. Writes(slots, slots', i.slot, 0, n)
    BY <1>6, <2>1, <2>2 DEF Writes
  <2>4. o \in 0..Len(heap) /\ \A k \in V[pc] : slots[k] # o
    BY <1>2, <1>6, <1>11, Pointed, PointedElsewhere
  <2>5. \A k \in V[pc + 1] : slots[k] # o
    BY <1>9, <2>4
  <2>6. Live(V[pc + 1], slots, heap', text, n)
    BY <1>4, <1>6, <1>9, <2>4, <2>5, LiveCounts
  <2>7. Live(V[pc + 1], slots', heap', text, n)
    BY <2>1, <2>3, <2>6, LivePut
  <2>8. Live(V[pc'], slots', heap', text, profile.len)
    BY <1>1, <1>3, <2>7
  <2>. QED  BY <1>3, <2>8, KeepsOn
<1>. QED
  BY <1>7, <1>10, <1>11

\* At a label no more is sure than on the way that jumps to it.
LEMMA KeepsLands ==
    ASSUME NEW S, NEW T, At(S, T), NEW V, NEW W, Filling(V, W),
           Instr.do \in {"jmp", "br"}, pc' = Goto(Instr.to),
           UNCHANGED <<code, checkVars, slots, heap>>
    PROVE  Filling(V, W)'
<1>1. PICK n, i, l : n = profile.len /\ i = Instr /\ l = Goto(Instr.to)
  OBVIOUS
<1>2. /\ Program(code, S, T, text, n) /\ pc \in DOMAIN code /\ code \in Seq(Instrs(n))
  BY <1>1, InstrFits DEF At, Program, Flow
<1>3. i.to \in Placed(code)
  <2>1. i.to \in Jumps(code)
    BY <1>1, <1>2 DEF Jumps, Instr
  <2>. QED  BY <1>2, <2>1 DEF Program
<1>4. \E k \in DOMAIN code : code[k].do = "label" /\ code[k].to = i.to
  BY <1>3 DEF Placed
<1>5. l \in DOMAIN code /\ code[l].do = "label" /\ code[l].to = i.to
  BY <1>1, <1>4 DEF Goto
<1>6. l \in 1..Len(code)
  BY <1>2, <1>5
<1>7. Suits(code[l], V[l], V[l + 1], W, text, n)
  BY <1>1, <1>6 DEF Filling, Fills
<1>8. V[l] \subseteq W[i.to]
  BY <1>5, <1>7 DEF Suits, Asks
<1>9. Live(V[pc], slots, heap, text, n) /\ Asks(i, V[pc], W, text, n)
  BY <1>1, KeepsIs
<1>10. W[i.to] \subseteq V[pc]
  BY <1>1, <1>9 DEF Asks
<1>11. Live(V[l], slots, heap, text, n)
  BY <1>8, <1>9, <1>10, LiveLess
<1>12. Live(V[pc'], slots', heap', text, profile.len)
  BY <1>1, <1>11
<1>. QED
  BY <1>12, KeepsOn

LEMMA KeepsBranch ==
    ASSUME NEW S, NEW T, At(S, T), NEW V, NEW W, Filling(V, W), BranchOn \/ Follow
    PROVE  Filling(V, W)'
<1>1. /\ Instr.do \in {"br", "jmp", "label"} /\ UNCHANGED <<code, checkVars, slots, heap>>
      /\ \/ Instr.do # "jmp" /\ pc' = pc + 1
         \/ Instr.do \in {"jmp", "br"} /\ pc' = Goto(Instr.to)
  BY DEF BranchOn, Follow, Running
<1>2. CASE Instr.do # "jmp" /\ pc' = pc + 1
  <2>1. ~Leaves(Instr) /\ Instr.do \notin {"new", "write", "drop", "give"}
    BY <1>1, <1>2 DEF Leaves
  <2>. QED  BY <1>1, <1>2, <2>1, KeepsStill
<1>3. CASE Instr.do \in {"jmp", "br"} /\ pc' = Goto(Instr.to)
  BY <1>1, <1>3, KeepsLands
<1>. QED
  BY <1>1, <1>2, <1>3


\* No value was dropped twice.
NoDrops == \A f \in faults : f[1] # "double drop"

LEMMA PairFirst == ASSUME NEW a, NEW b PROVE <<a, b>>[1] = a
OBVIOUS

LEMMA DropsNothing ==
    ASSUME NoDrops, NEW kind, kind # "double drop",
           faults' = faults \/ faults' = Fault(kind)
    PROVE  NoDrops'
<1>1. PICK at : at = Instr.at
  OBVIOUS
<1>2. \A f : f = <<kind, at>> => f[1] # "double drop"
  BY PairFirst, Zenon
<1>3. \A f \in faults' : f \in faults \/ f = <<kind, at>>
  BY <1>1 DEF Fault
<1>. QED
  BY <1>2, <1>3 DEF NoDrops

LEMMA TouchedDrops ==
    ASSUME NoDrops, NEW o, faults' = Touched(o) PROVE NoDrops'
<1>1. \/ faults' = faults \/ faults' = Fault("null access")
      \/ faults' = Fault("use after free")
  BY DEF Touched
<1>2. "null access" # "double drop" /\ "use after free" # "double drop"
  OBVIOUS
<1>. QED
  BY <1>1, <1>2, DropsNothing

LEMMA ReleaseDrops ==
    ASSUME NEW S, NEW T, At(S, T), NEW V, NEW W, Filling(V, W), Release, NoDrops
    PROVE  NoDrops'
<1>1. PICK o : o = slots[Instr.slot]
  OBVIOUS
<1>2. /\ Instr.do \in {"release", "drop"}
      /\ faults' = IF o # 0 /\ Freed(o)
                   THEN Fault(IF Instr.do = "drop" THEN "double drop" ELSE "double free")
                   ELSE faults
  BY <1>1 DEF Release, Running
<1>3. Instr.do = "drop" => ~Freed(o)
  <2>. SUFFICES ASSUME Instr.do = "drop" PROVE ~Freed(o)
    OBVIOUS
  <2>1. Instr.slot \in Values(text, profile.len)
    BY InstrFits, FitsDrop DEF Values
  <2>2. Instr.do \in {"drop", "give"}
    OBVIOUS
  <2>. QED  BY <1>1, <2>1, <2>2, KeepsAlive
<1>4. faults' = faults \/ faults' = Fault("double free")
  BY <1>2, <1>3
<1>5. "double free" # "double drop"
  OBVIOUS
<1>. QED
  BY <1>4, <1>5, DropsNothing

LEMMA GiveDrops ==
    ASSUME NEW S, NEW T, At(S, T), NEW V, NEW W, Filling(V, W), Give, NoDrops
    PROVE  NoDrops'
<1>1. PICK o : o = slots[Instr.slot]
  OBVIOUS
<1>2. /\ Instr.do = "give"
      /\ faults' = IF o # 0 /\ Freed(o)
                   THEN Fault(IF Kind[text[Instr.slot].v] = "value"
                              THEN "double drop" ELSE "double free")
                   ELSE Touched(o)
  BY <1>1 DEF Give, Running
<1>0. Fits(Instr, S[pc], T, text, profile.len) /\ profile.len \in Nat
  BY InstrFits
<1>3. \/ Instr.slot \in SlotsOf(text, profile.len, {"value"})
      \/ Kind[text[Instr.slot].v] = "unique"
  BY <1>0, <1>2, FitsGive
<1>4. CASE Instr.slot \in SlotsOf(text, profile.len, {"value"})
  <2>1. Instr.slot \in Values(text, profile.len) /\ Instr.do \in {"drop", "give"}
    BY <1>2, <1>4 DEF Values
  <2>2. ~Freed(o)
    BY <1>1, <2>1, KeepsAlive
  <2>3. faults' = Touched(o)
    BY <1>2, <2>2
  <2>. QED  BY <2>3, TouchedDrops
<1>5. CASE Kind[text[Instr.slot].v] = "unique"
  <2>1. faults' = Fault("double free") \/ faults' = Touched(o)
    BY <1>2, <1>5
  <2>2. "double free" # "double drop"
    OBVIOUS
  <2>. QED  BY <2>1, <2>2, DropsNothing, TouchedDrops
<1>. QED
  BY <1>3, <1>4, <1>5

\* The steps of a run.
LEMMA KeepsNext ==
    ASSUME NEW S, NEW T, At(S, T), NEW V, NEW W, Filling(V, W), NoDrops,
           New \/ Move \/ Share \/ Read \/ Store \/ PlainStore \/ Graft \/ Access
           \/ Overwrite \/ Release \/ Give \/ BranchOn \/ Follow
    PROVE  Filling(V, W)' /\ NoDrops'
<1>1. CASE New \/ Move \/ Read \/ Store \/ PlainStore \/ Graft \/ BranchOn \/ Follow
  <2>1. faults' = faults
    BY <1>1 DEF New, Move, Read, Store, PlainStore, Graft, BranchOn, Follow
  <2>2. NoDrops'
    BY <2>1 DEF NoDrops
  <2>. QED
    BY <1>1, <2>2, KeepsNew, KeepsMove, KeepsRead, KeepsStore, KeepsPlainStore,
       KeepsGraft, KeepsBranch
<1>2. CASE Share
  <2>1. faults' = faults \/ faults' = Touched(slots[Instr.from])
    BY <1>2 DEF Share
  <2>2. NoDrops'
    BY <2>1, TouchedDrops DEF NoDrops
  <2>. QED  BY <1>2, <2>2, KeepsShare
<1>3. CASE Access
  <2>1. faults' = Touched(Object(slots[Instr.slot]))
    BY <1>3 DEF Access
  <2>2. NoDrops'
    BY <2>1, TouchedDrops
  <2>. QED  BY <1>3, <2>2, KeepsAccess
<1>4. CASE Overwrite
  <2>1. faults' = faults \/ faults' = Touched(slots[Instr.slot])
    BY <1>4 DEF Overwrite
  <2>2. NoDrops'
    BY <2>1, TouchedDrops DEF NoDrops
  <2>. QED  BY <1>4, <2>2, KeepsOverwrite
<1>5. CASE Release
  BY <1>5, KeepsRelease, ReleaseDrops
<1>6. CASE Give
  BY <1>6, KeepsGive, GiveDrops
<1>. QED
  BY <1>1, <1>2, <1>3, <1>4, <1>5, <1>6

-----------------------------------------------------------------------------
(* The theorem                                                             *)

\* The invariant of the run, next to RunInv and KnownInv.
ValueInv ==
    /\ phase = "run" /\ ~ValueUnsure => \E V, W : Filling(V, W)
    /\ ~ValueUnsure => NoDrops

LEMMA ValueInvInit == Init => ValueInv
BY DEF Init, BorrowInit, ValueInv, NoDrops

\* Whether Sema takes a value for filled that may not be is said by the text.
LEMMA UnsureStays == text' = text => (ValueUnsure' <=> ValueUnsure)
<1>. SUFFICES ASSUME text' = text PROVE ValueUnsure' <=> ValueUnsure
  OBVIOUS
<1>1. \A i : Nest(i)' = Nest(i)
  BY DEF Nest
<1>2. \A i, op : Inside(i, op)' <=> Inside(i, op)
  BY <1>1 DEF Inside
<1>3. LoopJumps' <=> LoopJumps
  BY <1>2 DEF LoopJumps, Looped
<1>. QED
  BY <1>1, <1>2, <1>3 DEF ValueUnsure, Looped

\* The first instruction: nothing is sure to hold a value.
LEMMA KeepsGenerate ==
    ASSUME CheckInv, KnownInv, Generate, ~ValueUnsure
    PROVE  \E V, W : Filling(V, W)'
<1>1. PICK n : n = profile.len
  OBVIOUS
<1>2. /\ Compiles(scopes, text, n) /\ code' = GenFunction /\ pc' = 1
      /\ text' = text /\ profile' = profile
      /\ Known(GenBody(text), scopes, text, n)
  BY <1>1 DEF CheckInv, KnownInv, Generate
<1>3. PICK M \in Modes : Clean(M, text)
  BY SureIsClean
<1>4. PICK V, W : Fills(Emit(Unwind(GenBody(text), 0, Len(text)), <<Ret0>>).code,
                        V, W, text, n)
  BY <1>2, <1>3, FunctionIsFilled
<1>5. Fills(code', V, W, text, n)
  BY <1>2, <1>4 DEF GenFunction
<1>6. V[1] = {}
  BY <1>5 DEF Fills
<1>7. Live({}, slots', heap', text, n)
  BY DEF Live
<1>8. Fills(code', V, W, text', profile'.len) /\ Live(V[pc'], slots', heap', text', profile'.len)
  BY <1>1, <1>2, <1>5, <1>6, <1>7
<1>9. Filling(V, W)'
  BY <1>8 DEF Filling
<1>. QED
  BY <1>9

LEMMA ValueInvNext ==
    BorrowInv /\ CheckInv /\ RunInv /\ KnownInv /\ ValueInv /\ [Next]_vars => ValueInv'
<1>. SUFFICES ASSUME BorrowInv, CheckInv, RunInv, KnownInv, ValueInv, [Next]_vars
              PROVE  ValueInv'
  OBVIOUS
<1>1. CASE BorrowNext /\ UNCHANGED runVars
  <2>1. phase = "check" /\ phase' \in {"check", "refused", "accepted"}
    BY <1>1, BorrowNextGrows DEF Grows, Accept
  <2>2. faults' = {}
    BY <1>1, <2>1 DEF RunInv, Started, runVars
  <2>. QED  BY <2>1, <2>2 DEF ValueInv, NoDrops
<1>2. CASE Generate
  <2>1. phase = "accepted" /\ text' = text /\ faults' = faults
    BY <1>2 DEF Generate
  <2>2. faults' = {}
    BY <2>1 DEF RunInv, Started
  <2>3. NoDrops'
    BY <2>2 DEF NoDrops
  <2>4. ~ValueUnsure' => \E V, W : Filling(V, W)'
    BY <1>2, <2>1, UnsureStays, KeepsGenerate
  <2>. QED  BY <2>3, <2>4 DEF ValueInv
<1>3. CASE \/ New \/ Move \/ Share \/ Read \/ Store \/ PlainStore \/ Graft \/ Access
           \/ Overwrite \/ Release \/ Give \/ BranchOn \/ Follow
  <2>1. phase = "run" /\ text' = text
    BY <1>3 DEF New, Move, Share, Read, Store, PlainStore, Graft, Access, Overwrite,
                Release, Give, BranchOn, Follow, Running, checkVars
  <2>. SUFFICES ASSUME ~ValueUnsure PROVE (\E V, W : Filling(V, W)') /\ NoDrops'
    BY <2>1, UnsureStays DEF ValueInv
  <2>2. PICK S, T : At(S, T)
    BY <2>1 DEF RunInv
  <2>3. PICK V, W : Filling(V, W)
    BY <2>1 DEF ValueInv
  <2>4. NoDrops
    BY DEF ValueInv
  <2>5. Filling(V, W)' /\ NoDrops'
    BY <1>3, <2>2, <2>3, <2>4, KeepsNext
  <2>. QED  BY <2>5
<1>4. CASE Ret
  <2>1. phase' = "done" /\ text' = text /\ faults' = faults
    BY <1>4 DEF Ret
  <2>. QED  BY <2>1, UnsureStays DEF ValueInv, NoDrops
<1>5. CASE UNCHANGED vars
  <2>1. /\ text' = text /\ profile' = profile /\ phase' = phase /\ code' = code
        /\ pc' = pc /\ slots' = slots /\ heap' = heap /\ faults' = faults
    BY <1>5 DEF vars, checkVars, runVars
  <2>2. \A V, W : Filling(V, W) => Filling(V, W)'
    BY <2>1 DEF Filling
  <2>3. NoDrops => NoDrops'
    BY <2>1 DEF NoDrops
  <2>. QED  BY <2>1, <2>2, <2>3, UnsureStays DEF ValueInv
<1>. QED
  BY <1>1, <1>2, <1>3, <1>4, <1>5 DEF Next

\* No accepted text frees an object twice, and none drops a value twice but for
\* the values that ValueUnsure names: what Sema counts as moved (markMoved,
\* resetMoved, and how IfExpr merges the flags of its branches) and what CodeGen
\* leaves of the drops of a scope (genReturnStmt and genCedeExpr, which take the
\* drop away, and executeScopeUnwinding) agree through blocks, branches, loops,
\* early exits and returns.
THEOREM NothingFreedTwice == Spec => []NoDoubleFree
<1>1. Init => BorrowInv /\ CheckInv /\ RunInv /\ KnownInv /\ ValueInv
  BY BorrowInvInit, CheckInvInit, RunInvInit, KnownInvInit, ValueInvInit
<1>2. BorrowInv /\ CheckInv /\ RunInv /\ KnownInv /\ ValueInv /\ [Next]_vars
         => (BorrowInv /\ CheckInv /\ RunInv /\ KnownInv /\ ValueInv)'
  BY BorrowInvNext, CheckInvNext, RunInvNext, KnownInvNext, ValueInvNext
<1>3. RunInv /\ ValueInv => NoDoubleFree
  BY DEF RunInv, ValueInv, NoDrops, NoDoubleFree
<1>. QED
  BY <1>1, <1>2, <1>3, PTL DEF Spec
=============================================================================
