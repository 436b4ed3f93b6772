--------------------------- MODULE OwnershipProofs ---------------------------
(***************************************************************************)
(* Theorems about Ownership, for any names, any texts and any run of the   *)
(* code: no pointer's object is freed twice, or used through the pointer   *)
(* once it was freed (PointersStayAlive); every object made for a pointer  *)
(* is freed when the function is left, but for the owners that a plain     *)
(* assignment overwrote, and the one returned is not (OwnersAreReleased);  *)
(* and the type invariant (TypeCorrect).                                   *)
(*                                                                         *)
(* The code is typed.  Ahead of every instruction stands the set of slots  *)
(* that own an object there, whatever way control came (Flow): -1 and 0    *)
(* are the register, which owns its object twice when ~v is returned, and  *)
(* so it is written for a value, which is returned and never stored.       *)
(* The statements of a text that was not refused emit code that can be     *)
(* typed so (Body), and a run keeps in every pointer's object the number   *)
(* of owners that the typing gives it, next to those that are lost (Owed), *)
(* and in every pointer's slot null or an object that was made for a       *)
(* pointer (Memory).                                                       *)
(***************************************************************************)
EXTENDS BorrowProofs, FiniteSetTheorems, WellFoundedInduction

\* Induction, and the least element: every set of naturals has one.
LEMMA Least ==
    ASSUME NEW S, S \subseteq Nat, S # {}
    PROVE  \E n \in S : \A m \in S : n <= m
<1>. DEFINE R == OpToRel(<, Nat)
<1>1. IsWellFoundedOn(R, Nat)
  BY NatLessThanWellFounded, Zenon
<1>2. \A x, y \in Nat : <<x, y>> \in R <=> x < y
  BY DEF OpToRel
<1>. HIDE DEF R
<1>3. PICK n \in S : \A m \in S : <<m, n>> \notin R
  BY <1>1, WFMin
<1>4. \A m \in S : ~(m < n)
  BY <1>2, <1>3
<1>. QED
  BY <1>4

\* A set that has b, and n - 1 with every n above a, has everything from a to b.
LEMMA DownTo ==
    ASSUME NEW a \in Nat, NEW b \in Nat, NEW S, b \in S,
           \A n \in a..b : n \in S /\ a < n => n - 1 \in S
    PROVE  \A n \in a..b : n \in S
<1>. DEFINE T == {k \in 0..(b - a) : b - k \notin S}
<1>. SUFFICES ASSUME T # {} PROVE FALSE
  <2>. SUFFICES ASSUME NEW n \in a..b, n \notin S PROVE FALSE
    OBVIOUS
  <2>1. b - n \in 0..(b - a) /\ b - (b - n) = n
    OBVIOUS
  <2>. QED  BY <2>1
<1>1. PICK k \in T : \A m \in T : k <= m
  <2>1. T \subseteq Nat
    OBVIOUS
  <2>. HIDE DEF T
  <2>. QED  BY <2>1, Least
<1>2. k # 0
  BY <1>1
<1>3. k - 1 \in 0..(b - a) /\ k - 1 \notin T
  BY <1>1, <1>2
<1>4. b - (k - 1) \in S /\ b - (k - 1) \in a..b /\ a < b - (k - 1)
  BY <1>1, <1>3
<1>5. (b - (k - 1)) - 1 = b - k
  BY <1>1
<1>. QED
  BY <1>1, <1>4, <1>5

\* A set that has 0, and n + 1 with every n, has every natural up to b.
LEMMA UpTo ==
    ASSUME NEW b \in Nat, NEW S, 0 \in S, \A n \in 0..b : n \in S /\ n < b => n + 1 \in S
    PROVE  \A n \in 0..b : n \in S
<1>. DEFINE T == {n \in 0..b : n \notin S}
<1>. SUFFICES ASSUME T # {} PROVE FALSE
  OBVIOUS
<1>1. PICK n \in T : \A m \in T : n <= m
  <2>1. T \subseteq Nat
    OBVIOUS
  <2>. HIDE DEF T
  <2>. QED  BY <2>1, Least
<1>2. n \in 1..b
  BY <1>1
<1>3. n - 1 \in 0..b /\ n - 1 \notin T
  BY <1>1, <1>2
<1>. QED
  BY <1>1, <1>2, <1>3

-----------------------------------------------------------------------------
(* The typing of code                                                      *)

Pointers == {"unique", "shared"}

\* The slots of the variables of these kinds that the text tx declares.
SlotsOf(tx, n, kinds) ==
    {k \in 1..n : k <= Len(tx) /\ Kind[tx[k].v] \in kinds}

States(tx, n) ==
    {A \in SUBSET ({-1, 0} \cup SlotsOf(tx, n, Pointers)) : -1 \in A => 0 \in A}

Labels == {"cond", "after", "else", "end"}

Instrs(n) ==
    [do : {"new", "use", "write", "release", "drop", "give"}, slot : 0..n, at : Nat]
    \cup [do : {"move", "share", "again", "read", "refer"}, from : 0..n,
          slot : 0..n, at : Nat]
    \cup [do : {"store", "put", "graft"}, slot : 0..n]
    \cup [do : {"label", "jmp", "br"}, to : Nat \X Labels]
    \cup [do : {"ret"}, value : BOOLEAN]

\* Where the slots of A own an object, instruction i may stand; T has what
\* owned one when each statement of the text began.
Fits(i, A, T, tx, n) ==
    LET own    == SlotsOf(tx, n, Pointers)
        values == SlotsOf(tx, n, {"value"})
    IN  CASE i.do = "new" ->
               /\ i.at \in 1..Len(tx) /\ i.slot \notin A
               /\ \/ Kind[tx[i.at].v] \in Pointers /\ i.slot \in own \cup {0}
                  \/ Kind[tx[i.at].v] = "value" /\ i.slot \in values
          [] i.do \in {"move", "share"} ->
               i.from \in own \cap A /\ i.slot \in (own \cup {0}) \ A
          [] i.do = "again"   -> /\ i.slot = 0 /\ i.from \in own \cap A
                                 /\ 0 \in A /\ -1 \notin A
          [] i.do = "read"    -> i.slot = 0 /\ 0 \notin A /\ i.from \in values
          [] i.do = "refer"   -> i.slot \in SlotsOf(tx, n, {"ref"}) /\ i.from \in 1..n
          [] i.do = "store"   -> 0 \in A /\ -1 \notin A /\ i.slot \in own \ A
          [] i.do \in {"put", "graft"} ->
               0 \in A /\ -1 \notin A /\ i.slot \in own \cap A
          [] i.do \in {"use", "write"} ->
               /\ i.slot \in 1..n /\ i.at \in 1..Len(tx)
               /\ Kind[tx[i.at].v] \in Pointers => i.slot \in own \cap A
          [] i.do = "release" -> i.slot \in own \cap A
          [] i.do = "drop"    -> i.slot \in values
          [] i.do = "give"    -> \/ i.slot \in values
                                 \/ i.slot \in A \cap SlotsOf(tx, n, {"unique"})
          [] i.do = "ret"     -> A \subseteq {-1, 0} /\ (i.value <=> 0 \in A)
          [] OTHER -> i.to[1] \in 1..Len(T) /\ A = T[i.to[1]]

After(i, A, tx) ==
    CASE i.do = "new"     -> IF Kind[tx[i.at].v] = "value" THEN A ELSE A \cup {i.slot}
      [] i.do \in {"move", "share"} -> A \cup {i.slot}
      [] i.do = "again"   -> A \cup {-1}
      [] i.do = "read"    -> A \cup {-1, 0}
      [] i.do = "store"   -> (A \ {0}) \cup {i.slot}
      [] i.do \in {"put", "graft"} -> A \ {0}
      [] i.do = "release" -> A \ {i.slot}
      [] OTHER -> A

Leaves(i) == i.do \in {"jmp", "ret"}

\* S has what owns an object ahead of each instruction of c, and at its end.
Flow(c, S, T, tx, n) ==
    /\ c \in Seq(Instrs(n))
    /\ S \in [1..(Len(c) + 1) -> States(tx, n)] /\ S[1] = {}
    /\ \A i \in 1..Len(c) :
          /\ Fits(c[i], S[i], T, tx, n)
          /\ ~Leaves(c[i]) => S[i + 1] = After(c[i], S[i], tx)
          /\ c[i].do = "again" => /\ i > 1 /\ c[i - 1].do = "share"
                                  /\ c[i - 1].from = c[i].from /\ c[i - 1].slot = 0

\* The code made so far can be typed, and A owns at its end.
Made(g, A, T, tx, n) ==
    /\ A \in States(tx, n)
    /\ \E S : /\ Flow(g.code, S, T, tx, n)
              /\ g.live => S[Len(g.code) + 1] = A
              /\ ~g.live => Len(g.code) > 0 /\ Leaves(g.code[Len(g.code)])

Entries == [name : Names, slot : Nat, how : {"none", "drop", "release"}]
Frames  == [kind : ScopeKinds, at : Nat, entries : Seq(Entries)]
GenStates(n) == [code : Seq(Instrs(n)), frames : Seq(Frames),
                 sym : [Names -> Nat], live : BOOLEAN]

Jumps(c)  == {c[i].to : i \in {i \in DOMAIN c : c[i].do \in {"jmp", "br"}}}
Placed(c) == {c[i].to : i \in {i \in DOMAIN c : c[i].do = "label"}}

Control == {"jmp", "br", "label"}

\* h went on from g with instructions that are no jumps and no labels.
Plain(g, h) ==
    /\ h.frames = g.frames /\ h.sym = g.sym /\ h.live = g.live
    /\ Jumps(h.code) = Jumps(g.code) /\ Placed(h.code) = Placed(g.code)

LEMMA PlainIsTransitive ==
    ASSUME NEW g, NEW h, NEW k, Plain(g, h), Plain(h, k) PROVE Plain(g, k)
BY DEF Plain

LEMMA PlainSelf == ASSUME NEW g PROVE Plain(g, g)
BY DEF Plain

LEMMA Appended ==
    ASSUME NEW n, NEW c \in Seq(Instrs(n)), NEW i \in Instrs(n)
    PROVE  /\ Append(c, i) \in Seq(Instrs(n)) /\ Len(Append(c, i)) = Len(c) + 1
           /\ \A j \in 1..Len(c) : Append(c, i)[j] = c[j]
           /\ Append(c, i)[Len(c) + 1] = i /\ Len(c) \in Nat
OBVIOUS

LEMMA Jumped ==
    ASSUME NEW n, NEW c \in Seq(Instrs(n)), NEW i \in Instrs(n)
    PROVE  /\ i.do \in {"jmp", "br"} => Jumps(Append(c, i)) = Jumps(c) \cup {i.to}
           /\ i.do \notin {"jmp", "br"} => Jumps(Append(c, i)) = Jumps(c)
           /\ i.do = "label" => Placed(Append(c, i)) = Placed(c) \cup {i.to}
           /\ i.do # "label" => Placed(Append(c, i)) = Placed(c)
<1>. DEFINE e == Append(c, i)
<1>1. /\ e \in Seq(Instrs(n)) /\ Len(e) = Len(c) + 1
      /\ \A j \in 1..Len(c) : e[j] = c[j]
      /\ e[Len(c) + 1] = i /\ Len(c) \in Nat
  BY Appended
<1>. HIDE DEF e
<1>2. DOMAIN e = DOMAIN c \cup {Len(c) + 1} /\ DOMAIN c = 1..Len(c)
  BY <1>1
<1>3. /\ i.do \in {"jmp", "br"} => Jumps(e) = Jumps(c) \cup {i.to}
      /\ i.do \notin {"jmp", "br"} => Jumps(e) = Jumps(c)
  BY <1>1, <1>2 DEF Jumps
<1>4. /\ i.do = "label" => Placed(e) = Placed(c) \cup {i.to}
      /\ i.do # "label" => Placed(e) = Placed(c)
  BY <1>1, <1>2 DEF Placed
<1>. QED
  BY <1>3, <1>4 DEF e

\* One instruction more.
LEMMA FlowAppend ==
    ASSUME NEW n, NEW c, NEW S, NEW T, NEW tx, Flow(c, S, T, tx, n),
           NEW i \in Instrs(n), NEW B \in States(tx, n),
           Fits(i, S[Len(c) + 1], T, tx, n),
           ~Leaves(i) => B = After(i, S[Len(c) + 1], tx),
           i.do = "again" => /\ Len(c) > 0 /\ c[Len(c)].do = "share"
                             /\ c[Len(c)].from = i.from /\ c[Len(c)].slot = 0
    PROVE  \E R : Flow(Append(c, i), R, T, tx, n) /\ R[Len(c) + 2] = B
<1>. DEFINE e == Append(c, i)
            m == Len(c) + 1
            R == [j \in 1..(m + 1) |-> IF j = m + 1 THEN B ELSE S[j]]
<1>1. /\ e \in Seq(Instrs(n)) /\ Len(e) = m /\ m \in Nat /\ m > 0 /\ Len(c) \in Nat
      /\ \A j \in 1..Len(c) : e[j] = c[j]
      /\ e[m] = i
  BY Appended DEF Flow
<1>2. /\ S \in [1..m -> States(tx, n)] /\ S[1] = {}
      /\ \A j \in 1..Len(c) :
            /\ Fits(c[j], S[j], T, tx, n)
            /\ ~Leaves(c[j]) => S[j + 1] = After(c[j], S[j], tx)
            /\ c[j].do = "again" => /\ j > 1 /\ c[j - 1].do = "share"
                                    /\ c[j - 1].from = c[j].from /\ c[j - 1].slot = 0
  BY DEF Flow
<1>3. /\ R \in [1..(m + 1) -> States(tx, n)] /\ R[1] = {} /\ R[m + 1] = B
      /\ \A j \in 1..m : R[j] = S[j]
  BY <1>1, <1>2
<1>. HIDE DEF R, e
<1>4. ASSUME NEW j \in 1..m
      PROVE  /\ Fits(e[j], R[j], T, tx, n)
             /\ ~Leaves(e[j]) => R[j + 1] = After(e[j], R[j], tx)
             /\ e[j].do = "again" => /\ j > 1 /\ e[j - 1].do = "share"
                                     /\ e[j - 1].from = e[j].from /\ e[j - 1].slot = 0
  <2>1. CASE j = m
    <3>1. e[j] = i /\ R[j] = S[m] /\ R[j + 1] = B /\ j - 1 = Len(c)
      BY <1>1, <1>3, <2>1
    <3>2. i.do = "again" => j > 1 /\ e[j - 1] = c[Len(c)]
      BY <1>1, <2>1
    <3>. QED
      BY <2>1, <3>1, <3>2
  <2>2. CASE j # m
    <3>1. j \in 1..Len(c) /\ j + 1 \in 1..m
      BY <1>1, <2>2
    <3>2. e[j] = c[j] /\ R[j] = S[j] /\ R[j + 1] = S[j + 1]
      BY <1>1, <1>3, <3>1
    <3>3. j > 1 => j - 1 \in 1..Len(c) /\ e[j - 1] = c[j - 1]
      BY <1>1, <3>1
    <3>. QED
      BY <1>2, <3>1, <3>2, <3>3
  <2>. QED
    BY <2>1, <2>2
<1>5. Flow(e, R, T, tx, n)
  BY <1>1, <1>3, <1>4 DEF Flow
<1>6. m + 1 = Len(c) + 2
  BY <1>1
<1>. QED
  BY <1>3, <1>5, <1>6 DEF e

LEMMA AfterState ==
    ASSUME NEW n, NEW tx, NEW T, NEW i, NEW A \in States(tx, n), Fits(i, A, T, tx, n)
    PROVE  After(i, A, tx) \in States(tx, n)
<1>. DEFINE own == SlotsOf(tx, n, Pointers)
<1>1. A \subseteq {-1, 0} \cup own /\ (-1 \in A => 0 \in A)
  BY DEF States
<1>2. \A k \in own : k \in 1..n
  BY DEF SlotsOf
<1>. HIDE DEF own
<1>3. SUFFICES /\ After(i, A, tx) \subseteq {-1, 0} \cup own
               /\ -1 \in After(i, A, tx) => 0 \in After(i, A, tx)
  BY DEF States, own
<1>4. CASE i.do = "new"
  <2>1. Kind[tx[i.at].v] # "value" => i.slot \in {0} \cup own
    BY <1>4 DEF Fits, own
  <2>. QED  BY <1>1, <1>2, <1>4, <2>1 DEF After
<1>5. CASE i.do \in {"move", "share"}
  <2>1. i.slot \in {0} \cup own
    BY <1>5 DEF Fits, own
  <2>. QED  BY <1>1, <1>2, <1>5, <2>1 DEF After
<1>6. CASE i.do = "again"
  BY <1>1, <1>6 DEF After, Fits
<1>7. CASE i.do = "read"
  BY <1>1, <1>7 DEF After, Fits
<1>8. CASE i.do = "store"
  <2>1. i.slot \in own /\ -1 \notin A
    BY <1>8 DEF Fits, own
  <2>. QED  BY <1>1, <1>2, <1>8, <2>1 DEF After
<1>9. CASE i.do = "release"
  <2>1. i.slot \in own
    BY <1>9 DEF Fits, own
  <2>2. i.slot # 0
    BY <1>2, <2>1
  <2>. QED  BY <1>1, <1>9, <2>2 DEF After
<1>11. CASE i.do \in {"put", "graft"}
  <2>1. -1 \notin A
    BY <1>11 DEF Fits
  <2>. QED  BY <1>1, <1>11, <2>1 DEF After
<1>10. CASE i.do \notin {"new", "move", "share", "again", "read", "store", "put", "graft",
                          "release"}
  BY <1>1, <1>10 DEF After
<1>. QED
  BY <1>4, <1>5, <1>6, <1>7, <1>8, <1>9, <1>10, <1>11

\* The text goes on: what was typed stays so.
LEMMA FitsExtends ==
    ASSUME NEW n, NEW V, NEW tx \in Seq(V), NEW s \in V, NEW U, NEW T \in Seq(U), NEW u \in U,
           NEW i, NEW A, Fits(i, A, T, tx, n)
    PROVE  Fits(i, A, Append(T, u), Append(tx, s), n)
<1>. DEFINE t2 == Append(tx, s)
            T2 == Append(T, u)
<1>1. /\ Len(t2) = Len(tx) + 1 /\ Len(tx) \in Nat
      /\ \A k \in 1..Len(tx) : t2[k] = tx[k]
  OBVIOUS
<1>2. /\ Len(T2) = Len(T) + 1 /\ Len(T) \in Nat
      /\ \A k \in 1..Len(T) : T2[k] = T[k]
  OBVIOUS
<1>. HIDE DEF t2, T2
<1>3. \A kinds : SlotsOf(tx, n, kinds) \subseteq SlotsOf(t2, n, kinds)
  BY <1>1 DEF SlotsOf
<1>4. CASE i.do = "new"
  BY <1>1, <1>3, <1>4 DEF Fits, t2, T2
<1>5. CASE i.do \in {"move", "share"}
  BY <1>3, <1>5 DEF Fits, t2, T2
<1>6. CASE i.do \in {"again", "read", "refer", "store", "put", "graft"}
  BY <1>3, <1>6 DEF Fits, t2, T2
<1>7. CASE i.do \in {"release", "drop", "give", "ret"}
  BY <1>3, <1>7 DEF Fits, t2, T2
<1>9. CASE i.do \in {"use", "write"}
  BY <1>1, <1>3, <1>9 DEF Fits, t2, T2
<1>8. CASE i.do \notin {"new", "move", "share", "again", "read", "refer", "store", "put",
                         "graft", "use", "write", "release", "drop", "give", "ret"}
  BY <1>2, <1>8 DEF Fits, t2, T2
<1>. QED
  BY <1>4, <1>5, <1>6, <1>7, <1>8, <1>9

LEMMA MadeExtends ==
    ASSUME NEW n, NEW V, NEW tx \in Seq(V), NEW s \in V, NEW U, NEW T \in Seq(U), NEW u \in U,
           NEW g, NEW A, Made(g, A, T, tx, n)
    PROVE  Made(g, A, Append(T, u), Append(tx, s), n)
<1>. DEFINE t2 == Append(tx, s)
            T2 == Append(T, u)
<1>1. States(tx, n) \subseteq States(t2, n)
  <2>1. /\ Len(t2) = Len(tx) + 1 /\ Len(tx) \in Nat
        /\ \A k \in 1..Len(tx) : t2[k] = tx[k]
    OBVIOUS
  <2>. HIDE DEF t2
  <2>. QED  BY <2>1 DEF States, SlotsOf
<1>2. PICK S : /\ Flow(g.code, S, T, tx, n)
               /\ g.live => S[Len(g.code) + 1] = A
               /\ ~g.live => Len(g.code) > 0 /\ Leaves(g.code[Len(g.code)])
  BY DEF Made
<1>3. \A i \in 1..Len(g.code) : Fits(g.code[i], S[i], T2, t2, n)
  BY <1>2, FitsExtends DEF Flow
<1>4. ASSUME NEW i \in 1..Len(g.code)
      PROVE  After(g.code[i], S[i], t2) = After(g.code[i], S[i], tx)
  <2>1. g.code[i].do = "new" => tx[g.code[i].at] = t2[g.code[i].at]
    <3>1. g.code[i].do = "new" => g.code[i].at \in 1..Len(tx)
      BY <1>2 DEF Flow, Fits
    <3>2. \A k \in 1..Len(tx) : t2[k] = tx[k]
      OBVIOUS
    <3>. HIDE DEF t2
    <3>. QED  BY <3>1, <3>2
  <2>. HIDE DEF t2
  <2>. QED
    BY <2>1 DEF After
<1>. HIDE DEF t2, T2
<1>5. S \in [1..(Len(g.code) + 1) -> States(t2, n)]
  BY <1>1, <1>2 DEF Flow
<1>6. Flow(g.code, S, T2, t2, n)
  BY <1>2, <1>3, <1>4, <1>5 DEF Flow
<1>7. A \in States(t2, n)
  BY <1>1 DEF Made
<1>. QED
  BY <1>2, <1>6, <1>7 DEF Made, t2, T2

LEMMA GenType ==
    ASSUME NEW n, NEW g \in GenStates(n)
    PROVE  /\ g.code \in Seq(Instrs(n)) /\ g.frames \in Seq(Frames)
           /\ g.sym \in [Names -> Nat] /\ g.live \in BOOLEAN
BY DEF GenStates

\* Emit with one instruction, for a builder that has an insertion point or not.
LEMMA EmitOne ==
    ASSUME NEW n, NEW g \in GenStates(n), NEW i \in Instrs(n)
    PROVE  LET h == Emit(g, <<i>>)
           IN  /\ h \in GenStates(n) /\ h.frames = g.frames /\ h.sym = g.sym
               /\ h.live = g.live
               /\ h.code = IF g.live THEN Append(g.code, i) ELSE g.code
<1>1. g.code \in Seq(Instrs(n)) /\ g.live \in BOOLEAN
  BY GenType
<1>2. g.code \o <<i>> = Append(g.code, i) /\ Append(g.code, i) \in Seq(Instrs(n))
  BY <1>1
<1>3. CASE g.live
  <2>1. Emit(g, <<i>>) = [g EXCEPT !.code = Append(g.code, i)]
    BY <1>2, <1>3 DEF Emit
  <2>. QED
    BY <1>2, <1>3, <2>1 DEF GenStates
<1>4. CASE ~g.live
  BY <1>4 DEF Emit
<1>. QED
  BY <1>1, <1>3, <1>4

LEMMA EmitPlain ==
    ASSUME NEW n, NEW g \in GenStates(n), NEW i \in Instrs(n), i.do \notin Control
    PROVE  Plain(g, Emit(g, <<i>>))
<1>. DEFINE h == Emit(g, <<i>>)
<1>1. /\ h.frames = g.frames /\ h.sym = g.sym /\ h.live = g.live
      /\ h.code = IF g.live THEN Append(g.code, i) ELSE g.code
  BY EmitOne
<1>2. g.code \in Seq(Instrs(n))
  BY GenType
<1>. HIDE DEF h
<1>3. Jumps(h.code) = Jumps(g.code) /\ Placed(h.code) = Placed(g.code)
  BY <1>1, <1>2, Jumped DEF Control
<1>. QED
  BY <1>1, <1>3 DEF Plain, h

\* Typing one instruction more.
LEMMA EmitMade ==
    ASSUME NEW n, NEW g \in GenStates(n), NEW T, NEW tx, NEW A, Made(g, A, T, tx, n),
           NEW i \in Instrs(n), NEW B \in States(tx, n),
           Fits(i, A, T, tx, n), ~Leaves(i) => B = After(i, A, tx),
           i.do = "again" /\ g.live => /\ Len(g.code) > 0
                                       /\ g.code[Len(g.code)].do = "share"
                                       /\ g.code[Len(g.code)].from = i.from
                                       /\ g.code[Len(g.code)].slot = 0
    PROVE  Made(Emit(g, <<i>>), B, T, tx, n)
<1>. DEFINE h == Emit(g, <<i>>)
<1>1. h.live = g.live /\ h.code = IF g.live THEN Append(g.code, i) ELSE g.code
  BY EmitOne
<1>2. g.code \in Seq(Instrs(n)) /\ g.live \in BOOLEAN
  BY GenType
<1>3. PICK S : /\ Flow(g.code, S, T, tx, n)
               /\ g.live => S[Len(g.code) + 1] = A
               /\ ~g.live => Len(g.code) > 0 /\ Leaves(g.code[Len(g.code)])
  BY DEF Made
<1>. HIDE DEF h
<1>4. CASE g.live
  <2>1. PICK R : Flow(Append(g.code, i), R, T, tx, n) /\ R[Len(g.code) + 2] = B
    BY <1>3, <1>4, FlowAppend
  <2>2. Len(h.code) + 1 = Len(g.code) + 2
    BY <1>1, <1>2, <1>4
  <2>. QED
    BY <1>1, <1>4, <2>1, <2>2 DEF Made, h
<1>5. CASE ~g.live
  BY <1>1, <1>3, <1>5 DEF Made, h
<1>. QED
  BY <1>4, <1>5

\* The instruction after which nothing is emitted until a label.
LEMMA StopMade ==
    ASSUME NEW n, NEW g \in GenStates(n), NEW T, NEW tx, NEW A, Made(g, A, T, tx, n),
           NEW i \in Instrs(n), NEW B \in States(tx, n),
           Leaves(i), Fits(i, A, T, tx, n)
    PROVE  LET h == Stop(Emit(g, <<i>>))
           IN  /\ h \in GenStates(n) /\ Made(h, B, T, tx, n) /\ ~h.live
               /\ h.frames = g.frames /\ h.sym = g.sym
               /\ h.code = Emit(g, <<i>>).code
<1>. DEFINE e == Emit(g, <<i>>)
            h == Stop(e)
<1>1. Made(e, A, T, tx, n)
  <2>1. A \in States(tx, n) /\ i.do # "again"
    BY DEF Made, Leaves
  <2>. QED  BY <2>1, EmitMade
<1>2. /\ e \in GenStates(n) /\ e.live = g.live
      /\ e.frames = g.frames /\ e.sym = g.sym
      /\ e.code = IF g.live THEN Append(g.code, i) ELSE g.code
  BY EmitOne
<1>3. g.code \in Seq(Instrs(n)) /\ g.live \in BOOLEAN
  BY GenType
<1>. HIDE DEF e
<1>4. h \in GenStates(n) /\ h.code = e.code /\ ~h.live /\ h.frames = e.frames /\ h.sym = e.sym
  BY <1>2 DEF Stop, GenStates
<1>5. PICK S : /\ Flow(e.code, S, T, tx, n)
               /\ ~e.live => Len(e.code) > 0 /\ Leaves(e.code[Len(e.code)])
  BY <1>1 DEF Made
<1>6. Len(e.code) > 0 /\ Leaves(e.code[Len(e.code)])
  <2>1. CASE g.live
    <3>1. Len(e.code) = Len(g.code) + 1 /\ e.code[Len(e.code)] = i /\ Len(g.code) \in Nat
      BY <1>2, <1>3, <2>1
    <3>. QED  BY <3>1
  <2>. QED
    BY <1>2, <1>5, <2>1
<1>7. Made(h, B, T, tx, n)
  BY <1>4, <1>5, <1>6 DEF Made
<1>. QED
  BY <1>2, <1>4, <1>7 DEF e

\* At a label, what T says owns.
LEMMA LabelMade ==
    ASSUME NEW n, NEW g \in GenStates(n), NEW T, NEW tx, NEW A, Made(g, A, T, tx, n),
           NEW at \in Nat, NEW w \in Labels, at \in 1..Len(T), T[at] = A
    PROVE  LET h == Label(g, at, w)
           IN  /\ h \in GenStates(n) /\ Made(h, A, T, tx, n)
               /\ h.frames = g.frames /\ h.sym = g.sym
               /\ Jumps(h.code) = Jumps(g.code)
               /\ Placed(h.code) = Placed(g.code) \cup {<<at, w>>}
<1>. DEFINE i == [do |-> "label", to |-> <<at, w>>]
            h == Label(g, at, w)
<1>1. i \in Instrs(n) /\ i.do = "label" /\ i.to = <<at, w>> /\ i.to[1] = at
  BY DEF Instrs
<1>. HIDE DEF i
<1>2. g.code \in Seq(Instrs(n)) /\ g.live \in BOOLEAN /\ Append(g.code, i) \in Seq(Instrs(n))
  BY <1>1, GenType
<1>3. h = [g EXCEPT !.code = Append(g.code, i), !.live = TRUE]
  BY DEF Label, i
<1>4. /\ h \in GenStates(n) /\ h.code = Append(g.code, i) /\ h.live = TRUE
      /\ h.frames = g.frames /\ h.sym = g.sym
  BY <1>2, <1>3 DEF GenStates
<1>5. PICK S : /\ Flow(g.code, S, T, tx, n)
               /\ g.live => S[Len(g.code) + 1] = A
               /\ ~g.live => Len(g.code) > 0 /\ Leaves(g.code[Len(g.code)])
  BY DEF Made
<1>6. A \in States(tx, n)
  BY DEF Made
<1>. DEFINE m == Len(g.code) + 1
            R == [S EXCEPT ![m] = A]
<1>7. Flow(g.code, R, T, tx, n) /\ R[m] = A
  <2>1. m \in Nat /\ Len(g.code) \in Nat /\ m \in 1..m
    BY <1>2
  <2>2. S \in [1..m -> States(tx, n)]
    BY <1>5 DEF Flow
  <2>3. /\ R \in [1..m -> States(tx, n)] /\ R[m] = A
        /\ \A j \in 1..Len(g.code) : R[j] = S[j]
    BY <1>6, <2>1, <2>2
  <2>4. R = S \/ ~g.live
    BY <1>5, <2>1, <2>2
  <2>5. CASE ~g.live
    <3>1. Len(g.code) > 0 /\ Leaves(g.code[Len(g.code)])
      BY <1>5, <2>5
    <3>2. \A j \in 1..Len(g.code) : ~Leaves(g.code[j]) => j + 1 \in 1..Len(g.code)
      BY <2>1, <3>1
    <3>3. R[1] = S[1]
      BY <2>1, <2>3, <3>1
    <3>. HIDE DEF R, m
    <3>4. \A j \in 1..Len(g.code) :
            /\ Fits(g.code[j], R[j], T, tx, n)
            /\ ~Leaves(g.code[j]) => R[j + 1] = After(g.code[j], R[j], tx)
            /\ g.code[j].do = "again" => /\ j > 1 /\ g.code[j - 1].do = "share"
                                         /\ g.code[j - 1].from = g.code[j].from /\ g.code[j - 1].slot = 0
      BY <1>5, <2>3, <3>2 DEF Flow
    <3>5. S[1] = {} /\ g.code \in Seq(Instrs(n))
      BY <1>5 DEF Flow
    <3>6. R \in [1..(Len(g.code) + 1) -> States(tx, n)]
      BY <2>3 DEF m
    <3>. QED
      BY <2>3, <3>3, <3>4, <3>5, <3>6 DEF Flow
  <2>. QED
    BY <1>5, <2>3, <2>4, <2>5
<1>. HIDE DEF R, m
<1>8. Fits(i, A, T, tx, n) /\ ~Leaves(i) /\ After(i, A, tx) = A
  BY <1>1 DEF Fits, Leaves, After
<1>9. PICK Q : Flow(Append(g.code, i), Q, T, tx, n) /\ Q[Len(g.code) + 2] = A
  BY <1>1, <1>6, <1>7, <1>8, FlowAppend DEF m
<1>10. Len(h.code) + 1 = Len(g.code) + 2
  BY <1>1, <1>2, <1>4
<1>. HIDE DEF h
<1>11. Made(h, A, T, tx, n)
  BY <1>4, <1>6, <1>9, <1>10 DEF Made
<1>12. Jumps(h.code) = Jumps(g.code) /\ Placed(h.code) = Placed(g.code) \cup {<<at, w>>}
  <2>1. i.do = "label" /\ i.do \notin {"jmp", "br"} /\ i \in Instrs(n)
    BY <1>1
  <2>2. /\ Jumps(Append(g.code, i)) = Jumps(g.code)
        /\ Placed(Append(g.code, i)) = Placed(g.code) \cup {i.to}
    BY <1>2, <2>1, Jumped
  <2>. QED  BY <1>1, <1>4, <2>2
<1>. QED
  BY <1>4, <1>11, <1>12 DEF h

-----------------------------------------------------------------------------
(* Unwinding                                                               *)

\* The slots of entries that are released, from entry lo on.
ReleasedFrom(entries, lo) ==
    {entries[j].slot : j \in {j \in lo..Len(entries) : entries[j].how = "release"}}

Released(entries) == ReleasedFrom(entries, 1)

\* What the frames from lo to hi own.
Owned(frames, lo, hi) == UNION {Released(frames[d].entries) : d \in lo..hi}

\* Every entry releases the slot of its own declaration, and no other entry
\* has the slot.
EntryFits(e, tx, n) ==
    /\ e.how = "release" => e.slot \in SlotsOf(tx, n, Pointers)
    /\ e.how = "drop" => e.slot \in SlotsOf(tx, n, {"value"})

FramesFit(frames, tx, n) ==
    \A d \in 1..Len(frames) : \A j \in 1..Len(frames[d].entries) :
        /\ EntryFits(frames[d].entries[j], tx, n)
        /\ \A b \in 1..Len(frames) : \A k \in 1..Len(frames[b].entries) :
              frames[b].entries[k].slot = frames[d].entries[j].slot => b = d /\ k = j

\* One entry of a scope that is left.
Dropped(h, e, at) ==
    IF e.how = "none" THEN h
    ELSE Emit(h, <<[do |-> e.how, slot |-> e.slot, at |-> at]>>)

IsCleanup(f, m, g, entries, at) ==
    f = [k \in m..Len(entries) |-> IF k = Len(entries) THEN g
                                   ELSE Dropped(f[k + 1], entries[k + 1], at)]

LEMMA CleanupExists ==
    ASSUME NEW g, NEW entries \in Seq(Entries), NEW at
    PROVE  \E f : IsCleanup(f, 0, g, entries, at)
<1>. DEFINE b == Len(entries)
            S == {m \in 0..b : \E f : IsCleanup(f, m, g, entries, at)}
<1>0. b \in Nat
  OBVIOUS
<1>. HIDE DEF b
<1>1. b \in S
  <2>. DEFINE f == [k \in b..b |-> g]
  <2>1. f = [k \in b..b |-> IF k = b THEN g ELSE Dropped(f[k + 1], entries[k + 1], at)]
    BY <1>0
  <2>2. IsCleanup(f, b, g, entries, at)
    <3>. HIDE DEF f
    <3>. QED  BY <2>1 DEF IsCleanup, b
  <2>. QED
    BY <1>0, <2>2
<1>2. ASSUME NEW m \in 0..b, m \in S, 0 < m PROVE m - 1 \in S
  <2>1. PICK f : IsCleanup(f, m, g, entries, at)
    BY <1>2
  <2>. DEFINE e == [k \in (m - 1)..b |->
                      IF k = m - 1 THEN Dropped(f[m], entries[m], at) ELSE f[k]]
              next(h, k) == IF k = b THEN g ELSE Dropped(h[k + 1], entries[k + 1], at)
  <2>2. \A k \in m..b : f[k] = next(f, k)
    BY <2>1 DEF IsCleanup, b
  <2>3. ASSUME NEW k \in (m - 1)..b PROVE e[k] = next(e, k)
    <3>1. CASE k = m - 1
      <4>1. k # b /\ k + 1 = m /\ e[m] = f[m] /\ e[k] = Dropped(f[m], entries[m], at)
        BY <1>0, <3>1
      <4>. QED  BY <4>1
    <3>2. CASE k # m - 1 /\ k # b
      <4>1. /\ k \in m..b /\ k + 1 \in m..b /\ k + 1 # m - 1
            /\ e[k + 1] = f[k + 1] /\ e[k] = f[k]
        BY <1>0, <3>2
      <4>. QED  BY <2>2, <3>2, <4>1
    <3>3. CASE k # m - 1 /\ k = b
      BY <1>0, <2>2, <3>3
    <3>. QED  BY <3>1, <3>2, <3>3
  <2>4. e = [k \in (m - 1)..b |-> next(e, k)]
    <3>1. e = [k \in (m - 1)..b |-> e[k]]
      OBVIOUS
    <3>. HIDE DEF e, next
    <3>. QED  BY <2>3, <3>1
  <2>5. IsCleanup(e, m - 1, g, entries, at)
    <3>. HIDE DEF e
    <3>. QED  BY <2>4 DEF IsCleanup, b
  <2>6. m - 1 \in 0..b
    BY <1>0, <1>2
  <2>. QED
    <3>. HIDE DEF e
    <3>. QED  BY <2>5, <2>6
<1>. HIDE DEF S
<1>3. \A m \in 0..b : m \in S
  BY <1>0, <1>1, <1>2, DownTo
<1>4. 0 \in S
  BY <1>0, <1>3
<1>. QED
  BY <1>4 DEF S

Cleans(f, g, entries, at) ==
    /\ f[Len(entries)] = g
    /\ \A k \in 0..(Len(entries) - 1) : f[k] = Dropped(f[k + 1], entries[k + 1], at)
    /\ Cleanup(g, entries, at) = f[0]

LEMMA CleanupIs ==
    ASSUME NEW g, NEW entries \in Seq(Entries), NEW at
    PROVE  \E f : Cleans(f, g, entries, at)
<1>. DEFINE f == CHOOSE h : IsCleanup(h, 0, g, entries, at)
<1>1. IsCleanup(f, 0, g, entries, at)
  BY CleanupExists
<1>2. Cleanup(g, entries, at) = f[0]
  BY DEF Cleanup, IsCleanup, Dropped
<1>. HIDE DEF f
<1>3. \A k \in 0..Len(entries) :
         f[k] = IF k = Len(entries) THEN g ELSE Dropped(f[k + 1], entries[k + 1], at)
  BY <1>1 DEF IsCleanup
<1>4. Cleans(f, g, entries, at)
  BY <1>2, <1>3 DEF Cleans
<1>. QED
  BY <1>4

\* What an entry releases no longer owns.
LEMMA DroppedMade ==
    ASSUME NEW n, NEW g \in GenStates(n), NEW T, NEW tx, NEW A, Made(g, A, T, tx, n),
           NEW e \in Entries, EntryFits(e, tx, n), e.how = "release" => e.slot \in A,
           NEW at \in Nat
    PROVE  LET h == Dropped(g, e, at)
           IN  /\ h \in GenStates(n) /\ Plain(g, h)
               /\ Made(h, IF e.how = "release" THEN A \ {e.slot} ELSE A, T, tx, n)
<1>. DEFINE i == [do |-> e.how, slot |-> e.slot, at |-> at]
<1>1. e.how \in {"none", "drop", "release"} /\ e.slot \in Nat
  BY DEF Entries
<1>2. CASE e.how = "none"
  BY <1>2, PlainSelf DEF Dropped
<1>3. CASE e.how # "none"
  <2>1. e.slot \in 0..n
    BY <1>1, <1>3 DEF EntryFits, SlotsOf
  <2>2. /\ i \in Instrs(n) /\ i.do = e.how /\ i.slot = e.slot /\ i.do \notin Control
        /\ ~Leaves(i) /\ i.do # "again"
    BY <1>1, <1>3, <2>1 DEF Instrs, Control, Leaves
  <2>. HIDE DEF i
  <2>3. Fits(i, A, T, tx, n)
    BY <1>1, <1>3, <2>2 DEF Fits, EntryFits
  <2>4. After(i, A, tx) = IF e.how = "release" THEN A \ {e.slot} ELSE A
    BY <1>1, <1>3, <2>2 DEF After
  <2>5. A \in States(tx, n)
    BY DEF Made
  <2>6. After(i, A, tx) \in States(tx, n)
    BY <2>3, <2>5, AfterState
  <2>7. Made(Emit(g, <<i>>), After(i, A, tx), T, tx, n)
    BY <2>2, <2>3, <2>6, EmitMade
  <2>8. Emit(g, <<i>>) \in GenStates(n)
    BY <2>2, EmitOne
  <2>9. Plain(g, Emit(g, <<i>>))
    BY <2>2, EmitPlain
  <2>10. Dropped(g, e, at) = Emit(g, <<i>>)
    BY <1>3 DEF Dropped, i
  <2>. QED
    BY <2>4, <2>7, <2>8, <2>9, <2>10
<1>. QED
  BY <1>2, <1>3

LEMMA CleanupMade ==
    ASSUME NEW n, NEW g \in GenStates(n), NEW T, NEW tx, NEW A, Made(g, A, T, tx, n),
           NEW entries \in Seq(Entries), NEW at \in Nat,
           \A j \in 1..Len(entries) :
              /\ EntryFits(entries[j], tx, n)
              /\ \A k \in 1..Len(entries) : entries[k].slot = entries[j].slot => k = j,
           Released(entries) \subseteq A
    PROVE  LET h == Cleanup(g, entries, at)
           IN  /\ h \in GenStates(n) /\ Plain(g, h)
               /\ Made(h, A \ Released(entries), T, tx, n)
<1>. DEFINE b == Len(entries)
            rest(m) == ReleasedFrom(entries, m + 1)
<1>0a. PICK f : Cleans(f, g, entries, at)
  BY CleanupIs
<1>1. /\ f[b] = g
      /\ \A k \in 0..(b - 1) : f[k] = Dropped(f[k + 1], entries[k + 1], at)
      /\ Cleanup(g, entries, at) = f[0]
  BY <1>0a DEF Cleans
<1>. DEFINE S == {m \in 0..b : /\ f[m] \in GenStates(n) /\ Plain(g, f[m])
                               /\ Made(f[m], A \ rest(m), T, tx, n)}
<1>0. b \in Nat /\ \A j \in 1..b : entries[j] \in Entries
  OBVIOUS
<1>2. b \in S
  <2>1. rest(b) = {}
    BY <1>0 DEF ReleasedFrom
  <2>2. A \ rest(b) = A
    BY <2>1
  <2>3. f[b] \in GenStates(n) /\ Plain(g, f[b]) /\ Made(f[b], A, T, tx, n)
    BY <1>1, PlainSelf
  <2>4. b \in 0..b
    BY <1>0
  <2>. HIDE DEF rest, b
  <2>. QED
    BY <2>2, <2>3, <2>4
<1>3. ASSUME NEW m \in 0..b, m \in S, 0 < m PROVE m - 1 \in S
  <2>. DEFINE e == entries[m]
              B == A \ rest(m)
  <2>1. m \in 1..b /\ m - 1 \in 0..(b - 1) /\ m - 1 + 1 = m /\ m - 1 \in 0..b
    BY <1>0, <1>3
  <2>2. f[m - 1] = Dropped(f[m], e, at)
    BY <1>1, <2>1
  <2>3. f[m] \in GenStates(n) /\ Plain(g, f[m]) /\ Made(f[m], B, T, tx, n)
    BY <1>3
  <2>4. e \in Entries /\ EntryFits(e, tx, n)
    BY <1>0, <2>1
  <2>5. rest(m - 1) = IF e.how = "release" THEN rest(m) \cup {e.slot} ELSE rest(m)
    <3>1. m..b = (m + 1)..b \cup {m}
      BY <2>1, <1>0
    <3>2. {j \in m..b : entries[j].how = "release"} =
             {j \in (m + 1)..b : entries[j].how = "release"}
             \cup {j \in {m} : entries[j].how = "release"}
      BY <3>1
    <3>. HIDE DEF b
    <3>3. rest(m - 1) = {entries[j].slot : j \in {j \in m..b : entries[j].how = "release"}}
      BY <2>1 DEF ReleasedFrom, b
    <3>4. rest(m) = {entries[j].slot : j \in {j \in (m + 1)..b : entries[j].how = "release"}}
      BY DEF ReleasedFrom, b
    <3>. HIDE DEF rest
    <3>. QED
      BY <3>2, <3>3, <3>4
  <2>6. e.how = "release" => e.slot \in B
    <3>. SUFFICES ASSUME e.how = "release" PROVE e.slot \in A /\ e.slot \notin rest(m)
      OBVIOUS
    <3>1. e.slot \in A
      BY <2>1 DEF Released, ReleasedFrom
    <3>2. \A j \in (m + 1)..b : j \in 1..b /\ j # m
      BY <1>0, <2>1
    <3>3. \A j \in (m + 1)..b : entries[j].slot # e.slot
      BY <2>1, <3>2
    <3>4. e.slot \notin rest(m)
      BY <3>3 DEF ReleasedFrom
    <3>. QED
      BY <3>1, <3>4
  <2>. HIDE DEF e, B
  <2>7. LET h == Dropped(f[m], e, at)
        IN  /\ h \in GenStates(n) /\ Plain(f[m], h)
            /\ Made(h, IF e.how = "release" THEN B \ {e.slot} ELSE B, T, tx, n)
    BY <2>3, <2>4, <2>6, DroppedMade
  <2>8. (IF e.how = "release" THEN B \ {e.slot} ELSE B) = A \ rest(m - 1)
    <3>. HIDE DEF rest
    <3>. QED  BY <2>5 DEF B
  <2>. HIDE DEF rest
  <2>9. /\ f[m - 1] \in GenStates(n) /\ Plain(f[m], f[m - 1])
        /\ Made(f[m - 1], A \ rest(m - 1), T, tx, n)
    BY <2>2, <2>7, <2>8
  <2>10. Plain(g, f[m - 1])
    BY <2>3, <2>9, PlainIsTransitive
  <2>. QED
    BY <2>1, <2>9, <2>10
<1>. HIDE DEF S, b
<1>4. \A m \in 0..b : m \in S
  BY <1>0, <1>2, <1>3, DownTo
<1>5. 0 \in S
  BY <1>0, <1>4
<1>6. rest(0) = Released(entries)
  BY DEF Released
<1>. HIDE DEF rest
<1>. QED
  BY <1>1, <1>5, <1>6 DEF S

IsUnwind(f, m, g, at) ==
    f = [k \in m..Len(g.frames) |->
           IF k = Len(g.frames) THEN g
           ELSE Cleanup(f[k + 1], g.frames[k + 1].entries, at)]

LEMMA UnwindExists ==
    ASSUME NEW g, g.frames \in Seq(Frames), NEW depth \in 0..Len(g.frames), NEW at
    PROVE  \E f : IsUnwind(f, depth, g, at)
<1>. DEFINE b == Len(g.frames)
            S == {m \in depth..b : \E f : IsUnwind(f, m, g, at)}
<1>0. b \in Nat /\ depth \in Nat /\ depth <= b
  OBVIOUS
<1>. HIDE DEF b
<1>1. b \in S
  <2>. DEFINE f == [k \in b..b |-> g]
  <2>1. f = [k \in b..b |-> IF k = b THEN g
                            ELSE Cleanup(f[k + 1], g.frames[k + 1].entries, at)]
    BY <1>0
  <2>2. IsUnwind(f, b, g, at)
    <3>. HIDE DEF f
    <3>. QED  BY <2>1 DEF IsUnwind, b
  <2>. QED
    BY <1>0, <2>2
<1>2. ASSUME NEW m \in depth..b, m \in S, depth < m PROVE m - 1 \in S
  <2>1. PICK f : IsUnwind(f, m, g, at)
    BY <1>2
  <2>. DEFINE e == [k \in (m - 1)..b |->
                      IF k = m - 1 THEN Cleanup(f[m], g.frames[m].entries, at)
                      ELSE f[k]]
              next(h, k) == IF k = b THEN g
                            ELSE Cleanup(h[k + 1], g.frames[k + 1].entries, at)
  <2>2. \A k \in m..b : f[k] = next(f, k)
    BY <2>1 DEF IsUnwind, b
  <2>3. ASSUME NEW k \in (m - 1)..b PROVE e[k] = next(e, k)
    <3>1. CASE k = m - 1
      <4>1. /\ k # b /\ k + 1 = m /\ e[m] = f[m]
            /\ e[k] = Cleanup(f[m], g.frames[m].entries, at)
        BY <1>0, <3>1
      <4>. QED  BY <4>1
    <3>2. CASE k # m - 1 /\ k # b
      <4>1. /\ k \in m..b /\ k + 1 \in m..b /\ k + 1 # m - 1
            /\ e[k + 1] = f[k + 1] /\ e[k] = f[k]
        BY <1>0, <3>2
      <4>. QED  BY <2>2, <3>2, <4>1
    <3>3. CASE k # m - 1 /\ k = b
      BY <1>0, <2>2, <3>3
    <3>. QED  BY <3>1, <3>2, <3>3
  <2>4. e = [k \in (m - 1)..b |-> next(e, k)]
    <3>1. e = [k \in (m - 1)..b |-> e[k]]
      OBVIOUS
    <3>. HIDE DEF e, next
    <3>. QED  BY <2>3, <3>1
  <2>5. IsUnwind(e, m - 1, g, at)
    <3>. HIDE DEF e
    <3>. QED  BY <2>4 DEF IsUnwind, b
  <2>6. m - 1 \in depth..b
    BY <1>0, <1>2
  <2>. QED
    <3>. HIDE DEF e
    <3>. QED  BY <2>5, <2>6
<1>. HIDE DEF S
<1>3. \A m \in depth..b : m \in S
  BY <1>0, <1>1, <1>2, DownTo
<1>4. depth \in S
  BY <1>0, <1>3
<1>. QED
  BY <1>4 DEF S

Unwinds(f, g, depth, at) ==
    /\ f[Len(g.frames)] = g
    /\ \A k \in depth..(Len(g.frames) - 1) :
          f[k] = Cleanup(f[k + 1], g.frames[k + 1].entries, at)
    /\ Unwind(g, depth, at) = f[depth]

LEMMA UnwindIs ==
    ASSUME NEW g, g.frames \in Seq(Frames), NEW depth \in 0..Len(g.frames), NEW at
    PROVE  \E f : Unwinds(f, g, depth, at)
<1>. DEFINE f == CHOOSE h : IsUnwind(h, depth, g, at)
<1>1. IsUnwind(f, depth, g, at)
  BY UnwindExists
<1>2. Unwind(g, depth, at) = f[depth]
  BY DEF Unwind, IsUnwind
<1>. HIDE DEF f
<1>3. \A k \in depth..Len(g.frames) :
         f[k] = IF k = Len(g.frames) THEN g
                ELSE Cleanup(f[k + 1], g.frames[k + 1].entries, at)
  BY <1>1 DEF IsUnwind
<1>4. Unwinds(f, g, depth, at)
  BY <1>2, <1>3 DEF Unwinds
<1>. QED
  BY <1>4

LEMMA OwnedSplit ==
    ASSUME NEW frames, NEW lo \in Nat, NEW hi \in Nat, lo <= hi
    PROVE  Owned(frames, lo, hi) = Owned(frames, lo + 1, hi) \cup Released(frames[lo].entries)
<1>1. lo..hi = ((lo + 1)..hi) \cup {lo}
  OBVIOUS
<1>. QED
  BY <1>1 DEF Owned

LEMMA OwnedLast ==
    ASSUME NEW frames, NEW hi \in Nat, hi > 0
    PROVE  Owned(frames, 1, hi) = Owned(frames, 1, hi - 1) \cup Released(frames[hi].entries)
<1>1. 1..hi = (1..(hi - 1)) \cup {hi}
  OBVIOUS
<1>. QED
  BY <1>1 DEF Owned

\* Two frames own different slots.
LEMMA ReleasedApart ==
    ASSUME NEW frames, NEW tx, NEW n, FramesFit(frames, tx, n),
           NEW d \in 1..Len(frames), NEW b \in 1..Len(frames), d # b
    PROVE  Released(frames[d].entries) \cap Released(frames[b].entries) = {}
BY DEF FramesFit, Released, ReleasedFrom

LEMMA OwnedApart ==
    ASSUME NEW frames, NEW tx, NEW n, FramesFit(frames, tx, n), Len(frames) \in Nat,
           NEW m \in 1..Len(frames)
    PROVE  Released(frames[m].entries) \cap Owned(frames, m + 1, Len(frames)) = {}
<1>1. \A d \in (m + 1)..Len(frames) : d \in 1..Len(frames) /\ d # m
  OBVIOUS
<1>2. \A d \in (m + 1)..Len(frames) :
         Released(frames[d].entries) \cap Released(frames[m].entries) = {}
  BY <1>1, ReleasedApart
<1>. QED
  BY <1>2 DEF Owned

\* What the frames that are left released no longer owns.
LEMMA UnwindMade ==
    ASSUME NEW n, NEW g \in GenStates(n), NEW T, NEW tx, NEW A, Made(g, A, T, tx, n),
           FramesFit(g.frames, tx, n), NEW depth \in 0..Len(g.frames), NEW at \in Nat,
           Owned(g.frames, 1, Len(g.frames)) \subseteq A
    PROVE  LET h == Unwind(g, depth, at)
           IN  /\ h \in GenStates(n) /\ Plain(g, h)
               /\ Made(h, A \ Owned(g.frames, depth + 1, Len(g.frames)), T, tx, n)
<1>. DEFINE b == Len(g.frames)
            rest(m) == Owned(g.frames, m + 1, b)
<1>0. g.frames \in Seq(Frames) /\ b \in Nat /\ depth \in Nat /\ depth <= b
  BY GenType
<1>1. PICK f : Unwinds(f, g, depth, at)
  BY <1>0, UnwindIs
<1>2. /\ f[b] = g
      /\ \A k \in depth..(b - 1) : f[k] = Cleanup(f[k + 1], g.frames[k + 1].entries, at)
      /\ Unwind(g, depth, at) = f[depth]
  BY <1>1 DEF Unwinds
<1>. DEFINE S == {m \in depth..b : /\ f[m] \in GenStates(n) /\ Plain(g, f[m])
                                   /\ Made(f[m], A \ rest(m), T, tx, n)}
<1>3. b \in S
  <2>1. rest(b) = {}
    BY <1>0 DEF Owned
  <2>2. A \ rest(b) = A
    BY <2>1
  <2>3. f[b] \in GenStates(n) /\ Plain(g, f[b]) /\ Made(f[b], A, T, tx, n)
    BY <1>2, PlainSelf
  <2>4. b \in depth..b
    BY <1>0
  <2>. HIDE DEF rest, b
  <2>. QED
    BY <2>2, <2>3, <2>4
<1>4. ASSUME NEW m \in depth..b, m \in S, depth < m PROVE m - 1 \in S
  <2>. DEFINE es == g.frames[m].entries
              B  == A \ rest(m)
  <2>1. /\ m \in 1..b /\ m - 1 \in depth..(b - 1) /\ m - 1 + 1 = m /\ m - 1 \in depth..b
        /\ m \in Nat /\ m <= b
    BY <1>0, <1>4
  <2>2. f[m - 1] = Cleanup(f[m], es, at)
    BY <1>2, <2>1
  <2>3. f[m] \in GenStates(n) /\ Plain(g, f[m]) /\ Made(f[m], B, T, tx, n)
    BY <1>4
  <2>4. es \in Seq(Entries)
    <3>1. g.frames[m] \in Frames
      BY <1>0, <2>1
    <3>. QED  BY <3>1 DEF Frames
  <2>5. \A j \in 1..Len(es) :
           /\ EntryFits(es[j], tx, n)
           /\ \A k \in 1..Len(es) : es[k].slot = es[j].slot => k = j
    BY <2>1 DEF FramesFit
  <2>6. rest(m - 1) = rest(m) \cup Released(es)
    BY <1>0, <2>1, OwnedSplit
  <2>7. Released(es) \subseteq B
    <3>1. Released(es) \cap rest(m) = {}
      BY <1>0, <2>1, OwnedApart
    <3>2. Released(es) \subseteq Owned(g.frames, 1, b)
      BY <2>1 DEF Owned
    <3>. HIDE DEF es, rest
    <3>. QED  BY <3>1, <3>2
  <2>. HIDE DEF es, B
  <2>8. LET h == Cleanup(f[m], es, at)
        IN  /\ h \in GenStates(n) /\ Plain(f[m], h)
            /\ Made(h, B \ Released(es), T, tx, n)
    BY <2>3, <2>4, <2>5, <2>7, CleanupMade
  <2>9. B \ Released(es) = A \ rest(m - 1)
    <3>. HIDE DEF rest
    <3>. QED  BY <2>6 DEF B
  <2>. HIDE DEF rest
  <2>10. /\ f[m - 1] \in GenStates(n) /\ Plain(f[m], f[m - 1])
         /\ Made(f[m - 1], A \ rest(m - 1), T, tx, n)
    BY <2>2, <2>8, <2>9
  <2>11. Plain(g, f[m - 1])
    BY <2>3, <2>10, PlainIsTransitive
  <2>. QED
    BY <2>1, <2>10, <2>11
<1>. HIDE DEF S, b
<1>5. \A m \in depth..b : m \in S
  BY <1>0, <1>3, <1>4, DownTo
<1>6. depth \in S
  BY <1>0, <1>5
<1>7. f[depth] \in GenStates(n) /\ Plain(g, f[depth]) /\ Made(f[depth], A \ rest(depth), T, tx, n)
  <2>. HIDE DEF rest
  <2>. QED  BY <1>6 DEF S
<1>. QED
  BY <1>2, <1>7 DEF b

LEMMA OwnedCut ==
    ASSUME NEW frames, NEW n, NEW tx, FramesFit(frames, tx, n), Len(frames) \in Nat,
           NEW depth \in 0..Len(frames), NEW R \in SUBSET {-1, 0}
    PROVE  (Owned(frames, 1, Len(frames)) \cup R) \ Owned(frames, depth + 1, Len(frames))
              = Owned(frames, 1, depth) \cup R
<1>. DEFINE b     == Len(frames)
            inner == Owned(frames, depth + 1, b)
            outer == Owned(frames, 1, depth)
<1>1. 1..b = (1..depth) \cup ((depth + 1)..b)
  OBVIOUS
<1>2. Owned(frames, 1, b) = outer \cup inner
  BY <1>1 DEF Owned
<1>3. outer \cap inner = {}
  <2>1. \A d \in 1..depth, m \in (depth + 1)..b : d \in 1..b /\ m \in 1..b /\ d # m
    OBVIOUS
  <2>2. \A d \in 1..depth, m \in (depth + 1)..b :
           Released(frames[d].entries) \cap Released(frames[m].entries) = {}
    BY <2>1, ReleasedApart
  <2>. HIDE DEF b
  <2>. QED
    BY <2>2 DEF Owned
<1>4. R \cap inner = {}
  <2>1. \A m \in (depth + 1)..b : m \in 1..b
    OBVIOUS
  <2>. HIDE DEF b
  <2>2. ASSUME NEW m \in (depth + 1)..b, NEW k \in Released(frames[m].entries)
        PROVE  k \in 1..n
    <3>1. PICK j \in 1..Len(frames[m].entries) :
             frames[m].entries[j].how = "release" /\ k = frames[m].entries[j].slot
      BY DEF Released, ReleasedFrom
    <3>2. EntryFits(frames[m].entries[j], tx, n)
      BY <2>1, <3>1 DEF FramesFit, b
    <3>. QED
      BY <3>1, <3>2 DEF EntryFits, SlotsOf
  <2>3. \A k \in inner : k \in 1..n
    BY <2>2 DEF Owned
  <2>. HIDE DEF inner
  <2>4. \A k \in 1..n : k # 0 /\ k # -1
    OBVIOUS
  <2>. QED
    BY <2>3, <2>4
<1>. HIDE DEF inner, outer
<1>5. (Owned(frames, 1, b) \cup R) \ inner = outer \cup R
  BY <1>2, <1>3, <1>4
<1>. QED
  BY <1>5 DEF inner, outer

\* Unwinding to a depth leaves what the frames up to there own.
LEMMA UnwindOwned ==
    ASSUME NEW n, NEW g \in GenStates(n), NEW T, NEW tx, NEW R \in SUBSET {-1, 0},
           Made(g, Owned(g.frames, 1, Len(g.frames)) \cup R, T, tx, n),
           FramesFit(g.frames, tx, n), NEW depth \in 0..Len(g.frames), NEW at \in Nat
    PROVE  /\ Unwind(g, depth, at) \in GenStates(n) /\ Plain(g, Unwind(g, depth, at))
           /\ Made(Unwind(g, depth, at), Owned(g.frames, 1, depth) \cup R, T, tx, n)
<1>. DEFINE all  == Owned(g.frames, 1, Len(g.frames))
            left == Owned(g.frames, depth + 1, Len(g.frames))
<1>1. Len(g.frames) \in Nat
  BY GenType
<1>2. (all \cup R) \ left = Owned(g.frames, 1, depth) \cup R
  BY <1>1, OwnedCut
<1>3. all \subseteq all \cup R
  OBVIOUS
<1>4. /\ Unwind(g, depth, at) \in GenStates(n) /\ Plain(g, Unwind(g, depth, at))
      /\ Made(Unwind(g, depth, at), (all \cup R) \ left, T, tx, n)
  BY <1>3, UnwindMade
<1>. QED
  BY <1>2, <1>4

-----------------------------------------------------------------------------
(* The code of a text that was not refused                                 *)

Ops == {"new", "from", "ref", "use", "lend", "write", "assign", "rebind", "cede",
        "return", "break", "continue", "block", "if", "loop", "else", "close"}

Statements == [op : Ops]
              \cup [op : Ops, v : Names \cup {""}]
              \cup [op : Ops, v : Names, w : Names]
              \cup [op : Ops, v : Names, w : Names \cup {""}, sharp : BOOLEAN]
              \cup [op : Ops, v : Names, w : Names, x : BOOLEAN, sharp : BOOLEAN]

\* The label after a scope that a jump out of it or a branch over it needs.
Owes == {<<"if", "else">>, <<"else", "end">>, <<"loop", "after">>}
Pending(frames) ==
    {l \in Nat \X Labels : \E d \in 1..Len(frames) :
        frames[d].at = l[1] /\ <<frames[d].kind, l[2]>> \in Owes}

Resolved(c, frames) ==
    /\ Jumps(c) \subseteq Placed(c) \cup Pending(frames)
    /\ \A d \in 1..Len(frames) :
          frames[d].kind = "loop" => <<frames[d].at, "cond">> \in Placed(c)

\* The frames are those of the scopes, with an entry for every symbol.
EntryNamed(e, g, syms, tx, n) ==
    /\ e.slot \in 1..n /\ e.slot <= Len(tx)
    /\ tx[e.slot].v = e.name /\ g.sym[e.name] = e.slot
    /\ e.name \in DOMAIN syms
    /\ Kind[e.name] \in Pointers => e.how = "release"

Named(g, scs, tx, n) ==
    /\ Len(g.frames) = Len(scs)
    /\ \A d \in 1..Len(scs) :
          /\ g.frames[d].kind = scs[d].kind
          /\ \A j \in 1..Len(g.frames[d].entries) :
                EntryNamed(g.frames[d].entries[j], g, scs[d].syms, tx, n)
          /\ \A v \in DOMAIN scs[d].syms : \E j \in 1..Len(g.frames[d].entries) :
                g.frames[d].entries[j].name = v

\* T has what was owned when the statement began that opened the frame.
Opened(frames, T) ==
    \A d \in 2..Len(frames) : /\ frames[d].at \in 1..Len(T)
                              /\ T[frames[d].at] = Owned(frames, 1, d - 1)

\* The invariant of the compiler: g is what the text tx compiled to.
Body(g, T, scs, tx, n) ==
    /\ n \in Nat /\ g \in GenStates(n) /\ tx \in Seq(Statements)
    /\ T \in Seq(SUBSET Int) /\ Len(T) = Len(tx)
    /\ scs \in Seq(Scope) /\ Len(scs) > 0
    /\ FramesFit(g.frames, tx, n) /\ Named(g, scs, tx, n)
    /\ Opened(g.frames, T) /\ Resolved(g.code, g.frames)
    /\ Made(g, Owned(g.frames, 1, Len(g.frames)), T, tx, n)

SameShape(S, R) ==
    /\ R \in Seq(Scope) /\ Len(R) = Len(S)
    /\ \A d \in 1..Len(S) : /\ R[d].kind = S[d].kind
                            /\ DOMAIN R[d].syms = DOMAIN S[d].syms

\* The frames after a value is no longer dropped.
Alike(F, G) ==
    /\ G \in Seq(Frames) /\ Len(G) = Len(F)
    /\ \A d \in 1..Len(F) :
          /\ G[d].kind = F[d].kind /\ G[d].at = F[d].at
          /\ Len(G[d].entries) = Len(F[d].entries)
          /\ \A j \in 1..Len(F[d].entries) :
                LET e == F[d].entries[j]
                    f == G[d].entries[j]
                IN  /\ f.name = e.name /\ f.slot = e.slot
                    /\ f.how = e.how \/ (Kind[e.name] = "value" /\ f.how = "none")

LEMMA AlikeSelf == ASSUME NEW F \in Seq(Frames) PROVE Alike(F, F)
BY DEF Alike

\* What a variable that is visible is compiled to.
LEMMA VisibleSlot ==
    ASSUME NEW g, NEW T, NEW scs, NEW tx, NEW n, Body(g, T, scs, tx, n),
           NEW d \in 1..Len(scs), NEW v \in DOMAIN scs[d].syms
    PROVE  /\ v \in Names
           /\ g.sym[v] \in SlotsOf(tx, n, {Kind[v]})
           /\ Kind[v] \in Pointers =>
                 g.sym[v] \in Owned(g.frames, 1, Len(g.frames))
<1>1. PICK j \in 1..Len(g.frames[d].entries) : g.frames[d].entries[j].name = v
  BY DEF Body, Named
<1>. DEFINE e == g.frames[d].entries[j]
<1>2. EntryNamed(e, g, scs[d].syms, tx, n)
  BY <1>1 DEF Body, Named
<1>3. v \in Names
  <2>1. scs[d] \in Scope
    BY DEF Body
  <2>2. scs[d].syms \in Symbols
    BY <2>1 DEF Scope
  <2>. QED
    BY <2>2, TableElim DEF Symbols
<1>4. Kind[v] \in Pointers => e.slot \in Owned(g.frames, 1, Len(g.frames))
  <2>1. d \in 1..Len(g.frames)
    BY DEF Body, Named
  <2>2. Kind[v] \in Pointers => e.how = "release"
    BY <1>1, <1>2 DEF EntryNamed
  <2>3. e.how = "release" => e.slot \in Released(g.frames[d].entries)
    BY DEF Released, ReleasedFrom
  <2>4. Released(g.frames[d].entries) \subseteq Owned(g.frames, 1, Len(g.frames))
    BY <2>1 DEF Owned
  <2>. QED  BY <2>2, <2>3, <2>4
<1>. QED
  BY <1>1, <1>2, <1>3, <1>4 DEF EntryNamed, SlotsOf

\* No frame has an entry for the slot k.
Fresh(frames, k) ==
    \A d \in 1..Len(frames) : \A j \in 1..Len(frames[d].entries) :
        frames[d].entries[j].slot # k

\* One statement more, before it is compiled.
LEMMA BodyGrows ==
    ASSUME NEW g, NEW T, NEW scs, NEW tx, NEW n, Body(g, T, scs, tx, n),
           NEW s \in Statements
    PROVE  LET A  == Owned(g.frames, 1, Len(g.frames))
               T2 == Append(T, A)
               t2 == Append(tx, s)
           IN  /\ Body(g, T2, scs, t2, n)
               /\ Len(t2) = Len(tx) + 1 /\ Len(t2) \in Nat /\ Len(t2) > 0
               /\ t2[Len(t2)] = s /\ T2[Len(t2)] = A
               /\ Fresh(g.frames, Len(t2))
<1>. DEFINE A  == Owned(g.frames, 1, Len(g.frames))
            T2 == Append(T, A)
            t2 == Append(tx, s)
<1>1. Made(g, A, T, tx, n) /\ A \in SUBSET Int
  <2>1. Made(g, A, T, tx, n)
    BY DEF Body
  <2>. HIDE DEF A
  <2>. QED
    BY <2>1 DEF Made, States, SlotsOf
<1>2. tx \in Seq(Statements) /\ T \in Seq(SUBSET Int) /\ Len(T) = Len(tx)
  BY DEF Body
<1>. HIDE DEF A
<1>3. /\ t2 \in Seq(Statements) /\ Len(t2) = Len(tx) + 1 /\ Len(tx) \in Nat
      /\ t2[Len(t2)] = s
      /\ \A k \in 1..Len(tx) : t2[k] = tx[k]
  BY <1>2
<1>4. /\ T2 \in Seq(SUBSET Int) /\ Len(T2) = Len(t2) /\ T2[Len(t2)] = A
      /\ \A k \in 1..Len(T) : T2[k] = T[k]
  BY <1>1, <1>2
<1>5. Made(g, A, T2, t2, n)
  BY <1>1, <1>2, MadeExtends
<1>. HIDE DEF T2, t2
<1>6. \A kinds : SlotsOf(tx, n, kinds) \subseteq SlotsOf(t2, n, kinds)
  BY <1>3 DEF SlotsOf
<1>7. FramesFit(g.frames, t2, n)
  BY <1>6 DEF Body, FramesFit, EntryFits
<1>8. Named(g, scs, t2, n) /\ Fresh(g.frames, Len(t2))
  <2>1. Named(g, scs, tx, n)
    BY DEF Body
  <2>2. ASSUME NEW e, NEW syms, EntryNamed(e, g, syms, tx, n)
        PROVE  EntryNamed(e, g, syms, t2, n) /\ e.slot # Len(t2)
    <3>1. e.slot \in 1..n /\ e.slot <= Len(tx) /\ tx[e.slot].v = e.name
      BY <2>2 DEF EntryNamed
    <3>2. e.slot \in 1..Len(tx)
      BY <1>3, <3>1
    <3>3. t2[e.slot] = tx[e.slot] /\ e.slot <= Len(t2) /\ e.slot # Len(t2)
      BY <1>3, <3>2
    <3>. QED
      BY <2>2, <3>3 DEF EntryNamed
  <2>. QED
    BY <2>1, <2>2 DEF Named, Fresh
<1>9. Opened(g.frames, T2)
  <2>1. \A d \in 2..Len(g.frames) : /\ g.frames[d].at \in 1..Len(T)
                                    /\ T[g.frames[d].at] = Owned(g.frames, 1, d - 1)
    BY DEF Body, Opened
  <2>2. Len(T2) = Len(T) + 1 /\ Len(T) \in Nat
    BY <1>2, <1>3, <1>4
  <2>. QED
    BY <1>4, <2>1, <2>2 DEF Opened
<1>10. Body(g, T2, scs, t2, n)
  BY <1>3, <1>4, <1>5, <1>7, <1>8, <1>9 DEF Body, A
<1>. QED
  BY <1>3, <1>4, <1>8, <1>10 DEF A, T2, t2

LEMMA AlikeOwned ==
    ASSUME NEW g, NEW T, NEW scs, NEW tx, NEW n, Body(g, T, scs, tx, n),
           NEW G, Alike(g.frames, G), NEW hi \in 0..Len(g.frames)
    PROVE  Owned(G, 1, hi) = Owned(g.frames, 1, hi)
<1>. DEFINE F == g.frames
<1>1. Len(F) \in Nat
  BY GenType DEF Body
<1>2. ASSUME NEW d \in 1..Len(F) PROVE Released(G[d].entries) = Released(F[d].entries)
  <2>1. ASSUME NEW j \in 1..Len(F[d].entries)
        PROVE  /\ G[d].entries[j].slot = F[d].entries[j].slot
               /\ G[d].entries[j].how = "release" <=> F[d].entries[j].how = "release"
    <3>. DEFINE e == F[d].entries[j]
                f == G[d].entries[j]
    <3>1. f.name = e.name /\ f.slot = e.slot
          /\ (f.how = e.how \/ (Kind[e.name] = "value" /\ f.how = "none"))
      BY DEF Alike
    <3>2. e.how = "release" => Kind[e.name] \in Pointers
      <4>1. EntryFits(e, tx, n)
        BY DEF Body, FramesFit
      <4>2. tx[e.slot].v = e.name
        BY DEF Body, Named, EntryNamed
      <4>. QED
        BY <4>1, <4>2 DEF EntryFits, SlotsOf
    <3>3. "value" \notin Pointers
      BY DEF Pointers
    <3>. QED
      BY <3>1, <3>2, <3>3
  <2>2. Len(G[d].entries) = Len(F[d].entries)
    BY DEF Alike
  <2>. HIDE DEF F
  <2>. QED
    BY <2>1, <2>2 DEF Released, ReleasedFrom
<1>3. \A d \in 1..hi : d \in 1..Len(F)
  BY <1>1
<1>. HIDE DEF F
<1>. QED
  BY <1>2, <1>3 DEF Owned, F

\* A statement after which the frames hold the same variables.
LEMMA BodyStays ==
    ASSUME NEW g, NEW T, NEW scs, NEW tx, NEW n, Body(g, T, scs, tx, n),
           NEW h \in GenStates(n), Alike(g.frames, h.frames), h.sym = g.sym,
           Placed(g.code) \subseteq Placed(h.code),
           Jumps(h.code) \subseteq Placed(h.code) \cup Pending(g.frames),
           Made(h, Owned(g.frames, 1, Len(g.frames)), T, tx, n),
           NEW R, SameShape(scs, R)
    PROVE  Body(h, T, R, tx, n)
<1>. DEFINE F == g.frames
            G == h.frames
<1>1. Len(F) \in Nat /\ Len(G) = Len(F) /\ Len(scs) = Len(F) /\ Len(R) = Len(scs)
      /\ Len(scs) > 0 /\ R \in Seq(Scope)
  BY GenType DEF Body, Named, Alike, SameShape
<1>2. \A d \in 1..Len(F) : G[d].kind = F[d].kind /\ G[d].at = F[d].at
  BY DEF Alike
<1>3. \A d \in 1..Len(F) : Len(G[d].entries) = Len(F[d].entries)
  BY DEF Alike
<1>4. \A hi \in 0..Len(F) : Owned(G, 1, hi) = Owned(F, 1, hi)
  BY AlikeOwned
<1>5. ASSUME NEW d \in 1..Len(F), NEW j \in 1..Len(F[d].entries)
      PROVE  LET e == F[d].entries[j]
                 f == G[d].entries[j]
             IN  /\ f.name = e.name /\ f.slot = e.slot
                 /\ f.how = e.how \/ (Kind[e.name] = "value" /\ f.how = "none")
  BY DEF Alike
<1>6. FramesFit(G, tx, n)
  <2>1. ASSUME NEW d \in 1..Len(G), NEW j \in 1..Len(G[d].entries)
        PROVE  /\ EntryFits(G[d].entries[j], tx, n)
               /\ \A b \in 1..Len(G) : \A k \in 1..Len(G[b].entries) :
                     G[b].entries[k].slot = G[d].entries[j].slot => b = d /\ k = j
    <3>1. d \in 1..Len(F) /\ j \in 1..Len(F[d].entries)
      BY <1>1, <1>3
    <3>2. EntryFits(F[d].entries[j], tx, n)
      BY <3>1 DEF Body, FramesFit
    <3>3. EntryFits(G[d].entries[j], tx, n)
      BY <1>5, <3>1, <3>2 DEF EntryFits
    <3>4. ASSUME NEW b \in 1..Len(G), NEW k \in 1..Len(G[b].entries),
                 G[b].entries[k].slot = G[d].entries[j].slot
          PROVE  b = d /\ k = j
      <4>1. b \in 1..Len(F) /\ k \in 1..Len(F[b].entries)
        BY <1>1, <1>3
      <4>2. F[b].entries[k].slot = F[d].entries[j].slot
        BY <1>5, <3>1, <3>4, <4>1
      <4>. QED
        BY <3>1, <4>1, <4>2 DEF Body, FramesFit
    <3>. QED
      BY <3>3, <3>4
  <2>. HIDE DEF G
  <2>. QED
    BY <2>1 DEF FramesFit
<1>7. Named(h, R, tx, n)
  <2>1. ASSUME NEW d \in 1..Len(R)
        PROVE  /\ G[d].kind = R[d].kind
               /\ \A j \in 1..Len(G[d].entries) :
                     EntryNamed(G[d].entries[j], h, R[d].syms, tx, n)
               /\ \A v \in DOMAIN R[d].syms : \E j \in 1..Len(G[d].entries) :
                     G[d].entries[j].name = v
    <3>1. d \in 1..Len(F) /\ d \in 1..Len(scs)
      BY <1>1
    <3>2. /\ F[d].kind = scs[d].kind
          /\ \A j \in 1..Len(F[d].entries) :
                EntryNamed(F[d].entries[j], g, scs[d].syms, tx, n)
          /\ \A v \in DOMAIN scs[d].syms : \E j \in 1..Len(F[d].entries) :
                F[d].entries[j].name = v
      BY <3>1 DEF Body, Named
    <3>3. R[d].kind = scs[d].kind /\ DOMAIN R[d].syms = DOMAIN scs[d].syms
      BY <3>1 DEF SameShape
    <3>4. ASSUME NEW j \in 1..Len(G[d].entries)
          PROVE  EntryNamed(G[d].entries[j], h, R[d].syms, tx, n)
      <4>1. j \in 1..Len(F[d].entries)
        BY <1>3, <3>1
      <4>2. "value" \notin Pointers
        BY DEF Pointers
      <4>3. EntryNamed(F[d].entries[j], g, scs[d].syms, tx, n)
        BY <3>2, <4>1
      <4>. QED
        BY ZenonT(30), <1>5, <3>1, <3>3, <4>1, <4>2, <4>3 DEF EntryNamed
    <3>5. \A v \in DOMAIN R[d].syms : \E j \in 1..Len(G[d].entries) :
             G[d].entries[j].name = v
      <4>1. ASSUME NEW v \in DOMAIN R[d].syms
            PROVE  \E j \in 1..Len(G[d].entries) : G[d].entries[j].name = v
        <5>1. PICK j \in 1..Len(F[d].entries) : F[d].entries[j].name = v
          BY <3>2, <3>3
        <5>2. j \in 1..Len(G[d].entries) /\ G[d].entries[j].name = v
          BY <1>3, <1>5, <3>1, <5>1
        <5>. QED  BY <5>2
      <4>. QED  BY <4>1
    <3>. QED
      BY <1>2, <3>1, <3>2, <3>3, <3>4, <3>5
  <2>. QED
    BY <1>1, <2>1 DEF Named
<1>8. Opened(G, T)
  <2>1. \A d \in 2..Len(G) : d \in 1..Len(F) /\ d - 1 \in 0..Len(F) /\ d \in 2..Len(F)
    BY <1>1
  <2>2. \A d \in 2..Len(F) : F[d].at \in 1..Len(T) /\ T[F[d].at] = Owned(F, 1, d - 1)
    BY DEF Body, Opened
  <2>. HIDE DEF F, G
  <2>. QED
    BY <1>2, <1>4, <2>1, <2>2 DEF Opened
<1>9. Resolved(h.code, G)
  <2>1. Pending(G) = Pending(F)
    BY <1>1, <1>2 DEF Pending
  <2>2. Resolved(g.code, F)
    BY DEF Body
  <2>. QED
    BY <1>1, <1>2, <2>1, <2>2 DEF Resolved
<1>10. Made(h, Owned(G, 1, Len(G)), T, tx, n)
  BY <1>1, <1>4
<1>11. n \in Nat /\ tx \in Seq(Statements) /\ T \in Seq(SUBSET Int) /\ Len(T) = Len(tx)
  BY DEF Body
<1>. HIDE DEF F
<1>. QED
  BY <1>1, <1>6, <1>7, <1>8, <1>9, <1>10, <1>11 DEF Body

LEMMA ShapeSelf == ASSUME NEW S \in Seq(Scope) PROVE SameShape(S, S)
BY DEF SameShape

\* What is owned are slots of pointers, and not the register.
LEMMA OwnedSlots ==
    ASSUME NEW g, NEW T, NEW scs, NEW tx, NEW n, Body(g, T, scs, tx, n)
    PROVE  LET A == Owned(g.frames, 1, Len(g.frames))
           IN  /\ A \subseteq SlotsOf(tx, n, Pointers) /\ A \in States(tx, n)
               /\ 0 \notin A /\ -1 \notin A
<1>. DEFINE A == Owned(g.frames, 1, Len(g.frames))
<1>1. A \in States(tx, n)
  BY DEF Body, Made
<1>2. ASSUME NEW d \in 1..Len(g.frames), NEW k \in Released(g.frames[d].entries)
      PROVE  k \in SlotsOf(tx, n, Pointers)
  <2>1. PICK j \in 1..Len(g.frames[d].entries) :
           g.frames[d].entries[j].how = "release" /\ k = g.frames[d].entries[j].slot
    BY DEF Released, ReleasedFrom
  <2>2. EntryFits(g.frames[d].entries[j], tx, n)
    BY DEF Body, FramesFit
  <2>. QED
    BY <2>1, <2>2 DEF EntryFits
<1>3. A \subseteq SlotsOf(tx, n, Pointers)
  BY <1>2 DEF Owned
<1>4. 0 \notin SlotsOf(tx, n, Pointers) /\ -1 \notin SlotsOf(tx, n, Pointers)
  BY DEF SlotsOf
<1>. HIDE DEF A
<1>5. 0 \notin A /\ -1 \notin A
  BY <1>3, <1>4
<1>. QED
  BY <1>1, <1>3, <1>5 DEF A

\* A statement of one instruction that changes no owner.
LEMMA EmitStays ==
    ASSUME NEW g, NEW T, NEW scs, NEW tx, NEW n, Body(g, T, scs, tx, n),
           NEW i \in Instrs(n), i.do \notin Control, ~Leaves(i), i.do # "again",
           Fits(i, Owned(g.frames, 1, Len(g.frames)), T, tx, n),
           After(i, Owned(g.frames, 1, Len(g.frames)), tx)
              = Owned(g.frames, 1, Len(g.frames)),
           NEW R, SameShape(scs, R)
    PROVE  Body(Emit(g, <<i>>), T, R, tx, n)
<1>. DEFINE A == Owned(g.frames, 1, Len(g.frames))
            h == Emit(g, <<i>>)
<1>1. g \in GenStates(n) /\ Made(g, A, T, tx, n) /\ A \in States(tx, n)
  BY OwnedSlots DEF Body
<1>2. h \in GenStates(n) /\ Plain(g, h)
  BY <1>1, EmitOne, EmitPlain
<1>. HIDE DEF A
<1>3. Made(h, A, T, tx, n)
  BY <1>1, EmitMade DEF A
<1>. HIDE DEF h
<1>4. h.frames = g.frames /\ h.sym = g.sym /\ Jumps(h.code) = Jumps(g.code)
      /\ Placed(h.code) = Placed(g.code)
  BY <1>2 DEF Plain
<1>5. Alike(g.frames, h.frames)
  <2>1. g.frames \in Seq(Frames)
    BY <1>1, GenType
  <2>. QED  BY <1>4, <2>1, AlikeSelf
<1>6. Jumps(h.code) \subseteq Placed(h.code) \cup Pending(g.frames)
  BY <1>4 DEF Body, Resolved
<1>7. Body(h, T, R, tx, n)
  BY <1>2, <1>3, <1>4, <1>5, <1>6, BodyStays DEF A
<1>. QED
  BY <1>7 DEF h

\* A value that is returned or ceded is no longer dropped.
LEMMA SuppressAlike ==
    ASSUME NEW n, NEW g \in GenStates(n), NEW v
    PROVE  LET h == Suppress(g, v)
           IN  /\ h \in GenStates(n) /\ Alike(g.frames, h.frames)
               /\ h.sym = g.sym /\ h.code = g.code /\ h.live = g.live
<1>. DEFINE F   == g.frames
            has == {i \in DOMAIN F :
                      \E j \in DOMAIN F[i].entries : F[i].entries[j].name = v}
            d   == CHOOSE i \in has : \A k \in has : k <= i
            es  == [j \in DOMAIN F[d].entries |->
                      IF F[d].entries[j].name = v
                      THEN [F[d].entries[j] EXCEPT !.how = "none"]
                      ELSE F[d].entries[j]]
            G   == [F EXCEPT ![d] = [F[d] EXCEPT !.entries = es]]
<1>1. F \in Seq(Frames)
  BY GenType
<1>2. CASE Kind[v] # "value"
  BY <1>1, <1>2, AlikeSelf DEF Suppress
<1>3. CASE Kind[v] = "value"
  <2>1. Suppress(g, v) = [g EXCEPT !.frames = G]
    BY <1>3 DEF Suppress
  <2>. HIDE DEF d
  <2>2. G \in Seq(Frames) /\ Alike(F, G)
    <3>1. CASE d \notin DOMAIN F
      <4>. HIDE DEF es
      <4>1. G = F
        BY <1>1, <3>1
      <4>. HIDE DEF G
      <4>. QED  BY <1>1, <4>1, AlikeSelf
    <3>2. CASE d \in DOMAIN F
      <4>1. F[d] \in Frames /\ d \in 1..Len(F)
        BY <1>1, <3>2
      <4>2. F[d].entries \in Seq(Entries)
        BY <4>1 DEF Frames
      <4>3. /\ Len(F[d].entries) \in Nat /\ DOMAIN F[d].entries = 1..Len(F[d].entries)
            /\ \A j \in 1..Len(F[d].entries) : F[d].entries[j] \in Entries
        BY <4>2
      <4>4. es \in Seq(Entries) /\ Len(es) = Len(F[d].entries)
        <5>1. \A j \in 1..Len(F[d].entries) : es[j] \in Entries
          BY <4>3 DEF Entries
        <5>2. /\ DOMAIN es = 1..Len(F[d].entries)
              /\ es = [j \in 1..Len(F[d].entries) |-> es[j]]
          BY <4>3
        <5>. HIDE DEF es
        <5>3. es \in [1..Len(F[d].entries) -> Entries]
          BY <5>1, <5>2
        <5>. QED
          BY <4>3, <5>2, <5>3
      <4>5. ASSUME NEW j \in 1..Len(F[d].entries)
            PROVE  /\ es[j].name = F[d].entries[j].name
                   /\ es[j].slot = F[d].entries[j].slot
                   /\ \/ es[j].how = F[d].entries[j].how
                      \/ Kind[F[d].entries[j].name] = "value" /\ es[j].how = "none"
        BY <1>3, <4>3 DEF Entries
      <4>. HIDE DEF es
      <4>. DEFINE f == [F[d] EXCEPT !.entries = es]
      <4>6. f \in Frames /\ f.entries = es /\ f.kind = F[d].kind /\ f.at = F[d].at
        BY <4>1, <4>4 DEF Frames
      <4>. HIDE DEF f
      <4>7. /\ G \in Seq(Frames) /\ Len(G) = Len(F) /\ G[d] = f
            /\ \A b \in 1..Len(F) : b # d => G[b] = F[b]
        BY <1>1, <4>1, <4>6 DEF f
      <4>. HIDE DEF G, F
      <4>. QED
        BY <4>4, <4>5, <4>6, <4>7 DEF Alike
    <3>. QED
      BY <3>1, <3>2
  <2>. HIDE DEF G
  <2>3. /\ [g EXCEPT !.frames = G] \in GenStates(n) /\ [g EXCEPT !.frames = G].frames = G
        /\ [g EXCEPT !.frames = G].sym = g.sym /\ [g EXCEPT !.frames = G].code = g.code
        /\ [g EXCEPT !.frames = G].live = g.live
    BY <2>2 DEF GenStates
  <2>. QED
    BY <2>1, <2>2, <2>3
<1>. QED
  BY <1>2, <1>3

LEMMA BodySuppress ==
    ASSUME NEW g, NEW T, NEW scs, NEW tx, NEW n, Body(g, T, scs, tx, n),
           NEW v, NEW R, SameShape(scs, R)
    PROVE  Body(Suppress(g, v), T, R, tx, n)
<1>. DEFINE h == Suppress(g, v)
<1>1. g \in GenStates(n) /\ Resolved(g.code, g.frames)
      /\ Made(g, Owned(g.frames, 1, Len(g.frames)), T, tx, n)
  BY DEF Body
<1>2. /\ h \in GenStates(n) /\ Alike(g.frames, h.frames)
      /\ h.sym = g.sym /\ h.code = g.code /\ h.live = g.live
  BY <1>1, SuppressAlike
<1>. HIDE DEF h
<1>3. Made(h, Owned(g.frames, 1, Len(g.frames)), T, tx, n)
  BY <1>1, <1>2 DEF Made
<1>4. Jumps(h.code) \subseteq Placed(h.code) \cup Pending(g.frames)
  BY <1>1, <1>2 DEF Resolved
<1>5. Body(h, T, R, tx, n)
  BY <1>2, <1>3, <1>4, BodyStays
<1>. QED
  BY <1>5 DEF h

LEMMA EmitTwo ==
    ASSUME NEW n, NEW g \in GenStates(n), NEW i \in Instrs(n), NEW j \in Instrs(n)
    PROVE  Emit(g, <<i>> \o <<j>>) = Emit(Emit(g, <<i>>), <<j>>)
<1>1. g.code \in Seq(Instrs(n))
  BY GenType
<1>2. g.code \o (<<i>> \o <<j>>) = (g.code \o <<i>>) \o <<j>>
  BY <1>1
<1>3. CASE g.live
  <2>1. Emit(g, <<i>>) = [g EXCEPT !.code = g.code \o <<i>>]
    BY <1>3 DEF Emit
  <2>2. Emit(g, <<i>>).live = g.live /\ Emit(g, <<i>>).code = g.code \o <<i>>
    BY <2>1 DEF GenStates
  <2>3. Emit(Emit(g, <<i>>), <<j>>) = [g EXCEPT !.code = (g.code \o <<i>>) \o <<j>>]
    BY <1>3, <2>1, <2>2 DEF Emit, GenStates
  <2>4. Emit(g, <<i>> \o <<j>>) = [g EXCEPT !.code = g.code \o (<<i>> \o <<j>>)]
    BY <1>3 DEF Emit
  <2>. QED
    BY <1>2, <2>3, <2>4
<1>4. CASE ~g.live
  BY <1>4 DEF Emit
<1>. QED
  BY <1>3, <1>4

LEMMA EmitThree ==
    ASSUME NEW n, NEW g \in GenStates(n),
           NEW i \in Instrs(n), NEW j \in Instrs(n), NEW k \in Instrs(n)
    PROVE  Emit(g, <<i, j, k>>) = Emit(Emit(Emit(g, <<i>>), <<j>>), <<k>>)
<1>1. g.code \in Seq(Instrs(n))
  BY GenType
<1>2. g.code \o <<i, j, k>> = (g.code \o (<<i>> \o <<j>>)) \o <<k>>
  <2>. DEFINE l == g.code \o <<i, j, k>>
              r == (g.code \o (<<i>> \o <<j>>)) \o <<k>>
              b == Len(g.code)
  <2>1. <<i, j, k>> \in Seq(Instrs(n)) /\ Len(<<i, j, k>>) = 3
    OBVIOUS
  <2>2. LET p == <<i>> \o <<j>>
        IN  p \in Seq(Instrs(n)) /\ Len(p) = 2 /\ p[1] = i /\ p[2] = j
    OBVIOUS
  <2>3. /\ l \in Seq(Instrs(n)) /\ Len(l) = b + 3 /\ b \in Nat
        /\ \A m \in 1..b : l[m] = g.code[m]
        /\ l[b + 1] = i /\ l[b + 2] = j /\ l[b + 3] = k
    BY <1>1, <2>1
  <2>4. /\ r \in Seq(Instrs(n)) /\ Len(r) = b + 3
        /\ \A m \in 1..b : r[m] = g.code[m]
        /\ r[b + 1] = i /\ r[b + 2] = j /\ r[b + 3] = k
    BY <1>1, <2>2
  <2>. HIDE DEF l, r, b
  <2>5. \A m \in 1..(b + 3) : m \in 1..b \/ m = b + 1 \/ m = b + 2 \/ m = b + 3
    BY <2>3
  <2>6. \A m \in 1..(b + 3) : l[m] = r[m]
    BY <2>3, <2>4, <2>5
  <2>7. l = r
    BY <2>3, <2>4, <2>6
  <2>. QED  BY <2>7 DEF l, r
<1>. DEFINE e == Emit(g, <<i>> \o <<j>>)
<1>3. CASE g.live
  <2>1. e = [g EXCEPT !.code = g.code \o (<<i>> \o <<j>>)]
    BY <1>3 DEF Emit
  <2>2. e.live = g.live /\ e.code = g.code \o (<<i>> \o <<j>>)
    BY <2>1 DEF GenStates
  <2>3. Emit(e, <<k>>) = [g EXCEPT !.code = (g.code \o (<<i>> \o <<j>>)) \o <<k>>]
    BY <1>3, <2>1, <2>2 DEF Emit, GenStates
  <2>4. Emit(g, <<i, j, k>>) = [g EXCEPT !.code = g.code \o <<i, j, k>>]
    BY <1>3 DEF Emit
  <2>5. Emit(Emit(Emit(g, <<i>>), <<j>>), <<k>>) = Emit(e, <<k>>)
    BY EmitTwo
  <2>. HIDE DEF e
  <2>. QED
    BY <1>2, <2>3, <2>4, <2>5
<1>4. CASE ~g.live
  BY <1>4 DEF Emit
<1>. QED
  BY <1>3, <1>4

-----------------------------------------------------------------------------
(* The statements: what each compiles to is typed                          *)

Shown(scs) == UNION {DOMAIN scs[i].syms : i \in DOMAIN scs}

LEMMA ShownSlot ==
    ASSUME NEW g, NEW T, NEW scs, NEW tx, NEW n, Body(g, T, scs, tx, n),
           NEW v \in Shown(scs)
    PROVE  /\ v \in Names /\ g.sym[v] \in 1..n
           /\ \A kinds : Kind[v] \in kinds => g.sym[v] \in SlotsOf(tx, n, kinds)
           /\ Kind[v] \in Pointers => g.sym[v] \in Owned(g.frames, 1, Len(g.frames))
<1>1. scs \in Seq(Scope)
  BY DEF Body
<1>2. PICK d \in 1..Len(scs) : v \in DOMAIN scs[d].syms
  BY <1>1 DEF Shown
<1>3. /\ v \in Names /\ g.sym[v] \in SlotsOf(tx, n, {Kind[v]})
      /\ Kind[v] \in Pointers => g.sym[v] \in Owned(g.frames, 1, Len(g.frames))
  BY <1>2, VisibleSlot
<1>. QED
  BY <1>3 DEF SlotsOf

LEMMA CompileUse ==
    ASSUME NEW g, NEW T, NEW scs, NEW tx, NEW n, Body(g, T, scs, tx, n),
           NEW v \in Shown(scs), NEW at \in 1..Len(tx), tx[at].v = v,
           NEW do \in {"use", "write"}, NEW R, SameShape(scs, R)
    PROVE  Body(Emit(g, <<[do |-> do, slot |-> g.sym[v], at |-> at]>>), T, R, tx, n)
<1>. DEFINE i == [do |-> do, slot |-> g.sym[v], at |-> at]
            A == Owned(g.frames, 1, Len(g.frames))
<1>1. /\ g.sym[v] \in 1..n /\ at \in Nat
      /\ Kind[v] \in Pointers => g.sym[v] \in A \cap SlotsOf(tx, n, Pointers)
  BY ShownSlot
<1>2. i \in Instrs(n) /\ i.do = do /\ i.slot = g.sym[v] /\ i.at = at
  BY <1>1 DEF Instrs
<1>. HIDE DEF i, A
<1>3. i.do \notin Control /\ ~Leaves(i) /\ i.do # "again"
  BY <1>2 DEF Control, Leaves
<1>4. Fits(i, A, T, tx, n) /\ After(i, A, tx) = A
  BY <1>1, <1>2 DEF Fits, After
<1>5. Body(Emit(g, <<i>>), T, R, tx, n)
  BY <1>2, <1>3, <1>4, EmitStays DEF A
<1>. QED
  BY <1>5 DEF i

LEMMA CompileRebind ==
    ASSUME NEW g, NEW T, NEW scs, NEW tx, NEW n, Body(g, T, scs, tx, n),
           NEW v \in Shown(scs), Kind[v] = "ref", NEW w \in Shown(scs), NEW at \in Nat,
           NEW R, SameShape(scs, R)
    PROVE  Body(Emit(g, <<[do |-> "refer", from |-> g.sym[w], slot |-> g.sym[v],
                           at |-> at]>>), T, R, tx, n)
<1>. DEFINE i == [do |-> "refer", from |-> g.sym[w], slot |-> g.sym[v], at |-> at]
            A == Owned(g.frames, 1, Len(g.frames))
<1>1. g.sym[v] \in 1..n /\ g.sym[w] \in 1..n /\ g.sym[v] \in SlotsOf(tx, n, {"ref"})
  BY ShownSlot
<1>2. /\ i \in Instrs(n) /\ i.do = "refer" /\ i.from \in 1..n
      /\ i.slot \in SlotsOf(tx, n, {"ref"})
  BY <1>1 DEF Instrs
<1>. HIDE DEF i, A
<1>3. i.do \notin Control /\ ~Leaves(i) /\ i.do # "again"
  BY <1>2 DEF Control, Leaves
<1>4. Fits(i, A, T, tx, n) /\ After(i, A, tx) = A
  BY <1>2 DEF Fits, After
<1>5. Body(Emit(g, <<i>>), T, R, tx, n)
  BY <1>2, <1>3, <1>4, EmitStays DEF A
<1>. QED
  BY <1>5 DEF i

LEMMA CompileCede ==
    ASSUME NEW g, NEW T, NEW scs, NEW tx, NEW n, Body(g, T, scs, tx, n),
           NEW v \in Shown(scs), Kind[v] \in {"unique", "value"}, NEW at \in Nat,
           NEW R, SameShape(scs, R)
    PROVE  Body(Suppress(Emit(g, <<[do |-> "give", slot |-> g.sym[v], at |-> at]>>), v),
                T, R, tx, n)
<1>. DEFINE i == [do |-> "give", slot |-> g.sym[v], at |-> at]
            A == Owned(g.frames, 1, Len(g.frames))
<1>1. /\ g.sym[v] \in 1..n
      /\ \/ g.sym[v] \in SlotsOf(tx, n, {"value"})
         \/ g.sym[v] \in A \cap SlotsOf(tx, n, {"unique"})
  <2>1. Kind[v] = "unique" => Kind[v] \in Pointers
    BY DEF Pointers
  <2>. QED  BY <2>1, ShownSlot
<1>2. i \in Instrs(n) /\ i.do = "give" /\ i.slot = g.sym[v]
  BY <1>1 DEF Instrs
<1>. HIDE DEF i, A
<1>3. i.do \notin Control /\ ~Leaves(i) /\ i.do # "again"
  BY <1>2 DEF Control, Leaves
<1>4. Fits(i, A, T, tx, n) /\ After(i, A, tx) = A
  BY <1>1, <1>2 DEF Fits, After
<1>5. SameShape(scs, scs)
  BY ShapeSelf DEF Body
<1>6. Body(Emit(g, <<i>>), T, scs, tx, n)
  BY <1>2, <1>3, <1>4, <1>5, EmitStays DEF A
<1>7. Body(Suppress(Emit(g, <<i>>), v), T, R, tx, n)
  BY <1>6, BodySuppress
<1>. QED
  BY <1>7 DEF i

\* i puts an object into the register or into the slot of a declaration.
Takes(i, k, A, T, tx, n) ==
    /\ i \in Instrs(n) /\ i.do \notin Control /\ ~Leaves(i) /\ i.do # "again"
    /\ Fits(i, A, T, tx, n) /\ After(i, A, tx) = A \cup {k}

\* How a handle comes there.
LEMMA FetchFits ==
    ASSUME NEW g, NEW T, NEW scs, NEW tx, NEW n, Body(g, T, scs, tx, n),
           NEW w \in Shown(scs), Kind[w] \in Pointers, NEW at \in Nat,
           NEW k, k = 0 \/ (k \in SlotsOf(tx, n, Pointers)
                            /\ k \notin Owned(g.frames, 1, Len(g.frames)))
    PROVE  Takes([do |-> Fetch(w), from |-> g.sym[w], slot |-> k, at |-> at],
                 k, Owned(g.frames, 1, Len(g.frames)), T, tx, n)
<1>. DEFINE i == [do |-> Fetch(w), from |-> g.sym[w], slot |-> k, at |-> at]
            A == Owned(g.frames, 1, Len(g.frames))
<1>1. g.sym[w] \in 1..n /\ g.sym[w] \in SlotsOf(tx, n, Pointers) /\ g.sym[w] \in A
  BY ShownSlot
<1>2. Fetch(w) \in {"move", "share"}
  BY DEF Fetch, Pointers
<1>3. 0 \notin A
  BY OwnedSlots
<1>4. k \in 0..n
  BY <1>1 DEF SlotsOf, Body
<1>5. i \in Instrs(n) /\ i.do \in {"move", "share"} /\ i.from = g.sym[w] /\ i.slot = k
  BY <1>1, <1>2, <1>4 DEF Instrs
<1>6. k \in (SlotsOf(tx, n, Pointers) \cup {0}) \ A
  BY <1>3
<1>. HIDE DEF i, A
<1>7. Fits(i, A, T, tx, n) /\ After(i, A, tx) = A \cup {k}
  BY <1>1, <1>5, <1>6 DEF Fits, After
<1>8. Takes(i, k, A, T, tx, n)
  BY <1>5, <1>7 DEF Takes, Control, Leaves
<1>. QED
  BY <1>8 DEF i, A

\* The statement at is about v.
Declares(tx, at, v) == tx[at].v = v

\* What is assigned to v: nothing that has a name, or a handle of v's kind.
Source(scs, v, w) == w = "" \/ (w \in Shown(scs) /\ Kind[w] = Kind[v])

\* What is assigned comes into the register.
Assigned(g, w, at) ==
    IF w = "" THEN [do |-> "new", slot |-> 0, at |-> at]
    ELSE [do |-> Fetch(w), from |-> g.sym[w], slot |-> 0, at |-> at]

LEMMA AssignedFits ==
    ASSUME NEW g, NEW T, NEW scs, NEW tx, NEW n, Body(g, T, scs, tx, n),
           NEW v, Kind[v] \in Pointers, NEW w, Source(scs, v, w),
           NEW at \in 1..Len(tx), at \in Nat, Declares(tx, at, v)
    PROVE  Takes(Assigned(g, w, at), 0, Owned(g.frames, 1, Len(g.frames)), T, tx, n)
<1>. DEFINE A == Owned(g.frames, 1, Len(g.frames))
            i == Assigned(g, w, at)
<1>1. n \in Nat /\ 0 \in 0..n
  BY DEF Body
<1>2. 0 \notin A
  BY OwnedSlots
<1>3. CASE w = ""
  <2>1. i = [do |-> "new", slot |-> 0, at |-> at]
    BY <1>3 DEF Assigned
  <2>2. i \in Instrs(n) /\ i.do = "new" /\ i.slot = 0 /\ i.at = at
    BY <1>1, <2>1 DEF Instrs
  <2>3. Kind[tx[at].v] \in Pointers /\ Kind[tx[at].v] # "value"
    BY DEF Pointers, Declares
  <2>. HIDE DEF i, A
  <2>4. i.do \notin Control /\ ~Leaves(i) /\ i.do # "again"
    BY <2>2 DEF Control, Leaves
  <2>5. Fits(i, A, T, tx, n)
    BY <1>2, <2>2, <2>3 DEF Fits
  <2>6. After(i, A, tx) = A \cup {0}
    BY <2>2, <2>3 DEF After
  <2>7. Takes(i, 0, A, T, tx, n)
    BY <2>2, <2>4, <2>5, <2>6 DEF Takes
  <2>. QED
    BY <2>7 DEF i, A
<1>4. CASE w # ""
  <2>1. w \in Shown(scs) /\ Kind[w] \in Pointers
    BY <1>4 DEF Source
  <2>2. i = [do |-> Fetch(w), from |-> g.sym[w], slot |-> 0, at |-> at]
    BY <1>4 DEF Assigned
  <2>3. Takes([do |-> Fetch(w), from |-> g.sym[w], slot |-> 0, at |-> at],
              0, Owned(g.frames, 1, Len(g.frames)), T, tx, n)
    BY <2>1, FetchFits, Zenon
  <2>. QED
    BY <2>2, <2>3
<1>. QED
  BY <1>3, <1>4

\* An assignment with a # on the left: the new object comes into the register,
\* the old one is released and the register is stored.
LEMMA CompileSharp ==
    ASSUME NEW g, NEW T, NEW scs, NEW tx, NEW n, Body(g, T, scs, tx, n),
           NEW v \in Shown(scs), Kind[v] \in Pointers,
           NEW w, Source(scs, v, w),
           NEW at \in 1..Len(tx), Declares(tx, at, v), NEW R, SameShape(scs, R)
    PROVE  Body(GenAssign(g, [op |-> "assign", v |-> v, w |-> w,
                             sharp |-> TRUE], at), T, R, tx, n)
<1>. DEFINE A  == Owned(g.frames, 1, Len(g.frames))
            to == g.sym[v]
            i  == Assigned(g, w, at)
            r  == [do |-> "release", slot |-> to, at |-> at]
            t  == [do |-> "store", slot |-> to]
            e  == Emit(g, <<i>>)
            f  == Emit(e, <<r>>)
            h  == Emit(f, <<t>>)
<1>0. at \in Nat /\ g \in GenStates(n) /\ n \in Nat /\ 0 \in 0..n
  <2>1. tx \in Seq(Statements) /\ g \in GenStates(n) /\ n \in Nat
    BY DEF Body
  <2>2. Len(tx) \in Nat
    BY <2>1
  <2>. QED  BY <2>1, <2>2
<1>1. to \in 1..n /\ to \in 0..n /\ to \in SlotsOf(tx, n, Pointers) /\ to \in A
  BY <1>0, ShownSlot
<1>2. /\ A \subseteq SlotsOf(tx, n, Pointers) /\ A \in States(tx, n)
      /\ 0 \notin A /\ -1 \notin A
  BY OwnedSlots
<1>3. Made(g, A, T, tx, n)
  BY DEF Body
<1>4. /\ i \in Instrs(n) /\ i.do \notin Control /\ ~Leaves(i) /\ i.do # "again"
      /\ Fits(i, A, T, tx, n) /\ After(i, A, tx) = A \cup {0}
  <2>1. Takes(Assigned(g, w, at), 0, Owned(g.frames, 1, Len(g.frames)), T, tx, n)
    BY <1>0, AssignedFits, Zenon
  <2>. QED  BY <2>1 DEF Takes
<1>5. /\ r \in Instrs(n) /\ r.do = "release" /\ r.slot = to
      /\ r.do \notin Control /\ ~Leaves(r) /\ r.do # "again"
  BY <1>0, <1>1 DEF Instrs, Control, Leaves
<1>6. /\ t \in Instrs(n) /\ t.do = "store" /\ t.slot = to
      /\ t.do \notin Control /\ ~Leaves(t) /\ t.do # "again"
  BY <1>1 DEF Instrs, Control, Leaves
<1>7. GenAssign(g, [op |-> "assign", v |-> v, w |-> w,
                             sharp |-> TRUE], at) = h
  <2>1. GenAssign(g, [op |-> "assign", v |-> v, w |-> w,
                             sharp |-> TRUE], at) = Emit(g, <<i, r, t>>)
    BY DEF GenAssign, Assigned
  <2>. HIDE DEF i, r, t
  <2>. QED  BY <1>0, <1>4, <1>5, <1>6, <2>1, EmitThree
<1>. HIDE DEF i, r, t, A, to
<1>8. A \cup {0} \in States(tx, n)
  <2>1. After(i, A, tx) \in States(tx, n)
    BY <1>2, <1>4, AfterState
  <2>. QED  BY <1>4, <2>1
<1>9. e \in GenStates(n) /\ Plain(g, e) /\ Made(e, A \cup {0}, T, tx, n)
  BY <1>0, <1>3, <1>4, <1>8, EmitOne, EmitPlain, EmitMade
<1>. HIDE DEF e
<1>10. /\ Fits(r, A \cup {0}, T, tx, n)
       /\ After(r, A \cup {0}, tx) = (A \cup {0}) \ {to}
  BY <1>1, <1>5 DEF Fits, After
<1>11. (A \cup {0}) \ {to} \in States(tx, n)
  <2>1. After(r, A \cup {0}, tx) \in States(tx, n)
    BY <1>8, <1>10, AfterState
  <2>. QED  BY <1>10, <2>1
<1>12. f \in GenStates(n) /\ Plain(e, f) /\ Made(f, (A \cup {0}) \ {to}, T, tx, n)
  BY <1>5, <1>9, <1>10, <1>11, EmitOne, EmitPlain, EmitMade
<1>. HIDE DEF f
<1>13. /\ Fits(t, (A \cup {0}) \ {to}, T, tx, n)
       /\ After(t, (A \cup {0}) \ {to}, tx) = A
  <2>1. to # 0 /\ to # -1
    BY <1>1
  <2>2. /\ 0 \in (A \cup {0}) \ {to} /\ -1 \notin (A \cup {0}) \ {to}
        /\ to \in SlotsOf(tx, n, Pointers) \ ((A \cup {0}) \ {to})
        /\ (((A \cup {0}) \ {to}) \ {0}) \cup {to} = A
    BY <1>1, <1>2, <2>1
  <2>. QED
    BY <1>6, <2>2 DEF Fits, After
<1>14. h \in GenStates(n) /\ Plain(f, h) /\ Made(h, A, T, tx, n)
  BY <1>2, <1>6, <1>12, <1>13, EmitOne, EmitPlain, EmitMade
<1>. HIDE DEF h
<1>15. Plain(g, h)
  BY <1>9, <1>12, <1>14, PlainIsTransitive
<1>16. /\ h.frames = g.frames /\ h.sym = g.sym
       /\ Jumps(h.code) = Jumps(g.code) /\ Placed(h.code) = Placed(g.code)
  BY <1>15 DEF Plain
<1>17. Alike(g.frames, h.frames)
  <2>1. g.frames \in Seq(Frames)
    BY <1>0, GenType
  <2>. QED  BY <1>16, <2>1, AlikeSelf
<1>18. Jumps(h.code) \subseteq Placed(h.code) \cup Pending(g.frames)
  BY <1>16 DEF Body, Resolved
<1>19. Body(h, T, R, tx, n)
  BY <1>14, <1>16, <1>17, <1>18, BodyStays DEF A
<1>. QED
  BY <1>7, <1>19

LEMMA PairIs ==
    ASSUME NEW S, NEW i \in S, NEW j \in S PROVE <<i>> \o <<j>> = <<i, j>>
<1>. DEFINE p == <<i>> \o <<j>>
            q == <<i, j>>
<1>1. p \in Seq(S) /\ Len(p) = 2 /\ p[1] = i /\ p[2] = j
  OBVIOUS
<1>2. q \in Seq(S) /\ Len(q) = 2 /\ q[1] = i /\ q[2] = j
  OBVIOUS
<1>. HIDE DEF p, q
<1>3. \A m \in 1..2 : p[m] = q[m]
  <2>1. \A m \in 1..2 : m = 1 \/ m = 2
    OBVIOUS
  <2>. QED  BY <1>1, <1>2, <2>1
<1>4. p = q
  BY <1>1, <1>2, <1>3
<1>. QED
  BY <1>4 DEF p, q

\* One without: the register is stored over the old object.
LEMMA CompilePlain ==
    ASSUME NEW g, NEW T, NEW scs, NEW tx, NEW n, Body(g, T, scs, tx, n),
           NEW v \in Shown(scs), Kind[v] \in Pointers,
           NEW w, Source(scs, v, w),
           NEW at \in 1..Len(tx), Declares(tx, at, v), NEW R, SameShape(scs, R)
    PROVE  Body(GenAssign(g, [op |-> "assign", v |-> v, w |-> w,
                             sharp |-> FALSE], at), T, R, tx, n)
<1>. DEFINE A  == Owned(g.frames, 1, Len(g.frames))
            to == g.sym[v]
            do == IF w = "" /\ Kind[v] = "shared" THEN "graft" ELSE "put"
            i  == Assigned(g, w, at)
            t  == [do |-> do, slot |-> to]
            e  == Emit(g, <<i>>)
            h  == Emit(e, <<t>>)
<1>0. at \in Nat /\ g \in GenStates(n) /\ n \in Nat /\ 0 \in 0..n
  <2>1. tx \in Seq(Statements) /\ g \in GenStates(n) /\ n \in Nat
    BY DEF Body
  <2>2. Len(tx) \in Nat
    BY <2>1
  <2>. QED  BY <2>1, <2>2
<1>1. to \in 1..n /\ to \in 0..n /\ to \in SlotsOf(tx, n, Pointers) /\ to \in A
  BY <1>0, ShownSlot
<1>2. /\ A \subseteq SlotsOf(tx, n, Pointers) /\ A \in States(tx, n)
      /\ 0 \notin A /\ -1 \notin A
  BY OwnedSlots
<1>3. Made(g, A, T, tx, n)
  BY DEF Body
<1>4. /\ i \in Instrs(n) /\ i.do \notin Control /\ ~Leaves(i) /\ i.do # "again"
      /\ Fits(i, A, T, tx, n) /\ After(i, A, tx) = A \cup {0}
  <2>1. Takes(Assigned(g, w, at), 0, Owned(g.frames, 1, Len(g.frames)), T, tx, n)
    BY <1>0, AssignedFits, Zenon
  <2>. QED  BY <2>1 DEF Takes
<1>5. do \in {"put", "graft"}
  OBVIOUS
<1>6. /\ t \in Instrs(n) /\ t.do \in {"put", "graft"} /\ t.slot = to
      /\ t.do \notin Control /\ ~Leaves(t) /\ t.do # "again"
  <2>. HIDE DEF do
  <2>. QED  BY <1>1, <1>5 DEF Instrs, Control, Leaves
<1>7. GenAssign(g, [op |-> "assign", v |-> v, w |-> w, sharp |-> FALSE], at) = h
  <2>1. GenAssign(g, [op |-> "assign", v |-> v, w |-> w, sharp |-> FALSE], at)
          = Emit(g, <<i, t>>)
    BY DEF GenAssign, Assigned
  <2>. HIDE DEF i, t
  <2>2. <<i>> \o <<t>> = <<i, t>>
    BY <1>4, <1>6, PairIs
  <2>3. Emit(g, <<i>> \o <<t>>) = Emit(Emit(g, <<i>>), <<t>>)
    BY <1>0, <1>4, <1>6, EmitTwo
  <2>. QED  BY <2>1, <2>2, <2>3
<1>. HIDE DEF i, t, A, to, do
<1>8. A \cup {0} \in States(tx, n)
  <2>1. After(i, A, tx) \in States(tx, n)
    BY <1>2, <1>4, AfterState
  <2>. QED  BY <1>4, <2>1
<1>9. e \in GenStates(n) /\ Plain(g, e) /\ Made(e, A \cup {0}, T, tx, n)
  BY <1>0, <1>3, <1>4, <1>8, EmitOne, EmitPlain, EmitMade
<1>. HIDE DEF e
<1>10. Fits(t, A \cup {0}, T, tx, n) /\ After(t, A \cup {0}, tx) = A
  <2>1. /\ 0 \in A \cup {0} /\ -1 \notin A \cup {0}
        /\ to \in SlotsOf(tx, n, Pointers) \cap (A \cup {0})
        /\ (A \cup {0}) \ {0} = A
    BY <1>1, <1>2
  <2>. QED
    BY <1>6, <2>1 DEF Fits, After
<1>11. h \in GenStates(n) /\ Plain(e, h) /\ Made(h, A, T, tx, n)
  BY <1>2, <1>6, <1>9, <1>10, EmitOne, EmitPlain, EmitMade
<1>. HIDE DEF h
<1>12. Plain(g, h)
  BY <1>9, <1>11, PlainIsTransitive
<1>13. /\ h.frames = g.frames /\ h.sym = g.sym
       /\ Jumps(h.code) = Jumps(g.code) /\ Placed(h.code) = Placed(g.code)
  BY <1>12 DEF Plain
<1>14. Alike(g.frames, h.frames)
  <2>1. g.frames \in Seq(Frames)
    BY <1>0, GenType
  <2>. QED  BY <1>13, <2>1, AlikeSelf
<1>15. Jumps(h.code) \subseteq Placed(h.code) \cup Pending(g.frames)
  BY <1>13 DEF Body, Resolved
<1>16. Body(h, T, R, tx, n)
  BY <1>11, <1>13, <1>14, <1>15, BodyStays DEF A
<1>. QED
  BY <1>7, <1>16

LEMMA CompileAssign ==
    ASSUME NEW g, NEW T, NEW scs, NEW tx, NEW n, Body(g, T, scs, tx, n),
           NEW v \in Shown(scs), Kind[v] \in Pointers,
           NEW w, Source(scs, v, w), NEW sharp \in BOOLEAN,
           NEW at \in 1..Len(tx), Declares(tx, at, v), NEW R, SameShape(scs, R)
    PROVE  Body(GenAssign(g, [op |-> "assign", v |-> v, w |-> w,
                             sharp |-> sharp], at), T, R, tx, n)
<1>1. CASE sharp = TRUE
  BY <1>1, CompileSharp
<1>2. CASE sharp = FALSE
  BY <1>2, CompilePlain
<1>. QED
  BY <1>1, <1>2

\* A statement that control does not leave: k is what was emitted before it.
LEMMA BodyStops ==
    ASSUME NEW g, NEW T, NEW scs, NEW tx, NEW n, Body(g, T, scs, tx, n),
           NEW k \in GenStates(n), Alike(g.frames, k.frames), k.sym = g.sym,
           Jumps(k.code) = Jumps(g.code), Placed(k.code) = Placed(g.code),
           NEW B, Made(k, B, T, tx, n),
           NEW i \in Instrs(n), Leaves(i), Fits(i, B, T, tx, n),
           i.do = "jmp" => i.to \in Placed(g.code) \cup Pending(g.frames),
           NEW R, SameShape(scs, R)
    PROVE  Body(Stop(Emit(k, <<i>>)), T, R, tx, n)
<1>. DEFINE A == Owned(g.frames, 1, Len(g.frames))
            e == Emit(k, <<i>>)
            h == Stop(e)
<1>1. A \in States(tx, n)
  BY OwnedSlots
<1>. HIDE DEF A
<1>2. /\ h \in GenStates(n) /\ Made(h, A, T, tx, n) /\ ~h.live
      /\ h.frames = k.frames /\ h.sym = k.sym /\ h.code = e.code
  BY <1>1, StopMade
<1>3. k.code \in Seq(Instrs(n))
  BY GenType
<1>4. e.code = IF k.live THEN Append(k.code, i) ELSE k.code
  BY EmitOne
<1>. HIDE DEF e, h
<1>5. i.do # "label"
  BY DEF Leaves
<1>6. /\ Placed(h.code) = Placed(k.code)
      /\ Jumps(h.code) = Jumps(k.code)
         \/ (i.do = "jmp" /\ Jumps(h.code) = Jumps(k.code) \cup {i.to})
  BY <1>2, <1>3, <1>4, <1>5, Jumped DEF Leaves
<1>7. Jumps(h.code) \subseteq Placed(h.code) \cup Pending(g.frames)
  <2>1. Jumps(g.code) \subseteq Placed(g.code) \cup Pending(g.frames)
    BY DEF Body, Resolved
  <2>. QED  BY <1>6, <2>1
<1>8. Alike(g.frames, h.frames) /\ h.sym = g.sym
  BY <1>2
<1>9. Body(h, T, R, tx, n)
  BY <1>2, <1>6, <1>7, <1>8, BodyStays DEF A
<1>. QED
  BY <1>9 DEF h, e

LEMMA OwnedNone == ASSUME NEW frames PROVE Owned(frames, 1, 0) = {}
BY DEF Owned

LEMMA CompileReturnNone ==
    ASSUME NEW g, NEW T, NEW scs, NEW tx, NEW n, Body(g, T, scs, tx, n),
           NEW at \in Nat, NEW R, SameShape(scs, R)
    PROVE  Body(GenReturn(g, "", at), T, R, tx, n)
<1>. DEFINE k == Unwind(g, 0, at)
            A == Owned(g.frames, 1, Len(g.frames))
<1>1. /\ g \in GenStates(n) /\ FramesFit(g.frames, tx, n) /\ Made(g, A, T, tx, n)
      /\ g.frames \in Seq(Frames)
  BY GenType DEF Body
<1>2. A \cup {} = A /\ {} \in SUBSET {-1, 0} /\ 0 \in 0..Len(g.frames)
  BY <1>1
<1>3. k \in GenStates(n) /\ Plain(g, k) /\ Made(k, {}, T, tx, n)
  <2>. HIDE DEF A
  <2>1. Made(g, A \cup {}, T, tx, n)
    BY <1>1, <1>2
  <2>2. /\ k \in GenStates(n) /\ Plain(g, k)
        /\ Made(k, Owned(g.frames, 1, 0) \cup {}, T, tx, n)
    BY <1>1, <1>2, <2>1, UnwindOwned DEF A
  <2>. HIDE DEF k
  <2>3. Owned(g.frames, 1, 0) \cup {} = {}
    BY OwnedNone
  <2>. QED  BY <2>2, <2>3
<1>4. Ret0 \in Instrs(n) /\ Leaves(Ret0) /\ Ret0.do # "jmp"
  BY DEF Ret0, Instrs, Leaves
<1>5. Fits(Ret0, {}, T, tx, n)
  BY DEF Ret0, Fits
<1>. HIDE DEF k
<1>6. /\ Alike(g.frames, k.frames) /\ k.sym = g.sym
      /\ Jumps(k.code) = Jumps(g.code) /\ Placed(k.code) = Placed(g.code)
  BY <1>1, <1>3, AlikeSelf DEF Plain
<1>7. Body(Stop(Emit(k, <<Ret0>>)), T, R, tx, n)
  BY <1>3, <1>4, <1>5, <1>6, BodyStops
<1>. QED
  BY <1>7 DEF GenReturn, k

\* The value of v is in the register: e is what g became, and the register
\* owns the object, twice when R has -1.
Loaded(g, e, R, T, tx, n) ==
    /\ e \in GenStates(n) /\ Plain(g, e) /\ R \in SUBSET {-1, 0} /\ 0 \in R
    /\ Made(e, Owned(g.frames, 1, Len(g.frames)) \cup R, T, tx, n)

LEMMA LoadedOnce ==
    ASSUME NEW g, NEW T, NEW scs, NEW tx, NEW n, Body(g, T, scs, tx, n),
           NEW i, Takes(i, 0, Owned(g.frames, 1, Len(g.frames)), T, tx, n)
    PROVE  Loaded(g, Emit(g, <<i>>), {0}, T, tx, n)
<1>. DEFINE A == Owned(g.frames, 1, Len(g.frames))
            e == Emit(g, <<i>>)
<1>1. g \in GenStates(n) /\ Made(g, A, T, tx, n) /\ A \in States(tx, n)
  BY OwnedSlots DEF Body
<1>2. /\ i \in Instrs(n) /\ i.do \notin Control /\ ~Leaves(i) /\ i.do # "again"
      /\ Fits(i, A, T, tx, n) /\ After(i, A, tx) = A \cup {0}
  BY DEF Takes
<1>. HIDE DEF A
<1>3. After(i, A, tx) \in States(tx, n)
  BY <1>1, <1>2, AfterState
<1>4. A \cup {0} \in States(tx, n)
  BY <1>2, <1>3
<1>5. e \in GenStates(n) /\ Plain(g, e) /\ Made(e, A \cup {0}, T, tx, n)
  BY <1>1, <1>2, <1>4, EmitOne, EmitPlain, EmitMade
<1>. HIDE DEF e
<1>6. Loaded(g, e, {0}, T, tx, n)
  BY <1>5 DEF Loaded, A
<1>. QED
  BY <1>6 DEF e

\* A value is copied into the register and keeps its drop until Suppress.
LEMMA LoadedValue ==
    ASSUME NEW g, NEW T, NEW scs, NEW tx, NEW n, Body(g, T, scs, tx, n),
           NEW v \in Shown(scs), Kind[v] = "value", NEW at \in Nat,
           NEW i, i = [do |-> Fetch(v), from |-> g.sym[v], slot |-> 0, at |-> at]
    PROVE  Loaded(g, Emit(g, <<i>>), {-1, 0}, T, tx, n)
<1>. DEFINE A == Owned(g.frames, 1, Len(g.frames))
            e == Emit(g, <<i>>)
<1>1. g.sym[v] \in 1..n /\ g.sym[v] \in SlotsOf(tx, n, {"value"})
  BY ShownSlot
<1>2. Fetch(v) = "read"
  BY DEF Fetch
<1>3. /\ 0 \notin A /\ A \in States(tx, n)
      /\ g \in GenStates(n) /\ Made(g, A, T, tx, n)
  BY OwnedSlots DEF Body
<1>4. 0 \in 0..n /\ g.sym[v] \in 0..n
  BY <1>1 DEF Body
<1>5. i \in Instrs(n) /\ i.do = "read" /\ i.from = g.sym[v] /\ i.slot = 0
  BY <1>2, <1>4 DEF Instrs
<1>. HIDE DEF A
<1>6. Fits(i, A, T, tx, n) /\ After(i, A, tx) = A \cup {-1, 0}
  BY <1>1, <1>3, <1>5 DEF Fits, After
<1>7. i.do \notin Control /\ ~Leaves(i) /\ i.do # "again"
  BY <1>5 DEF Control, Leaves
<1>8. A \cup {-1, 0} \in States(tx, n)
  BY <1>3, <1>6, AfterState
<1>9. e \in GenStates(n) /\ Plain(g, e) /\ Made(e, A \cup {-1, 0}, T, tx, n)
  BY <1>3, <1>5, <1>6, <1>7, <1>8, EmitOne, EmitPlain, EmitMade
<1>. HIDE DEF e
<1>10. Loaded(g, e, {-1, 0}, T, tx, n)
  BY <1>9 DEF Loaded, A
<1>. QED
  BY <1>10 DEF e

\* ~v is returned: a second owner is added.
LEMMA LoadedTwice ==
    ASSUME NEW g, NEW T, NEW scs, NEW tx, NEW n, Body(g, T, scs, tx, n),
           NEW v \in Shown(scs), Kind[v] = "shared", NEW at \in Nat,
           NEW i, i = [do |-> Fetch(v), from |-> g.sym[v], slot |-> 0, at |-> at],
           NEW j, j = [i EXCEPT !.do = "again"]
    PROVE  Loaded(g, Emit(g, <<i>> \o <<j>>), {-1, 0}, T, tx, n)
<1>. DEFINE A == Owned(g.frames, 1, Len(g.frames))
            e == Emit(g, <<i>>)
            f == Emit(e, <<j>>)
<1>0. Kind[v] \in Pointers
  BY DEF Pointers
<1>1. /\ g.sym[v] \in 0..n /\ g.sym[v] \in SlotsOf(tx, n, Pointers) /\ g.sym[v] \in A
      /\ 0 \in 0..n
  <2>1. g.sym[v] \in 1..n /\ n \in Nat
    BY ShownSlot DEF Body
  <2>. QED  BY <1>0, <2>1, ShownSlot
<1>2. Takes(i, 0, A, T, tx, n)
  BY <1>0, FetchFits, Zenon
<1>3. g \in GenStates(n) /\ Loaded(g, e, {0}, T, tx, n)
  BY <1>2, LoadedOnce DEF Body
<1>4. i \in Instrs(n) /\ i.do = "share" /\ i.from = g.sym[v] /\ i.slot = 0
  BY <1>2 DEF Takes, Fetch
<1>5. j = [do |-> "again", from |-> g.sym[v], slot |-> 0, at |-> at]
  BY DEF Fetch
<1>6. j \in Instrs(n) /\ j.do = "again" /\ j.from = g.sym[v] /\ j.slot = 0
  BY <1>1, <1>5 DEF Instrs
<1>7. j.do \notin Control /\ ~Leaves(j)
  BY <1>6 DEF Control, Leaves
<1>8. /\ A \subseteq SlotsOf(tx, n, Pointers) /\ 0 \notin A /\ -1 \notin A
  BY OwnedSlots
<1>9. /\ e \in GenStates(n) /\ Plain(g, e) /\ Made(e, A \cup {0}, T, tx, n)
  BY <1>3 DEF Loaded
<1>10. e.live => Len(e.code) > 0 /\ e.code[Len(e.code)] = i
  <2>1. g.code \in Seq(Instrs(n))
    BY <1>3, GenType
  <2>2. e.live = g.live /\ e.code = IF g.live THEN Append(g.code, i) ELSE g.code
    BY <1>3, <1>4, EmitOne
  <2>3. /\ Len(Append(g.code, i)) = Len(g.code) + 1
        /\ Append(g.code, i)[Len(g.code) + 1] = i /\ Len(g.code) \in Nat
    BY <1>4, <2>1, Appended
  <2>. HIDE DEF e
  <2>. QED  BY <2>2, <2>3
<1>11. Emit(g, <<i>> \o <<j>>) = f
  BY <1>3, <1>4, <1>6, EmitTwo
<1>. HIDE DEF A, e
<1>12. Fits(j, A \cup {0}, T, tx, n) /\ After(j, A \cup {0}, tx) = (A \cup {0}) \cup {-1}
  BY <1>1, <1>6, <1>8 DEF Fits, After
<1>13. (A \cup {0}) \cup {-1} \in States(tx, n)
  <2>1. A \cup {0} \in States(tx, n)
    BY <1>9 DEF Made
  <2>2. After(j, A \cup {0}, tx) \in States(tx, n)
    BY <1>12, <2>1, AfterState
  <2>. QED  BY <1>12, <2>2
<1>14. Made(f, (A \cup {0}) \cup {-1}, T, tx, n)
  BY <1>4, <1>6, <1>7, <1>9, <1>10, <1>12, <1>13, EmitMade
<1>15. f \in GenStates(n) /\ Plain(e, f)
  BY <1>6, <1>7, <1>9, EmitOne, EmitPlain
<1>. HIDE DEF f
<1>16. Plain(g, f)
  BY <1>9, <1>15, PlainIsTransitive
<1>17. (A \cup {0}) \cup {-1} = A \cup {-1, 0}
  OBVIOUS
<1>18. Loaded(g, f, {-1, 0}, T, tx, n)
  BY <1>14, <1>15, <1>16, <1>17 DEF Loaded, A
<1>. QED
  BY <1>11, <1>18

\* The frames after Suppress.
Undropped(F, v) ==
    LET has == {i \in DOMAIN F :
                  \E j \in DOMAIN F[i].entries : F[i].entries[j].name = v}
        d   == CHOOSE i \in has : \A k \in has : k <= i
    IN  [F EXCEPT ![d].entries =
            [j \in DOMAIN @ |-> IF @[j].name = v THEN [@[j] EXCEPT !.how = "none"]
                                ELSE @[j]]]

LEMMA SuppressFrames ==
    ASSUME NEW n, NEW g \in GenStates(n), NEW v, Kind[v] = "value"
    PROVE  Suppress(g, v).frames = Undropped(g.frames, v)
<1>1. Suppress(g, v) = [g EXCEPT !.frames = Undropped(g.frames, v)]
  BY DEF Suppress, Undropped
<1>. HIDE DEF Undropped
<1>. QED  BY <1>1 DEF GenStates

LEMMA NothingAdded == ASSUME NEW i PROVE <<i>> \o <<>> = <<i>>
<1>1. <<i>> \in Seq({i}) /\ <<>> \in Seq({i})
  OBVIOUS
<1>2. LET s == <<i>> \o <<>>
      IN  s \in Seq({i}) /\ Len(s) = 1 /\ s[1] = i
  BY <1>1
<1>3. \A s \in Seq({i}) : Len(s) = 1 /\ s[1] = i => s = <<i>>
  BY <1>1
<1>. QED  BY <1>2, <1>3

\* The value is in the register: every scope is left.
LEMMA CompileLoaded ==
    ASSUME NEW g, NEW T, NEW scs, NEW tx, NEW n, Body(g, T, scs, tx, n),
           NEW e, NEW B, Loaded(g, e, B, T, tx, n),
           NEW v, NEW at \in Nat, NEW R, SameShape(scs, R)
    PROVE  Body(Stop(Emit(Unwind(Suppress(e, v), 0, at),
                          <<[do |-> "ret", value |-> TRUE]>>)), T, R, tx, n)
<1>. DEFINE A == Owned(g.frames, 1, Len(g.frames))
            x == Suppress(e, v)
            y == Unwind(x, 0, at)
            i == [do |-> "ret", value |-> TRUE]
<1>1. /\ e \in GenStates(n) /\ Plain(g, e) /\ B \in SUBSET {-1, 0} /\ 0 \in B
      /\ Made(e, A \cup B, T, tx, n)
  BY DEF Loaded
<1>2. /\ e.frames = g.frames /\ e.sym = g.sym
      /\ Jumps(e.code) = Jumps(g.code) /\ Placed(e.code) = Placed(g.code)
  BY <1>1 DEF Plain
<1>3. /\ x \in GenStates(n) /\ Alike(e.frames, x.frames)
      /\ x.sym = e.sym /\ x.code = e.code /\ x.live = e.live
  BY <1>1, SuppressAlike
<1>4. FramesFit(x.frames, tx, n)
  <2>1. SameShape(scs, scs)
    BY ShapeSelf DEF Body
  <2>2. Body(Suppress(g, v), T, scs, tx, n)
    BY <2>1, BodySuppress
  <2>. HIDE DEF x
  <2>3. FramesFit(Suppress(g, v).frames, tx, n)
    BY <2>2 DEF Body
  <2>4. Suppress(g, v).frames = x.frames
    <3>1. g \in GenStates(n)
      BY DEF Body
    <3>2. CASE Kind[v] # "value"
      BY <1>2, <3>2 DEF Suppress, x
    <3>3. CASE Kind[v] = "value"
      BY <1>1, <1>2, <3>1, <3>3, SuppressFrames DEF x
    <3>. QED  BY <3>2, <3>3
  <2>. QED  BY <2>3, <2>4
<1>. HIDE DEF x
<1>5. /\ Len(g.frames) \in Nat /\ Len(x.frames) = Len(g.frames) /\ 0 \in 0..Len(x.frames)
      /\ Len(g.frames) \in 0..Len(g.frames)
  <2>1. Len(g.frames) \in Nat
    BY GenType DEF Body
  <2>. QED  BY <1>2, <1>3, <2>1 DEF Alike
<1>6. Owned(x.frames, 1, Len(x.frames)) = A
  BY <1>2, <1>3, <1>5, AlikeOwned
<1>7. Made(x, Owned(x.frames, 1, Len(x.frames)) \cup B, T, tx, n)
  BY <1>1, <1>3, <1>6 DEF Made
<1>8. y \in GenStates(n) /\ Plain(x, y) /\ Made(y, B, T, tx, n)
  <2>1. /\ y \in GenStates(n) /\ Plain(x, y)
        /\ Made(y, Owned(x.frames, 1, 0) \cup B, T, tx, n)
    BY <1>1, <1>3, <1>4, <1>5, <1>7, UnwindOwned
  <2>. HIDE DEF y
  <2>2. Owned(x.frames, 1, 0) \cup B = B
    BY OwnedNone
  <2>. QED  BY <2>1, <2>2
<1>. HIDE DEF y
<1>9. i \in Instrs(n) /\ i.do = "ret" /\ i.value = TRUE
  BY DEF Instrs
<1>. HIDE DEF i
<1>10. Leaves(i) /\ i.do # "jmp" /\ Fits(i, B, T, tx, n)
  BY <1>1, <1>9 DEF Leaves, Fits
<1>11. /\ Alike(g.frames, y.frames) /\ y.sym = g.sym
       /\ Jumps(y.code) = Jumps(g.code) /\ Placed(y.code) = Placed(g.code)
  BY <1>2, <1>3, <1>8 DEF Plain
<1>12. Body(Stop(Emit(y, <<i>>)), T, R, tx, n)
  BY <1>8, <1>9, <1>10, <1>11, BodyStops
<1>. QED
  BY <1>12 DEF i, y, x

\* What may be returned.
Handle(scs, v) == v # "" /\ v \in Shown(scs) /\ Kind[v] # "ref"

LEMMA CompileReturn ==
    ASSUME NEW g, NEW T, NEW scs, NEW tx, NEW n, Body(g, T, scs, tx, n),
           NEW v, v = "" \/ Handle(scs, v), NEW at \in Nat, NEW R, SameShape(scs, R)
    PROVE  Body(GenReturn(g, v, at), T, R, tx, n)
<1>1. CASE v = ""
  BY <1>1, CompileReturnNone
<1>2. CASE Handle(scs, v)
  <2>. DEFINE i == [do |-> Fetch(v), from |-> g.sym[v], slot |-> 0, at |-> at]
              j == [i EXCEPT !.do = "again"]
              e == Emit(g, IF Kind[v] = "shared" THEN <<i>> \o <<j>> ELSE <<i>> \o <<>>)
  <2>1. v \in Shown(scs) /\ Kind[v] # "ref"
    BY <1>2 DEF Handle
  <2>2. v \in Names
    BY <2>1, ShownSlot
  <2>3. Kind[v] \in {"unique", "shared", "value"}
    BY <2>1, <2>2, NamesHaveKinds DEF Names
  <2>4. GenReturn(g, v, at) = Stop(Emit(Unwind(Suppress(e, v), 0, at),
                                        <<[do |-> "ret", value |-> TRUE]>>))
    <3>1. CASE Kind[v] = "shared"
      BY <1>2, <3>1 DEF GenReturn, Handle
    <3>2. CASE Kind[v] # "shared"
      BY <1>2, <3>2 DEF GenReturn, Handle
    <3>. QED  BY <3>1, <3>2
  <2>5. \E B : Loaded(g, e, B, T, tx, n)
    <3>1. CASE Kind[v] = "shared"
      <4>1. Loaded(g, Emit(g, <<i>> \o <<j>>), {-1, 0}, T, tx, n)
        BY <2>1, <3>1, LoadedTwice
      <4>. QED  BY <3>1, <4>1
    <3>2. CASE Kind[v] # "shared"
      <4>1. Kind[v] = "value" => Loaded(g, Emit(g, <<i>>), {-1, 0}, T, tx, n)
        BY <2>1, LoadedValue
      <4>2. Kind[v] = "unique" => Loaded(g, Emit(g, <<i>>), {0}, T, tx, n)
        <5>. SUFFICES ASSUME Kind[v] = "unique"
                      PROVE  Loaded(g, Emit(g, <<i>>), {0}, T, tx, n)
          OBVIOUS
        <5>1. Kind[v] \in Pointers
          BY DEF Pointers
        <5>2. Takes(i, 0, Owned(g.frames, 1, Len(g.frames)), T, tx, n)
          BY <2>1, <5>1, FetchFits, Zenon
        <5>. QED  BY <5>2, LoadedOnce
      <4>3. <<i>> \o <<>> = <<i>>
        BY NothingAdded
      <4>4. \E B : Loaded(g, Emit(g, <<i>>), B, T, tx, n)
        <5>. HIDE DEF i
        <5>. QED  BY <2>3, <3>2, <4>1, <4>2
      <4>. QED  BY <3>2, <4>3, <4>4
    <3>. QED  BY <3>1, <3>2
  <2>. HIDE DEF e
  <2>. QED
    BY <2>4, <2>5, CompileLoaded
<1>. QED
  BY <1>1, <1>2

\* A set of the numbers up to b has a largest one.
LEMMA Largest ==
    ASSUME NEW b \in Nat, NEW S, S \subseteq 0..b, S # {}
    PROVE  \E n \in S : \A m \in S : m <= n
<1>. DEFINE Q == {b - n : n \in S}
<1>1. Q \subseteq Nat /\ Q # {}
  <2>1. PICK x \in S : TRUE
    OBVIOUS
  <2>2. b - x \in Q
    BY <2>1
  <2>. QED  BY <2>2
<1>2. PICK q \in Q : \A m \in Q : q <= m
  <2>. HIDE DEF Q
  <2>. QED  BY <1>1, Least
<1>3. PICK n \in S : q = b - n
  OBVIOUS
<1>4. ASSUME NEW m \in S PROVE m <= n
  <2>1. b - m \in Q
    OBVIOUS
  <2>2. b - n <= b - m
    BY <1>2, <1>3, <2>1
  <2>. QED  BY <2>2
<1>. QED
  BY <1>4

LEMMA PendingIntro ==
    ASSUME NEW frames, NEW d \in 1..Len(frames), NEW w \in Labels,
           frames[d].at \in Nat, <<frames[d].kind, w>> \in Owes
    PROVE  <<frames[d].at, w>> \in Pending(frames)
<1>. DEFINE l == <<frames[d].at, w>>
<1>1. l \in Nat \X Labels /\ l[1] = frames[d].at /\ l[2] = w
  OBVIOUS
<1>. HIDE DEF l
<1>2. l \in Pending(frames)
  BY <1>1 DEF Pending
<1>. QED  BY <1>2 DEF l

LEMMA JmpType ==
    ASSUME NEW n, NEW a \in Nat, NEW w \in Labels
    PROVE  /\ Jmp(a, w) \in Instrs(n) /\ Jmp(a, w).do = "jmp" /\ Jmp(a, w).to = <<a, w>>
           /\ Branch(a, w) \in Instrs(n) /\ Branch(a, w).do = "br"
           /\ Branch(a, w).to = <<a, w>>
<1>1. <<a, w>> \in Nat \X Labels
  OBVIOUS
<1>. DEFINE l == <<a, w>>
<1>. HIDE DEF l
<1>2. /\ [do |-> "jmp", to |-> l] \in Instrs(n) /\ [do |-> "br", to |-> l] \in Instrs(n)
  BY <1>1 DEF Instrs, l
<1>. QED  BY <1>2 DEF Jmp, Branch, l

\* n is the innermost loop.
InnermostLoop(frames, n) ==
    /\ n \in DOMAIN frames /\ frames[n].kind = "loop"
    /\ \A j \in (n + 1)..Len(frames) : frames[j].kind # "loop"

LEMMA LoopExists ==
    ASSUME NEW frames \in Seq(Frames), NEW d \in 1..Len(frames), frames[d].kind = "loop"
    PROVE  \E n : InnermostLoop(frames, n)
<1>. DEFINE S == {n \in 1..Len(frames) : frames[n].kind = "loop"}
<1>1. S \subseteq 0..Len(frames) /\ S # {} /\ Len(frames) \in Nat
  OBVIOUS
<1>2. PICK n \in S : \A m \in S : m <= n
  <2>. HIDE DEF S
  <2>. QED  BY <1>1, Largest
<1>3. \A j \in (n + 1)..Len(frames) : frames[j].kind # "loop"
  BY <1>2
<1>4. InnermostLoop(frames, n)
  BY <1>3 DEF InnermostLoop
<1>. QED
  BY <1>4

\* Unwinding to the depth at which a frame was opened leaves what was owned
\* when its statement began.
LEMMA UnwindTo ==
    ASSUME NEW g, NEW T, NEW scs, NEW tx, NEW n, Body(g, T, scs, tx, n),
           NEW d \in 2..Len(scs), NEW at \in Nat
    PROVE  LET k == Unwind(g, d - 1, at)
           IN  /\ k \in GenStates(n) /\ Plain(g, k)
               /\ g.frames[d].at \in 1..Len(T) /\ g.frames[d].at \in Nat
               /\ T[g.frames[d].at] = Owned(g.frames, 1, d - 1)
               /\ Made(k, T[g.frames[d].at], T, tx, n)
<1>. DEFINE k == Unwind(g, d - 1, at)
            A == Owned(g.frames, 1, Len(g.frames))
            B == Owned(g.frames, 1, d - 1)
<1>1. /\ g \in GenStates(n) /\ FramesFit(g.frames, tx, n) /\ Made(g, A, T, tx, n)
      /\ g.frames \in Seq(Frames) /\ Len(g.frames) = Len(scs) /\ T \in Seq(SUBSET Int)
  BY GenType DEF Body, Named
<1>2. d - 1 \in 0..Len(g.frames) /\ d \in 2..Len(g.frames)
  BY <1>1
<1>3. g.frames[d].at \in 1..Len(T) /\ T[g.frames[d].at] = B
  BY <1>2 DEF Body, Opened
<1>4. A \cup {} = A /\ B \cup {} = B /\ {} \in SUBSET {-1, 0}
  OBVIOUS
<1>5. k \in GenStates(n) /\ Plain(g, k) /\ Made(k, B, T, tx, n)
  <2>. HIDE DEF A
  <2>1. Made(g, A \cup {}, T, tx, n)
    BY <1>1, <1>4
  <2>2. /\ k \in GenStates(n) /\ Plain(g, k) /\ Made(k, B \cup {}, T, tx, n)
    BY <1>1, <1>2, <1>4, <2>1, UnwindOwned DEF A
  <2>. HIDE DEF k, B
  <2>. QED  BY <1>4, <2>2
<1>. QED
  BY <1>1, <1>3, <1>5

LEMMA CompileJump ==
    ASSUME NEW g, NEW T, NEW scs, NEW tx, NEW n, Body(g, T, scs, tx, n),
           scs[1].kind = "body", NEW i \in 1..Len(scs), scs[i].kind = "loop",
           NEW op \in {"break", "continue"}, NEW at \in Nat, NEW R, SameShape(scs, R)
    PROVE  Body(GenJump(g, op, at), T, R, tx, n)
<1>. DEFINE F == g.frames
            d == CHOOSE m \in DOMAIN F :
                    /\ F[m].kind = "loop"
                    /\ \A j \in (m + 1)..Len(F) : F[j].kind # "loop"
            w == IF op = "break" THEN "after" ELSE "cond"
            k == Unwind(g, d - 1, at)
            s == Jmp(F[d].at, w)
<1>1. /\ F \in Seq(Frames) /\ Len(F) = Len(scs) /\ g \in GenStates(n)
      /\ \A m \in 1..Len(scs) : F[m].kind = scs[m].kind
  BY GenType DEF Body, Named
<1>2. InnermostLoop(F, d)
  <2>1. \E m : InnermostLoop(F, m)
    BY <1>1, LoopExists
  <2>. HIDE DEF F
  <2>2. \E m \in DOMAIN F : /\ F[m].kind = "loop"
                            /\ \A j \in (m + 1)..Len(F) : F[j].kind # "loop"
    BY <2>1 DEF InnermostLoop
  <2>. QED  BY <2>2 DEF InnermostLoop
<1>. HIDE DEF d
<1>3. d \in 2..Len(scs) /\ F[d].kind = "loop" /\ d \in 1..Len(F)
  BY <1>1, <1>2 DEF InnermostLoop
<1>4. /\ k \in GenStates(n) /\ Plain(g, k) /\ F[d].at \in 1..Len(T) /\ F[d].at \in Nat
      /\ Made(k, T[F[d].at], T, tx, n)
  BY <1>3, UnwindTo
<1>. HIDE DEF k
<1>5. <<F[d].at, "after">> \in Pending(F) /\ <<F[d].at, "cond">> \in Placed(g.code)
  <2>1. <<F[d].kind, "after">> \in Owes
    BY <1>3 DEF Owes
  <2>2. <<F[d].at, "after">> \in Pending(F)
    <3>1. "after" \in Labels
      BY DEF Labels
    <3>. HIDE DEF F
    <3>. QED  BY <1>3, <1>4, <2>1, <3>1, PendingIntro
  <2>3. <<F[d].at, "cond">> \in Placed(g.code)
    BY <1>3 DEF Body, Resolved
  <2>. QED  BY <2>2, <2>3
<1>6. w \in {"after", "cond"}
  OBVIOUS
<1>. HIDE DEF w
<1>7. s.do = "jmp" /\ s.to = <<F[d].at, w>> /\ s \in Instrs(n) /\ s.to[1] = F[d].at
  <2>. HIDE DEF F
  <2>1. w \in Labels
    BY <1>6 DEF Labels
  <2>2. s.do = "jmp" /\ s.to = <<F[d].at, w>> /\ s \in Instrs(n)
    BY <1>4, <2>1, JmpType
  <2>. QED  BY <2>2
<1>. HIDE DEF s, F
<1>8. s.to \in Placed(g.code) \cup Pending(F)
  BY <1>5, <1>6, <1>7
<1>9. Leaves(s) /\ Fits(s, T[F[d].at], T, tx, n)
  BY <1>4, <1>7 DEF Leaves, Fits
<1>10. /\ Alike(F, k.frames) /\ k.sym = g.sym
       /\ Jumps(k.code) = Jumps(g.code) /\ Placed(k.code) = Placed(g.code)
  BY <1>1, <1>4, AlikeSelf DEF Plain, F
<1>11. Body(Stop(Emit(k, <<s>>)), T, R, tx, n)
  BY <1>4, <1>7, <1>8, <1>9, <1>10, BodyStops DEF F
<1>. QED
  BY <1>11 DEF GenJump, d, k, s, w, F

\* R are the scopes S with one more variable, v, in the innermost.
Adds(S, R, v) ==
    /\ R \in Seq(Scope) /\ Len(R) = Len(S)
    /\ \A d \in 1..Len(S) :
          /\ R[d].kind = S[d].kind
          /\ DOMAIN R[d].syms = IF d = Len(S) THEN DOMAIN S[d].syms \cup {v}
                                ELSE DOMAIN S[d].syms

\* G are the frames F with one more entry in the innermost.
Extended(F, G, x) ==
    LET m == Len(F)
    IN  /\ G \in Seq(Frames) /\ Len(G) = m /\ m \in Nat /\ m > 0 /\ x \in Entries
        /\ \A d \in 1..m : /\ G[d].kind = F[d].kind /\ G[d].at = F[d].at
                           /\ F[d].entries \in Seq(Entries)
                           /\ d # m => G[d].entries = F[d].entries
        /\ G[m].entries = Append(F[m].entries, x)

\* The entry of a variable.
EntryOf(v, k) ==
    [name |-> v, slot |-> k, how |-> CASE Kind[v] = "ref"   -> "none"
                                       [] Kind[v] = "value" -> "drop"
                                       [] OTHER             -> "release"]

LEMMA RegisterExtends ==
    ASSUME NEW n, NEW g \in GenStates(n), Len(g.frames) > 0, NEW v \in Names, NEW k \in Nat
    PROVE  LET h == Register(g, v, k)
           IN  /\ h \in GenStates(n) /\ Extended(g.frames, h.frames, EntryOf(v, k))
               /\ h.sym = [g.sym EXCEPT ![v] = k] /\ h.code = g.code /\ h.live = g.live
<1>. DEFINE F  == g.frames
            m  == Len(F)
            x  == EntryOf(v, k)
            es == Append(F[m].entries, x)
            f  == [F[m] EXCEPT !.entries = es]
            G  == [F EXCEPT ![m] = f]
            h  == Register(g, v, k)
<1>1. /\ F \in Seq(Frames) /\ g.sym \in [Names -> Nat] /\ g.code \in Seq(Instrs(n))
      /\ g.live \in BOOLEAN
  BY GenType
<1>2. m \in Nat /\ m > 0 /\ m \in 1..m
  BY <1>1
<1>3. x \in Entries
  BY DEF EntryOf, Entries
<1>4. h = [g EXCEPT !.sym = [g.sym EXCEPT ![v] = k], !.frames = G]
  BY DEF Register, EntryOf
<1>. HIDE DEF x
<1>5. F[m] \in Frames /\ \A d \in 1..m : F[d] \in Frames
  BY <1>1, <1>2
<1>6. F[m].entries \in Seq(Entries) /\ \A d \in 1..m : F[d].entries \in Seq(Entries)
  <2>. HIDE DEF F, m
  <2>. QED  BY <1>5 DEF Frames
<1>7. es \in Seq(Entries)
  BY <1>3, <1>6
<1>. HIDE DEF es
<1>8. f \in Frames /\ f.kind = F[m].kind /\ f.at = F[m].at /\ f.entries = es
  <2>. HIDE DEF F, m
  <2>. QED  BY <1>5, <1>7 DEF Frames
<1>. HIDE DEF f
<1>9. /\ G \in Seq(Frames) /\ Len(G) = m /\ G[m] = f
      /\ \A d \in 1..m : d # m => G[d] = F[d]
  BY <1>1, <1>2, <1>8
<1>. HIDE DEF G
<1>10. Extended(F, G, x)
  BY <1>2, <1>3, <1>6, <1>8, <1>9 DEF Extended, es
<1>11. [g.sym EXCEPT ![v] = k] \in [Names -> Nat]
  BY <1>1
<1>12. /\ h \in GenStates(n) /\ h.frames = G /\ h.sym = [g.sym EXCEPT ![v] = k]
       /\ h.code = g.code /\ h.live = g.live
  BY <1>1, <1>4, <1>9, <1>11 DEF GenStates
<1>. HIDE DEF h
<1>. QED
  BY <1>10, <1>12 DEF h, x

\* An entry of the extended frames is one that was there, or the new one.
LEMMA ExtendedEntry ==
    ASSUME NEW F, NEW G, NEW x, Extended(F, G, x),
           NEW d \in 1..Len(F), NEW j \in 1..Len(G[d].entries)
    PROVE  \/ j \in 1..Len(F[d].entries) /\ G[d].entries[j] = F[d].entries[j]
           \/ d = Len(F) /\ j = Len(F[d].entries) + 1 /\ G[d].entries[j] = x
<1>1. CASE d # Len(F)
  BY <1>1 DEF Extended
<1>2. CASE d = Len(F)
  <2>1. F[d].entries \in Seq(Entries) /\ x \in Entries
        /\ G[d].entries = Append(F[d].entries, x)
    BY <1>2 DEF Extended
  <2>. DEFINE s == F[d].entries
  <2>2. s \in Seq(Entries) /\ G[d].entries = Append(s, x)
    BY <2>1
  <2>. HIDE DEF s
  <2>3. Len(Append(s, x)) = Len(s) + 1
        /\ \A i \in 1..Len(s) : Append(s, x)[i] = s[i]
        /\ Append(s, x)[Len(s) + 1] = x /\ Len(s) \in Nat
    BY <2>1, <2>2
  <2>. QED  BY <1>2, <2>2, <2>3 DEF s
<1>. QED
  BY <1>1, <1>2

\* The entries that were there are there.
LEMMA ExtendedHas ==
    ASSUME NEW F, NEW G, NEW x, Extended(F, G, x), NEW d \in 1..Len(F)
    PROVE  /\ \A j \in 1..Len(F[d].entries) :
                 j \in 1..Len(G[d].entries) /\ G[d].entries[j] = F[d].entries[j]
           /\ d = Len(F) => \E j \in 1..Len(G[d].entries) : G[d].entries[j] = x
<1>1. CASE d # Len(F)
  BY <1>1 DEF Extended
<1>2. CASE d = Len(F)
  <2>. DEFINE s == F[d].entries
  <2>1. s \in Seq(Entries) /\ x \in Entries /\ G[d].entries = Append(s, x)
    BY <1>2 DEF Extended
  <2>. HIDE DEF s
  <2>2. Len(Append(s, x)) = Len(s) + 1
        /\ \A i \in 1..Len(s) : Append(s, x)[i] = s[i]
        /\ Append(s, x)[Len(s) + 1] = x /\ Len(s) \in Nat
    BY <2>1
  <2>3. Len(s) + 1 \in 1..Len(G[d].entries)
    BY <2>1, <2>2
  <2>. QED  BY <2>1, <2>2, <2>3 DEF s
<1>. QED
  BY <1>1, <1>2

LEMMA ExtendedOwned ==
    ASSUME NEW F, NEW G, NEW x, Extended(F, G, x)
    PROVE  /\ \A hi \in 0..(Len(F) - 1) : Owned(G, 1, hi) = Owned(F, 1, hi)
           /\ Owned(G, 1, Len(G)) = Owned(F, 1, Len(F))
                                    \cup {k \in {x.slot} : x.how = "release"}
<1>. DEFINE m == Len(F)
<1>1. m \in Nat /\ m > 0 /\ Len(G) = m
  BY DEF Extended
<1>2. \A d \in 1..m : d # m => Released(G[d].entries) = Released(F[d].entries)
  BY DEF Extended
<1>3. Released(G[m].entries) = Released(F[m].entries)
                               \cup {k \in {x.slot} : x.how = "release"}
  <2>1. ASSUME NEW k \in Released(G[m].entries)
        PROVE  k \in Released(F[m].entries) \/ (k = x.slot /\ x.how = "release")
    <3>1. PICK j \in 1..Len(G[m].entries) :
             G[m].entries[j].how = "release" /\ k = G[m].entries[j].slot
      BY DEF Released, ReleasedFrom
    <3>2. \/ j \in 1..Len(F[m].entries) /\ G[m].entries[j] = F[m].entries[j]
          \/ G[m].entries[j] = x
      BY <1>1, ExtendedEntry
    <3>. QED  BY <3>1, <3>2 DEF Released, ReleasedFrom
  <2>2. ASSUME NEW k \in Released(F[m].entries) PROVE k \in Released(G[m].entries)
    <3>1. PICK j \in 1..Len(F[m].entries) :
             F[m].entries[j].how = "release" /\ k = F[m].entries[j].slot
      BY DEF Released, ReleasedFrom
    <3>2. j \in 1..Len(G[m].entries) /\ G[m].entries[j] = F[m].entries[j]
      BY <1>1, ExtendedHas
    <3>. QED  BY <3>1, <3>2 DEF Released, ReleasedFrom
  <2>3. x.how = "release" => x.slot \in Released(G[m].entries)
    <3>1. \E j \in 1..Len(G[m].entries) : G[m].entries[j] = x
      BY <1>1, ExtendedHas
    <3>. QED  BY <3>1 DEF Released, ReleasedFrom
  <2>. QED  BY <2>1, <2>2, <2>3
<1>4. ASSUME NEW hi \in 0..(m - 1) PROVE Owned(G, 1, hi) = Owned(F, 1, hi)
  <2>1. \A d \in 1..hi : d \in 1..m /\ d # m
    BY <1>1
  <2>. HIDE DEF m
  <2>. QED  BY <1>2, <2>1 DEF Owned
<1>5. Owned(G, 1, m) = Owned(F, 1, m) \cup {k \in {x.slot} : x.how = "release"}
  <2>1. m \in 1..m
    BY <1>1
  <2>. HIDE DEF m
  <2>. QED  BY <1>2, <1>3, <2>1 DEF Owned
<1>. QED
  BY <1>1, <1>4, <1>5

\* A declaration: e is what g became when the object was made.
LEMMA BodyRegister ==
    ASSUME NEW g, NEW T, NEW scs, NEW tx, NEW n, Body(g, T, scs, tx, n),
           NEW k \in 1..n, k <= Len(tx), Fresh(g.frames, k),
           NEW v \in Names, Declares(tx, k, v), v \notin Shown(scs),
           NEW e \in GenStates(n), Plain(g, e),
           Made(e, Owned(g.frames, 1, Len(g.frames))
                   \cup {i \in {k} : Kind[v] \in Pointers}, T, tx, n),
           NEW R, Adds(scs, R, v)
    PROVE  Body(Register(e, v, k), T, R, tx, n)
<1>. DEFINE F == g.frames
            h == Register(e, v, k)
            G == h.frames
            x == EntryOf(v, k)
            m == Len(F)
<1>1. /\ n \in Nat /\ m \in Nat /\ m > 0 /\ Len(scs) = m /\ m \in 1..m
      /\ F \in Seq(Frames) /\ Len(R) = m /\ k \in Nat
  BY GenType DEF Body, Named, Adds
<1>2. e.frames = F /\ e.sym = g.sym /\ g.sym \in [Names -> Nat]
  BY GenType DEF Plain, Body
<1>3. /\ h \in GenStates(n) /\ Extended(F, G, x)
      /\ h.sym = [g.sym EXCEPT ![v] = k] /\ h.code = e.code /\ h.live = e.live
  BY <1>1, <1>2, RegisterExtends
<1>4. Kind[v] \in {"unique", "shared", "value", "ref"}
  BY NamesHaveKinds DEF Names
<1>5. /\ x.name = v /\ x.slot = k
      /\ x.how = "release" <=> Kind[v] \in Pointers
      /\ x.how = "drop" <=> Kind[v] = "value"
  BY <1>4 DEF EntryOf, Pointers
<1>. HIDE DEF x, h
<1>6. /\ Len(G) = m /\ G \in Seq(Frames)
      /\ \A d \in 1..m : G[d].kind = F[d].kind /\ G[d].at = F[d].at
  BY <1>3 DEF Extended
<1>7. EntryFits(x, tx, n)
  <2>1. \A kinds : Kind[v] \in kinds => k \in SlotsOf(tx, n, kinds)
    BY DEF SlotsOf, Declares
  <2>2. Kind[v] = "value" => Kind[v] \in {"value"}
    OBVIOUS
  <2>. QED  BY <1>5, <2>1, <2>2 DEF EntryFits
<1>8. FramesFit(G, tx, n)
  <2>1. ASSUME NEW d \in 1..Len(G), NEW j \in 1..Len(G[d].entries)
        PROVE  EntryFits(G[d].entries[j], tx, n)
    <3>1. \/ j \in 1..Len(F[d].entries) /\ G[d].entries[j] = F[d].entries[j]
          \/ G[d].entries[j] = x
      BY <1>3, <1>6, ExtendedEntry
    <3>2. CASE j \in 1..Len(F[d].entries) /\ G[d].entries[j] = F[d].entries[j]
      BY <1>6, <3>2 DEF Body, FramesFit
    <3>. QED  BY <1>7, <3>1, <3>2
  <2>2. ASSUME NEW d \in 1..Len(G), NEW j \in 1..Len(G[d].entries),
               NEW b \in 1..Len(G), NEW c \in 1..Len(G[b].entries),
               G[b].entries[c].slot = G[d].entries[j].slot
        PROVE  b = d /\ c = j
    <3>1. \/ j \in 1..Len(F[d].entries) /\ G[d].entries[j] = F[d].entries[j]
          \/ d = m /\ j = Len(F[d].entries) + 1 /\ G[d].entries[j] = x
      BY SMTT(30), <1>3, <1>6, ExtendedEntry
    <3>2. \/ c \in 1..Len(F[b].entries) /\ G[b].entries[c] = F[b].entries[c]
          \/ b = m /\ c = Len(F[b].entries) + 1 /\ G[b].entries[c] = x
      BY SMTT(30), <1>3, <1>6, ExtendedEntry
    <3>3. \A a \in 1..m : \A i \in 1..Len(F[a].entries) : F[a].entries[i].slot # k
      BY DEF Fresh
    <3>4. CASE /\ j \in 1..Len(F[d].entries) /\ G[d].entries[j] = F[d].entries[j]
               /\ c \in 1..Len(F[b].entries) /\ G[b].entries[c] = F[b].entries[c]
      <4>1. FramesFit(F, tx, n) /\ d \in 1..m /\ b \in 1..m
        BY <1>6 DEF Body
      <4>2. F[b].entries[c].slot = F[d].entries[j].slot
        BY <2>2, <3>4
      <4>. HIDE DEF F, G
      <4>. QED  BY <3>4, <4>1, <4>2 DEF FramesFit
    <3>. HIDE DEF F
    <3>. QED  BY <1>5, <1>6, <2>2, <3>1, <3>2, <3>3, <3>4 DEF F
  <2>. QED  BY <2>1, <2>2 DEF FramesFit
<1>9. Named(h, R, tx, n)
  <2>1. ASSUME NEW d \in 1..m
        PROVE  /\ G[d].kind = R[d].kind
               /\ \A j \in 1..Len(G[d].entries) :
                     EntryNamed(G[d].entries[j], h, R[d].syms, tx, n)
               /\ \A u \in DOMAIN R[d].syms : \E j \in 1..Len(G[d].entries) :
                     G[d].entries[j].name = u
    <3>1. /\ F[d].kind = scs[d].kind
          /\ \A j \in 1..Len(F[d].entries) :
                EntryNamed(F[d].entries[j], g, scs[d].syms, tx, n)
          /\ \A u \in DOMAIN scs[d].syms : \E j \in 1..Len(F[d].entries) :
                F[d].entries[j].name = u
      BY <1>1 DEF Body, Named
    <3>2. /\ R[d].kind = scs[d].kind /\ DOMAIN scs[d].syms \subseteq DOMAIN R[d].syms
          /\ \A u \in DOMAIN R[d].syms : u \in DOMAIN scs[d].syms \/ (d = m /\ u = v)
          /\ d = m => v \in DOMAIN R[d].syms
      BY <1>1 DEF Adds
    <3>3. v \notin DOMAIN scs[d].syms
      <4>1. scs \in Seq(Scope)
        BY DEF Body
      <4>. QED  BY <1>1, <4>1 DEF Shown
    <3>4. ASSUME NEW j \in 1..Len(G[d].entries)
          PROVE  EntryNamed(G[d].entries[j], h, R[d].syms, tx, n)
      <4>1. CASE j \in 1..Len(F[d].entries) /\ G[d].entries[j] = F[d].entries[j]
        <5>. DEFINE y == F[d].entries[j]
        <5>1. EntryNamed(y, g, scs[d].syms, tx, n)
          BY <3>1, <4>1
        <5>. HIDE DEF y
        <5>2. y.name # v /\ h.sym[y.name] = g.sym[y.name]
          BY <1>2, <1>3, <3>3, <5>1 DEF EntryNamed
        <5>. QED  BY <3>2, <4>1, <5>1, <5>2 DEF EntryNamed, y
      <4>2. CASE d = m /\ G[d].entries[j] = x
        <5>1. h.sym[v] = k
          BY <1>2, <1>3
        <5>. QED  BY <1>1, <1>5, <3>2, <4>2, <5>1 DEF EntryNamed, Declares
      <4>. QED  BY SMTT(30), <1>3, <4>1, <4>2, ExtendedEntry
    <3>5. ASSUME NEW u \in DOMAIN R[d].syms
          PROVE  \E j \in 1..Len(G[d].entries) : G[d].entries[j].name = u
      <4>1. CASE u \in DOMAIN scs[d].syms
        <5>1. PICK j \in 1..Len(F[d].entries) : F[d].entries[j].name = u
          BY <3>1, <4>1
        <5>2. j \in 1..Len(G[d].entries) /\ G[d].entries[j] = F[d].entries[j]
          BY <1>3, ExtendedHas
        <5>. HIDE DEF F, G
        <5>. QED  BY <5>1, <5>2
      <4>2. CASE d = m /\ u = v
        <5>1. \E j \in 1..Len(G[d].entries) : G[d].entries[j] = x
          BY <1>3, <4>2, ExtendedHas
        <5>. QED  BY <1>5, <4>2, <5>1
      <4>. QED  BY <3>2, <4>1, <4>2
    <3>. QED  BY <1>6, <3>1, <3>2, <3>4, <3>5
  <2>. QED  BY <1>1, <1>6, <2>1 DEF Named
<1>10. Opened(G, T)
  <2>1. \A d \in 2..m : /\ F[d].at \in 1..Len(T) /\ T[F[d].at] = Owned(F, 1, d - 1)
    BY DEF Body, Opened
  <2>2. \A d \in 2..m : d \in 1..m /\ Owned(G, 1, d - 1) = Owned(F, 1, d - 1)
    <3>1. \A d \in 2..m : d \in 1..m /\ d - 1 \in 0..(m - 1)
      BY <1>1
    <3>. QED  BY <1>3, <3>1, ExtendedOwned
  <2>. HIDE DEF F
  <2>. QED  BY <1>6, <2>1, <2>2 DEF Opened
<1>11. Resolved(h.code, G)
  <2>1. Pending(G) = Pending(F)
    <3>. HIDE DEF F
    <3>. QED  BY <1>6 DEF Pending, F
  <2>2. Resolved(g.code, F)
    BY DEF Body
  <2>3. Jumps(h.code) = Jumps(g.code) /\ Placed(h.code) = Placed(g.code)
    BY <1>3 DEF Plain
  <2>. HIDE DEF F
  <2>. QED  BY <1>6, <2>1, <2>2, <2>3 DEF Resolved, F
<1>12. Made(h, Owned(G, 1, Len(G)), T, tx, n)
  <2>1. Owned(G, 1, Len(G)) = Owned(F, 1, m) \cup {i \in {k} : Kind[v] \in Pointers}
    <3>1. Owned(G, 1, Len(G)) = Owned(F, 1, m) \cup {i \in {x.slot} : x.how = "release"}
      BY <1>3, ExtendedOwned
    <3>. QED  BY <1>5, <3>1
  <2>. QED  BY <1>3, <2>1 DEF Made
<1>13. /\ tx \in Seq(Statements) /\ T \in Seq(SUBSET Int) /\ Len(T) = Len(tx)
  BY DEF Body
<1>14. R \in Seq(Scope) /\ Len(R) > 0
  BY <1>1 DEF Adds
<1>. HIDE DEF F
<1>. QED
  BY <1>1, <1>3, <1>8, <1>9, <1>10, <1>11, <1>12, <1>13, <1>14 DEF Body, h

\* The statement k, the last of the text, declares v.
Introduces(g, scs, tx, n, k, v) ==
    /\ k \in 1..n /\ k = Len(tx) /\ Fresh(g.frames, k)
    /\ v \in Names /\ Declares(tx, k, v) /\ v \notin Shown(scs)

LEMMA CompileDeclare ==
    ASSUME NEW g, NEW T, NEW scs, NEW tx, NEW n, Body(g, T, scs, tx, n),
           NEW k, NEW v, Introduces(g, scs, tx, n, k, v),
           NEW i \in Instrs(n), i.do \notin Control, ~Leaves(i), i.do # "again",
           Fits(i, Owned(g.frames, 1, Len(g.frames)), T, tx, n),
           After(i, Owned(g.frames, 1, Len(g.frames)), tx)
              = Owned(g.frames, 1, Len(g.frames)) \cup {j \in {k} : Kind[v] \in Pointers},
           NEW R, Adds(scs, R, v)
    PROVE  Body(Register(Emit(g, <<i>>), v, k), T, R, tx, n)
<1>. DEFINE A == Owned(g.frames, 1, Len(g.frames))
            B == A \cup {j \in {k} : Kind[v] \in Pointers}
            e == Emit(g, <<i>>)
<1>1. g \in GenStates(n) /\ Made(g, A, T, tx, n) /\ A \in States(tx, n)
  BY OwnedSlots DEF Body
<1>2. /\ k \in 1..n /\ k <= Len(tx) /\ Fresh(g.frames, k)
      /\ v \in Names /\ Declares(tx, k, v) /\ v \notin Shown(scs)
  <2>1. Len(tx) \in Nat
    BY DEF Body
  <2>. QED  BY <2>1 DEF Introduces
<1>3. B \in States(tx, n)
  <2>. HIDE DEF A
  <2>1. After(i, A, tx) \in States(tx, n)
    BY <1>1, AfterState DEF A
  <2>2. After(i, A, tx) = B
    BY DEF A
  <2>. HIDE DEF B
  <2>. QED  BY <2>1, <2>2
<1>4. e \in GenStates(n) /\ Plain(g, e)
  BY <1>1, EmitOne, EmitPlain
<1>5. Made(e, B, T, tx, n)
  <2>1. After(i, A, tx) = B /\ Fits(i, A, T, tx, n)
    OBVIOUS
  <2>. HIDE DEF A, B
  <2>. QED  BY <1>1, <1>3, <2>1, EmitMade
<1>. HIDE DEF e
<1>6. Body(Register(e, v, k), T, R, tx, n)
  BY <1>2, <1>4, <1>5, BodyRegister
<1>. QED
  BY <1>6 DEF e

LEMMA FreshNotOwned ==
    ASSUME NEW frames, NEW k, Fresh(frames, k)
    PROVE  k \notin Owned(frames, 1, Len(frames))
BY DEF Fresh, Owned, Released, ReleasedFrom

LEMMA IntroducedSlot ==
    ASSUME NEW g, NEW T, NEW scs, NEW tx, NEW n, Body(g, T, scs, tx, n),
           NEW k, NEW v, Introduces(g, scs, tx, n, k, v)
    PROVE  /\ k \in 1..n /\ k \in 1..Len(tx) /\ k \in Nat /\ tx[k].v = v
           /\ k \notin Owned(g.frames, 1, Len(g.frames))
           /\ Kind[v] \in {"unique", "shared", "value", "ref"}
           /\ \A kinds : Kind[v] \in kinds => k \in SlotsOf(tx, n, kinds)
<1>1. Len(tx) \in Nat /\ n \in Nat
  BY DEF Body
<1>2. k \in 1..n /\ k = Len(tx) /\ Fresh(g.frames, k) /\ v \in Names /\ tx[k].v = v
  BY DEF Introduces, Declares
<1>3. k \notin Owned(g.frames, 1, Len(g.frames))
  BY <1>2, FreshNotOwned
<1>4. Kind[v] \in {"unique", "shared", "value", "ref"}
  BY <1>2, NamesHaveKinds DEF Names
<1>5. k \in 1..Len(tx) /\ k \in Nat
  BY <1>1, <1>2
<1>6. \A kinds : Kind[v] \in kinds => k \in SlotsOf(tx, n, kinds)
  BY <1>2, <1>5 DEF SlotsOf
<1>. QED
  BY <1>2, <1>3, <1>4, <1>5, <1>6

LEMMA CompileNew ==
    ASSUME NEW g, NEW T, NEW scs, NEW tx, NEW n, Body(g, T, scs, tx, n),
           NEW k, NEW v, Introduces(g, scs, tx, n, k, v), Kind[v] # "ref",
           NEW R, Adds(scs, R, v)
    PROVE  Body(Register(Emit(g, <<[do |-> "new", slot |-> k, at |-> k]>>), v, k),
                T, R, tx, n)
<1>. DEFINE A == Owned(g.frames, 1, Len(g.frames))
            i == [do |-> "new", slot |-> k, at |-> k]
            B == A \cup {j \in {k} : Kind[v] \in Pointers}
<1>1. /\ k \in 1..n /\ k \in 1..Len(tx) /\ k \in Nat /\ tx[k].v = v /\ k \notin A
      /\ Kind[v] \in {"unique", "shared", "value", "ref"}
      /\ \A kinds : Kind[v] \in kinds => k \in SlotsOf(tx, n, kinds)
  BY IntroducedSlot
<1>2. k \in 0..n
  BY <1>1
<1>3. i \in Instrs(n) /\ i.do = "new" /\ i.slot = k /\ i.at = k
  BY <1>1, <1>2 DEF Instrs
<1>. HIDE DEF i, A
<1>4. i.do \notin Control /\ ~Leaves(i) /\ i.do # "again"
  BY <1>3 DEF Control, Leaves
<1>5. CASE Kind[v] \in Pointers
  <2>1. Fits(i, A, T, tx, n)
    BY <1>1, <1>3, <1>5 DEF Fits
  <2>2. Kind[v] # "value"
    BY <1>5 DEF Pointers
  <2>3. After(i, A, tx) = B
    BY <1>1, <1>3, <1>5, <2>2 DEF After
  <2>4. Body(Register(Emit(g, <<i>>), v, k), T, R, tx, n)
    BY <1>3, <1>4, <2>1, <2>3, CompileDeclare DEF A
  <2>. QED  BY <2>4 DEF i
<1>6. CASE Kind[v] \notin Pointers
  <2>1. Kind[v] = "value"
    BY <1>1, <1>6 DEF Pointers
  <2>2. k \in SlotsOf(tx, n, {"value"})
    BY <1>1, <2>1
  <2>3. Fits(i, A, T, tx, n)
    BY <1>1, <1>3, <2>1, <2>2 DEF Fits
  <2>4. After(i, A, tx) = B
    BY <1>1, <1>3, <1>6, <2>1 DEF After
  <2>5. Body(Register(Emit(g, <<i>>), v, k), T, R, tx, n)
    BY <1>3, <1>4, <2>3, <2>4, CompileDeclare DEF A
  <2>. QED  BY <2>5 DEF i
<1>. QED
  BY <1>5, <1>6

LEMMA CompileFrom ==
    ASSUME NEW g, NEW T, NEW scs, NEW tx, NEW n, Body(g, T, scs, tx, n),
           NEW k, NEW v, Introduces(g, scs, tx, n, k, v), Kind[v] \in Pointers,
           NEW w \in Shown(scs), Kind[w] = Kind[v],
           NEW R, Adds(scs, R, v)
    PROVE  Body(Register(Emit(g, <<[do |-> Fetch(w), from |-> g.sym[w], slot |-> k,
                                    at |-> k]>>), v, k), T, R, tx, n)
<1>. DEFINE A == Owned(g.frames, 1, Len(g.frames))
            i == [do |-> Fetch(w), from |-> g.sym[w], slot |-> k, at |-> k]
            B == A \cup {j \in {k} : Kind[v] \in Pointers}
<1>1. k \in Nat /\ k \notin A /\ k \in SlotsOf(tx, n, Pointers)
  BY IntroducedSlot
<1>2. Takes(i, k, A, T, tx, n)
  BY <1>1, FetchFits, Zenon
<1>. HIDE DEF i, A
<1>3. /\ i \in Instrs(n) /\ i.do \notin Control /\ ~Leaves(i) /\ i.do # "again"
      /\ Fits(i, A, T, tx, n) /\ After(i, A, tx) = A \cup {k}
  BY <1>2 DEF Takes
<1>4. A \cup {k} = B
  OBVIOUS
<1>5. Body(Register(Emit(g, <<i>>), v, k), T, R, tx, n)
  BY <1>3, <1>4, CompileDeclare DEF A
<1>. QED
  BY <1>5 DEF i

LEMMA CompileRef ==
    ASSUME NEW g, NEW T, NEW scs, NEW tx, NEW n, Body(g, T, scs, tx, n),
           NEW k, NEW v, Introduces(g, scs, tx, n, k, v), Kind[v] = "ref",
           NEW w \in Shown(scs), NEW R, Adds(scs, R, v)
    PROVE  Body(Register(Emit(g, <<[do |-> "refer", from |-> g.sym[w], slot |-> k,
                                    at |-> k]>>), v, k), T, R, tx, n)
<1>. DEFINE A == Owned(g.frames, 1, Len(g.frames))
            i == [do |-> "refer", from |-> g.sym[w], slot |-> k, at |-> k]
            B == A \cup {j \in {k} : Kind[v] \in Pointers}
<1>1. /\ k \in 1..n /\ k \in Nat
      /\ \A kinds : Kind[v] \in kinds => k \in SlotsOf(tx, n, kinds)
  BY IntroducedSlot
<1>2. k \in SlotsOf(tx, n, {"ref"}) /\ g.sym[w] \in 1..n
  BY <1>1, ShownSlot
<1>3. k \in 0..n /\ g.sym[w] \in 0..n
  BY <1>1, <1>2
<1>4. i \in Instrs(n) /\ i.do = "refer" /\ i.slot = k /\ i.from = g.sym[w]
  BY <1>1, <1>3 DEF Instrs
<1>. HIDE DEF i, A
<1>5. i.do \notin Control /\ ~Leaves(i) /\ i.do # "again"
  BY <1>4 DEF Control, Leaves
<1>6. Fits(i, A, T, tx, n) /\ After(i, A, tx) = A
  BY <1>2, <1>4 DEF Fits, After
<1>7. Kind[v] \notin Pointers
  BY DEF Pointers
<1>8. A = B
  BY <1>7
<1>9. Body(Register(Emit(g, <<i>>), v, k), T, R, tx, n)
  BY <1>4, <1>5, <1>6, <1>8, CompileDeclare DEF A
<1>. QED
  BY <1>9 DEF i

\* R are the scopes S with a new one inside.
Pushes(S, R, kind) ==
    /\ R \in Seq(Scope) /\ Len(R) = Len(S) + 1
    /\ \A d \in 1..Len(S) : /\ R[d].kind = S[d].kind
                            /\ DOMAIN R[d].syms = DOMAIN S[d].syms
    /\ R[Len(R)].kind = kind /\ DOMAIN R[Len(R)].syms = {}

\* R are the scopes S without the innermost.
Pops(S, R) ==
    /\ R \in Seq(Scope) /\ Len(R) = Len(S) - 1
    /\ \A d \in 1..Len(R) : /\ R[d].kind = S[d].kind
                            /\ DOMAIN R[d].syms = DOMAIN S[d].syms

\* The labels that a frame of this kind, opened at i, needs after it.
Needs(kind, i) == {<<i, w>> : w \in {w \in Labels : <<kind, w>> \in Owes}}

LEMMA OwnedSame ==
    ASSUME NEW F, NEW G, NEW hi \in Nat, \A d \in 1..hi : G[d] = F[d]
    PROVE  Owned(G, 1, hi) = Owned(F, 1, hi)
BY DEF Owned

\* A scope is entered.
LEMMA BodyPush ==
    ASSUME NEW g, NEW T, NEW scs, NEW tx, NEW n, Body(g, T, scs, tx, n),
           NEW i \in 1..Len(T), T[i] = Owned(g.frames, 1, Len(g.frames)),
           NEW kind \in ScopeKinds,
           NEW e \in GenStates(n), e.frames = g.frames, e.sym = g.sym,
           Placed(g.code) \subseteq Placed(e.code),
           Jumps(e.code) \subseteq Placed(e.code) \cup Pending(g.frames)
                                   \cup Needs(kind, i),
           kind = "loop" => <<i, "cond">> \in Placed(e.code),
           Made(e, Owned(g.frames, 1, Len(g.frames)), T, tx, n),
           NEW R, Pushes(scs, R, kind)
    PROVE  Body([e EXCEPT !.frames = Append(@, Frame(kind, i))], T, R, tx, n)
<1>. DEFINE F == g.frames
            f == Frame(kind, i)
            G == Append(F, f)
            h == [e EXCEPT !.frames = G]
            m == Len(F)
<1>1. /\ n \in Nat /\ m \in Nat /\ m > 0 /\ Len(scs) = m /\ F \in Seq(Frames)
      /\ tx \in Seq(Statements) /\ T \in Seq(SUBSET Int) /\ Len(T) = Len(tx) /\ i \in Nat
  BY GenType DEF Body, Named
<1>2. f \in Frames /\ f.kind = kind /\ f.at = i /\ f.entries = <<>>
  BY <1>1 DEF Frame, Frames
<1>. HIDE DEF f
<1>3. /\ G \in Seq(Frames) /\ Len(G) = m + 1 /\ G[m + 1] = f
      /\ \A d \in 1..m : G[d] = F[d]
  BY <1>1, <1>2
<1>. HIDE DEF G
<1>4. h \in GenStates(n) /\ h.frames = G /\ h.sym = g.sym /\ h.code = e.code /\ h.live = e.live
  BY <1>3 DEF GenStates
<1>5. [e EXCEPT !.frames = Append(@, Frame(kind, i))] = h
  BY DEF G, f
<1>. HIDE DEF h
<1>6. \A d \in 1..Len(G) : d \in 1..m \/ (d = m + 1 /\ Len(G[d].entries) = 0)
  BY <1>1, <1>2, <1>3
<1>7. FramesFit(G, tx, n)
  <2>1. FramesFit(F, tx, n)
    BY DEF Body
  <2>2. \A d \in 1..Len(G) : \A j \in 1..Len(G[d].entries) :
           d \in 1..m /\ G[d] = F[d]
    BY <1>3, <1>6
  <2>3. ASSUME NEW d \in 1..Len(G), NEW j \in 1..Len(G[d].entries)
        PROVE  /\ EntryFits(G[d].entries[j], tx, n)
               /\ \A b \in 1..Len(G) : \A k \in 1..Len(G[b].entries) :
                     G[b].entries[k].slot = G[d].entries[j].slot => b = d /\ k = j
    <3>1. d \in 1..m /\ G[d] = F[d] /\ j \in 1..Len(F[d].entries)
      BY <2>2
    <3>2. EntryFits(G[d].entries[j], tx, n)
      BY <2>1, <3>1 DEF FramesFit
    <3>3. ASSUME NEW b \in 1..Len(G), NEW k \in 1..Len(G[b].entries),
                 G[b].entries[k].slot = G[d].entries[j].slot
          PROVE  b = d /\ k = j
      <4>1. b \in 1..m /\ G[b] = F[b] /\ k \in 1..Len(F[b].entries)
        BY <2>2
      <4>2. F[b].entries[k].slot = F[d].entries[j].slot
        BY <3>1, <3>3, <4>1
      <4>. HIDE DEF F
      <4>. QED  BY <2>1, <3>1, <4>1, <4>2 DEF FramesFit
    <3>. QED  BY <3>2, <3>3
  <2>. HIDE DEF F
  <2>. QED  BY <2>3 DEF FramesFit
<1>8. Named(h, R, tx, n)
  <2>1. ASSUME NEW d \in 1..(m + 1)
        PROVE  /\ G[d].kind = R[d].kind
               /\ \A j \in 1..Len(G[d].entries) :
                     EntryNamed(G[d].entries[j], h, R[d].syms, tx, n)
               /\ \A u \in DOMAIN R[d].syms : \E j \in 1..Len(G[d].entries) :
                     G[d].entries[j].name = u
    <3>1. CASE d \in 1..m
      <4>1. /\ F[d].kind = scs[d].kind
            /\ \A j \in 1..Len(F[d].entries) :
                  EntryNamed(F[d].entries[j], g, scs[d].syms, tx, n)
            /\ \A u \in DOMAIN scs[d].syms : \E j \in 1..Len(F[d].entries) :
                  F[d].entries[j].name = u
        BY <1>1, <3>1 DEF Body, Named
      <4>2. R[d].kind = scs[d].kind /\ DOMAIN R[d].syms = DOMAIN scs[d].syms
        BY <1>1, <3>1 DEF Pushes
      <4>3. G[d] = F[d]
        BY <1>3, <3>1
      <4>. HIDE DEF F
      <4>. QED  BY <1>4, <4>1, <4>2, <4>3 DEF EntryNamed
    <3>2. CASE d = m + 1
      <4>1. R[d].kind = kind /\ DOMAIN R[d].syms = {}
        BY <1>1, <3>2 DEF Pushes
      <4>. QED  BY <1>2, <1>3, <3>2, <4>1
    <3>. QED  BY <1>1, <3>1, <3>2
  <2>2. Len(R) = m + 1
    BY <1>1 DEF Pushes
  <2>. QED  BY <1>3, <1>4, <2>1, <2>2 DEF Named
<1>9. Opened(G, T)
  <2>1. \A d \in 2..m : /\ F[d].at \in 1..Len(T) /\ T[F[d].at] = Owned(F, 1, d - 1)
    BY DEF Body, Opened
  <2>2. \A hi \in 0..m : Owned(G, 1, hi) = Owned(F, 1, hi)
    <3>1. \A hi \in 0..m : hi \in Nat /\ \A d \in 1..hi : G[d] = F[d]
      BY <1>1, <1>3
    <3>. HIDE DEF F
    <3>. QED  BY <3>1, OwnedSame
  <2>3. ASSUME NEW d \in 2..(m + 1)
        PROVE  G[d].at \in 1..Len(T) /\ T[G[d].at] = Owned(G, 1, d - 1)
    <3>1. CASE d \in 2..m
      <4>1. d \in 1..m /\ d - 1 \in 0..m
        BY <1>1, <3>1
      <4>. HIDE DEF F
      <4>. QED  BY <1>3, <2>1, <2>2, <3>1, <4>1
    <3>2. CASE d = m + 1
      <4>1. G[d].at = i /\ d - 1 = m /\ m \in 0..m
        BY <1>1, <1>2, <1>3, <3>2
      <4>. QED  BY <2>2, <4>1
    <3>. QED  BY <1>1, <3>1, <3>2
  <2>. QED  BY <1>3, <2>3 DEF Opened
<1>10. Resolved(h.code, G)
  <2>1. Pending(F) \subseteq Pending(G)
    <3>. HIDE DEF F, m
    <3>0. m \in Nat /\ Len(G) = m + 1
      BY <1>1, <1>3
    <3>1. \A d \in 1..m : d \in 1..Len(G) /\ G[d] = F[d]
      <4>1. \A d \in 1..m : d \in 1..(m + 1)
        BY <3>0
      <4>. QED  BY <1>3, <3>0, <4>1
    <3>. QED  BY <3>1 DEF Pending, m
  <2>2. Needs(kind, i) \subseteq Pending(G)
    <3>1. ASSUME NEW w \in Labels, <<kind, w>> \in Owes PROVE <<i, w>> \in Pending(G)
      <4>1. m + 1 \in 1..Len(G) /\ G[m + 1].at = i /\ G[m + 1].kind = kind
        BY <1>1, <1>2, <1>3
      <4>. QED  BY <1>1, <3>1, <4>1, PendingIntro
    <3>. QED  BY <3>1 DEF Needs
  <2>3. \A d \in 1..m : F[d].kind = "loop" => <<F[d].at, "cond">> \in Placed(g.code)
    BY DEF Body, Resolved
  <2>4. \A d \in 1..Len(G) : G[d].kind = "loop" => <<G[d].at, "cond">> \in Placed(h.code)
    <3>. SUFFICES ASSUME NEW d \in 1..Len(G), G[d].kind = "loop"
                  PROVE  <<G[d].at, "cond">> \in Placed(h.code)
      OBVIOUS
    <3>1. CASE d \in 1..m
      <4>1. G[d] = F[d]
        BY <1>3, <3>1
      <4>. HIDE DEF F
      <4>. QED  BY <1>4, <2>3, <3>1, <4>1
    <3>2. CASE d = m + 1
      BY <1>2, <1>3, <1>4, <3>2
    <3>. QED  BY <1>6, <3>1, <3>2
  <2>5. Jumps(h.code) \subseteq Placed(h.code) \cup Pending(G)
    BY <1>4, <2>1, <2>2
  <2>. QED  BY <2>4, <2>5 DEF Resolved
<1>11. Made(h, Owned(G, 1, Len(G)), T, tx, n)
  <2>1. Owned(G, 1, m + 1) = Owned(F, 1, m)
    <3>1. Released(G[m + 1].entries) = {}
      BY <1>2, <1>3 DEF Released, ReleasedFrom
    <3>2. Owned(G, 1, m) = Owned(F, 1, m)
      BY <1>1, <1>3, OwnedSame
    <3>3. Owned(G, 1, m + 1) = Owned(G, 1, m) \cup Released(G[m + 1].entries)
      <4>1. 1..(m + 1) = (1..m) \cup {m + 1}
        BY <1>1
      <4>. QED  BY <4>1 DEF Owned
    <3>. QED  BY <3>1, <3>2, <3>3
  <2>. QED  BY <1>3, <1>4, <2>1 DEF Made
<1>12. R \in Seq(Scope) /\ Len(R) > 0
  BY <1>1 DEF Pushes
<1>13. Body(h, T, R, tx, n)
  BY <1>1, <1>4, <1>7, <1>8, <1>9, <1>10, <1>11, <1>12 DEF Body
<1>. QED
  BY <1>5, <1>13

LEMMA FrontIs ==
    ASSUME NEW V, NEW s \in Seq(V), Len(s) > 0
    PROVE  /\ Front(s) \in Seq(V) /\ Len(Front(s)) = Len(s) - 1
           /\ \A d \in 1..(Len(s) - 1) : Front(s)[d] = s[d]
           /\ Last(s) = s[Len(s)]
<1>1. Len(s) \in Nat /\ Len(s) - 1 \in Nat /\ Last(s) = s[Len(s)]
  BY DEF Last
<1>. DEFINE m == Len(s) - 1
<1>2. Len(s) = m + 1 /\ m \in Nat
  BY <1>1
<1>. HIDE DEF m
<1>3. /\ Len(SubSeq(s, 1, m)) = m
      /\ \A d \in 1..m : SubSeq(s, 1, m)[d] = s[d]
  BY <1>2
<1>4. \A d \in 1..m : s[d] \in V
  BY <1>2
<1>6. SubSeq(s, 1, m) \in Seq(V)
  BY <1>2, <1>4
<1>. QED  BY <1>1, <1>2, <1>3, <1>6 DEF Front, m

\* A scope is left; e is what was emitted on the way, with the outer frames.
LEMMA BodyPop ==
    ASSUME NEW g, NEW T, NEW scs, NEW tx, NEW n, Body(g, T, scs, tx, n), Len(scs) > 1,
           NEW m, m = Len(scs),
           NEW e \in GenStates(n), e.frames = Front(g.frames), e.sym = g.sym,
           Placed(g.code) \subseteq Placed(e.code),
           Jumps(e.code) \subseteq Jumps(g.code) \cup Placed(e.code),
           Needs(g.frames[m].kind, g.frames[m].at) \subseteq Placed(e.code),
           Made(e, T[g.frames[m].at], T, tx, n),
           NEW R, Pops(scs, R)
    PROVE  Body(e, T, R, tx, n)
<1>. DEFINE F == g.frames
            G == e.frames
<1>1. /\ n \in Nat /\ m \in Nat /\ m > 1 /\ Len(F) = m /\ F \in Seq(Frames)
      /\ tx \in Seq(Statements) /\ T \in Seq(SUBSET Int) /\ Len(T) = Len(tx)
  BY GenType DEF Body, Named
<1>2. /\ G \in Seq(Frames) /\ Len(G) = m - 1
      /\ \A d \in 1..(m - 1) : G[d] = F[d]
  <2>1. G = Front(F)
    OBVIOUS
  <2>. HIDE DEF F, G
  <2>2. /\ Front(F) \in Seq(Frames) /\ Len(Front(F)) = Len(F) - 1
        /\ \A d \in 1..(Len(F) - 1) : Front(F)[d] = F[d]
    BY <1>1, FrontIs
  <2>. QED  BY <1>1, <2>1, <2>2
<1>3. \A d \in 1..Len(G) : d \in 1..m /\ d \in 1..(m - 1) /\ G[d] = F[d]
  BY <1>1, <1>2
<1>. HIDE DEF G
<1>4. FramesFit(G, tx, n)
  <2>1. FramesFit(F, tx, n)
    BY DEF Body
  <2>2. ASSUME NEW d \in 1..Len(G), NEW j \in 1..Len(G[d].entries)
        PROVE  /\ EntryFits(G[d].entries[j], tx, n)
               /\ \A b \in 1..Len(G) : \A k \in 1..Len(G[b].entries) :
                     G[b].entries[k].slot = G[d].entries[j].slot => b = d /\ k = j
    <3>1. d \in 1..Len(F) /\ G[d] = F[d] /\ j \in 1..Len(F[d].entries)
      BY <1>1, <1>3
    <3>2. EntryFits(G[d].entries[j], tx, n)
      BY <2>1, <3>1 DEF FramesFit
    <3>3. ASSUME NEW b \in 1..Len(G), NEW k \in 1..Len(G[b].entries),
                 G[b].entries[k].slot = G[d].entries[j].slot
          PROVE  b = d /\ k = j
      <4>1. b \in 1..Len(F) /\ G[b] = F[b] /\ k \in 1..Len(F[b].entries)
        BY <1>1, <1>3
      <4>2. F[b].entries[k].slot = F[d].entries[j].slot
        BY <3>1, <3>3, <4>1
      <4>. HIDE DEF F
      <4>. QED  BY <2>1, <3>1, <4>1, <4>2 DEF FramesFit
    <3>. QED  BY <3>2, <3>3
  <2>. HIDE DEF F
  <2>. QED  BY <2>2 DEF FramesFit
<1>5. Named(e, R, tx, n)
  <2>1. ASSUME NEW d \in 1..(m - 1)
        PROVE  /\ G[d].kind = R[d].kind
               /\ \A j \in 1..Len(G[d].entries) :
                     EntryNamed(G[d].entries[j], e, R[d].syms, tx, n)
               /\ \A u \in DOMAIN R[d].syms : \E j \in 1..Len(G[d].entries) :
                     G[d].entries[j].name = u
    <3>1. d \in 1..m /\ G[d] = F[d]
      BY <1>1, <1>2
    <3>2. /\ F[d].kind = scs[d].kind
          /\ \A j \in 1..Len(F[d].entries) :
                EntryNamed(F[d].entries[j], g, scs[d].syms, tx, n)
          /\ \A u \in DOMAIN scs[d].syms : \E j \in 1..Len(F[d].entries) :
                F[d].entries[j].name = u
      BY <3>1 DEF Body, Named
    <3>3. R[d].kind = scs[d].kind /\ DOMAIN R[d].syms = DOMAIN scs[d].syms
      BY DEF Pops
    <3>. HIDE DEF F
    <3>. QED  BY <3>1, <3>2, <3>3 DEF EntryNamed
  <2>2. Len(R) = m - 1
    BY DEF Pops
  <2>. QED  BY <1>2, <2>1, <2>2 DEF Named, G
<1>6. Opened(G, T)
  <2>1. \A d \in 2..m : /\ F[d].at \in 1..Len(T) /\ T[F[d].at] = Owned(F, 1, d - 1)
    BY <1>1 DEF Body, Opened
  <2>2. ASSUME NEW d \in 2..(m - 1)
        PROVE  G[d].at \in 1..Len(T) /\ T[G[d].at] = Owned(G, 1, d - 1)
    <3>1. /\ d \in 2..m /\ G[d] = F[d] /\ d - 1 \in Nat
          /\ \A c \in 1..(d - 1) : G[c] = F[c]
      <4>1. d \in 2..m /\ d \in 1..(m - 1) /\ d - 1 \in Nat
        BY <1>1
      <4>2. \A c \in 1..(d - 1) : c \in 1..(m - 1)
        BY <1>1
      <4>. QED  BY <1>2, <4>1, <4>2
    <3>2. Owned(G, 1, d - 1) = Owned(F, 1, d - 1)
      <4>. HIDE DEF F
      <4>. QED  BY <3>1, OwnedSame
    <3>. HIDE DEF F
    <3>. QED  BY <2>1, <3>1, <3>2
  <2>. QED  BY <1>2, <2>2 DEF Opened
<1>7. Resolved(e.code, G)
  <2>1. Pending(F) \subseteq Pending(G) \cup Placed(e.code)
    <3>1. ASSUME NEW l \in Nat \X Labels, NEW d \in 1..Len(F), F[d].at = l[1],
                 <<F[d].kind, l[2]>> \in Owes
          PROVE  l \in Pending(G) \cup Placed(e.code)
      <4>1. CASE d = m
        <5>1. l \in Needs(F[m].kind, F[m].at)
          BY <3>1, <4>1 DEF Needs
        <5>. QED  BY <5>1
      <4>2. CASE d # m
        <5>1. d \in 1..Len(G) /\ G[d] = F[d]
          BY <1>1, <1>2, <4>2
        <5>. HIDE DEF F
        <5>. QED  BY <3>1, <5>1 DEF Pending
      <4>. QED  BY <4>1, <4>2
    <3>. QED  BY <3>1 DEF Pending
  <2>2. Resolved(g.code, F)
    BY DEF Body
  <2>3. Jumps(e.code) \subseteq Placed(e.code) \cup Pending(G)
    <3>1. Jumps(g.code) \subseteq Placed(g.code) \cup Pending(F)
      BY <2>2 DEF Resolved
    <3>. QED  BY <2>1, <3>1
  <2>4. ASSUME NEW d \in 1..Len(G), G[d].kind = "loop"
        PROVE  <<G[d].at, "cond">> \in Placed(e.code)
    <3>1. d \in 1..Len(F) /\ G[d] = F[d]
      BY <1>1, <1>3
    <3>. HIDE DEF F
    <3>. QED  BY <2>2, <2>4, <3>1 DEF Resolved
  <2>. QED  BY <2>3, <2>4 DEF Resolved
<1>8. Made(e, Owned(G, 1, Len(G)), T, tx, n)
  <2>1. m \in 2..Len(F) /\ m - 1 \in Nat
    BY <1>1
  <2>2. T[F[m].at] = Owned(F, 1, m - 1)
    BY <2>1 DEF Body, Opened
  <2>3. Owned(G, 1, m - 1) = Owned(F, 1, m - 1)
    <3>. HIDE DEF F
    <3>. QED  BY <1>2, <2>1, OwnedSame
  <2>. QED  BY <1>2, <2>2, <2>3
<1>9. R \in Seq(Scope) /\ Len(R) > 0
  BY <1>1 DEF Pops
<1>. QED
  BY <1>1, <1>4, <1>5, <1>6, <1>7, <1>8, <1>9 DEF Body, G

\* A jump or a branch to a label where T says what is owned.
LEMMA EmitJump ==
    ASSUME NEW n, NEW g \in GenStates(n), NEW T, NEW tx, NEW A, Made(g, A, T, tx, n),
           NEW a \in 1..Len(T), a \in Nat, T[a] = A, NEW w \in Labels,
           NEW i, i = Jmp(a, w) \/ i = Branch(a, w)
    PROVE  LET h == Emit(g, <<i>>)
           IN  /\ h \in GenStates(n) /\ h.frames = g.frames /\ h.sym = g.sym
               /\ Placed(h.code) = Placed(g.code)
               /\ Jumps(h.code) \subseteq Jumps(g.code) \cup {<<a, w>>}
               /\ Made(h, A, T, tx, n)
<1>. DEFINE h == Emit(g, <<i>>)
<1>1. i \in Instrs(n) /\ i.do \in {"jmp", "br"} /\ i.to = <<a, w>> /\ i.to[1] = a
  <2>1. i \in Instrs(n) /\ i.do \in {"jmp", "br"} /\ i.to = <<a, w>>
    <3>1. CASE i = Jmp(a, w)
      BY <3>1, JmpType
    <3>2. CASE i = Branch(a, w)
      BY <3>2, JmpType
    <3>. QED  BY <3>1, <3>2
  <2>. QED  BY <2>1
<1>2. /\ h \in GenStates(n) /\ h.frames = g.frames /\ h.sym = g.sym
      /\ h.code = IF g.live THEN Append(g.code, i) ELSE g.code
  BY <1>1, EmitOne
<1>3. g.code \in Seq(Instrs(n)) /\ A \in States(tx, n)
  BY GenType DEF Made
<1>4. Fits(i, A, T, tx, n) /\ After(i, A, tx) = A /\ i.do # "again"
  BY <1>1 DEF Fits, After
<1>5. Made(h, A, T, tx, n)
  BY <1>1, <1>3, <1>4, EmitMade
<1>. HIDE DEF h
<1>6. /\ Placed(h.code) = Placed(g.code)
      /\ Jumps(h.code) \subseteq Jumps(g.code) \cup {<<a, w>>}
  <2>1. /\ Jumps(Append(g.code, i)) = Jumps(g.code) \cup {i.to}
        /\ Placed(Append(g.code, i)) = Placed(g.code)
    <3>1. i \in Instrs(n) /\ i.do \in {"jmp", "br"} /\ i.do # "label"
      BY <1>1
    <3>2. g.code \in Seq(Instrs(n))
      BY <1>3
    <3>. QED  BY <3>1, <3>2, Jumped
  <2>2. i.to = <<a, w>>
    BY <1>1
  <2>. QED  BY <1>2, <2>1, <2>2
<1>. QED
  BY <1>2, <1>5, <1>6 DEF h

\* The code of the end of the innermost scope.
Leaving(g, at) == [Unwind(g, Len(g.frames) - 1, at) EXCEPT !.frames = Front(@)]

LEMMA LeaveScope ==
    ASSUME NEW g, NEW T, NEW scs, NEW tx, NEW n, Body(g, T, scs, tx, n), Len(scs) > 1,
           NEW m, m = Len(scs), NEW at \in Nat
    PROVE  LET h == Leaving(g, at)
           IN  /\ h \in GenStates(n) /\ h.frames = Front(g.frames) /\ h.sym = g.sym
               /\ Jumps(h.code) = Jumps(g.code) /\ Placed(h.code) = Placed(g.code)
               /\ g.frames[m].at \in 1..Len(T) /\ g.frames[m].at \in Nat
               /\ Made(h, T[g.frames[m].at], T, tx, n)
               /\ Last(g.frames) = g.frames[m] /\ g.frames[m].kind = scs[m].kind
<1>. DEFINE F == g.frames
            k == Unwind(g, m - 1, at)
            h == Leaving(g, at)
<1>1. /\ m \in Nat /\ m > 1 /\ Len(F) = m /\ F \in Seq(Frames) /\ m \in 2..Len(scs)
      /\ F[m].kind = scs[m].kind
  BY GenType DEF Body, Named
<1>2. /\ k \in GenStates(n) /\ Plain(g, k) /\ F[m].at \in 1..Len(T) /\ F[m].at \in Nat
      /\ Made(k, T[F[m].at], T, tx, n)
  BY <1>1, UnwindTo
<1>3. h = [k EXCEPT !.frames = Front(k.frames)]
  BY <1>1 DEF Leaving
<1>. HIDE DEF k
<1>4. k.frames = F /\ Front(F) \in Seq(Frames) /\ Last(F) = F[m]
  <2>1. Len(F) > 0 /\ k.frames = F
    BY <1>1, <1>2 DEF Plain
  <2>. HIDE DEF F
  <2>. QED  BY <1>1, <2>1, FrontIs
<1>. HIDE DEF F
<1>5. /\ h \in GenStates(n) /\ h.frames = Front(F) /\ h.sym = k.sym /\ h.code = k.code
      /\ h.live = k.live
  BY <1>2, <1>3, <1>4 DEF GenStates
<1>. HIDE DEF h
<1>6. /\ Made(h, T[F[m].at], T, tx, n) /\ h.sym = g.sym
      /\ Jumps(h.code) = Jumps(g.code) /\ Placed(h.code) = Placed(g.code)
  BY <1>2, <1>5 DEF Made, Plain
<1>. QED
  BY <1>1, <1>2, <1>4, <1>5, <1>6 DEF h, F

LEMMA NeedsOf ==
    ASSUME NEW i
    PROVE  /\ Needs("if", i) = {<<i, "else">>} /\ Needs("else", i) = {<<i, "end">>}
           /\ Needs("loop", i) = {<<i, "after">>}
           /\ Needs("block", i) = {} /\ Needs("body", i) = {}
<1>1. /\ \A w \in Labels : <<"if", w>> \in Owes <=> w = "else"
      /\ \A w \in Labels : <<"else", w>> \in Owes <=> w = "end"
      /\ \A w \in Labels : <<"loop", w>> \in Owes <=> w = "after"
      /\ \A w \in Labels : <<"block", w>> \notin Owes /\ <<"body", w>> \notin Owes
  BY DEF Labels, Owes
<1>2. "else" \in Labels /\ "end" \in Labels /\ "after" \in Labels
  BY DEF Labels
<1>. QED
  BY <1>1, <1>2 DEF Needs

LEMMA CompileEnd ==
    ASSUME NEW g, NEW T, NEW scs, NEW tx, NEW n, Body(g, T, scs, tx, n), Len(scs) > 1,
           NEW at \in Nat, NEW R, Pops(scs, R)
    PROVE  Body(GenEnd(g, at), T, R, tx, n)
<1>. DEFINE m == Len(scs)
            i == g.frames[m].at
            kind == g.frames[m].kind
            h == Leaving(g, at)
            A == T[i]
            j == Emit(h, <<Jmp(i, "cond")>>)
<1>1. /\ h \in GenStates(n) /\ h.frames = Front(g.frames) /\ h.sym = g.sym
      /\ Jumps(h.code) = Jumps(g.code) /\ Placed(h.code) = Placed(g.code)
      /\ i \in 1..Len(T) /\ i \in Nat /\ Made(h, A, T, tx, n)
      /\ Last(g.frames) = g.frames[m] /\ kind = scs[m].kind
  BY LeaveScope
<1>2. kind \in ScopeKinds
  <2>1. scs \in Seq(Scope) /\ m \in 1..Len(scs)
    BY DEF Body
  <2>2. scs[m] \in Scope
    BY <2>1
  <2>. HIDE DEF m
  <2>. QED  BY <1>1, <2>2 DEF Scope
<1>3. "cond" \in Labels /\ "after" \in Labels /\ "else" \in Labels /\ "end" \in Labels
  BY DEF Labels
<1>4. GenEnd(g, at) = CASE kind = "if"   -> Label(h, i, "else")
                        [] kind = "else" -> Label(h, i, "end")
                        [] kind = "loop" -> Label(j, i, "after")
                        [] OTHER         -> h
  BY <1>1 DEF GenEnd, Leaving
<1>. HIDE DEF h
<1>5. ASSUME NEW w \in Labels, Needs(kind, i) = {<<i, w>>}
      PROVE  Body(Label(h, i, w), T, R, tx, n)
  <2>. DEFINE e == Label(h, i, w)
  <2>1. /\ e \in GenStates(n) /\ Made(e, A, T, tx, n)
        /\ e.frames = h.frames /\ e.sym = h.sym /\ Jumps(e.code) = Jumps(h.code)
        /\ Placed(e.code) = Placed(h.code) \cup {<<i, w>>}
    BY SMTT(30), <1>1, LabelMade
  <2>. HIDE DEF e
  <2>2. /\ e.frames = Front(g.frames) /\ e.sym = g.sym
        /\ Placed(g.code) \subseteq Placed(e.code)
        /\ Jumps(e.code) \subseteq Jumps(g.code) \cup Placed(e.code)
        /\ Needs(kind, i) \subseteq Placed(e.code)
    BY <1>1, <1>5, <2>1
  <2>3. Body(e, T, R, tx, n)
    BY <2>1, <2>2, BodyPop
  <2>. QED  BY <2>3 DEF e
<1>6. CASE kind = "if"
  <2>1. Needs(kind, i) = {<<i, "else">>}
    BY <1>6, NeedsOf
  <2>. QED  BY <1>3, <1>4, <1>5, <1>6, <2>1
<1>7. CASE kind = "else"
  <2>1. Needs(kind, i) = {<<i, "end">>}
    BY <1>7, NeedsOf
  <2>. QED  BY <1>3, <1>4, <1>5, <1>7, <2>1
<1>8. CASE kind = "loop"
  <2>1. Needs(kind, i) = {<<i, "after">>}
    BY <1>8, NeedsOf
  <2>2. <<i, "cond">> \in Placed(g.code)
    <3>1. m \in 1..Len(g.frames)
      BY DEF Body, Named
    <3>. QED  BY <1>8, <3>1 DEF Body, Resolved
  <2>3. /\ j \in GenStates(n) /\ j.frames = h.frames /\ j.sym = h.sym
        /\ Placed(j.code) = Placed(h.code)
        /\ Jumps(j.code) \subseteq Jumps(h.code) \cup {<<i, "cond">>}
        /\ Made(j, A, T, tx, n)
    BY <1>1, <1>3, EmitJump
  <2>. HIDE DEF j
  <2>. DEFINE e == Label(j, i, "after")
  <2>4. /\ e \in GenStates(n) /\ Made(e, A, T, tx, n)
        /\ e.frames = j.frames /\ e.sym = j.sym /\ Jumps(e.code) = Jumps(j.code)
        /\ Placed(e.code) = Placed(j.code) \cup {<<i, "after">>}
    BY <1>1, <1>3, <2>3, LabelMade
  <2>. HIDE DEF e
  <2>5. /\ e.frames = Front(g.frames) /\ e.sym = g.sym
        /\ Placed(g.code) \subseteq Placed(e.code)
        /\ Jumps(e.code) \subseteq Jumps(g.code) \cup Placed(e.code)
        /\ Needs(kind, i) \subseteq Placed(e.code)
    BY <1>1, <2>1, <2>2, <2>3, <2>4
  <2>6. Body(e, T, R, tx, n)
    BY <2>4, <2>5, BodyPop
  <2>. QED  BY <1>4, <1>8, <2>6 DEF e
<1>9. CASE kind \in {"block", "body"}
  <2>1. Needs(kind, i) = {}
    BY <1>9, NeedsOf
  <2>2. Body(h, T, R, tx, n)
    BY <1>1, <2>1, BodyPop
  <2>3. kind # "if" /\ kind # "else" /\ kind # "loop"
    BY <1>9
  <2>. QED  BY <1>4, <2>2, <2>3
<1>. QED
  BY <1>2, <1>6, <1>7, <1>8, <1>9 DEF ScopeKinds

LEMMA CompileOpen ==
    ASSUME NEW g, NEW T, NEW scs, NEW tx, NEW n, Body(g, T, scs, tx, n),
           NEW at \in 1..Len(T), T[at] = Owned(g.frames, 1, Len(g.frames)),
           NEW kind \in {"block", "if", "loop"}, NEW R, Pushes(scs, R, kind)
    PROVE  Body(GenOpen(g, kind, at), T, R, tx, n)
<1>. DEFINE A == Owned(g.frames, 1, Len(g.frames))
            l == Label(g, at, "cond")
            e == CASE kind = "if"   -> Emit(g, <<Branch(at, "else")>>)
                   [] kind = "loop" -> Emit(l, <<Branch(at, "after")>>)
                   [] OTHER         -> g
<1>1. /\ g \in GenStates(n) /\ Made(g, A, T, tx, n) /\ at \in Nat
      /\ Jumps(g.code) \subseteq Placed(g.code) \cup Pending(g.frames)
  <2>1. T \in Seq(SUBSET Int)
    BY DEF Body
  <2>2. at \in Nat
    BY <2>1
  <2>. QED  BY <2>2 DEF Body, Resolved
<1>2. "cond" \in Labels /\ "after" \in Labels /\ "else" \in Labels
  BY DEF Labels
<1>3. GenOpen(g, kind, at) = [e EXCEPT !.frames = Append(@, Frame(kind, at))]
  BY DEF GenOpen
<1>4. kind \in ScopeKinds
  BY DEF ScopeKinds
<1>5. /\ e \in GenStates(n) /\ e.frames = g.frames /\ e.sym = g.sym
      /\ Placed(g.code) \subseteq Placed(e.code)
      /\ Jumps(e.code) \subseteq Placed(e.code) \cup Pending(g.frames) \cup Needs(kind, at)
      /\ kind = "loop" => <<at, "cond">> \in Placed(e.code)
      /\ Made(e, A, T, tx, n)
  <2>. HIDE DEF A
  <2>0. T[at] = A
    BY DEF A
  <2>1. CASE kind = "if"
    <3>. DEFINE h == Emit(g, <<Branch(at, "else")>>)
    <3>1. /\ h \in GenStates(n) /\ h.frames = g.frames /\ h.sym = g.sym
          /\ Placed(h.code) = Placed(g.code)
          /\ Jumps(h.code) \subseteq Jumps(g.code) \cup {<<at, "else">>}
          /\ Made(h, A, T, tx, n)
      BY <1>1, <1>2, <2>0, EmitJump
    <3>2. e = h
      BY <2>1
    <3>3. Needs(kind, at) = {<<at, "else">>}
      BY <2>1, NeedsOf
    <3>. HIDE DEF h, e
    <3>. QED  BY <1>1, <2>1, <3>1, <3>2, <3>3
  <2>2. CASE kind = "loop"
    <3>. DEFINE h == Emit(l, <<Branch(at, "after")>>)
    <3>1. /\ l \in GenStates(n) /\ Made(l, A, T, tx, n)
          /\ l.frames = g.frames /\ l.sym = g.sym /\ Jumps(l.code) = Jumps(g.code)
          /\ Placed(l.code) = Placed(g.code) \cup {<<at, "cond">>}
      BY <1>1, <1>2, <2>0, LabelMade
    <3>2. e = h
      BY <2>2
    <3>. HIDE DEF l
    <3>3. /\ h \in GenStates(n) /\ h.frames = l.frames /\ h.sym = l.sym
          /\ Placed(h.code) = Placed(l.code)
          /\ Jumps(h.code) \subseteq Jumps(l.code) \cup {<<at, "after">>}
          /\ Made(h, A, T, tx, n)
      BY <1>1, <1>2, <2>0, <3>1, EmitJump
    <3>4. Needs(kind, at) = {<<at, "after">>}
      BY <2>2, NeedsOf
    <3>. HIDE DEF h, e
    <3>. QED  BY <1>1, <3>1, <3>2, <3>3, <3>4
  <2>3. CASE kind = "block"
    <3>1. e = g /\ kind # "loop"
      BY <2>3
    <3>. HIDE DEF e
    <3>. QED  BY <1>1, <3>1
  <2>. QED  BY <2>1, <2>2, <2>3
<1>. HIDE DEF e
<1>6. Body([e EXCEPT !.frames = Append(@, Frame(kind, at))], T, R, tx, n)
  BY <1>4, <1>5, BodyPush
<1>. QED
  BY <1>3, <1>6

\* The innermost scope is that of an if.
InIf(scs) == Len(scs) > 1 /\ scs[Len(scs)].kind = "if"

LEMMA CompileElse ==
    ASSUME NEW g, NEW T, NEW scs, NEW tx, NEW n, Body(g, T, scs, tx, n), InIf(scs),
           NEW at \in Nat,
           NEW S, Pops(scs, S), NEW R, Pushes(S, R, "else")
    PROVE  Body(GenElse(g, at), T, R, tx, n)
<1>. DEFINE m == Len(scs)
            i == g.frames[m].at
            h == Leaving(g, at)
            A == T[i]
            b == Label(h, i, "else")
            j == Emit(h, <<Jmp(i, "end")>>)
            e == Label(j, i, "else")
<1>1. /\ h \in GenStates(n) /\ h.frames = Front(g.frames) /\ h.sym = g.sym
      /\ i \in 1..Len(T) /\ i \in Nat /\ Made(h, A, T, tx, n)
      /\ Last(g.frames) = g.frames[m]
  BY LeaveScope DEF InIf
<1>0. g.frames[m].kind = "if"
  BY LeaveScope DEF InIf
<1>2. "else" \in Labels /\ "end" \in Labels /\ "else" \in ScopeKinds
  BY DEF Labels, ScopeKinds
<1>3. GenElse(g, at) = [e EXCEPT !.frames = Append(@, Frame("else", i))]
  BY <1>0, <1>1 DEF GenElse, Leaving
<1>4. GenEnd(g, at) = b
  BY <1>0, <1>1 DEF GenEnd, Leaving
<1>5. Body(b, T, S, tx, n)
  <2>1. Body(GenEnd(g, at), T, S, tx, n)
    BY CompileEnd DEF InIf
  <2>. QED  BY <1>4, <2>1
<1>. HIDE DEF h
<1>6. /\ b.frames = h.frames /\ b.sym = h.sym /\ Jumps(b.code) = Jumps(h.code)
      /\ Placed(b.code) = Placed(h.code) \cup {<<i, "else">>}
  BY <1>1, <1>2, LabelMade
<1>7. /\ j \in GenStates(n) /\ j.frames = h.frames /\ j.sym = h.sym
      /\ Placed(j.code) = Placed(h.code)
      /\ Jumps(j.code) \subseteq Jumps(h.code) \cup {<<i, "end">>}
      /\ Made(j, A, T, tx, n)
  BY <1>1, <1>2, EmitJump
<1>. HIDE DEF j
<1>8. /\ e \in GenStates(n) /\ e.frames = j.frames /\ e.sym = j.sym
      /\ Jumps(e.code) = Jumps(j.code) /\ Made(e, A, T, tx, n)
      /\ Placed(e.code) = Placed(j.code) \cup {<<i, "else">>}
  <2>1. j \in GenStates(n) /\ Made(j, T[i], T, tx, n) /\ i \in 1..Len(T) /\ i \in Nat
    BY <1>1, <1>7
  <2>2. "else" \in Labels
    BY <1>2
  <2>. HIDE DEF i
  <2>. QED  BY <2>1, <2>2, LabelMade
<1>. HIDE DEF e, b
<1>9. A = Owned(b.frames, 1, Len(b.frames))
  <2>1. g.frames \in Seq(Frames) /\ Len(g.frames) = m /\ m \in Nat /\ m > 1
    BY GenType DEF Body, Named, InIf
  <2>2. /\ Len(b.frames) = m - 1 /\ m - 1 \in Nat
        /\ \A d \in 1..(m - 1) : b.frames[d] = g.frames[d]
    BY <1>1, <1>6, <2>1, FrontIs
  <2>3. A = Owned(g.frames, 1, m - 1)
    BY <2>1 DEF Body, Opened
  <2>. QED  BY <2>2, <2>3, OwnedSame
<1>10. Jumps(e.code) \subseteq Placed(e.code) \cup Pending(b.frames) \cup Needs("else", i)
  <2>1. Jumps(b.code) \subseteq Placed(b.code) \cup Pending(b.frames)
    BY <1>5 DEF Body, Resolved
  <2>2. Needs("else", i) = {<<i, "end">>}
    BY NeedsOf
  <2>. QED  BY <1>6, <1>7, <1>8, <2>1, <2>2
<1>11. /\ e.frames = b.frames /\ e.sym = b.sym /\ Placed(b.code) \subseteq Placed(e.code)
       /\ Made(e, Owned(b.frames, 1, Len(b.frames)), T, tx, n)
  BY <1>6, <1>7, <1>8, <1>9
<1>12. Body([e EXCEPT !.frames = Append(@, Frame("else", i))], T, R, tx, n)
  <2>. DEFINE kind == "else"
  <2>1. kind \in ScopeKinds /\ kind # "loop" /\ Pushes(S, R, kind)
        /\ Jumps(e.code) \subseteq Placed(e.code) \cup Pending(b.frames) \cup Needs(kind, i)
    BY <1>2, <1>10
  <2>. HIDE DEF kind, i
  <2>2. Body([e EXCEPT !.frames = Append(@, Frame(kind, i))], T, R, tx, n)
    BY <1>1, <1>5, <1>8, <1>9, <1>11, <2>1, BodyPush
  <2>. QED  BY <2>2 DEF kind
<1>. QED
  BY <1>3, <1>12

-----------------------------------------------------------------------------
(* The scopes after a statement                                            *)

LEMMA ShapeIsTransitive ==
    ASSUME NEW S, NEW R, NEW U, SameShape(S, R), SameShape(R, U)
    PROVE  SameShape(S, U)
BY DEF SameShape

LEMMA MovedShape ==
    ASSUME NEW S \in Seq(Scope), NEW d, NEW v, NEW b \in BOOLEAN
    PROVE  SameShape(S, [S EXCEPT ![d].syms[v].moved = b])
<1>. DEFINE R   == [S EXCEPT ![d].syms[v].moved = b]
            new == [S[d].syms EXCEPT ![v] = [S[d].syms[v] EXCEPT !.moved = b]]
            sc  == [S[d] EXCEPT !.syms = new]
<1>1. Weaker(S, R)
  BY MovedWeaker
<1>2. R = [S EXCEPT ![d] = sc]
  OBVIOUS
<1>3. ASSUME NEW c \in 1..Len(S) PROVE DOMAIN R[c].syms = DOMAIN S[c].syms
  <2>1. CASE c = d
    <3>1. S[d] \in Scope
      BY <2>1
    <3>2. DOMAIN new = DOMAIN S[d].syms
      OBVIOUS
    <3>. HIDE DEF new
    <3>3. sc.syms = new
      BY <3>1 DEF Scope
    <3>. HIDE DEF R, sc
    <3>4. R[c] = sc
      BY <1>2, <2>1
    <3>. QED  BY <2>1, <3>2, <3>3, <3>4
  <2>2. CASE c # d
    <3>. HIDE DEF sc
    <3>1. R[c] = S[c]
      BY <1>2, <2>2
    <3>. QED  BY <3>1
  <2>. QED  BY <2>1, <2>2
<1>. HIDE DEF R
<1>4. SameShape(S, R)
  BY <1>1, <1>3 DEF Weaker, SameShape
<1>. QED
  BY <1>4 DEF R

LEMMA JumpingShape ==
    ASSUME NEW S \in Seq(Scope), Len(S) > 0 PROVE SameShape(S, Jumping(S))
<1>. DEFINE R  == Jumping(S)
            sc == [S[Len(S)] EXCEPT !.jumps = TRUE, !.dead = TRUE]
<1>1. Len(S) \in 1..Len(S) /\ S[Len(S)] \in Scope
  OBVIOUS
<1>2. sc.syms = S[Len(S)].syms
  BY <1>1 DEF Scope
<1>3. Jumping(S) = [S EXCEPT ![Len(S)] = sc]
  BY <1>1 DEF Jumping
<1>4. Weaker(S, R)
  BY JumpingWeaker
<1>. HIDE DEF sc
<1>5. \A c \in 1..Len(S) : DOMAIN R[c].syms = DOMAIN S[c].syms
  BY <1>2, <1>3
<1>. HIDE DEF R
<1>6. SameShape(S, R)
  BY <1>4, <1>5 DEF Weaker, SameShape
<1>. QED
  BY <1>6 DEF R

LEMMA DefineAdds ==
    ASSUME NEW S \in Seq(Scope), Len(S) > 0, NEW v \in Names, NEW from \in Places \cup {<<>>},
           NEW x \in BOOLEAN, NEW sharp \in BOOLEAN
    PROVE  Adds(S, Define(S, v, from, x, sharp), v)
<1>. DEFINE n   == Len(S)
            new == Put(S[n].syms, v, [moved |-> FALSE, from |-> from,
                                      exclusive |-> x, sharp |-> sharp])
            sc  == [S[n] EXCEPT !.syms = new]
            R   == [S EXCEPT ![n] = sc]
<1>1. S \in Seq(Scope) /\ n \in 1..n /\ S[n] \in Scope
  OBVIOUS
<1>2. S[n].syms \in Symbols
  BY <1>1 DEF Scope
<1>3. new \in Symbols
  BY <1>2, DefineClaims
<1>4. Define(S, v, from, x, sharp) = R
  BY DEF Define
<1>5. DOMAIN new = DOMAIN S[n].syms \cup {v}
  BY DEF Put
<1>. HIDE DEF new
<1>6. sc \in Scope /\ sc.syms = new /\ sc.kind = S[n].kind
  BY <1>1, <1>3 DEF Scope
<1>. HIDE DEF sc
<1>7. /\ R \in Seq(Scope) /\ Len(R) = n /\ R[n] = sc
      /\ \A i \in 1..n : i # n => R[i] = S[i]
  BY <1>1, <1>6
<1>. HIDE DEF R
<1>8. Adds(S, R, v)
  BY <1>5, <1>6, <1>7 DEF Adds
<1>. QED
  BY <1>4, <1>8

LEMMA AddsShape ==
    ASSUME NEW S, NEW R, NEW U, NEW v, Adds(S, R, v), SameShape(R, U)
    PROVE  Adds(S, U, v)
BY DEF Adds, SameShape

LEMMA PopsShape ==
    ASSUME NEW S, NEW R, NEW U, Pops(S, R), SameShape(R, U)
    PROVE  Pops(S, U)
<1>1. /\ U \in Seq(Scope) /\ Len(U) = Len(R) /\ Len(R) = Len(S) - 1
      /\ \A d \in 1..Len(R) : /\ U[d].kind = S[d].kind
                              /\ DOMAIN U[d].syms = DOMAIN S[d].syms
  BY DEF Pops, SameShape
<1>. QED  BY <1>1 DEF Pops

LEMMA FrontPops ==
    ASSUME NEW S \in Seq(Scope), Len(S) > 0 PROVE Pops(S, Front(S))
BY FrontIs DEF Pops

-----------------------------------------------------------------------------
(* The compiler goes through the text                                      *)

IsGen(f, m, body) ==
    f = [k \in 0..m |-> IF k = 0 THEN Gen0 ELSE GenStatement(f[k - 1], body[k], k)]

LEMMA GenExists ==
    ASSUME NEW body, NEW b \in Nat
    PROVE  \E f : IsGen(f, b, body)
<1>. DEFINE S == {m \in 0..b : \E f : IsGen(f, m, body)}
            next(h, k) == IF k = 0 THEN Gen0 ELSE GenStatement(h[k - 1], body[k], k)
<1>1. 0 \in S
  <2>. DEFINE f == [k \in 0..0 |-> Gen0]
  <2>1. f = [k \in 0..0 |-> IF k = 0 THEN Gen0 ELSE GenStatement(f[k - 1], body[k], k)]
    OBVIOUS
  <2>2. IsGen(f, 0, body)
    <3>. HIDE DEF f
    <3>. QED  BY <2>1 DEF IsGen
  <2>. HIDE DEF f
  <2>. QED  BY <2>2
<1>2. ASSUME NEW m \in 0..b, m \in S, m < b PROVE m + 1 \in S
  <2>1. PICK f : IsGen(f, m, body)
    BY <1>2
  <2>. DEFINE e == [k \in 0..(m + 1) |->
                      IF k = m + 1 THEN GenStatement(f[m], body[m + 1], m + 1) ELSE f[k]]
  <2>2. \A k \in 0..m : f[k] = next(f, k)
    BY <2>1 DEF IsGen
  <2>3. ASSUME NEW k \in 0..(m + 1) PROVE e[k] = next(e, k)
    <3>1. CASE k = m + 1
      <4>1. /\ k # 0 /\ k - 1 = m /\ m # m + 1 /\ m \in 0..(m + 1)
            /\ e[k] = GenStatement(f[m], body[m + 1], m + 1)
        BY <3>1
      <4>2. e[m] = f[m]
        BY <4>1
      <4>. HIDE DEF e
      <4>. QED  BY <3>1, <4>1, <4>2
    <3>2. CASE k # m + 1 /\ k # 0
      <4>1. /\ k \in 0..m /\ k - 1 \in 0..(m + 1) /\ k - 1 # m + 1
        BY <3>2
      <4>2. e[k - 1] = f[k - 1] /\ e[k] = f[k]
        BY <3>2, <4>1
      <4>. HIDE DEF e
      <4>. QED  BY <2>2, <3>2, <4>1, <4>2
    <3>3. CASE k = 0
      <4>1. k # m + 1 /\ k \in 0..m
        BY <3>3
      <4>2. e[k] = f[k] /\ f[k] = Gen0
        BY <2>2, <3>3, <4>1
      <4>. HIDE DEF e
      <4>. QED  BY <3>3, <4>2
    <3>. QED  BY <3>1, <3>2, <3>3
  <2>4. e = [k \in 0..(m + 1) |-> next(e, k)]
    <3>1. e = [k \in 0..(m + 1) |-> e[k]]
      OBVIOUS
    <3>. HIDE DEF e, next
    <3>. QED  BY <2>3, <3>1
  <2>5. IsGen(e, m + 1, body)
    <3>. HIDE DEF e
    <3>. QED  BY <2>4 DEF IsGen
  <2>6. m + 1 \in 0..b
    BY <1>2
  <2>. HIDE DEF e
  <2>. QED  BY <2>5, <2>6
<1>. HIDE DEF S
<1>3. \A m \in 0..b : m \in S
  BY <1>1, <1>2, UpTo
<1>4. b \in S
  BY <1>3
<1>. QED
  BY <1>4 DEF S

\* f has what the compiler made of each number of statements.
Gens(f, body) ==
    /\ f[0] = Gen0
    /\ \A k \in 1..Len(body) : f[k] = GenStatement(f[k - 1], body[k], k)
    /\ GenBody(body) = f[Len(body)]

LEMMA GenIs ==
    ASSUME NEW V, NEW body \in Seq(V)
    PROVE  \E f : Gens(f, body)
<1>. DEFINE b == Len(body)
            f == CHOOSE h : IsGen(h, b, body)
<1>0. b \in Nat
  OBVIOUS
<1>1. IsGen(f, b, body)
  BY <1>0, GenExists
<1>2. GenBody(body) = f[b]
  BY DEF GenBody, IsGen
<1>. HIDE DEF f
<1>3. \A k \in 0..b : f[k] = IF k = 0 THEN Gen0 ELSE GenStatement(f[k - 1], body[k], k)
  BY <1>1 DEF IsGen
<1>4. f[0] = Gen0 /\ \A k \in 1..b : f[k] = GenStatement(f[k - 1], body[k], k)
  BY <1>0, <1>3
<1>5. Gens(f, body)
  BY <1>2, <1>4 DEF Gens
<1>. QED
  BY <1>5

LEMMA GenNothing == GenBody(<<>>) = Gen0
<1>1. <<>> \in Seq({}) /\ Len(<<>>) = 0
  OBVIOUS
<1>2. PICK f : Gens(f, <<>>)
  BY <1>1, GenIs
<1>. QED
  BY <1>1, <1>2 DEF Gens

LEMMA GenNext ==
    ASSUME NEW V, NEW tx \in Seq(V), NEW s \in V
    PROVE  GenBody(Append(tx, s)) = GenStatement(GenBody(tx), s, Len(tx) + 1)
<1>. DEFINE t2 == Append(tx, s)
            b  == Len(tx)
<1>1. /\ t2 \in Seq(V) /\ Len(t2) = b + 1 /\ b \in Nat /\ t2[b + 1] = s
      /\ \A k \in 1..b : t2[k] = tx[k]
  OBVIOUS
<1>. HIDE DEF t2
<1>2. PICK f : Gens(f, tx)
  BY GenIs
<1>3. PICK h : Gens(h, t2)
  BY <1>1, GenIs
<1>. DEFINE S == {k \in 0..b : h[k] = f[k]}
<1>4. 0 \in S
  BY <1>1, <1>2, <1>3 DEF Gens
<1>5. ASSUME NEW k \in 0..b, k \in S, k < b PROVE k + 1 \in S
  <2>1. /\ k + 1 \in 1..Len(tx) /\ k + 1 \in 1..Len(t2) /\ (k + 1) - 1 = k
        /\ t2[k + 1] = tx[k + 1] /\ h[k] = f[k] /\ k + 1 \in 0..b
    BY <1>1, <1>5
  <2>2. f[k + 1] = GenStatement(f[k], tx[k + 1], k + 1)
    BY <1>2, <2>1 DEF Gens
  <2>3. h[k + 1] = GenStatement(h[k], t2[k + 1], k + 1)
    BY <1>3, <2>1 DEF Gens
  <2>. QED  BY <2>1, <2>2, <2>3
<1>. HIDE DEF S
<1>6. \A k \in 0..b : k \in S
  BY <1>1, <1>4, <1>5, UpTo
<1>7. h[b] = f[b]
  <2>1. b \in S
    BY <1>1, <1>6
  <2>. QED  BY <2>1 DEF S
<1>8. h[b + 1] = GenStatement(h[b], s, b + 1)
  <2>1. b + 1 \in 1..Len(t2) /\ (b + 1) - 1 = b
    BY <1>1
  <2>2. h[b + 1] = GenStatement(h[(b + 1) - 1], t2[b + 1], b + 1)
    BY <1>3, <2>1 DEF Gens
  <2>. QED  BY <1>1, <2>1, <2>2
<1>9. GenBody(tx) = f[b] /\ GenBody(t2) = h[b + 1]
  BY <1>1, <1>2, <1>3 DEF Gens
<1>. QED
  BY <1>7, <1>8, <1>9 DEF t2

\* The text tx was compiled to code that can be typed.
Compiles(scs, tx, n) == \E T : Body(GenBody(tx), T, scs, tx, n)

\* s is the last statement of tx and the next to be compiled.
Awaits(g, T, scs, tx, n, s) ==
    /\ Body(g, T, scs, tx, n)
    /\ Len(tx) \in Nat /\ Len(tx) > 0 /\ tx[Len(tx)] = s
    /\ T[Len(tx)] = Owned(g.frames, 1, Len(g.frames))
    /\ Fresh(g.frames, Len(tx))

LEMMA StatementAwaits ==
    ASSUME NEW scs, NEW tx, NEW n, Compiles(scs, tx, n), NEW s \in Statements
    PROVE  \E T : Awaits(GenBody(tx), T, scs, Append(tx, s), n, s)
<1>. DEFINE g == GenBody(tx)
<1>1. PICK T : Body(g, T, scs, tx, n)
  BY DEF Compiles
<1>. HIDE DEF g
<1>. DEFINE A  == Owned(g.frames, 1, Len(g.frames))
            T2 == Append(T, A)
            t2 == Append(tx, s)
<1>2. /\ Body(g, T2, scs, t2, n)
      /\ Len(t2) = Len(tx) + 1 /\ Len(t2) \in Nat /\ Len(t2) > 0
      /\ t2[Len(t2)] = s /\ T2[Len(t2)] = A
      /\ Fresh(g.frames, Len(t2))
  BY <1>1, BodyGrows
<1>. HIDE DEF T2, t2
<1>3. Awaits(g, T2, scs, t2, n, s)
  BY <1>2 DEF Awaits
<1>. QED
  BY <1>3 DEF g, t2

LEMMA StatementCompiles ==
    ASSUME NEW scs, NEW tx, NEW n, Compiles(scs, tx, n), NEW s \in Statements,
           NEW T, NEW R,
           Body(GenStatement(GenBody(tx), s, Len(Append(tx, s))), T, R, Append(tx, s), n)
    PROVE  Compiles(R, Append(tx, s), n)
<1>1. tx \in Seq(Statements)
  BY DEF Compiles, Body
<1>2. Len(Append(tx, s)) = Len(tx) + 1
  BY <1>1
<1>3. GenBody(Append(tx, s)) = GenStatement(GenBody(tx), s, Len(tx) + 1)
  BY <1>1, GenNext
<1>. QED
  BY <1>2, <1>3 DEF Compiles

LEMMA EmptyCompiles ==
    ASSUME NEW n \in Nat PROVE Compiles(<<NewScope("body")>>, <<>>, n)
<1>. DEFINE scs == <<NewScope("body")>>
            F   == <<Frame("body", 0)>>
<1>1. /\ NewScope("body") \in Scope /\ NewScope("body").kind = "body"
      /\ DOMAIN NewScope("body").syms = {}
  BY NewScopeType DEF ScopeKinds, NoSymbols
<1>2. scs \in Seq(Scope) /\ Len(scs) = 1 /\ scs[1].kind = "body"
      /\ DOMAIN scs[1].syms = {}
  <2>. DEFINE c == NewScope("body")
  <2>1. c \in Scope /\ c.kind = "body" /\ DOMAIN c.syms = {}
    BY <1>1
  <2>. HIDE DEF c
  <2>2. <<c>> \in Seq(Scope) /\ Len(<<c>>) = 1 /\ <<c>>[1] = c
    BY <2>1
  <2>. QED  BY <2>1, <2>2 DEF c
<1>3. /\ Frame("body", 0) \in Frames /\ Frame("body", 0).kind = "body"
      /\ Frame("body", 0).entries = <<>>
  BY DEF Frame, Frames, ScopeKinds
<1>4. F \in Seq(Frames) /\ Len(F) = 1 /\ F[1].kind = "body" /\ Len(F[1].entries) = 0
  <2>. DEFINE c == Frame("body", 0)
  <2>1. c \in Frames /\ c.kind = "body" /\ c.entries = <<>>
    BY <1>3
  <2>. HIDE DEF c
  <2>2. <<c>> \in Seq(Frames) /\ Len(<<c>>) = 1 /\ <<c>>[1] = c
    BY <2>1
  <2>. QED  BY <2>1, <2>2 DEF c
<1>. HIDE DEF scs, F
<1>5. /\ Gen0 \in GenStates(n) /\ Gen0.frames = F /\ Gen0.code = <<>> /\ Gen0.live = TRUE
  BY <1>4 DEF Gen0, GenStates, F
<1>6. Owned(F, 1, Len(F)) = {}
  BY <1>4 DEF Owned, Released, ReleasedFrom
<1>7. Made(Gen0, {}, <<>>, <<>>, n)
  <2>. DEFINE S == [i \in 1..1 |-> {}]
  <2>1. {} \in States(<<>>, n)
    BY DEF States
  <2>2. Flow(<<>>, S, <<>>, <<>>, n)
    BY <2>1 DEF Flow
  <2>3. S[1] = {} /\ Len(Gen0.code) = 0
    BY <1>5
  <2>. HIDE DEF S
  <2>. QED  BY <1>5, <2>1, <2>2, <2>3 DEF Made
<1>8. FramesFit(F, <<>>, n)
  BY <1>4 DEF FramesFit
<1>9. Named(Gen0, scs, <<>>, n)
  BY <1>2, <1>4, <1>5 DEF Named
<1>10. Opened(F, <<>>)
  BY <1>4 DEF Opened
<1>11. Resolved(Gen0.code, F)
  BY <1>4, <1>5 DEF Resolved, Jumps
<1>12. Body(Gen0, <<>>, scs, <<>>, n)
  <2>1. <<>> \in Seq(Statements) /\ <<>> \in Seq(SUBSET Int) /\ Len(<<>>) = Len(<<>>)
    OBVIOUS
  <2>2. Made(Gen0, Owned(Gen0.frames, 1, Len(Gen0.frames)), <<>>, <<>>, n)
    BY <1>5, <1>6, <1>7
  <2>3. /\ FramesFit(Gen0.frames, <<>>, n) /\ Opened(Gen0.frames, <<>>)
        /\ Resolved(Gen0.code, Gen0.frames)
    BY <1>5, <1>8, <1>10, <1>11
  <2>4. scs \in Seq(Scope) /\ Len(scs) > 0
    BY <1>2
  <2>. HIDE DEF Gen0
  <2>. QED  BY <1>5, <1>9, <2>1, <2>2, <2>3, <2>4 DEF Body
<1>. QED
  BY <1>12, GenNothing DEF Compiles, scs

-----------------------------------------------------------------------------
(* One more statement                                                      *)

LEMMA GrowNew ==
    ASSUME NEW scs, NEW tx, NEW n, Compiles(scs, tx, n), Len(tx) < n,
           NEW v \in Names, v \notin Shown(scs), Kind[v] # "ref", NEW R, Adds(scs, R, v)
    PROVE  Compiles(R, Append(tx, [op |-> "new", v |-> v]), n)
<1>. DEFINE s  == [op |-> "new", v |-> v]
            g  == GenBody(tx)
            t2 == Append(tx, s)
            k  == Len(t2)
<1>1. s \in Statements /\ s.v = v
  BY DEF Statements, Ops
<1>2. PICK T : Awaits(g, T, scs, t2, n, s)
  BY <1>1, StatementAwaits
<1>3. GenStatement(g, s, k)
         = Register(Emit(g, <<[do |-> "new", slot |-> k, at |-> k]>>), v, k)
  <2>. HIDE DEF g, k
  <2>. QED  BY DEF GenStatement
<1>4. tx \in Seq(Statements) /\ n \in Nat
  BY DEF Compiles, Body
<1>5. k = Len(tx) + 1 /\ Len(tx) \in Nat
  BY <1>1, <1>4
<1>. HIDE DEF s, g
<1>6. Introduces(g, scs, t2, n, k, v)
  <2>1. k \in 1..n
    BY <1>4, <1>5
  <2>. HIDE DEF t2
  <2>. QED  BY <1>1, <1>2, <2>1 DEF Awaits, Introduces, Declares
<1>. HIDE DEF t2, k
<1>7. Body(GenStatement(g, s, k), T, R, t2, n)
  BY <1>2, <1>3, <1>6, CompileNew DEF Awaits
<1>. QED
  BY <1>1, <1>7, StatementCompiles DEF t2, k, g, s

\* A name, or none.
MaybeNames == Names \cup {""}
Returned(scs, v) == v = "" \/ Handle(scs, v)

LEMMA GrowFrom ==
    ASSUME NEW scs, NEW tx, NEW n, Compiles(scs, tx, n), Len(tx) < n,
           NEW v \in Names, v \notin Shown(scs), Kind[v] \in Pointers,
           NEW w \in Shown(scs), w \in Names, Kind[w] = Kind[v],
           NEW R, Adds(scs, R, v)
    PROVE  Compiles(R, Append(tx, [op |-> "from", v |-> v, w |-> w]), n)
<1>. DEFINE s  == [op |-> "from", v |-> v, w |-> w]
            g  == GenBody(tx)
            t2 == Append(tx, s)
            k  == Len(t2)
<1>1. s \in Statements /\ s.v = v
  BY DEF Statements, Ops
<1>2. PICK T : Awaits(g, T, scs, t2, n, s)
  BY <1>1, StatementAwaits
<1>3. GenStatement(g, s, k)
         = Register(Emit(g, <<[do |-> Fetch(w), from |-> g.sym[w], slot |-> k,
                               at |-> k]>>), v, k)
  <2>. HIDE DEF g, k
  <2>. QED  BY DEF GenStatement
<1>4. tx \in Seq(Statements) /\ n \in Nat
  BY DEF Compiles, Body
<1>5. k = Len(tx) + 1 /\ Len(tx) \in Nat
  BY <1>1, <1>4
<1>. HIDE DEF s, g
<1>6. Introduces(g, scs, t2, n, k, v)
  <2>1. k \in 1..n
    BY <1>4, <1>5
  <2>. HIDE DEF t2
  <2>. QED  BY <1>1, <1>2, <2>1 DEF Awaits, Introduces, Declares
<1>. HIDE DEF t2, k
<1>7. Body(GenStatement(g, s, k), T, R, t2, n)
  BY <1>2, <1>3, <1>6, CompileFrom DEF Awaits
<1>. QED
  BY <1>1, <1>7, StatementCompiles DEF t2, k, g, s

LEMMA GrowRef ==
    ASSUME NEW scs, NEW tx, NEW n, Compiles(scs, tx, n), Len(tx) < n,
           NEW v \in Names, v \notin Shown(scs), Kind[v] = "ref",
           NEW w \in Shown(scs), w \in Names, NEW x \in BOOLEAN, NEW sharp \in BOOLEAN,
           NEW R, Adds(scs, R, v)
    PROVE  Compiles(R, Append(tx, [op |-> "ref", v |-> v, w |-> w, x |-> x,
                                   sharp |-> sharp]), n)
<1>. DEFINE s  == [op |-> "ref", v |-> v, w |-> w, x |-> x, sharp |-> sharp]
            g  == GenBody(tx)
            t2 == Append(tx, s)
            k  == Len(t2)
<1>1. s \in Statements /\ s.v = v
  BY DEF Statements, Ops
<1>2. PICK T : Awaits(g, T, scs, t2, n, s)
  BY <1>1, StatementAwaits
<1>3. GenStatement(g, s, k)
         = Register(Emit(g, <<[do |-> "refer", from |-> g.sym[w], slot |-> k,
                               at |-> k]>>), v, k)
  <2>. HIDE DEF g, k
  <2>. QED  BY DEF GenStatement
<1>4. tx \in Seq(Statements) /\ n \in Nat
  BY DEF Compiles, Body
<1>5. k = Len(tx) + 1 /\ Len(tx) \in Nat
  BY <1>1, <1>4
<1>. HIDE DEF s, g
<1>6. Introduces(g, scs, t2, n, k, v)
  <2>1. k \in 1..n
    BY <1>4, <1>5
  <2>. HIDE DEF t2
  <2>. QED  BY <1>1, <1>2, <2>1 DEF Awaits, Introduces, Declares
<1>. HIDE DEF t2, k
<1>7. Body(GenStatement(g, s, k), T, R, t2, n)
  BY <1>2, <1>3, <1>6, CompileRef DEF Awaits
<1>. QED
  BY <1>1, <1>7, StatementCompiles DEF t2, k, g, s

LEMMA GrowUse ==
    ASSUME NEW scs, NEW tx, NEW n, Compiles(scs, tx, n),
           NEW op \in {"use", "lend", "write"}, NEW v \in Shown(scs), v \in Names,
           NEW R, SameShape(scs, R)
    PROVE  Compiles(R, Append(tx, [op |-> op, v |-> v]), n)
<1>. DEFINE s  == [op |-> op, v |-> v]
            g  == GenBody(tx)
            t2 == Append(tx, s)
            k  == Len(t2)
<1>1. s \in Statements /\ s.v = v
  BY DEF Statements, Ops
<1>2. PICK T : Awaits(g, T, scs, t2, n, s)
  BY <1>1, StatementAwaits
<1>3. GenStatement(g, s, k)
         = Emit(g, <<[do |-> IF op = "write" THEN "write" ELSE "use",
                      slot |-> g.sym[v], at |-> k]>>)
  <2>. HIDE DEF g, k
  <2>. QED  BY DEF GenStatement
<1>4. tx \in Seq(Statements) /\ n \in Nat
  BY DEF Compiles, Body
<1>5. k = Len(tx) + 1 /\ Len(tx) \in Nat
  BY <1>1, <1>4
<1>. HIDE DEF s, g
<1>6. k \in 1..Len(t2)
  BY <1>4, <1>5
<1>. DEFINE do == IF op = "write" THEN "write" ELSE "use"
<1>8. do \in {"use", "write"}
  OBVIOUS
<1>9. GenStatement(g, s, k) = Emit(g, <<[do |-> do, slot |-> g.sym[v], at |-> k]>>)
  BY <1>3
<1>. HIDE DEF do
<1>10. t2[k] = s
  BY <1>2 DEF Awaits
<1>. HIDE DEF t2, k
<1>11. t2[k].v = v
  BY <1>1, <1>10
<1>12. Body(g, T, scs, t2, n)
  BY <1>2 DEF Awaits
<1>7. Body(GenStatement(g, s, k), T, R, t2, n)
  BY <1>6, <1>8, <1>9, <1>11, <1>12, CompileUse
<1>. QED
  BY <1>1, <1>7, StatementCompiles DEF t2, k, g, s

LEMMA GrowRebind ==
    ASSUME NEW scs, NEW tx, NEW n, Compiles(scs, tx, n),
           NEW v \in Shown(scs), v \in Names, Kind[v] = "ref",
           NEW w \in Shown(scs), w \in Names,
           NEW R, SameShape(scs, R)
    PROVE  Compiles(R, Append(tx, [op |-> "rebind", v |-> v, w |-> w]), n)
<1>. DEFINE s  == [op |-> "rebind", v |-> v, w |-> w]
            g  == GenBody(tx)
            t2 == Append(tx, s)
            k  == Len(t2)
<1>1. s \in Statements /\ s.v = v
  BY DEF Statements, Ops
<1>2. PICK T : Awaits(g, T, scs, t2, n, s)
  BY <1>1, StatementAwaits
<1>3. GenStatement(g, s, k)
         = Emit(g, <<[do |-> "refer", from |-> g.sym[w], slot |-> g.sym[v],
                      at |-> k]>>)
  <2>. HIDE DEF g, k
  <2>. QED  BY DEF GenStatement
<1>4. tx \in Seq(Statements) /\ n \in Nat
  BY DEF Compiles, Body
<1>5. k = Len(tx) + 1 /\ Len(tx) \in Nat
  BY <1>1, <1>4
<1>. HIDE DEF s, g
<1>6. k \in Nat /\ k \in 1..Len(t2)
  BY <1>4, <1>5
<1>. HIDE DEF t2, k
<1>7. Body(GenStatement(g, s, k), T, R, t2, n)
  BY <1>2, <1>3, <1>6, CompileRebind DEF Awaits
<1>. QED
  BY <1>1, <1>7, StatementCompiles DEF t2, k, g, s

LEMMA GrowAssign ==
    ASSUME NEW scs, NEW tx, NEW n, Compiles(scs, tx, n),
           NEW v \in Shown(scs), v \in Names, Kind[v] \in Pointers,
           NEW w \in MaybeNames, Source(scs, v, w), NEW sharp \in BOOLEAN,
           NEW R, SameShape(scs, R)
    PROVE  Compiles(R, Append(tx, [op |-> "assign", v |-> v, w |-> w,
                                   sharp |-> sharp]), n)
<1>. DEFINE s  == [op |-> "assign", v |-> v, w |-> w, sharp |-> sharp]
            g  == GenBody(tx)
            t2 == Append(tx, s)
            k  == Len(t2)
<1>1. s \in Statements /\ s.v = v
  BY DEF Statements, Ops, MaybeNames
<1>2. PICK T : Awaits(g, T, scs, t2, n, s)
  BY <1>1, StatementAwaits
<1>3. GenStatement(g, s, k)
         = GenAssign(g, s, k)
  <2>. HIDE DEF g, k
  <2>. QED  BY DEF GenStatement
<1>4. tx \in Seq(Statements) /\ n \in Nat
  BY DEF Compiles, Body
<1>5. k = Len(tx) + 1 /\ Len(tx) \in Nat
  BY <1>1, <1>4
<1>. HIDE DEF s, g
<1>6. k \in Nat /\ k \in 1..Len(t2)
  BY <1>4, <1>5
<1>8. Declares(t2, k, v)
  <2>. HIDE DEF t2
  <2>. QED  BY <1>1, <1>2 DEF Awaits, Declares
<1>. HIDE DEF t2, k
<1>7. Body(GenStatement(g, s, k), T, R, t2, n)
  BY <1>2, <1>3, <1>6, <1>8, CompileAssign DEF Awaits, s
<1>. QED
  BY <1>1, <1>7, StatementCompiles DEF t2, k, g, s

LEMMA GrowCede ==
    ASSUME NEW scs, NEW tx, NEW n, Compiles(scs, tx, n),
           NEW v \in Shown(scs), v \in Names, Kind[v] \in {"unique", "value"},
           NEW R, SameShape(scs, R)
    PROVE  Compiles(R, Append(tx, [op |-> "cede", v |-> v]), n)
<1>. DEFINE s  == [op |-> "cede", v |-> v]
            g  == GenBody(tx)
            t2 == Append(tx, s)
            k  == Len(t2)
<1>1. s \in Statements /\ s.v = v
  BY DEF Statements, Ops
<1>2. PICK T : Awaits(g, T, scs, t2, n, s)
  BY <1>1, StatementAwaits
<1>3. GenStatement(g, s, k)
         = Suppress(Emit(g, <<[do |-> "give", slot |-> g.sym[v], at |-> k]>>), v)
  <2>. HIDE DEF g, k
  <2>. QED  BY DEF GenStatement
<1>4. tx \in Seq(Statements) /\ n \in Nat
  BY DEF Compiles, Body
<1>5. k = Len(tx) + 1 /\ Len(tx) \in Nat
  BY <1>1, <1>4
<1>. HIDE DEF s, g
<1>6. k \in Nat /\ k \in 1..Len(t2)
  BY <1>4, <1>5
<1>. HIDE DEF t2, k
<1>7. Body(GenStatement(g, s, k), T, R, t2, n)
  BY <1>2, <1>3, <1>6, CompileCede DEF Awaits
<1>. QED
  BY <1>1, <1>7, StatementCompiles DEF t2, k, g, s

LEMMA GrowReturn ==
    ASSUME NEW scs, NEW tx, NEW n, Compiles(scs, tx, n),
           NEW v \in MaybeNames, Returned(scs, v),
           NEW R, SameShape(scs, R)
    PROVE  Compiles(R, Append(tx, [op |-> "return", v |-> v]), n)
<1>. DEFINE s  == [op |-> "return", v |-> v]
            g  == GenBody(tx)
            t2 == Append(tx, s)
            k  == Len(t2)
<1>1. s \in Statements /\ s.v = v
  BY DEF Statements, Ops, MaybeNames
<1>2. PICK T : Awaits(g, T, scs, t2, n, s)
  BY <1>1, StatementAwaits
<1>3. GenStatement(g, s, k)
         = GenReturn(g, v, k)
  <2>. HIDE DEF g, k
  <2>. QED  BY DEF GenStatement
<1>4. tx \in Seq(Statements) /\ n \in Nat
  BY DEF Compiles, Body
<1>5. k = Len(tx) + 1 /\ Len(tx) \in Nat
  BY <1>1, <1>4
<1>. HIDE DEF s, g
<1>6. k \in Nat /\ k \in 1..Len(t2)
  BY <1>4, <1>5
<1>. HIDE DEF t2, k
<1>7. Body(GenStatement(g, s, k), T, R, t2, n)
  BY <1>2, <1>3, <1>6, CompileReturn DEF Awaits, Returned
<1>. QED
  BY <1>1, <1>7, StatementCompiles DEF t2, k, g, s

LEMMA GrowJump ==
    ASSUME NEW scs, NEW tx, NEW n, Compiles(scs, tx, n),
           NEW op \in {"break", "continue"}, scs[1].kind = "body",
           NEW i \in 1..Len(scs), scs[i].kind = "loop",
           NEW R, SameShape(scs, R)
    PROVE  Compiles(R, Append(tx, [op |-> op]), n)
<1>. DEFINE s  == [op |-> op]
            g  == GenBody(tx)
            t2 == Append(tx, s)
            k  == Len(t2)
<1>1. s \in Statements /\ s.op = op
  BY DEF Statements, Ops
<1>2. PICK T : Awaits(g, T, scs, t2, n, s)
  BY <1>1, StatementAwaits
<1>3. GenStatement(g, s, k)
         = GenJump(g, op, k)
  <2>. HIDE DEF g, k
  <2>. QED  BY DEF GenStatement
<1>4. tx \in Seq(Statements) /\ n \in Nat
  BY DEF Compiles, Body
<1>5. k = Len(tx) + 1 /\ Len(tx) \in Nat
  BY <1>1, <1>4
<1>. HIDE DEF s, g
<1>6. k \in Nat /\ k \in 1..Len(t2)
  BY <1>4, <1>5
<1>. HIDE DEF t2, k
<1>7. Body(GenStatement(g, s, k), T, R, t2, n)
  BY <1>2, <1>3, <1>6, CompileJump DEF Awaits
<1>. QED
  BY <1>1, <1>7, StatementCompiles DEF t2, k, g, s

LEMMA GrowOpen ==
    ASSUME NEW scs, NEW tx, NEW n, Compiles(scs, tx, n),
           NEW kind \in {"block", "if", "loop"},
           NEW R, Pushes(scs, R, kind)
    PROVE  Compiles(R, Append(tx, [op |-> kind]), n)
<1>. DEFINE s  == [op |-> kind]
            g  == GenBody(tx)
            t2 == Append(tx, s)
            k  == Len(t2)
<1>1. s \in Statements /\ s.op = kind
  BY DEF Statements, Ops
<1>2. PICK T : Awaits(g, T, scs, t2, n, s)
  BY <1>1, StatementAwaits
<1>3. GenStatement(g, s, k)
         = GenOpen(g, kind, k)
  <2>. HIDE DEF g, k
  <2>. QED  BY DEF GenStatement
<1>4. tx \in Seq(Statements) /\ n \in Nat
  BY DEF Compiles, Body
<1>5. k = Len(tx) + 1 /\ Len(tx) \in Nat
  BY <1>1, <1>4
<1>. HIDE DEF s, g
<1>6. k \in 1..Len(T) /\ T[k] = Owned(g.frames, 1, Len(g.frames))
  <2>. HIDE DEF t2, k
  <2>1. k = Len(t2) /\ k \in Nat /\ k > 0
    BY <1>2 DEF k, Awaits
  <2>. QED  BY <1>2, <2>1 DEF Awaits, Body
<1>. HIDE DEF t2, k
<1>7. Body(GenStatement(g, s, k), T, R, t2, n)
  BY <1>2, <1>3, <1>6, CompileOpen DEF Awaits
<1>. QED
  BY <1>1, <1>7, StatementCompiles DEF t2, k, g, s

LEMMA GrowElse ==
    ASSUME NEW scs, NEW tx, NEW n, Compiles(scs, tx, n),
           InIf(scs), NEW S, Pops(scs, S),
           NEW R, Pushes(S, R, "else")
    PROVE  Compiles(R, Append(tx, [op |-> "else"]), n)
<1>. DEFINE s  == [op |-> "else"]
            g  == GenBody(tx)
            t2 == Append(tx, s)
            k  == Len(t2)
<1>1. s \in Statements /\ s.op = "else"
  BY DEF Statements, Ops
<1>2. PICK T : Awaits(g, T, scs, t2, n, s)
  BY <1>1, StatementAwaits
<1>3. GenStatement(g, s, k)
         = GenElse(g, k)
  <2>. HIDE DEF g, k
  <2>. QED  BY DEF GenStatement
<1>4. tx \in Seq(Statements) /\ n \in Nat
  BY DEF Compiles, Body
<1>5. k = Len(tx) + 1 /\ Len(tx) \in Nat
  BY <1>1, <1>4
<1>. HIDE DEF s, g
<1>6. k \in Nat /\ k \in 1..Len(t2)
  BY <1>4, <1>5
<1>. HIDE DEF t2, k
<1>7. Body(GenStatement(g, s, k), T, R, t2, n)
  BY <1>2, <1>3, <1>6, CompileElse DEF Awaits
<1>. QED
  BY <1>1, <1>7, StatementCompiles DEF t2, k, g, s

LEMMA GrowClose ==
    ASSUME NEW scs, NEW tx, NEW n, Compiles(scs, tx, n),
           Len(scs) > 1,
           NEW R, Pops(scs, R)
    PROVE  Compiles(R, Append(tx, [op |-> "close"]), n)
<1>. DEFINE s  == [op |-> "close"]
            g  == GenBody(tx)
            t2 == Append(tx, s)
            k  == Len(t2)
<1>1. s \in Statements /\ s.op = "close"
  BY DEF Statements, Ops
<1>2. PICK T : Awaits(g, T, scs, t2, n, s)
  BY <1>1, StatementAwaits
<1>3. GenStatement(g, s, k)
         = GenEnd(g, k)
  <2>. HIDE DEF g, k
  <2>. QED  BY DEF GenStatement
<1>4. tx \in Seq(Statements) /\ n \in Nat
  BY DEF Compiles, Body
<1>5. k = Len(tx) + 1 /\ Len(tx) \in Nat
  BY <1>1, <1>4
<1>. HIDE DEF s, g
<1>6. k \in Nat /\ k \in 1..Len(t2)
  BY <1>4, <1>5
<1>. HIDE DEF t2, k
<1>7. Body(GenStatement(g, s, k), T, R, t2, n)
  BY <1>2, <1>3, <1>6, CompileEnd DEF Awaits
<1>. QED
  BY <1>1, <1>7, StatementCompiles DEF t2, k, g, s

-----------------------------------------------------------------------------
(* The checker: a text that is not refused compiles                        *)

Phases == {"check", "refused", "accepted", "run", "done"}

\* The invariant of the checker, next to BorrowInv.
CheckInv ==
    /\ phase \in Phases
    /\ Len(scopes) \in 1..MaxNest
    /\ Len(ledger.maps) = Len(scopes) + 1
    /\ phase \in {"check", "accepted"} => Compiles(scopes, text, profile.len)
    /\ phase = "accepted" => Len(scopes) = 1 /\ scopes[1].kind = "body"

\* What a statement does: it is refused, or the text goes on to compile.
Grows ==
    /\ profile' = profile
    /\ \/ phase' = "refused" /\ UNCHANGED <<scopes, ledger>>
       \/ /\ phase' = "check" /\ Len(scopes') \in 1..MaxNest
          /\ Compiles(scopes', text', profile.len)

LEMMA WhileCompiling ==
    ASSUME BorrowInv, CheckInv, phase = "check"
    PROVE  /\ Compiles(scopes, text, profile.len)
           /\ scopes \in Seq(Scope) /\ Len(scopes) > 0 /\ scopes[1].kind = "body"
           /\ Visible = Shown(scopes) /\ Visible \subseteq Names
           /\ profile.names \subseteq Names
           /\ Len(scopes) \in 1..MaxNest
<1>1. /\ scopes \in Seq(Scope) /\ Len(scopes) > 0 /\ profile.names \subseteq Names
      /\ Matches(scopes, ledger)
  BY WhileChecking
<1>2. scopes[1].kind = "body"
  BY <1>1 DEF Matches
<1>3. Visible = Shown(scopes)
  BY DEF Visible, Shown
<1>4. Visible \subseteq Names
  <2>1. ASSUME NEW d \in 1..Len(scopes), NEW v \in DOMAIN scopes[d].syms PROVE v \in Names
    <3>1. scopes[d] \in Scope
      BY <1>1
    <3>2. scopes[d].syms \in Symbols
      BY <3>1 DEF Scope
    <3>. QED  BY <3>2, TableElim DEF Symbols
  <2>. QED  BY <1>1, <2>1 DEF Visible
<1>. QED
  BY <1>1, <1>2, <1>3, <1>4 DEF CheckInv

LEMMA MayWriteChecks ==
    ASSUME NEW op, MayWrite(op)
    PROVE  phase = "check" /\ Len(text) < profile.len
BY DEF MayWrite

\* A statement that may be refused.
LEMMA StatementGrows ==
    ASSUME CheckInv, phase = "check", NEW s, NEW errors, NEW R, NEW led,
           Statement(s, errors, R, led), Len(R) = Len(scopes),
           Compiles(R, Append(text, s), profile.len)
    PROVE  Grows
BY DEF Statement, Grows, CheckInv

LEMMA ShapeLen == ASSUME NEW S, NEW R, SameShape(S, R) PROVE Len(R) = Len(S)
BY DEF SameShape

LEMMA AddsLen == ASSUME NEW S, NEW R, NEW v, Adds(S, R, v) PROVE Len(R) = Len(S)
BY DEF Adds

LEMMA GrowsNew ==
    ASSUME BorrowInv, CheckInv, NEW v \in profile.names, DeclareNew(v) PROVE Grows
<1>. DEFINE R == Define(scopes, v, <<>>, FALSE, FALSE)
            s == [op |-> "new", v |-> v]
<1>1. phase = "check" /\ Len(text) < profile.len
  BY MayWriteChecks DEF DeclareNew
<1>2. v \in Names /\ v \notin Shown(scopes) /\ Kind[v] # "ref"
  BY <1>1, WhileCompiling DEF DeclareNew, MayDeclare
<1>3. Adds(scopes, R, v)
  BY <1>1, <1>2, WhileCompiling, DefineAdds
<1>4. Statement(s, {}, R, ledger)
  BY DEF DeclareNew
<1>. HIDE DEF R
<1>5. Compiles(R, Append(text, s), profile.len)
  BY <1>1, <1>2, <1>3, WhileCompiling, GrowNew
<1>. HIDE DEF s
<1>. QED
  BY <1>1, <1>3, <1>4, <1>5, AddsLen, StatementGrows

LEMMA GrowsFrom ==
    ASSUME BorrowInv, CheckInv, NEW v \in profile.names, NEW w, DeclareFrom(v, w)
    PROVE  Grows
<1>. DEFINE D == Define(scopes, v, <<>>, FALSE, FALSE)
            R == IF Kind[w] = "unique" THEN SetMoved(D, w, TRUE) ELSE D
            s == [op |-> "from", v |-> v, w |-> w]
            e == IF Kind[w] = "unique" THEN MoveErrors(w) ELSE ReadErrors(w, v)
<1>1. phase = "check" /\ Len(text) < profile.len
  BY MayWriteChecks DEF DeclareFrom
<1>2. /\ v \in Names /\ v \notin Shown(scopes) /\ Kind[v] \in Pointers
      /\ w \in Shown(scopes) /\ w \in Names /\ Kind[w] = Kind[v]
  BY <1>1, WhileCompiling DEF DeclareFrom, MayDeclare, Owners, Pointers
<1>3. Statement(s, e, R, ledger)
  BY DEF DeclareFrom
<1>4. Adds(scopes, D, v)
  BY <1>1, <1>2, WhileCompiling, DefineAdds
<1>. HIDE DEF D, e, s
<1>5. Adds(scopes, R, v)
  <2>1. D \in Seq(Scope)
    BY <1>4 DEF Adds
  <2>2. SameShape(D, SetMoved(D, w, TRUE))
    BY <2>1, MovedShape DEF SetMoved
  <2>3. Adds(scopes, SetMoved(D, w, TRUE), v)
    BY <1>4, <2>2, AddsShape
  <2>. QED  BY <1>4, <2>3
<1>. HIDE DEF R
<1>6. Compiles(R, Append(text, s), profile.len)
  BY <1>1, <1>2, <1>5, WhileCompiling, GrowFrom DEF s
<1>. QED
  BY <1>1, <1>3, <1>5, <1>6, AddsLen, StatementGrows

LEMMA GrowsRef ==
    ASSUME BorrowInv, CheckInv, NEW r \in profile.names, NEW place \in Places,
           NEW wanted \in BOOLEAN, NEW sharp \in BOOLEAN,
           DeclareRef(r, place, wanted, sharp)
    PROVE  Grows
<1>. DEFINE x == Exclusive(place, wanted)
            w == place[1]
            f == IF sharp THEN <<>> ELSE place
            R == Define(scopes, r, f, x, sharp)
            s == [op |-> "ref", v |-> r, w |-> w, x |-> x, sharp |-> sharp]
            e == BorrowErrors(place, x, r)
            L == IF sharp THEN Record(ledger, place, x)
                 ELSE Commit(Record(ledger, place, x), place)
<1>1. phase = "check" /\ Len(text) < profile.len
  BY MayWriteChecks DEF DeclareRef
<1>2. /\ r \in Names /\ r \notin Shown(scopes) /\ Kind[r] = "ref"
      /\ w \in Shown(scopes) /\ w \in Names
  BY <1>1, WhileCompiling DEF DeclareRef, MayDeclare
<1>3. Statement(s, e, R, L)
  BY DEF DeclareRef
<1>4. x \in BOOLEAN
  BY DEF Exclusive
<1>. HIDE DEF x, L, e
<1>5. Adds(scopes, R, r)
  <2>1. f \in Places \cup {<<>>}
    OBVIOUS
  <2>. HIDE DEF f
  <2>. QED  BY <1>1, <1>2, <1>4, <2>1, WhileCompiling, DefineAdds
<1>. HIDE DEF w, R, f
<1>6. Compiles(R, Append(text, s), profile.len)
  BY <1>1, <1>2, <1>4, <1>5, WhileCompiling, GrowRef
<1>. HIDE DEF s
<1>. QED
  BY <1>1, <1>3, <1>5, <1>6, AddsLen, StatementGrows

LEMMA GrowsUse ==
    ASSUME BorrowInv, CheckInv, NEW v, Use(v) PROVE Grows
<1>. DEFINE R == scopes
            s == [op |-> "use", v |-> v]
            e == ReadErrors(v, "")
            L == ledger
<1>1. phase = "check"
  BY MayWriteChecks DEF Use
<1>2. v \in Shown(scopes) /\ v \in Names
  BY <1>1, WhileCompiling DEF Use
<1>3. Statement(s, e, R, L)
  BY DEF Use
<1>. HIDE DEF e, L
<1>4. SameShape(scopes, R)
  BY <1>1, WhileCompiling, ShapeSelf
<1>. HIDE DEF R
<1>5. Compiles(R, Append(text, s), profile.len)
  BY <1>1, <1>2, <1>4, WhileCompiling, GrowUse
<1>. HIDE DEF s
<1>. QED
  BY <1>1, <1>3, <1>4, <1>5, ShapeLen, StatementGrows

LEMMA GrowsLend ==
    ASSUME BorrowInv, CheckInv, NEW place \in Places, Lend(place) PROVE Grows
<1>. DEFINE R == scopes
            s == [op |-> "lend", v |-> place[1]]
            e == BorrowErrors(place, FALSE, "")
            L == Record(ledger, place, FALSE)
<1>1. phase = "check"
  BY MayWriteChecks DEF Lend
<1>2. place[1] \in Shown(scopes) /\ place[1] \in Names
  BY <1>1, WhileCompiling DEF Lend
<1>3. Statement(s, e, R, L)
  BY DEF Lend
<1>. HIDE DEF e, L
<1>4. SameShape(scopes, R)
  BY <1>1, WhileCompiling, ShapeSelf
<1>. HIDE DEF R
<1>5. Compiles(R, Append(text, s), profile.len)
  BY <1>1, <1>2, <1>4, WhileCompiling, GrowUse
<1>. HIDE DEF s
<1>. QED
  BY <1>1, <1>3, <1>4, <1>5, ShapeLen, StatementGrows

LEMMA GrowsWrite ==
    ASSUME BorrowInv, CheckInv, NEW v, Write(v) PROVE Grows
<1>. DEFINE R == SetMoved(scopes, v, FALSE)
            s == [op |-> "write", v |-> v]
            e == WriteErrors(v)
            L == ledger
<1>1. phase = "check"
  BY MayWriteChecks DEF Write
<1>2. v \in Shown(scopes) /\ v \in Names
  BY <1>1, WhileCompiling DEF Write
<1>3. Statement(s, e, R, L)
  BY DEF Write
<1>. HIDE DEF e, L
<1>4. SameShape(scopes, R)
  BY <1>1, WhileCompiling, MovedShape DEF SetMoved
<1>. HIDE DEF R
<1>5. Compiles(R, Append(text, s), profile.len)
  BY <1>1, <1>2, <1>4, WhileCompiling, GrowUse
<1>. HIDE DEF s
<1>. QED
  BY <1>1, <1>3, <1>4, <1>5, ShapeLen, StatementGrows

LEMMA GrowsCede ==
    ASSUME BorrowInv, CheckInv, NEW v, Cede(v) PROVE Grows
<1>. DEFINE R == SetMoved(scopes, v, TRUE)
            s == [op |-> "cede", v |-> v]
            e == MoveErrors(v)
                 \cup {x \in {"cede in loop"} : Kind[v] = "unique" /\
                          \E i \in (Depth(v) + 1)..Len(scopes) :
                              scopes[i].kind = "loop"}
            L == ledger
<1>1. phase = "check"
  BY MayWriteChecks DEF Cede
<1>2. v \in Shown(scopes) /\ v \in Names /\ Kind[v] \in {"unique", "value"}
  BY <1>1, WhileCompiling DEF Cede
<1>3. Statement(s, e, R, L)
  BY DEF Cede
<1>. HIDE DEF e, L
<1>4. SameShape(scopes, R)
  BY <1>1, WhileCompiling, MovedShape DEF SetMoved
<1>. HIDE DEF R
<1>5. Compiles(R, Append(text, s), profile.len)
  BY <1>1, <1>2, <1>4, WhileCompiling, GrowCede
<1>. HIDE DEF s
<1>. QED
  BY <1>1, <1>3, <1>4, <1>5, ShapeLen, StatementGrows

LEMMA GrowsRebind ==
    ASSUME BorrowInv, CheckInv, NEW r, NEW place \in Places, NEW sharp,
           Rebind(r, place, sharp)
    PROVE  Grows
<1>. DEFINE R == scopes
            s == [op |-> "rebind", v |-> r, w |-> place[1]]
            e == BorrowErrors(place, FALSE, "")
                 \cup {x \in {"lifetime"} : Depth(r) < Depth(place[1])}
            L == IF sharp THEN Upgrade(Record(ledger, place, FALSE), place)
                 ELSE Record(ledger, place, FALSE)
<1>1. phase = "check"
  BY MayWriteChecks DEF Rebind
<1>2. /\ r \in Shown(scopes) /\ r \in Names /\ Kind[r] = "ref"
      /\ place[1] \in Shown(scopes) /\ place[1] \in Names
  BY <1>1, WhileCompiling DEF Rebind
<1>3. Statement(s, e, R, L)
  BY DEF Rebind
<1>. HIDE DEF e, L
<1>4. SameShape(scopes, R)
  BY <1>1, WhileCompiling, ShapeSelf
<1>. HIDE DEF R
<1>5. Compiles(R, Append(text, s), profile.len)
  BY <1>1, <1>2, <1>4, WhileCompiling, GrowRebind
<1>. HIDE DEF s
<1>. QED
  BY <1>1, <1>3, <1>4, <1>5, ShapeLen, StatementGrows

LEMMA GrowsReturn ==
    ASSUME BorrowInv, CheckInv, NEW v \in profile.names \cup {""}, Return(v) PROVE Grows
<1>. DEFINE R == Jumping(scopes)
            s == [op |-> "return", v |-> v]
            e == IF v = "" THEN {} ELSE IF Kind[v] = "unique" THEN MoveErrors(v)
                 ELSE ReadErrors(v, "")
            L == ledger
<1>1. phase = "check"
  BY MayWriteChecks DEF Return
<1>2. v \in MaybeNames /\ Returned(scopes, v)
  BY <1>1, WhileCompiling DEF Return, MaybeNames, Returned, Handle
<1>3. Statement(s, e, R, L)
  BY DEF Return
<1>. HIDE DEF e, L
<1>4. SameShape(scopes, R)
  BY <1>1, WhileCompiling, JumpingShape
<1>. HIDE DEF R
<1>5. Compiles(R, Append(text, s), profile.len)
  BY <1>1, <1>2, <1>4, WhileCompiling, GrowReturn
<1>. HIDE DEF s
<1>. QED
  BY <1>1, <1>3, <1>4, <1>5, ShapeLen, StatementGrows

LEMMA GrowsAssign ==
    ASSUME BorrowInv, CheckInv, NEW v, NEW w \in profile.names \cup {""},
           NEW sharp \in BOOLEAN, Assign(v, w, sharp)
    PROVE  Grows
<1>. DEFINE moves == w # "" /\ Kind[v] = "unique"
            D == IF moves THEN SetMoved(scopes, w, TRUE) ELSE scopes
            R == [D EXCEPT ![Depth(v)].syms[v].moved = FALSE]
            s == [op |-> "assign", v |-> v, w |-> w, sharp |-> sharp]
            e == WriteErrors(v)
                 \cup (IF moves THEN MoveErrors(w)
                       ELSE IF w # "" THEN ReadErrors(w, "") ELSE {})
<1>1. phase = "check"
  BY MayWriteChecks DEF Assign
<1>2. /\ v \in Shown(scopes) /\ v \in Names /\ Kind[v] \in Pointers
      /\ w \in MaybeNames /\ Source(scopes, v, w)
  BY <1>1, WhileCompiling DEF Assign, Owners, Pointers, MaybeNames, Source
<1>3. Statement(s, e, R, ledger)
  BY DEF Assign
<1>. HIDE DEF e, moves
<1>4. SameShape(scopes, D)
  BY <1>1, WhileCompiling, ShapeSelf, MovedShape DEF SetMoved
<1>. HIDE DEF D
<1>5. SameShape(scopes, R)
  <2>1. D \in Seq(Scope)
    BY <1>4 DEF SameShape
  <2>2. SameShape(D, R)
    BY <2>1, MovedShape
  <2>. HIDE DEF R
  <2>. QED  BY <1>4, <2>2, ShapeIsTransitive
<1>. HIDE DEF R
<1>6. Compiles(R, Append(text, s), profile.len)
  BY <1>1, <1>2, <1>5, WhileCompiling, GrowAssign
<1>. HIDE DEF s
<1>. QED
  BY <1>1, <1>3, <1>5, <1>6, ShapeLen, StatementGrows

LEMMA GrowsJump ==
    ASSUME BorrowInv, CheckInv, NEW op \in {"break", "continue"}, Jump(op) PROVE Grows
<1>. DEFINE R == Jumping(scopes)
            s == [op |-> op]
<1>1. phase = "check"
  BY MayWriteChecks DEF Jump
<1>2. Statement(s, {}, R, ledger)
  BY DEF Jump
<1>3. PICK i \in 1..Len(scopes) : scopes[i].kind = "loop"
  BY <1>1, WhileCompiling DEF Jump, InLoop
<1>4. SameShape(scopes, R)
  BY <1>1, WhileCompiling, JumpingShape
<1>. HIDE DEF R
<1>5. Compiles(R, Append(text, s), profile.len)
  BY <1>1, <1>3, <1>4, WhileCompiling, GrowJump
<1>. HIDE DEF s
<1>. QED
  BY <1>1, <1>2, <1>4, <1>5, ShapeLen, StatementGrows

-----------------------------------------------------------------------------
(* Blocks                                                                  *)

LEMMA FlagsShape ==
    ASSUME NEW S \in Seq(Scope), Len(S) > 0, NEW moved \in Flags,
           NEW jumps \in BOOLEAN, NEW dead \in BOOLEAN
    PROVE  SameShape(S, [S EXCEPT ![Len(S)] =
                           [S[Len(S)] EXCEPT !.syms = WithMoved(S[Len(S)].syms, moved),
                                             !.jumps = jumps, !.dead = dead]])
<1>. DEFINE n   == Len(S)
            new == WithMoved(S[n].syms, moved)
            sc  == [S[n] EXCEPT !.syms = new, !.jumps = jumps, !.dead = dead]
            T   == [S EXCEPT ![n] = sc]
<1>1. n \in 1..Len(S) /\ S[n] \in Scope
  OBVIOUS
<1>2. DOMAIN new = DOMAIN S[n].syms
  BY DEF WithMoved
<1>3. Weaker(S, T)
  BY FlagsWeaker
<1>. HIDE DEF new
<1>4. sc.syms = new
  BY <1>1 DEF Scope
<1>. HIDE DEF sc
<1>5. ASSUME NEW d \in 1..Len(S) PROVE DOMAIN T[d].syms = DOMAIN S[d].syms
  <2>1. T[d] = IF d = n THEN sc ELSE S[d]
    OBVIOUS
  <2>. HIDE DEF T
  <2>. QED  BY <1>2, <1>4, <2>1
<1>. HIDE DEF T
<1>6. SameShape(S, T)
  BY <1>3, <1>5 DEF Weaker, SameShape
<1>. QED
  BY <1>6 DEF T, sc, new

LEMMA AppendPushes ==
    ASSUME NEW S \in Seq(Scope), NEW T, SameShape(S, T), NEW sc \in Scope,
           sc.syms = NoSymbols
    PROVE  Pushes(S, Append(T, sc), sc.kind)
<1>. DEFINE R == Append(T, sc)
<1>1. T \in Seq(Scope) /\ Len(T) = Len(S) /\ Len(T) \in Nat
  BY DEF SameShape
<1>2. /\ R \in Seq(Scope) /\ Len(R) = Len(S) + 1 /\ R[Len(R)] = sc
      /\ \A d \in 1..Len(S) : R[d] = T[d]
  BY <1>1
<1>3. DOMAIN sc.syms = {}
  BY DEF NoSymbols
<1>. HIDE DEF R
<1>4. Pushes(S, R, sc.kind)
  BY <1>2, <1>3 DEF Pushes, SameShape
<1>. QED
  BY <1>4 DEF R

LEMMA GrowsOpen ==
    ASSUME BorrowInv, CheckInv, NEW kind, Open(kind) PROVE Grows
<1>. DEFINE sc == [NewScope(kind) EXCEPT !.before = MovedMap(Here.syms)]
            R  == Append(scopes, sc)
            s  == [op |-> kind]
<1>1. /\ phase = "check" /\ phase' = phase /\ profile' = profile
      /\ kind \in {"block", "if", "loop"}
      /\ Len(scopes) < MaxNest
  BY DEF Open, MayWrite
<1>2. scopes' = R /\ text' = Append(text, s)
  BY DEF Open
<1>3. sc \in Scope /\ sc.syms = NoSymbols /\ sc.kind = kind
  <2>1. kind \in ScopeKinds
    BY <1>1 DEF ScopeKinds
  <2>2. /\ NewScope(kind) \in Scope /\ NewScope(kind).syms = NoSymbols
        /\ NewScope(kind).kind = kind
    BY <2>1, NewScopeType
  <2>3. MovedMap(Here.syms) \in Flags
    BY <1>1, HereType, MovedMapType
  <2>. QED  BY <2>2, <2>3 DEF Scope
<1>. HIDE DEF sc
<1>4. Pushes(scopes, R, kind)
  <2>1. SameShape(scopes, scopes)
    BY <1>1, WhileCompiling, ShapeSelf
  <2>2. Pushes(scopes, R, sc.kind)
    BY <1>1, <1>3, <2>1, WhileCompiling, AppendPushes
  <2>. HIDE DEF R
  <2>. QED  BY <1>3, <2>2
<1>. HIDE DEF R
<1>5. Compiles(R, Append(text, s), profile.len)
  BY <1>1, <1>4, WhileCompiling, GrowOpen
<1>6. Len(R) \in 1..MaxNest
  <2>1. Len(R) = Len(scopes) + 1 /\ Len(scopes) \in Nat /\ MaxNest \in Nat
    BY <1>1, <1>4, WhileCompiling, BoundsArePositive DEF Pushes
  <2>. QED  BY <1>1, <2>1
<1>. HIDE DEF s
<1>. QED
  BY <1>1, <1>2, <1>5, <1>6 DEF Grows

LEMMA GrowsElse ==
    ASSUME BorrowInv, CheckInv, Else PROVE Grows
<1>. DEFINE n  == Outer(scopes)
            S  == Front(scopes)
            T  == [S EXCEPT ![n].syms = WithMoved(@, Here.before)]
            sc == [NewScope("else") EXCEPT
                      !.before = Here.before,
                      !.then = MovedMap(scopes[n].syms),
                      !.thenJumps = Here.jumps]
            R  == Append(T, sc)
            s  == [op |-> "else"]
<1>1. /\ phase = "check" /\ profile' = profile /\ phase' = phase /\ Here.kind = "if"
      /\ scopes' = T \o <<sc>> /\ text' = Append(text, s)
  BY DEF Else
<1>2. Len(scopes) > 1 /\ Len(scopes) \in Nat /\ scopes \in Seq(Scope)
  BY <1>1, NotTheBody, WhileCompiling
<1>3. /\ S \in Seq(Scope) /\ Len(S) = n /\ n \in Nat /\ n > 0
      /\ \A d \in 1..n : S[d] = scopes[d]
  BY <1>2, FrontIs DEF Outer
<1>4. S[n] \in Scope /\ S[n] = scopes[n] /\ S[n].jumps \in BOOLEAN
      /\ S[n].dead \in BOOLEAN /\ scopes[n].syms \in Symbols
  <2>1. n \in 1..n
    BY <1>3
  <2>2. S[n] \in Scope /\ S[n] = scopes[n]
    BY <1>3, <2>1
  <2>. QED  BY <2>2 DEF Scope
<1>5. SameShape(S, T)
  <2>. DEFINE new == [S[n] EXCEPT !.syms = WithMoved(S[n].syms, Here.before),
                                  !.jumps = S[n].jumps, !.dead = S[n].dead]
  <2>1. SameShape(S, [S EXCEPT ![n] = new])
    <3>1. Here.before \in Flags
      BY <1>1, HereType
    <3>. HIDE DEF n, S
    <3>. QED
      BY <1>3, <1>4, <3>1, FlagsShape
  <2>2. new = [S[n] EXCEPT !.syms = WithMoved(S[n].syms, Here.before)]
    <3>. DEFINE o == S[n]
                syms == WithMoved(S[n].syms, Here.before)
    <3>1. o \in Scope
      BY <1>4
    <3>. HIDE DEF o, syms
    <3>2. [o EXCEPT !.syms = syms, !.jumps = o.jumps, !.dead = o.dead]
             = [o EXCEPT !.syms = syms]
      BY <3>1 DEF Scope
    <3>. QED
      BY <3>2 DEF o, syms
  <2>3. T = [S EXCEPT ![n] = [S[n] EXCEPT !.syms = WithMoved(S[n].syms, Here.before)]]
    OBVIOUS
  <2>. QED
    BY <2>1, <2>2, <2>3
<1>6. sc \in Scope /\ sc.syms = NoSymbols /\ sc.kind = "else"
  <2>1. /\ NewScope("else") \in Scope /\ NewScope("else").syms = NoSymbols
        /\ NewScope("else").kind = "else"
    BY NewScopeType DEF ScopeKinds
  <2>2. Here.before \in Flags /\ Here.jumps \in BOOLEAN
    BY <1>1, HereType
  <2>3. MovedMap(scopes[n].syms) \in Flags
    BY <1>4, MovedMapType
  <2>. QED
    BY <2>1, <2>2, <2>3 DEF Scope
<1>. HIDE DEF T, sc
<1>7. scopes' = R
  <2>1. T \in Seq(Scope)
    BY <1>5 DEF SameShape
  <2>. QED  BY <1>1, <1>6, <2>1
<1>8. Pops(scopes, S)
  BY <1>2, FrontPops
<1>9. Pushes(S, R, "else")
  <2>1. Pushes(S, R, sc.kind)
    BY <1>3, <1>5, <1>6, AppendPushes
  <2>. HIDE DEF R, S
  <2>. QED  BY <1>6, <2>1
<1>10. InIf(scopes)
  <2>1. Here = scopes[Len(scopes)]
    BY <1>1, HereType
  <2>. QED  BY <1>1, <1>2, <2>1 DEF InIf
<1>11. Len(R) \in 1..MaxNest
  <2>1. Len(R) = Len(scopes)
    BY <1>2, <1>3, <1>9 DEF Pushes, Outer
  <2>. QED  BY <1>1, <2>1, WhileCompiling
<1>. HIDE DEF R, S
<1>12. Compiles(R, Append(text, s), profile.len)
  BY <1>1, <1>8, <1>9, <1>10, WhileCompiling, GrowElse
<1>. HIDE DEF s
<1>. QED
  BY <1>1, <1>7, <1>11, <1>12 DEF Grows

LEMMA GrowsClose ==
    ASSUME BorrowInv, CheckInv, Close PROVE Grows
<1>. DEFINE f   == Here
            n   == Outer(scopes)
            now == MovedMap(scopes[n].syms)
            S   == Front(scopes)
            moved == CASE f.kind = "if"   -> AfterIf(now, f)
                       [] f.kind = "else" -> AfterElse(now, f)
                       [] OTHER           -> now
            jumps == S[n].jumps \/ (CASE f.kind = "if"   -> FALSE
                                      [] f.kind = "else" -> f.jumps /\ f.thenJumps
                                      [] OTHER           -> f.jumps)
            dead  == f.dead /\ f.kind = "block"
            T == [S EXCEPT ![n] = [S[n] EXCEPT !.syms = WithMoved(S[n].syms, moved),
                                               !.jumps = jumps, !.dead = dead]]
            s == [op |-> "close"]
<1>1. /\ phase = "check" /\ profile' = profile /\ phase' = phase /\ Len(scopes) > 1
      /\ text' = Append(text, s)
  BY DEF Close
<1>2. scopes \in Seq(Scope) /\ Len(scopes) \in 1..MaxNest
  BY <1>1, WhileCompiling
<1>3. /\ S \in Seq(Scope) /\ Len(S) = n /\ n \in Nat /\ n > 0 /\ n \in 1..Len(S)
      /\ \A d \in 1..n : S[d] = scopes[d]
  <2>1. Len(scopes) \in Nat /\ Len(scopes) > 1
    BY <1>1, <1>2
  <2>2. /\ S \in Seq(Scope) /\ Len(S) = n /\ n \in Nat /\ n > 0
        /\ \A d \in 1..n : S[d] = scopes[d]
    BY <1>2, <2>1, FrontIs DEF Outer
  <2>. QED  BY <2>2
<1>4. /\ S[n] \in Scope /\ S[n].jumps \in BOOLEAN
      /\ scopes[n] = S[n] /\ S[n].syms \in Symbols
  <2>1. S[n] \in Scope /\ scopes[n] = S[n]
    BY <1>3
  <2>. QED  BY <2>1 DEF Scope
<1>5. scopes' = T
  BY <1>4 DEF Close
<1>6. now \in Flags
  BY <1>4, MovedMapType
<1>7. moved \in Flags
  <2>1. f \in Scope
    BY <1>1, HereType
  <2>2. AfterIf(now, f) \in Flags /\ AfterElse(now, f) \in Flags
    BY <1>6, <2>1, AfterType
  <2>. HIDE DEF now
  <2>. QED
    BY <1>6, <2>2
<1>8. jumps \in BOOLEAN /\ dead \in BOOLEAN
  <2>1. f.jumps \in BOOLEAN /\ f.thenJumps \in BOOLEAN /\ f.dead \in BOOLEAN
    BY <1>1, HereType
  <2>. QED
    BY <1>4, <2>1
<1>9. SameShape(S, T)
  <2>. HIDE DEF moved, jumps, dead, S, n
  <2>. QED
    BY <1>3, <1>7, <1>8, FlagsShape
<1>. HIDE DEF T
<1>10. Pops(scopes, T)
  <2>1. Pops(scopes, S)
    BY <1>1, <1>2, FrontPops
  <2>. HIDE DEF S
  <2>. QED  BY <1>9, <2>1, PopsShape
<1>11. Len(T) \in 1..MaxNest
  <2>1. Len(T) = Len(scopes) - 1
    BY <1>10 DEF Pops
  <2>. QED  BY <1>1, <1>2, <2>1, BoundsArePositive
<1>. HIDE DEF S, n
<1>12. Compiles(T, Append(text, s), profile.len)
  BY <1>1, <1>10, WhileCompiling, GrowClose
<1>. HIDE DEF s
<1>. QED
  BY <1>1, <1>5, <1>11, <1>12 DEF Grows

-----------------------------------------------------------------------------
(* The checker's invariant is one                                          *)

LEMMA CheckInvInit == Init => CheckInv
<1>. SUFFICES ASSUME Init PROVE CheckInv
  OBVIOUS
<1>1. /\ profile \in Profiles /\ scopes = <<NewScope("body")>> /\ text = <<>>
      /\ ledger = PushScope(EmptyLedger) /\ phase = "check"
  BY DEF Init, BorrowInit
<1>2. profile.len \in Nat /\ MaxNest \in Nat /\ MaxNest > 0
  BY <1>1, BoundsArePositive
<1>3. Compiles(scopes, text, profile.len)
  BY <1>1, <1>2, EmptyCompiles
<1>4. Len(scopes) = 1
  BY <1>1
<1>5. Len(ledger.maps) = 2
  BY <1>1 DEF PushScope, EmptyLedger
<1>. QED
  BY <1>1, <1>2, <1>3, <1>4, <1>5 DEF CheckInv, Phases

LEMMA GrowsKeeps ==
    ASSUME CheckInv, BorrowInv', Grows, phase = "check"
    PROVE  CheckInv'
<1>1. CASE phase' = "refused" /\ UNCHANGED <<scopes, ledger>>
  BY <1>1 DEF CheckInv, Phases
<1>2. CASE phase' = "check" /\ Len(scopes') \in 1..MaxNest
           /\ Compiles(scopes', text', profile.len)
  <2>1. Len(ledger'.maps) = Len(scopes') + 1
    BY <1>2 DEF BorrowInv, Matches
  <2>2. profile' = profile
    BY DEF Grows
  <2>. QED  BY <1>2, <2>1, <2>2 DEF CheckInv, Phases
<1>. QED
  BY <1>1, <1>2 DEF Grows

LEMMA BorrowNextGrows ==
    ASSUME BorrowInv, CheckInv, BorrowNext
    PROVE  phase = "check" /\ (Grows \/ Accept)
<1>1. ASSUME NEW v \in profile.names, DeclareNew(v) \/ Use(v) \/ Write(v) \/ Cede(v)
      PROVE  phase = "check" /\ Grows
  <2>1. phase = "check"
    BY <1>1, MayWriteChecks DEF DeclareNew, Use, Write, Cede
  <2>. QED  BY <1>1, <2>1, GrowsNew, GrowsUse, GrowsWrite, GrowsCede
<1>2. ASSUME NEW v \in profile.names \cap Owners, NEW w \in profile.names \cap Owners,
             DeclareFrom(v, w)
      PROVE  phase = "check" /\ Grows
  <2>1. phase = "check"
    BY <1>2, MayWriteChecks DEF DeclareFrom
  <2>. QED  BY <1>2, <2>1, GrowsFrom
<1>3. ASSUME NEW v \in profile.names, NEW w \in profile.names \cup {""},
             NEW sharp \in BOOLEAN, Assign(v, w, sharp)
      PROVE  phase = "check" /\ Grows
  <2>1. phase = "check"
    BY <1>3, MayWriteChecks DEF Assign
  <2>. QED  BY <1>3, <2>1, GrowsAssign
<1>4. ASSUME NEW r \in profile.names, NEW place \in Places, NEW sharp \in BOOLEAN,
             Rebind(r, place, sharp) \/ \E x \in BOOLEAN : DeclareRef(r, place, x, sharp)
      PROVE  phase = "check" /\ Grows
  <2>1. phase = "check"
    BY <1>4, MayWriteChecks DEF Rebind, DeclareRef
  <2>. QED  BY <1>4, <2>1, GrowsRebind, GrowsRef
<1>5. ASSUME NEW place \in Places, Lend(place) PROVE phase = "check" /\ Grows
  <2>1. phase = "check"
    BY <1>5, MayWriteChecks DEF Lend
  <2>. QED  BY <1>5, <2>1, GrowsLend
<1>6. ASSUME NEW v \in profile.names \cup {""}, Return(v) PROVE phase = "check" /\ Grows
  <2>1. phase = "check"
    BY <1>6, MayWriteChecks DEF Return
  <2>. QED  BY <1>6, <2>1, GrowsReturn
<1>7. ASSUME NEW op \in {"break", "continue"}, Jump(op) PROVE phase = "check" /\ Grows
  <2>1. phase = "check"
    BY <1>7, MayWriteChecks DEF Jump
  <2>. QED  BY <1>7, <2>1, GrowsJump
<1>8. ASSUME NEW kind \in {"block", "if", "loop"}, Open(kind)
      PROVE  phase = "check" /\ Grows
  <2>1. phase = "check"
    BY <1>8, MayWriteChecks DEF Open
  <2>. QED  BY <1>8, <2>1, GrowsOpen
<1>9. CASE Else
  BY <1>9, GrowsElse DEF Else
<1>10. CASE Close
  BY <1>10, GrowsClose DEF Close
<1>11. CASE Accept
  BY <1>11 DEF Accept
<1>. QED
  BY <1>1, <1>2, <1>3, <1>4, <1>5, <1>6, <1>7, <1>8, <1>9, <1>10, <1>11 DEF BorrowNext

LEMMA CheckInvNext == BorrowInv /\ CheckInv /\ [Next]_vars => CheckInv'
<1>. SUFFICES ASSUME BorrowInv, CheckInv, [Next]_vars PROVE CheckInv'
  OBVIOUS
<1>1. BorrowInv'
  BY BorrowInvNext
<1>2. CASE BorrowNext
  <2>1. CASE Grows
    BY <1>1, <1>2, <2>1, BorrowNextGrows, GrowsKeeps
  <2>2. CASE Accept
    <3>1. phase = "check" /\ UNCHANGED <<text, profile, scopes, ledger>> /\ Len(scopes) = 1
      BY <2>2 DEF Accept
    <3>2. Compiles(scopes, text, profile.len) /\ scopes[1].kind = "body"
      BY <3>1, WhileCompiling
    <3>. QED  BY <2>2, <3>1, <3>2 DEF Accept, CheckInv, Phases
  <2>. QED  BY <1>2, <2>1, <2>2, BorrowNextGrows
<1>3. CASE Generate
  BY <1>3 DEF Generate, CheckInv, Phases
<1>4. CASE \/ New \/ Move \/ Share \/ Read \/ Store \/ PlainStore \/ Graft \/ Access \/ Overwrite
           \/ Release \/ Give \/ BranchOn \/ Follow
  <2>1. phase = "run" /\ UNCHANGED checkVars
    BY <1>4 DEF New, Move, Share, Read, Store, PlainStore, Graft, Access, Overwrite, Release, Give,
                BranchOn, Follow, Running, checkVars
  <2>. QED
    BY <2>1 DEF CheckInv, Phases, checkVars
<1>5. CASE Ret
  BY <1>5 DEF Ret, CheckInv, Phases
<1>6. CASE UNCHANGED vars
  BY <1>6 DEF vars, checkVars, CheckInv, Phases
<1>. QED
  BY <1>2, <1>3, <1>4, <1>5, <1>6 DEF Next

-----------------------------------------------------------------------------
(* The function                                                            *)

\* The code of a whole function can be typed, and ends.
Program(c, S, T, tx, n) ==
    /\ Flow(c, S, T, tx, n) /\ n \in Nat
    /\ Len(c) > 0 /\ Leaves(c[Len(c)])
    /\ Jumps(c) \subseteq Placed(c)

LEMMA FunctionIsProgram ==
    ASSUME NEW scs, NEW tx, NEW n, Compiles(scs, tx, n), Len(scs) = 1,
           scs[1].kind = "body"
    PROVE  \E S, T : Program(Emit(Unwind(GenBody(tx), 0, Len(tx)), <<Ret0>>).code,
                             S, T, tx, n)
<1>. DEFINE g == GenBody(tx)
<1>1. PICK T : Body(g, T, scs, tx, n)
  BY DEF Compiles
<1>. HIDE DEF g
<1>. DEFINE k == Unwind(g, 0, Len(tx))
            h == Emit(k, <<Ret0>>)
<1>2. /\ n \in Nat /\ Len(tx) \in Nat /\ g \in GenStates(n)
      /\ FramesFit(g.frames, tx, n) /\ Resolved(g.code, g.frames)
      /\ Made(g, Owned(g.frames, 1, Len(g.frames)), T, tx, n)
      /\ Len(g.frames) = 1 /\ g.frames[1].kind = "body"
  BY <1>1 DEF Body, Named
<1>3. k \in GenStates(n) /\ Plain(g, k) /\ Made(k, {}, T, tx, n)
  <2>1. Made(g, Owned(g.frames, 1, Len(g.frames)) \cup {}, T, tx, n)
    BY <1>2
  <2>2. 0 \in 0..Len(g.frames) /\ {} \in SUBSET {-1, 0}
    BY <1>2
  <2>3. /\ k \in GenStates(n) /\ Plain(g, k)
        /\ Made(k, Owned(g.frames, 1, 0) \cup {}, T, tx, n)
    BY <1>2, <2>1, <2>2, UnwindOwned
  <2>. HIDE DEF k
  <2>. QED  BY <2>3, OwnedNone
<1>. HIDE DEF k
<1>4. /\ Ret0 \in Instrs(n) /\ Ret0.do = "ret" /\ Ret0.value = FALSE
  BY DEF Ret0, Instrs
<1>5. Leaves(Ret0) /\ Ret0.do \notin Control
  BY <1>4 DEF Leaves, Control
<1>6. Fits(Ret0, {}, T, tx, n) /\ {} \in States(tx, n)
  BY <1>4 DEF Fits, States
<1>7. /\ Made(Stop(h), {}, T, tx, n) /\ ~Stop(h).live /\ Stop(h).code = h.code
  BY <1>3, <1>4, <1>5, <1>6, StopMade
<1>8. Plain(k, h)
  BY <1>3, <1>4, <1>5, EmitPlain
<1>9. Jumps(h.code) \subseteq Placed(h.code)
  <2>1. Pending(g.frames) = {}
    BY <1>2 DEF Pending, Owes
  <2>2. Jumps(g.code) \subseteq Placed(g.code)
    BY <1>2, <2>1 DEF Resolved
  <2>. QED  BY <1>3, <1>8, <2>2 DEF Plain
<1>. HIDE DEF h
<1>10. PICK S : Flow(Stop(h).code, S, T, tx, n)
  BY <1>7 DEF Made
<1>11. Len(Stop(h).code) > 0 /\ Leaves(Stop(h).code[Len(Stop(h).code)])
  BY <1>7 DEF Made
<1>12. Program(h.code, S, T, tx, n)
  BY <1>2, <1>7, <1>9, <1>10, <1>11 DEF Program
<1>. QED
  BY <1>12 DEF h, k, g

-----------------------------------------------------------------------------
(* The memory of a run                                                     *)

Objects == [kind : {"unique", "shared", "value"}, owners : Int, lost : Nat]

\* The owners that are still there.
Owed(x) == x.owners - x.lost

\* The object that t owns: -1 is the register once more.
Held(sl, t) == sl[IF t = -1 THEN 0 ELSE t]
Holders(A, sl, o) == {t \in A : Held(sl, t) = o}

\* Only a reference holds the address of a slot; a value's slot holds a value.
SlotsFit(sl, hp, tx, n) ==
    /\ sl \in [0..n -> (-n)..Len(hp)]
    /\ \A k \in 0..n : sl[k] < 0 => k \in SlotsOf(tx, n, {"ref"})
    /\ \A k \in SlotsOf(tx, n, {"value"}) : sl[k] # 0 => hp[sl[k]].kind = "value"

\* The slots of A are the owners of the objects that pointers were made for.
Counts(A, sl, hp) ==
    \A o \in 1..Len(hp) :
        hp[o].kind # "value" => Owed(hp[o]) = Cardinality(Holders(A, sl, o))

\* A pointer leads to no value.  The register may hold one: what it reads is
\* counted twice, as what is shared and returned is.
Leads(A, tx, n) ==
    SlotsOf(tx, n, Pointers) \cup {k \in {0} : 0 \in A /\ -1 \notin A}

PointsTo(x, hp) == x = 0 \/ (x \in 1..Len(hp) /\ hp[x].kind # "value")

Handles(A, sl, hp, tx, n) == \A k \in Leads(A, tx, n) : PointsTo(sl[k], hp)

Memory(A, sl, hp, tx, n) ==
    /\ n \in Nat /\ A \in States(tx, n) /\ hp \in Seq(Objects)
    /\ SlotsFit(sl, hp, tx, n) /\ Counts(A, sl, hp) /\ Handles(A, sl, hp, tx, n)

LEMMA StateSlots ==
    ASSUME NEW n \in Nat, NEW tx, NEW A \in States(tx, n), NEW t \in A
    PROVE  /\ t = -1 \/ t = 0 \/ t \in SlotsOf(tx, n, Pointers)
           /\ t = -1 => 0 \in A
           /\ (IF t = -1 THEN 0 ELSE t) \in 0..n
<1>1. t = -1 \/ t = 0 \/ t \in SlotsOf(tx, n, Pointers)
  BY DEF States
<1>2. t = -1 => 0 \in A
  BY DEF States
<1>3. t \in SlotsOf(tx, n, Pointers) => t \in 1..n
  BY DEF SlotsOf
<1>. QED
  BY <1>1, <1>2, <1>3

LEMMA HoldersFinite ==
    ASSUME NEW n \in Nat, NEW tx, NEW A \in States(tx, n), NEW sl, NEW o
    PROVE  /\ IsFiniteSet(Holders(A, sl, o))
           /\ Cardinality(Holders(A, sl, o)) \in Nat
<1>1. Holders(A, sl, o) \subseteq (-1)..n
  <2>1. ASSUME NEW t \in A PROVE t \in (-1)..n
    BY StateSlots DEF SlotsOf
  <2>. QED  BY <2>1 DEF Holders
<1>2. IsFiniteSet((-1)..n)
  BY FS_Interval
<1>. QED
  BY <1>1, <1>2, FS_Subset, FS_CardinalityType

\* A pointer's slot is no reference and no value.
LEMMA PointerSlot ==
    ASSUME NEW n, NEW tx, NEW k \in SlotsOf(tx, n, Pointers)
    PROVE  /\ k \in 1..n /\ k # 0 /\ k # -1
           /\ k \notin SlotsOf(tx, n, {"ref"}) /\ k \notin SlotsOf(tx, n, {"value"})
           /\ k <= Len(tx) /\ Kind[tx[k].v] \in Pointers
BY DEF SlotsOf, Pointers

\* s2 are the slots sl with x in the slot k.
Writes(sl, s2, k, x, n) ==
    DOMAIN sl = 0..n /\ k \in 0..n /\ s2 = [sl EXCEPT ![k] = x]

LEMMA WritesEffect ==
    ASSUME NEW n, NEW sl, NEW s2, NEW k, NEW x, Writes(sl, s2, k, x, n)
    PROVE  /\ DOMAIN s2 = 0..n /\ s2[k] = x
           /\ \A j \in 0..n : j # k => s2[j] = sl[j]
BY DEF Writes

\* A slot that owns nothing is written: the owners hold what they held.
LEMMA HeldStays ==
    ASSUME NEW n \in Nat, NEW tx, NEW A \in States(tx, n), NEW sl, NEW s2, NEW k, k \notin A,
           NEW x, Writes(sl, s2, k, x, n), NEW t \in A
    PROVE  Held(s2, t) = Held(sl, t)
<1>. DEFINE j == IF t = -1 THEN 0 ELSE t
<1>1. j \in 0..n /\ (t = -1 => 0 \in A)
  BY StateSlots
<1>2. j # k
  BY <1>1
<1>. HIDE DEF j
<1>3. s2[j] = sl[j]
  BY <1>1, <1>2, WritesEffect
<1>. QED
  BY <1>3 DEF Held, j

LEMMA HoldersStay ==
    ASSUME NEW n \in Nat, NEW tx, NEW A \in States(tx, n), NEW sl, NEW s2, NEW k, k \notin A,
           NEW x, Writes(sl, s2, k, x, n), NEW o
    PROVE  Holders(A, s2, o) = Holders(A, sl, o)
<1>1. \A t \in A : Held(s2, t) = Held(sl, t)
  BY HeldStays
<1>. QED
  BY <1>1 DEF Holders

\* One slot more owns: it holds x.
LEMMA HoldersGain ==
    ASSUME NEW n \in Nat, NEW tx, NEW A \in States(tx, n), NEW sl, NEW s2, NEW k, k \notin A,
           NEW x, Writes(sl, s2, k, x, n), NEW o
    PROVE  Cardinality(Holders(A \cup {k}, s2, o))
              = IF x = o THEN Cardinality(Holders(A, sl, o)) + 1
                ELSE Cardinality(Holders(A, sl, o))
<1>. DEFINE H  == Holders(A, sl, o)
<1>1. Holders(A, s2, o) = H
  BY HoldersStay
<1>2. Held(s2, k) = x
  <2>1. s2[k] = x /\ k # -1
    BY WritesEffect DEF Writes
  <2>. QED  BY <2>1 DEF Held
<1>3. Holders(A \cup {k}, s2, o) = IF x = o THEN H \cup {k} ELSE H
  BY <1>1, <1>2 DEF Holders
<1>4. IsFiniteSet(H)
  BY HoldersFinite
<1>5. k \notin H
  BY DEF Holders
<1>. HIDE DEF H
<1>6. Cardinality(H \cup {k}) = Cardinality(H) + 1
  BY <1>4, <1>5, FS_AddElement
<1>. QED
  BY <1>3, <1>6 DEF H

\* A slot that owned holds nothing now, or owns no more.
LEMMA HoldersLose ==
    ASSUME NEW n \in Nat, NEW tx, NEW A \in States(tx, n), NEW sl, NEW k \in A, k # -1,
           NEW o
    PROVE  Cardinality(Holders(A \ {k}, sl, o))
              = IF sl[k] = o THEN Cardinality(Holders(A, sl, o)) - 1
                ELSE Cardinality(Holders(A, sl, o))
<1>. DEFINE H == Holders(A, sl, o)
<1>1. Held(sl, k) = sl[k]
  BY DEF Held
<1>2. Holders(A \ {k}, sl, o) = H \ {k} /\ (k \in H <=> sl[k] = o)
  BY <1>1 DEF Holders
<1>3. IsFiniteSet(H)
  BY HoldersFinite
<1>4. k \in H => Cardinality(H \ {k}) = Cardinality(H) - 1
  BY <1>3, FS_RemoveElement
<1>5. k \notin H => H \ {k} = H
  OBVIOUS
<1>. QED
  BY <1>2, <1>4, <1>5

\* A slot that holds nothing owns no object, listed or not.
LEMMA HoldersEmpty ==
    ASSUME NEW A, NEW sl, NEW k, k # -1, sl[k] = 0, NEW o, o # 0
    PROVE  Holders(A \cup {k}, sl, o) = Holders(A \ {k}, sl, o)
BY DEF Holders, Held

\* h2 is the heap hp with d owners more for the object o, if it has any.
Counted(hp, h2, o, d) ==
    h2 = IF o = 0 \/ hp[o].owners = 0 THEN hp ELSE [hp EXCEPT ![o].owners = @ + d]

LEMMA CountedEffect ==
    ASSUME NEW hp \in Seq(Objects), NEW o \in 0..Len(hp), NEW d \in Int, NEW h2,
           Counted(hp, h2, o, d)
    PROVE  /\ h2 \in Seq(Objects) /\ Len(h2) = Len(hp)
           /\ \A i \in 1..Len(hp) : h2[i].kind = hp[i].kind
           /\ \A i \in 1..Len(hp) : i # o => h2[i] = hp[i]
           /\ o # 0 /\ hp[o].owners # 0 => Owed(h2[o]) = Owed(hp[o]) + d
<1>1. CASE o = 0 \/ hp[o].owners = 0
  BY <1>1 DEF Counted
<1>2. CASE o # 0 /\ hp[o].owners # 0
  <2>. DEFINE x == [hp[o] EXCEPT !.owners = @ + d]
  <2>1. o \in 1..Len(hp) /\ hp[o] \in Objects
    BY <1>2
  <2>4. /\ x \in Objects /\ x.kind = hp[o].kind /\ x.lost = hp[o].lost
        /\ x.owners = hp[o].owners + d /\ hp[o].lost \in Nat /\ hp[o].owners \in Int
    BY <2>1 DEF Objects
  <2>2. x \in Objects /\ x.kind = hp[o].kind /\ Owed(x) = Owed(hp[o]) + d
    <3>. HIDE DEF x
    <3>. QED  BY <2>4 DEF Owed
  <2>3. h2 = [hp EXCEPT ![o] = x]
    BY <1>2 DEF Counted
  <2>. HIDE DEF x
  <2>. QED  BY <2>1, <2>2, <2>3
<1>. QED
  BY <1>1, <1>2

\* h2 is the heap hp after an owner of the object o, if it is one, was lost.
Loses(hp, h2, o) == h2 = IF o = 0 THEN hp ELSE [hp EXCEPT ![o].lost = @ + 1]

LEMMA LosesEffect ==
    ASSUME NEW hp \in Seq(Objects), NEW o \in 0..Len(hp), NEW h2, Loses(hp, h2, o)
    PROVE  /\ h2 \in Seq(Objects) /\ Len(h2) = Len(hp)
           /\ \A i \in 1..Len(hp) : h2[i].kind = hp[i].kind
           /\ \A i \in 1..Len(hp) : i # o => h2[i] = hp[i]
           /\ o # 0 => Owed(h2[o]) = Owed(hp[o]) - 1
<1>1. CASE o = 0
  BY <1>1 DEF Loses
<1>2. CASE o # 0
  <2>. DEFINE x == [hp[o] EXCEPT !.lost = @ + 1]
  <2>1. o \in 1..Len(hp) /\ hp[o] \in Objects
    BY <1>2
  <2>4. /\ x \in Objects /\ x.kind = hp[o].kind /\ x.owners = hp[o].owners
        /\ x.lost = hp[o].lost + 1 /\ hp[o].lost \in Nat /\ hp[o].owners \in Int
    BY <2>1 DEF Objects
  <2>2. x \in Objects /\ x.kind = hp[o].kind /\ Owed(x) = Owed(hp[o]) - 1
    <3>. HIDE DEF x
    <3>. QED  BY <2>4 DEF Owed
  <2>3. h2 = [hp EXCEPT ![o] = x]
    BY <1>2 DEF Loses
  <2>. HIDE DEF x
  <2>. QED  BY <2>1, <2>2, <2>3
<1>. QED
  BY <1>1, <1>2

\* The slots stay what they are when the heap changes no kind.
LEMMA SlotsFitHeap ==
    ASSUME NEW n \in Nat, NEW tx, NEW sl, NEW hp \in Seq(Objects), SlotsFit(sl, hp, tx, n),
           NEW h2 \in Seq(Objects), Len(hp) <= Len(h2),
           \A i \in 1..Len(hp) : h2[i].kind = hp[i].kind
    PROVE  SlotsFit(sl, h2, tx, n)
<1>1. sl \in [0..n -> (-n)..Len(h2)]
  <2>1. sl \in [0..n -> (-n)..Len(hp)]
    BY DEF SlotsFit
  <2>. QED  BY <2>1
<1>2. ASSUME NEW k \in SlotsOf(tx, n, {"value"}), sl[k] # 0
      PROVE  h2[sl[k]].kind = "value"
  <2>1. k \in 1..n /\ k \notin SlotsOf(tx, n, {"ref"})
    BY DEF SlotsOf
  <2>2. hp[sl[k]].kind = "value" /\ ~(sl[k] < 0) /\ sl[k] \in (-n)..Len(hp)
    BY <1>2, <2>1 DEF SlotsFit
  <2>3. sl[k] \in 1..Len(hp)
    BY <1>2, <2>2
  <2>. QED  BY <2>2, <2>3
<1>. QED
  BY <1>1, <1>2 DEF SlotsFit

LEMMA SlotsFitWrite ==
    ASSUME NEW n \in Nat, NEW tx, NEW sl, NEW hp \in Seq(Objects), SlotsFit(sl, hp, tx, n),
           NEW k, NEW x \in (-n)..Len(hp), NEW s2, Writes(sl, s2, k, x, n),
           x < 0 => k \in SlotsOf(tx, n, {"ref"}),
           k \in SlotsOf(tx, n, {"value"}) /\ x # 0 => hp[x].kind = "value"
    PROVE  SlotsFit(s2, hp, tx, n)
<1>1. sl \in [0..n -> (-n)..Len(hp)]
  BY DEF SlotsFit
<1>2. s2 \in [0..n -> (-n)..Len(hp)] /\ s2[k] = x /\ \A j \in 0..n : j # k => s2[j] = sl[j]
  BY <1>1 DEF Writes
<1>3. SlotsOf(tx, n, {"value"}) \subseteq 0..n
  BY DEF SlotsOf
<1>. QED
  BY <1>2, <1>3 DEF SlotsFit

LEMMA HandlesHeap ==
    ASSUME NEW n, NEW tx, NEW A, NEW sl, NEW hp \in Seq(Objects), Handles(A, sl, hp, tx, n),
           NEW h2 \in Seq(Objects), Len(hp) <= Len(h2),
           \A i \in 1..Len(hp) : h2[i].kind = hp[i].kind
    PROVE  Handles(A, sl, h2, tx, n)
BY DEF Handles, PointsTo

LEMMA HandlesLess ==
    ASSUME NEW n, NEW tx, NEW A, NEW B, NEW sl, NEW hp, Handles(A, sl, hp, tx, n),
           Leads(B, tx, n) \subseteq Leads(A, tx, n)
    PROVE  Handles(B, sl, hp, tx, n)
BY DEF Handles

LEMMA HandlesWrite ==
    ASSUME NEW n \in Nat, NEW tx, NEW A, NEW B, NEW sl, NEW hp, Handles(A, sl, hp, tx, n),
           NEW k, NEW x, NEW s2, Writes(sl, s2, k, x, n),
           Leads(B, tx, n) \subseteq Leads(A, tx, n) \cup {k},
           k \in Leads(B, tx, n) => PointsTo(x, hp)
    PROVE  Handles(B, s2, hp, tx, n)
<1>1. ASSUME NEW j \in Leads(B, tx, n) PROVE PointsTo(s2[j], hp)
  <2>1. j \in 0..n
    BY DEF Leads, SlotsOf
  <2>2. CASE j = k
    BY <2>2, WritesEffect
  <2>3. CASE j # k
    <3>1. s2[j] = sl[j] /\ j \in Leads(A, tx, n)
      BY <2>1, <2>3, WritesEffect
    <3>. QED  BY <3>1 DEF Handles
  <2>. QED  BY <2>2, <2>3
<1>. QED
  BY <1>1 DEF Handles

\* What leads to an object when what is owned changes.
LEMMA LeadsMore ==
    ASSUME NEW tx, NEW n, NEW A, NEW k, k # -1
    PROVE  /\ Leads(A \cup {k}, tx, n) \subseteq Leads(A, tx, n) \cup {k}
           /\ Leads(A \ {k}, tx, n) \subseteq Leads(A, tx, n)
BY DEF Leads

LEMMA LeadsRegister ==
    ASSUME NEW tx, NEW n \in Nat, NEW A
    PROVE  /\ Leads(A \cup {-1}, tx, n) = SlotsOf(tx, n, Pointers)
           /\ Leads(A \cup {-1, 0}, tx, n) = SlotsOf(tx, n, Pointers)
           /\ SlotsOf(tx, n, Pointers) \subseteq Leads(A, tx, n)
           /\ \A k \in SlotsOf(tx, n, Pointers) :
                 Leads((A \ {0}) \cup {k}, tx, n) = SlotsOf(tx, n, Pointers)
BY DEF Leads, SlotsOf

\* Changing the count of a value's object leaves the other counts.
LEMMA CountsValue ==
    ASSUME NEW A, NEW sl, NEW hp \in Seq(Objects), Counts(A, sl, hp),
           NEW o \in 0..Len(hp), o # 0 => hp[o].kind = "value",
           NEW d \in Int, NEW h2, Counted(hp, h2, o, d)
    PROVE  Counts(A, sl, h2)
BY CountedEffect DEF Counts

LEMMA Pointed ==
    ASSUME NEW A, NEW sl, NEW hp, NEW tx, NEW n, Memory(A, sl, hp, tx, n),
           NEW k \in SlotsOf(tx, n, Pointers)
    PROVE  sl[k] \in 0..Len(hp) /\ k \in 0..n /\ k # -1 /\ k # 0
           /\ k \notin SlotsOf(tx, n, {"ref"}) /\ k \notin SlotsOf(tx, n, {"value"})
<1>1. /\ k \in 1..n /\ k # 0 /\ k # -1 /\ n \in Nat
      /\ k \notin SlotsOf(tx, n, {"ref"}) /\ k \notin SlotsOf(tx, n, {"value"})
  BY PointerSlot DEF Memory
<1>2. sl \in [0..n -> (-n)..Len(hp)] /\ hp \in Seq(Objects)
  BY DEF Memory, SlotsFit
<1>3. ~(sl[k] < 0)
  BY <1>1 DEF Memory, SlotsFit
<1>4. sl[k] \in (-n)..Len(hp)
  BY <1>1, <1>2
<1>. QED
  BY <1>1, <1>2, <1>3, <1>4

\* The same for a slot of a value and for the register.
LEMMA Valued ==
    ASSUME NEW A, NEW sl, NEW hp, NEW tx, NEW n, Memory(A, sl, hp, tx, n),
           NEW k \in SlotsOf(tx, n, {"value"})
    PROVE  sl[k] \in 0..Len(hp) /\ k \in 0..n /\ k \notin A
           /\ (sl[k] # 0 => hp[sl[k]].kind = "value")
<1>1. k \in 1..n /\ k \notin SlotsOf(tx, n, {"ref"}) /\ n \in Nat
      /\ k \notin SlotsOf(tx, n, Pointers)
  BY DEF SlotsOf, Pointers, Memory
<1>2. sl \in [0..n -> (-n)..Len(hp)] /\ hp \in Seq(Objects)
  BY DEF Memory, SlotsFit
<1>3. ~(sl[k] < 0) /\ (sl[k] # 0 => hp[sl[k]].kind = "value")
  BY <1>1 DEF Memory, SlotsFit
<1>4. sl[k] \in (-n)..Len(hp)
  BY <1>1, <1>2
<1>5. k \notin A
  BY <1>1 DEF Memory, States
<1>. QED
  BY <1>1, <1>2, <1>3, <1>4, <1>5

LEMMA Registered ==
    ASSUME NEW A, NEW sl, NEW hp, NEW tx, NEW n, Memory(A, sl, hp, tx, n)
    PROVE  sl[0] \in 0..Len(hp) /\ 0 \notin SlotsOf(tx, n, {"value"})
           /\ 0 \notin SlotsOf(tx, n, {"ref"}) /\ 0 \notin SlotsOf(tx, n, Pointers)
           /\ DOMAIN sl = 0..n /\ 0 \in 0..n
<1>1. n \in Nat /\ sl \in [0..n -> (-n)..Len(hp)] /\ hp \in Seq(Objects)
  BY DEF Memory, SlotsFit
<1>2. 0 \notin SlotsOf(tx, n, {"value"}) /\ 0 \notin SlotsOf(tx, n, {"ref"})
      /\ 0 \notin SlotsOf(tx, n, Pointers)
  BY DEF SlotsOf
<1>3. ~(sl[0] < 0)
  BY <1>1, <1>2 DEF Memory, SlotsFit
<1>4. sl[0] \in (-n)..Len(hp)
  BY <1>1
<1>. QED
  BY <1>1, <1>2, <1>3, <1>4

-----------------------------------------------------------------------------
(* What each instruction does to the memory                                *)

\* An object is made: its kind is that of the slot it is put into.
LEMMA MemoryMakes ==
    ASSUME NEW A, NEW sl, NEW hp, NEW tx, NEW n, Memory(A, sl, hp, tx, n),
           NEW kind \in {"unique", "shared", "value"}, NEW h2,
           h2 = Append(hp, [kind |-> kind, owners |-> 1, lost |-> 0]),
           NEW k, k \notin A, NEW s2, Writes(sl, s2, k, Len(hp) + 1, n),
           k \in SlotsOf(tx, n, {"value"}) => kind = "value",
           kind = "value" => k \notin {0} \cup SlotsOf(tx, n, Pointers), k # -1,
           NEW B \in States(tx, n), B = IF kind = "value" THEN A ELSE A \cup {k}
    PROVE  Memory(B, s2, h2, tx, n)
<1>. DEFINE m == Len(hp) + 1
            x == [kind |-> kind, owners |-> 1, lost |-> 0]
<1>1. /\ n \in Nat /\ A \in States(tx, n) /\ hp \in Seq(Objects) /\ Len(hp) \in Nat
      /\ SlotsFit(sl, hp, tx, n) /\ Counts(A, sl, hp) /\ Handles(A, sl, hp, tx, n)
  BY DEF Memory
<1>2. x \in Objects /\ x.kind = kind /\ Owed(x) = 1
  BY DEF Objects, Owed
<1>. HIDE DEF x
<1>3. /\ h2 \in Seq(Objects) /\ Len(h2) = m /\ h2[m] = x
      /\ \A i \in 1..Len(hp) : h2[i] = hp[i]
  BY <1>1, <1>2 DEF x
<1>4. SlotsFit(sl, h2, tx, n)
  <2>1. Len(hp) <= Len(h2) /\ \A i \in 1..Len(hp) : h2[i].kind = hp[i].kind
    BY <1>1, <1>3
  <2>. HIDE DEF m
  <2>. QED  BY <1>1, <1>3, <2>1, SlotsFitHeap
<1>5. SlotsFit(s2, h2, tx, n)
  <2>1. m \in (-n)..Len(h2) /\ ~(m < 0)
    BY <1>1, <1>3
  <2>2. k \in SlotsOf(tx, n, {"value"}) => h2[m].kind = "value"
    BY <1>2, <1>3
  <2>. HIDE DEF m
  <2>. QED  BY <1>1, <1>3, <1>4, <2>1, <2>2, SlotsFitWrite DEF m
<1>6. ASSUME NEW o \in 1..Len(h2), h2[o].kind # "value"
      PROVE  Owed(h2[o]) = Cardinality(Holders(B, s2, o))
  <2>1. o \in 1..Len(hp) \/ o = m
    BY <1>1, <1>3
  <2>2. CASE kind = "value"
    <3>1. o # m
      BY <1>2, <1>3, <1>6, <2>2
    <3>2. o \in 1..Len(hp) /\ h2[o] = hp[o]
      BY <1>3, <2>1, <3>1
    <3>3. Holders(B, s2, o) = Holders(A, sl, o)
      BY <1>1, <2>2, HoldersStay
    <3>. QED  BY <1>1, <1>6, <3>2, <3>3 DEF Counts
  <2>3. CASE kind # "value"
    <3>1. Cardinality(Holders(A \cup {k}, s2, o))
            = IF m = o THEN Cardinality(Holders(A, sl, o)) + 1
              ELSE Cardinality(Holders(A, sl, o))
      BY <1>1, HoldersGain
    <3>2. B = A \cup {k}
      BY <2>3
    <3>3. CASE o \in 1..Len(hp)
      <4>1. h2[o] = hp[o] /\ o # m
        BY <1>1, <1>3, <3>3
      <4>. QED  BY <1>1, <1>6, <3>1, <3>2, <3>3, <4>1 DEF Counts
    <3>4. CASE o = m
      <4>1. Holders(A, sl, m) = {}
        <5>1. ASSUME NEW t \in A PROVE Held(sl, t) # m
          <6>1. (IF t = -1 THEN 0 ELSE t) \in 0..n
            BY <1>1, StateSlots
          <6>2. sl \in [0..n -> (-n)..Len(hp)]
            BY <1>1 DEF SlotsFit
          <6>3. Held(sl, t) \in (-n)..Len(hp)
            BY <6>1, <6>2 DEF Held
          <6>. QED  BY <1>1, <6>3
        <5>. QED  BY <5>1 DEF Holders
      <4>2. Cardinality({}) = 0
        BY FS_EmptySet
      <4>3. Owed(h2[o]) = 1
        BY <1>2, <1>3, <3>4
      <4>. HIDE DEF m
      <4>. QED  BY <3>1, <3>2, <3>4, <4>1, <4>2, <4>3
    <3>. QED  BY <2>1, <3>3, <3>4
  <2>. QED  BY <2>2, <2>3
<1>7. Handles(B, s2, h2, tx, n)
  <2>1. Handles(A, sl, h2, tx, n)
    <3>1. Len(hp) <= Len(h2) /\ \A i \in 1..Len(hp) : h2[i].kind = hp[i].kind
      BY <1>1, <1>3
    <3>. HIDE DEF m
    <3>. QED  BY <1>1, <1>3, <3>1, HandlesHeap
  <2>2. Leads(B, tx, n) \subseteq Leads(A, tx, n) \cup {k}
    BY LeadsMore
  <2>3. k \in Leads(B, tx, n) => PointsTo(m, h2)
    <3>1. kind = "value" => k \notin Leads(B, tx, n)
      BY DEF Leads
    <3>2. m \in 1..Len(h2) /\ h2[m].kind = kind
      BY <1>1, <1>2, <1>3
    <3>. HIDE DEF m
    <3>. QED  BY <3>1, <3>2 DEF PointsTo
  <2>4. Writes(sl, s2, k, m, n)
    OBVIOUS
  <2>. HIDE DEF m
  <2>. QED  BY <1>1, <2>1, <2>2, <2>3, <2>4, HandlesWrite
<1>. QED
  BY <1>1, <1>3, <1>5, <1>6, <1>7 DEF Memory, Counts

\* A slot that owns nothing is written with what owns nothing.
LEMMA MemoryPuts ==
    ASSUME NEW A, NEW sl, NEW hp, NEW tx, NEW n, Memory(A, sl, hp, tx, n),
           NEW k, k \notin A, NEW x \in (-n)..Len(hp), NEW s2, Writes(sl, s2, k, x, n),
           k \in SlotsOf(tx, n, {"ref"})
    PROVE  Memory(A, s2, hp, tx, n)
<1>1. /\ n \in Nat /\ A \in States(tx, n) /\ hp \in Seq(Objects)
      /\ SlotsFit(sl, hp, tx, n) /\ Counts(A, sl, hp) /\ Handles(A, sl, hp, tx, n)
  BY DEF Memory
<1>2. k \notin SlotsOf(tx, n, {"value"})
  BY DEF SlotsOf
<1>3. SlotsFit(s2, hp, tx, n)
  BY <1>1, <1>2, SlotsFitWrite
<1>4. \A o : Holders(A, s2, o) = Holders(A, sl, o)
  BY <1>1, HoldersStay
<1>5. Handles(A, s2, hp, tx, n)
  <2>1. k \notin Leads(A, tx, n)
    BY DEF Leads, SlotsOf, Pointers
  <2>. QED  BY <1>1, <2>1, HandlesWrite
<1>. QED
  BY <1>1, <1>3, <1>4, <1>5 DEF Memory, Counts

\* A value comes into the register.
LEMMA MemoryReads ==
    ASSUME NEW A, NEW sl, NEW hp, NEW tx, NEW n, Memory(A, sl, hp, tx, n),
           0 \notin A, NEW k \in SlotsOf(tx, n, {"value"}),
           NEW s2, Writes(sl, s2, 0, sl[k], n),
           NEW B \in States(tx, n), B = A \cup {-1, 0}
    PROVE  Memory(B, s2, hp, tx, n)
<1>. DEFINE x == sl[k]
<1>1. /\ n \in Nat /\ A \in States(tx, n) /\ hp \in Seq(Objects)
      /\ SlotsFit(sl, hp, tx, n) /\ Counts(A, sl, hp) /\ Handles(A, sl, hp, tx, n)
  BY DEF Memory
<1>2. x \in 0..Len(hp) /\ (x # 0 => hp[x].kind = "value")
      /\ 0 \notin SlotsOf(tx, n, {"value"})
  BY Valued, Registered
<1>. HIDE DEF x
<1>3. x \in (-n)..Len(hp) /\ ~(x < 0) /\ Writes(sl, s2, 0, x, n)
  BY <1>1, <1>2 DEF x
<1>4. SlotsFit(s2, hp, tx, n)
  BY <1>1, <1>2, <1>3, SlotsFitWrite
<1>5. ASSUME NEW o \in 1..Len(hp), hp[o].kind # "value"
      PROVE  Owed(hp[o]) = Cardinality(Holders(B, s2, o))
  <2>1. x # o
    BY <1>2, <1>5
  <2>2. Holders(A, s2, o) = Holders(A, sl, o)
    BY <1>1, <1>3, HoldersStay
  <2>3. s2[0] = x
    BY <1>3, WritesEffect
  <2>4. Holders(B, s2, o) = Holders(A, s2, o)
    BY <2>1, <2>3 DEF Holders, Held
  <2>. QED  BY <1>1, <1>5, <2>2, <2>4 DEF Counts
<1>6. Handles(B, s2, hp, tx, n)
  <2>1. /\ Leads(B, tx, n) \subseteq Leads(A, tx, n) \cup {0}
        /\ 0 \notin Leads(B, tx, n)
    BY <1>1, LeadsRegister, Registered
  <2>. QED  BY <1>1, <1>3, <2>1, HandlesWrite
<1>. QED
  BY <1>1, <1>4, <1>5, <1>6 DEF Memory, Counts

\* A slot that owned is emptied: what it held has one owner less.
LEMMA HoldersEmptied ==
    ASSUME NEW n \in Nat, NEW tx, NEW A \in States(tx, n), NEW sl, NEW k \in A, k # 0, k # -1,
           NEW s2, Writes(sl, s2, k, 0, n), NEW o, o # 0
    PROVE  Cardinality(Holders(A, s2, o))
              = IF sl[k] = o THEN Cardinality(Holders(A, sl, o)) - 1
                ELSE Cardinality(Holders(A, sl, o))
<1>. DEFINE A2 == A \ {k}
<1>1. A2 \in States(tx, n) /\ k \notin A2 /\ A2 \cup {k} = A
  BY DEF States
<1>2. Cardinality(Holders(A2, sl, o))
        = IF sl[k] = o THEN Cardinality(Holders(A, sl, o)) - 1
          ELSE Cardinality(Holders(A, sl, o))
  BY ZenonT(30), HoldersLose
<1>. HIDE DEF A2
<1>3. Cardinality(Holders(A2 \cup {k}, s2, o)) = Cardinality(Holders(A2, sl, o))
  BY <1>1, HoldersGain
<1>. QED
  BY <1>1, <1>2, <1>3

\* The owner moves from one slot to another.
LEMMA MemoryMoves ==
    ASSUME NEW A, NEW sl, NEW hp, NEW tx, NEW n, Memory(A, sl, hp, tx, n),
           NEW j \in A \cap SlotsOf(tx, n, Pointers),
           NEW k \in {0} \cup SlotsOf(tx, n, Pointers), k \notin A,
           NEW s1, Writes(sl, s1, j, 0, n), NEW s2, Writes(s1, s2, k, sl[j], n),
           NEW B \in States(tx, n), B = A \cup {k}
    PROVE  Memory(B, s2, hp, tx, n)
<1>. DEFINE x == sl[j]
<1>1. /\ n \in Nat /\ A \in States(tx, n) /\ hp \in Seq(Objects)
      /\ SlotsFit(sl, hp, tx, n) /\ Counts(A, sl, hp) /\ Handles(A, sl, hp, tx, n)
  BY DEF Memory
<1>2. /\ x \in 0..Len(hp) /\ j # 0 /\ j # -1
      /\ j \notin SlotsOf(tx, n, {"ref"}) /\ j \notin SlotsOf(tx, n, {"value"})
  BY Pointed
<1>3. /\ k \notin SlotsOf(tx, n, {"ref"}) /\ k \notin SlotsOf(tx, n, {"value"})
  BY Pointed, Registered
<1>. HIDE DEF x
<1>4. Writes(s1, s2, k, x, n)
  BY DEF x
<1>5. 0 \in (-n)..Len(hp) /\ x \in (-n)..Len(hp) /\ ~(x < 0)
  BY <1>1, <1>2
<1>6. SlotsFit(s1, hp, tx, n)
  BY <1>1, <1>2, <1>5, SlotsFitWrite
<1>7. SlotsFit(s2, hp, tx, n)
  BY <1>1, <1>3, <1>4, <1>5, <1>6, SlotsFitWrite
<1>8. ASSUME NEW o \in 1..Len(hp), hp[o].kind # "value"
      PROVE  Owed(hp[o]) = Cardinality(Holders(B, s2, o))
  <2>1. o # 0
    OBVIOUS
  <2>2. Cardinality(Holders(A, s1, o))
          = IF x = o THEN Cardinality(Holders(A, sl, o)) - 1
            ELSE Cardinality(Holders(A, sl, o))
    BY <1>1, <1>2, <2>1, HoldersEmptied DEF x
  <2>3. Cardinality(Holders(A \cup {k}, s2, o))
          = IF x = o THEN Cardinality(Holders(A, s1, o)) + 1
            ELSE Cardinality(Holders(A, s1, o))
    BY <1>1, <1>4, HoldersGain
  <2>4. Cardinality(Holders(A, sl, o)) \in Nat
    BY <1>1, HoldersFinite
  <2>5. Owed(hp[o]) = Cardinality(Holders(A, sl, o))
    BY <1>1, <1>8 DEF Counts
  <2>. QED  BY <2>2, <2>3, <2>4, <2>5
<1>9. Handles(B, s2, hp, tx, n)
  <2>1. PointsTo(x, hp) /\ PointsTo(0, hp)
    BY <1>1, LeadsRegister DEF Handles, PointsTo, x
  <2>2. Handles(A, s1, hp, tx, n)
    BY <1>1, <2>1, HandlesWrite
  <2>3. k # -1
    BY Pointed
  <2>4. Leads(B, tx, n) \subseteq Leads(A, tx, n) \cup {k}
    BY <2>3, LeadsMore
  <2>. QED  BY <1>1, <1>4, <2>1, <2>2, <2>4, HandlesWrite
<1>. QED
  BY <1>1, <1>7, <1>8, <1>9 DEF Memory, Counts

\* An object that a pointer owns is not freed.
LEMMA OwnedAlive ==
    ASSUME NEW A, NEW sl, NEW hp, NEW tx, NEW n, Memory(A, sl, hp, tx, n),
           NEW t \in A, t # -1, NEW o \in 1..Len(hp), sl[t] = o, hp[o].kind # "value"
    PROVE  hp[o].owners # 0 /\ Owed(hp[o]) = Cardinality(Holders(A, sl, o))
<1>1. n \in Nat /\ A \in States(tx, n) /\ Counts(A, sl, hp) /\ hp[o] \in Objects
  BY DEF Memory
<1>2. t \in Holders(A, sl, o)
  BY DEF Holders, Held
<1>3. IsFiniteSet(Holders(A, sl, o))
  BY <1>1, HoldersFinite
<1>4. Cardinality(Holders(A, sl, o)) # 0 /\ Cardinality(Holders(A, sl, o)) \in Nat
  BY <1>2, <1>3, FS_EmptySet, FS_CardinalityType
<1>5. Owed(hp[o]) = Cardinality(Holders(A, sl, o))
  BY <1>1 DEF Counts
<1>6. PICK c \in Nat : c = Owed(hp[o]) /\ c # 0
  BY <1>4, <1>5
<1>7. hp[o].owners \in Int /\ hp[o].lost \in Nat /\ c = hp[o].owners - hp[o].lost
  BY <1>1, <1>6 DEF Objects, Owed
<1>. QED
  BY <1>5, <1>6, <1>7

\* One owner more: a slot is given what another holds.
LEMMA MemoryShares ==
    ASSUME NEW A, NEW sl, NEW hp, NEW tx, NEW n, Memory(A, sl, hp, tx, n),
           NEW j \in A \cap SlotsOf(tx, n, Pointers),
           NEW k \in {0} \cup SlotsOf(tx, n, Pointers), k \notin A,
           NEW s2, Writes(sl, s2, k, sl[j], n), NEW h2, Counted(hp, h2, sl[j], 1),
           NEW B \in States(tx, n), B = A \cup {k}
    PROVE  Memory(B, s2, h2, tx, n)
<1>. DEFINE x == sl[j]
<1>1. /\ n \in Nat /\ A \in States(tx, n) /\ hp \in Seq(Objects)
      /\ SlotsFit(sl, hp, tx, n) /\ Counts(A, sl, hp) /\ Handles(A, sl, hp, tx, n)
  BY DEF Memory
<1>2. x \in 0..Len(hp) /\ j # 0 /\ j # -1
  BY Pointed
<1>3. /\ k \notin SlotsOf(tx, n, {"ref"}) /\ k \notin SlotsOf(tx, n, {"value"})
  BY Pointed, Registered
<1>. HIDE DEF x
<1>4. Writes(sl, s2, k, x, n) /\ Counted(hp, h2, x, 1) /\ sl[j] = x
  BY DEF x
<1>5. x \in (-n)..Len(hp) /\ ~(x < 0)
  BY <1>1, <1>2
<1>6. /\ h2 \in Seq(Objects) /\ Len(h2) = Len(hp)
      /\ \A i \in 1..Len(hp) : h2[i].kind = hp[i].kind
      /\ \A i \in 1..Len(hp) : i # x => h2[i] = hp[i]
      /\ x # 0 /\ hp[x].owners # 0 => Owed(h2[x]) = Owed(hp[x]) + 1
  BY <1>1, <1>2, <1>4, CountedEffect
<1>7. SlotsFit(s2, h2, tx, n)
  <2>1. SlotsFit(s2, hp, tx, n)
    BY <1>1, <1>3, <1>4, <1>5, SlotsFitWrite
  <2>2. Len(hp) <= Len(h2)
    BY <1>1, <1>6
  <2>. QED  BY <1>1, <1>6, <2>1, <2>2, SlotsFitHeap
<1>8. ASSUME NEW o \in 1..Len(hp), hp[o].kind # "value"
      PROVE  Owed(h2[o]) = Cardinality(Holders(B, s2, o))
  <2>1. Cardinality(Holders(A \cup {k}, s2, o))
          = IF x = o THEN Cardinality(Holders(A, sl, o)) + 1
            ELSE Cardinality(Holders(A, sl, o))
    BY <1>1, <1>4, HoldersGain
  <2>2. Owed(hp[o]) = Cardinality(Holders(A, sl, o))
    BY <1>1, <1>8 DEF Counts
  <2>3. CASE o = x
    <3>1. hp[o].owners # 0
      BY <1>2, <1>4, <1>8, <2>3, OwnedAlive
    <3>2. Owed(h2[o]) = Owed(hp[o]) + 1
      BY <1>6, <2>3, <3>1
    <3>. QED  BY <2>1, <2>2, <2>3, <3>2
  <2>4. CASE o # x
    BY <1>6, <2>1, <2>2, <2>4
  <2>. QED  BY <2>3, <2>4
<1>9. Counts(B, s2, h2)
  BY <1>6, <1>8 DEF Counts
<1>10. Handles(B, s2, h2, tx, n)
  <2>1. PointsTo(x, hp)
    BY <1>1, LeadsRegister DEF Handles, x
  <2>2. k # -1
    BY Pointed
  <2>3. Leads(B, tx, n) \subseteq Leads(A, tx, n) \cup {k}
    BY <2>2, LeadsMore
  <2>4. Handles(B, s2, hp, tx, n)
    BY <1>1, <1>4, <2>1, <2>3, HandlesWrite
  <2>5. Len(hp) <= Len(h2)
    BY <1>1, <1>6
  <2>. QED  BY <1>1, <1>6, <2>4, <2>5, HandlesHeap
<1>. QED
  BY <1>1, <1>6, <1>7, <1>9, <1>10 DEF Memory

\* The register owns what it holds once more.
LEMMA MemoryRepeats ==
    ASSUME NEW A, NEW sl, NEW hp, NEW tx, NEW n, Memory(A, sl, hp, tx, n),
           0 \in A, -1 \notin A, NEW h2, Counted(hp, h2, sl[0], 1),
           NEW B \in States(tx, n), B = A \cup {-1}
    PROVE  Memory(B, sl, h2, tx, n)
<1>. DEFINE x == sl[0]
<1>1. /\ n \in Nat /\ A \in States(tx, n) /\ hp \in Seq(Objects)
      /\ SlotsFit(sl, hp, tx, n) /\ Counts(A, sl, hp) /\ Handles(A, sl, hp, tx, n)
  BY DEF Memory
<1>2. x \in 0..Len(hp)
  BY Registered
<1>. HIDE DEF x
<1>4. Counted(hp, h2, x, 1) /\ sl[0] = x
  BY DEF x
<1>6. /\ h2 \in Seq(Objects) /\ Len(h2) = Len(hp)
      /\ \A i \in 1..Len(hp) : h2[i].kind = hp[i].kind
      /\ \A i \in 1..Len(hp) : i # x => h2[i] = hp[i]
      /\ x # 0 /\ hp[x].owners # 0 => Owed(h2[x]) = Owed(hp[x]) + 1
  BY <1>1, <1>2, <1>4, CountedEffect
<1>7. SlotsFit(sl, h2, tx, n)
  <2>2. Len(hp) <= Len(h2)
    BY <1>1, <1>6
  <2>. QED  BY <1>1, <1>6, <2>2, SlotsFitHeap
<1>8. ASSUME NEW o \in 1..Len(hp), hp[o].kind # "value"
      PROVE  Owed(h2[o]) = Cardinality(Holders(B, sl, o))
  <2>. DEFINE H == Holders(A, sl, o)
  <2>1. Holders(B, sl, o) = IF x = o THEN H \cup {-1} ELSE H
    BY <1>4 DEF Holders, Held
  <2>2. IsFiniteSet(H)
    BY <1>1, HoldersFinite
  <2>3. -1 \notin H
    BY DEF Holders
  <2>4. Owed(hp[o]) = Cardinality(H)
    BY <1>1, <1>8 DEF Counts
  <2>5. o = x => hp[o].owners # 0
    BY <1>4, <1>8, OwnedAlive
  <2>. HIDE DEF H
  <2>6. Cardinality(H \cup {-1}) = Cardinality(H) + 1
    BY <2>2, <2>3, FS_AddElement
  <2>7. CASE o = x
    <3>1. Owed(h2[o]) = Owed(hp[o]) + 1
      BY <1>6, <2>5, <2>7
    <3>. QED  BY <2>1, <2>4, <2>6, <2>7, <3>1
  <2>8. CASE o # x
    BY <1>6, <2>1, <2>4, <2>8
  <2>. QED  BY <2>7, <2>8
<1>9. Counts(B, sl, h2)
  BY <1>6, <1>8 DEF Counts
<1>10. Handles(B, sl, h2, tx, n)
  <2>1. Leads(B, tx, n) \subseteq Leads(A, tx, n)
    <3>1. Leads(A \cup {-1}, tx, n) = SlotsOf(tx, n, Pointers)
          /\ SlotsOf(tx, n, Pointers) \subseteq Leads(A, tx, n)
      BY ZenonT(30), <1>1, LeadsRegister
    <3>. QED  BY <3>1
  <2>2. Handles(B, sl, hp, tx, n)
    BY <1>1, <2>1, HandlesLess
  <2>3. Len(hp) <= Len(h2)
    BY <1>1, <1>6
  <2>. QED  BY <1>1, <1>6, <2>2, <2>3, HandlesHeap
<1>. QED
  BY <1>1, <1>6, <1>7, <1>9, <1>10 DEF Memory

\* A pointer's object is released.
LEMMA MemoryReleases ==
    ASSUME NEW A, NEW sl, NEW hp, NEW tx, NEW n, Memory(A, sl, hp, tx, n),
           NEW k \in A \cap SlotsOf(tx, n, Pointers),
           NEW h2, Counted(hp, h2, sl[k], -1),
           NEW B \in States(tx, n), B = A \ {k}
    PROVE  Memory(B, sl, h2, tx, n)
<1>. DEFINE x == sl[k]
<1>1. /\ n \in Nat /\ A \in States(tx, n) /\ hp \in Seq(Objects)
      /\ SlotsFit(sl, hp, tx, n) /\ Counts(A, sl, hp) /\ Handles(A, sl, hp, tx, n)
  BY DEF Memory
<1>2. x \in 0..Len(hp) /\ k # 0 /\ k # -1
  BY Pointed
<1>. HIDE DEF x
<1>4. Counted(hp, h2, x, -1) /\ sl[k] = x
  BY DEF x
<1>6. /\ h2 \in Seq(Objects) /\ Len(h2) = Len(hp)
      /\ \A i \in 1..Len(hp) : h2[i].kind = hp[i].kind
      /\ \A i \in 1..Len(hp) : i # x => h2[i] = hp[i]
      /\ x # 0 /\ hp[x].owners # 0 => Owed(h2[x]) = Owed(hp[x]) + (-1)
  BY <1>1, <1>2, <1>4, CountedEffect
<1>7. SlotsFit(sl, h2, tx, n)
  <2>2. Len(hp) <= Len(h2)
    BY <1>1, <1>6
  <2>. QED  BY <1>1, <1>6, <2>2, SlotsFitHeap
<1>8. ASSUME NEW o \in 1..Len(hp), hp[o].kind # "value"
      PROVE  Owed(h2[o]) = Cardinality(Holders(B, sl, o))
  <2>1. Cardinality(Holders(A \ {k}, sl, o))
          = IF x = o THEN Cardinality(Holders(A, sl, o)) - 1
            ELSE Cardinality(Holders(A, sl, o))
    BY <1>1, <1>2, HoldersLose DEF x
  <2>2. Owed(hp[o]) = Cardinality(Holders(A, sl, o))
    BY <1>1, <1>8 DEF Counts
  <2>3. Cardinality(Holders(A, sl, o)) \in Nat
    BY <1>1, HoldersFinite
  <2>4. CASE o = x
    <3>1. hp[o].owners # 0
      BY <1>2, <1>4, <1>8, <2>4, OwnedAlive
    <3>2. Owed(h2[o]) = Owed(hp[o]) + (-1)
      BY <1>6, <2>4, <3>1
    <3>. QED  BY <2>1, <2>2, <2>3, <2>4, <3>2
  <2>5. CASE o # x
    BY <1>6, <2>1, <2>2, <2>5
  <2>. QED  BY <2>4, <2>5
<1>9. Counts(B, sl, h2)
  BY <1>6, <1>8 DEF Counts
<1>10. Handles(B, sl, h2, tx, n)
  <2>1. Leads(B, tx, n) \subseteq Leads(A, tx, n)
    BY <1>2, LeadsMore
  <2>2. Handles(B, sl, hp, tx, n)
    BY <1>1, <2>1, HandlesLess
  <2>3. Len(hp) <= Len(h2)
    BY <1>1, <1>6
  <2>. QED  BY <1>1, <1>6, <2>2, <2>3, HandlesHeap
<1>. QED
  BY <1>1, <1>6, <1>7, <1>9, <1>10 DEF Memory

\* What a slot holds is owned by it no more, and keeps its count.
LEMMA MemoryLoses ==
    ASSUME NEW A, NEW sl, NEW hp, NEW tx, NEW n, Memory(A, sl, hp, tx, n),
           NEW k \in A, k \in {0} \cup SlotsOf(tx, n, Pointers),
           NEW h2, Loses(hp, h2, sl[k]),
           NEW B \in States(tx, n), B = A \ {k}
    PROVE  Memory(B, sl, h2, tx, n)
<1>. DEFINE x == sl[k]
<1>1. /\ n \in Nat /\ A \in States(tx, n) /\ hp \in Seq(Objects)
      /\ SlotsFit(sl, hp, tx, n) /\ Counts(A, sl, hp) /\ Handles(A, sl, hp, tx, n)
  BY DEF Memory
<1>2. x \in 0..Len(hp) /\ k # -1
  <2>1. CASE k = 0
    BY <2>1, Registered
  <2>2. CASE k \in SlotsOf(tx, n, Pointers)
    BY <2>2, Pointed
  <2>. QED  BY <2>1, <2>2
<1>. HIDE DEF x
<1>4. Loses(hp, h2, x) /\ sl[k] = x
  BY DEF x
<1>6. /\ h2 \in Seq(Objects) /\ Len(h2) = Len(hp)
      /\ \A i \in 1..Len(hp) : h2[i].kind = hp[i].kind
      /\ \A i \in 1..Len(hp) : i # x => h2[i] = hp[i]
      /\ x # 0 => Owed(h2[x]) = Owed(hp[x]) - 1
  BY <1>1, <1>2, <1>4, LosesEffect
<1>7. SlotsFit(sl, h2, tx, n)
  <2>2. Len(hp) <= Len(h2)
    BY <1>1, <1>6
  <2>. QED  BY <1>1, <1>6, <2>2, SlotsFitHeap
<1>8. ASSUME NEW o \in 1..Len(hp), hp[o].kind # "value"
      PROVE  Owed(h2[o]) = Cardinality(Holders(B, sl, o))
  <2>1. Cardinality(Holders(A \ {k}, sl, o))
          = IF x = o THEN Cardinality(Holders(A, sl, o)) - 1
            ELSE Cardinality(Holders(A, sl, o))
    BY <1>1, <1>2, HoldersLose DEF x
  <2>2. Owed(hp[o]) = Cardinality(Holders(A, sl, o))
    BY <1>1, <1>8 DEF Counts
  <2>3. CASE o = x
    <3>1. Owed(h2[o]) = Owed(hp[o]) - 1
      BY <1>6, <2>3
    <3>. QED  BY <2>1, <2>2, <2>3, <3>1
  <2>4. CASE o # x
    BY <1>6, <2>1, <2>2, <2>4
  <2>. QED  BY <2>3, <2>4
<1>9. Counts(B, sl, h2)
  BY <1>6, <1>8 DEF Counts
<1>10. Handles(B, sl, h2, tx, n)
  <2>1. Leads(B, tx, n) \subseteq Leads(A, tx, n)
    BY <1>2, LeadsMore
  <2>2. Handles(B, sl, hp, tx, n)
    BY <1>1, <2>1, HandlesLess
  <2>3. Len(hp) <= Len(h2)
    BY <1>1, <1>6
  <2>. QED  BY <1>1, <1>6, <2>2, <2>3, HandlesHeap
<1>. QED
  BY <1>1, <1>6, <1>7, <1>9, <1>10 DEF Memory

\* A value is dropped, or given away.
LEMMA MemoryDrops ==
    ASSUME NEW A, NEW sl, NEW hp, NEW tx, NEW n, Memory(A, sl, hp, tx, n),
           NEW k \in SlotsOf(tx, n, {"value"}), NEW h2, Counted(hp, h2, sl[k], -1)
    PROVE  Memory(A, sl, h2, tx, n)
<1>. DEFINE x == sl[k]
<1>1. /\ n \in Nat /\ A \in States(tx, n) /\ hp \in Seq(Objects)
      /\ SlotsFit(sl, hp, tx, n) /\ Counts(A, sl, hp) /\ Handles(A, sl, hp, tx, n)
  BY DEF Memory
<1>2. x \in 0..Len(hp) /\ (x # 0 => hp[x].kind = "value") /\ Counted(hp, h2, x, -1)
  BY Valued
<1>. HIDE DEF x
<1>3. /\ h2 \in Seq(Objects) /\ Len(h2) = Len(hp)
      /\ \A i \in 1..Len(hp) : h2[i].kind = hp[i].kind
  <2>1. -1 \in Int
    OBVIOUS
  <2>2. /\ h2 \in Seq(Objects) /\ Len(h2) = Len(hp)
        /\ \A i \in 1..Len(hp) : h2[i].kind = hp[i].kind
        /\ \A i \in 1..Len(hp) : i # x => h2[i] = hp[i]
        /\ x # 0 /\ hp[x].owners # 0 => Owed(h2[x]) = Owed(hp[x]) + (-1)
    BY <1>1, <1>2, <2>1, CountedEffect
  <2>. QED  BY <2>2
<1>4. SlotsFit(sl, h2, tx, n)
  <2>2. Len(hp) <= Len(h2)
    BY <1>1, <1>3
  <2>. QED  BY <1>1, <1>3, <2>2, SlotsFitHeap
<1>5. Counts(A, sl, h2)
  BY <1>1, <1>2, CountsValue
<1>6. Handles(A, sl, h2, tx, n)
  <2>1. Len(hp) <= Len(h2)
    BY <1>1, <1>3
  <2>. QED  BY <1>1, <1>3, <2>1, HandlesHeap
<1>. QED
  BY <1>1, <1>3, <1>4, <1>5, <1>6 DEF Memory

\* A unique pointer's object is given to the callee.
LEMMA MemoryGives ==
    ASSUME NEW A, NEW sl, NEW hp, NEW tx, NEW n, Memory(A, sl, hp, tx, n),
           NEW k \in A \cap SlotsOf(tx, n, Pointers),
           NEW h2, Counted(hp, h2, sl[k], -1), NEW s2, Writes(sl, s2, k, 0, n)
    PROVE  Memory(A, s2, h2, tx, n)
<1>. DEFINE A2 == A \ {k}
<1>1. /\ n \in Nat /\ A \in States(tx, n) /\ hp \in Seq(Objects)
      /\ k # 0 /\ k # -1 /\ k \notin SlotsOf(tx, n, {"ref"})
      /\ k \notin SlotsOf(tx, n, {"value"})
  BY Pointed DEF Memory
<1>2. A2 \in States(tx, n) /\ k \notin A2
  BY <1>1 DEF States
<1>3. Memory(A2, sl, h2, tx, n)
  BY <1>2, MemoryReleases
<1>4. /\ h2 \in Seq(Objects) /\ SlotsFit(sl, h2, tx, n) /\ Counts(A2, sl, h2)
      /\ Handles(A2, sl, h2, tx, n)
  BY <1>3 DEF Memory
<1>5. SlotsFit(s2, h2, tx, n)
  <2>1. 0 \in (-n)..Len(h2) /\ ~(0 < 0)
    BY <1>1, <1>4
  <2>. QED  BY <1>1, <1>4, <2>1, SlotsFitWrite
<1>6. ASSUME NEW o \in 1..Len(h2), h2[o].kind # "value"
      PROVE  Owed(h2[o]) = Cardinality(Holders(A, s2, o))
  <2>1. Cardinality(Holders(A2 \cup {k}, s2, o)) = Cardinality(Holders(A2, sl, o))
    <3>1. o # 0
      OBVIOUS
    <3>. HIDE DEF A2
    <3>. QED  BY <1>1, <1>2, <3>1, HoldersGain
  <2>2. A2 \cup {k} = A
    OBVIOUS
  <2>. HIDE DEF A2
  <2>. QED  BY <1>4, <1>6, <2>1, <2>2 DEF Counts
<1>7. Handles(A, s2, h2, tx, n)
  <2>1. A = A2 \cup {k}
    OBVIOUS
  <2>. HIDE DEF A2
  <2>2. Leads(A, tx, n) \subseteq Leads(A2, tx, n) \cup {k}
    BY <1>1, <2>1, LeadsMore
  <2>3. PointsTo(0, h2)
    BY DEF PointsTo
  <2>. QED  BY <1>1, <1>4, <2>2, <2>3, HandlesWrite
<1>. QED
  BY <1>1, <1>4, <1>5, <1>6, <1>7 DEF Memory, Counts

\* What the register owns is stored.
LEMMA MemoryStores ==
    ASSUME NEW A, NEW sl, NEW hp, NEW tx, NEW n, Memory(A, sl, hp, tx, n),
           0 \in A, -1 \notin A, NEW k \in SlotsOf(tx, n, Pointers), k \notin A,
           NEW s2, Writes(sl, s2, k, sl[0], n),
           NEW B \in States(tx, n), B = (A \ {0}) \cup {k}
    PROVE  Memory(B, s2, hp, tx, n)
<1>. DEFINE x  == sl[0]
            A2 == A \ {0}
<1>1. /\ n \in Nat /\ A \in States(tx, n) /\ hp \in Seq(Objects)
      /\ SlotsFit(sl, hp, tx, n) /\ Counts(A, sl, hp) /\ Handles(A, sl, hp, tx, n)
  BY DEF Memory
<1>2. /\ x \in 0..Len(hp) /\ k # 0 /\ k # -1
      /\ k \notin SlotsOf(tx, n, {"ref"}) /\ k \notin SlotsOf(tx, n, {"value"})
  BY Pointed, Registered
<1>. HIDE DEF x
<1>3. Writes(sl, s2, k, x, n) /\ sl[0] = x
  BY DEF x
<1>4. x \in (-n)..Len(hp) /\ ~(x < 0)
  BY <1>1, <1>2
<1>5. SlotsFit(s2, hp, tx, n)
  BY <1>1, <1>2, <1>3, <1>4, SlotsFitWrite
<1>6. A2 \in States(tx, n) /\ k \notin A2
  BY <1>1 DEF States
<1>7. ASSUME NEW o \in 1..Len(hp), hp[o].kind # "value"
      PROVE  Owed(hp[o]) = Cardinality(Holders(B, s2, o))
  <2>1. Cardinality(Holders(A \ {0}, sl, o))
          = IF sl[0] = o THEN Cardinality(Holders(A, sl, o)) - 1
            ELSE Cardinality(Holders(A, sl, o))
    <3>1. 0 # -1
      OBVIOUS
    <3>. QED  BY <1>1, <3>1, HoldersLose
  <2>2. Cardinality(Holders(A2, sl, o))
          = IF x = o THEN Cardinality(Holders(A, sl, o)) - 1
            ELSE Cardinality(Holders(A, sl, o))
    BY <1>3, <2>1
  <2>. HIDE DEF A2
  <2>3. Cardinality(Holders(A2 \cup {k}, s2, o))
          = IF x = o THEN Cardinality(Holders(A2, sl, o)) + 1
            ELSE Cardinality(Holders(A2, sl, o))
    BY <1>1, <1>3, <1>6, HoldersGain
  <2>4. Cardinality(Holders(A, sl, o)) \in Nat
    BY <1>1, HoldersFinite
  <2>5. Owed(hp[o]) = Cardinality(Holders(A, sl, o))
    BY <1>1, <1>7 DEF Counts
  <2>6. B = A2 \cup {k}
    BY DEF A2
  <2>7. CASE x = o
    <3>. DEFINE p == Cardinality(Holders(A, sl, o))
                q == Cardinality(Holders(A2, sl, o))
                r == Cardinality(Holders(B, s2, o))
    <3>1. q = p - 1
      BY <2>2, <2>7
    <3>2. r = q + 1
      BY <2>3, <2>6, <2>7
    <3>3. p \in Nat /\ Owed(hp[o]) = p
      BY <2>4, <2>5
    <3>. HIDE DEF p, q, r
    <3>4. r = p
      BY <3>1, <3>2, <3>3
    <3>. QED  BY <3>3, <3>4 DEF r
  <2>8. CASE x # o
    <3>1. Cardinality(Holders(B, s2, o)) = Cardinality(Holders(A2, sl, o))
      BY <2>3, <2>6, <2>8
    <3>2. Cardinality(Holders(A2, sl, o)) = Cardinality(Holders(A, sl, o))
      BY <2>2, <2>8
    <3>. QED  BY <2>5, <3>1, <3>2
  <2>. QED  BY <2>7, <2>8
<1>8. Handles(B, s2, hp, tx, n)
  <2>1. PointsTo(x, hp)
    BY <1>1 DEF Handles, Leads, x
  <2>2. Leads(B, tx, n) \subseteq Leads(A, tx, n) \cup {k}
    <3>1. Leads((A \ {0}) \cup {k}, tx, n) = SlotsOf(tx, n, Pointers)
          /\ SlotsOf(tx, n, Pointers) \subseteq Leads(A, tx, n)
      BY ZenonT(30), <1>1, LeadsRegister
    <3>2. B = (A \ {0}) \cup {k}
      OBVIOUS
    <3>. QED  BY <3>1, <3>2
  <2>. QED  BY <1>1, <1>3, <2>1, <2>2, HandlesWrite
<1>. QED
  BY <1>1, <1>5, <1>7, <1>8 DEF Memory, Counts

\* What the register owns replaces what the slot k owned.
LEMMA MemoryReplaces ==
    ASSUME NEW A, NEW sl, NEW hp, NEW tx, NEW n, Memory(A, sl, hp, tx, n),
           0 \in A, -1 \notin A, NEW k \in SlotsOf(tx, n, Pointers), k \in A,
           NEW h2, Loses(hp, h2, sl[k]), NEW s2, Writes(sl, s2, k, sl[0], n)
    PROVE  Memory(A \ {0}, s2, h2, tx, n)
<1>. DEFINE A1 == A \ {k}
            B  == A \ {0}
<1>1. n \in Nat /\ A \in States(tx, n) /\ k # 0 /\ k # -1
  BY Pointed DEF Memory
<1>2. A1 \in States(tx, n) /\ B \in States(tx, n)
  BY <1>1 DEF States
<1>3. 0 \in A1 /\ -1 \notin A1 /\ k \notin A1 /\ B = (A1 \ {0}) \cup {k}
  BY <1>1
<1>4. k \in {0} \cup SlotsOf(tx, n, Pointers)
  OBVIOUS
<1>5. Memory(A1, sl, h2, tx, n)
  BY <1>2, <1>4, MemoryLoses
<1>. HIDE DEF A1, B
<1>6. Memory(B, s2, h2, tx, n)
  BY <1>2, <1>3, <1>5, MemoryStores
<1>. QED
  BY <1>6 DEF B

-----------------------------------------------------------------------------
(* What the typing says of each instruction                                *)

LEMMA FitsNew ==
    ASSUME NEW i, NEW A, NEW T, NEW tx, NEW n \in Nat, Fits(i, A, T, tx, n), i.do = "new"
    PROVE  /\ i.at \in 1..Len(tx) /\ i.slot \notin A /\ i.slot \in 0..n
           /\ Kind[tx[i.at].v] \in {"unique", "shared", "value"}
           /\ i.slot \in SlotsOf(tx, n, {"value"}) => Kind[tx[i.at].v] = "value"
           /\ Kind[tx[i.at].v] = "value" => i.slot \notin {0} \cup SlotsOf(tx, n, Pointers)
           /\ After(i, A, tx) = IF Kind[tx[i.at].v] = "value" THEN A ELSE A \cup {i.slot}
<1>1. /\ i.at \in 1..Len(tx) /\ i.slot \notin A
      /\ \/ /\ Kind[tx[i.at].v] \in Pointers
            /\ i.slot \in SlotsOf(tx, n, Pointers) \cup {0}
         \/ Kind[tx[i.at].v] = "value" /\ i.slot \in SlotsOf(tx, n, {"value"})
  BY DEF Fits
<1>2. After(i, A, tx) = IF Kind[tx[i.at].v] = "value" THEN A ELSE A \cup {i.slot}
  BY DEF After
<1>3. i.slot \in 0..n
  BY <1>1 DEF SlotsOf
<1>4. CASE Kind[tx[i.at].v] \in Pointers /\ i.slot \in SlotsOf(tx, n, Pointers) \cup {0}
  <2>1. i.slot \notin SlotsOf(tx, n, {"value"})
    BY <1>4, PointerSlot DEF SlotsOf
  <2>. QED  BY <1>1, <1>2, <1>3, <1>4, <2>1 DEF Pointers
<1>5. CASE Kind[tx[i.at].v] = "value" /\ i.slot \in SlotsOf(tx, n, {"value"})
  <2>1. i.slot \notin {0} \cup SlotsOf(tx, n, Pointers)
    BY <1>5 DEF SlotsOf, Pointers
  <2>. QED  BY <1>1, <1>2, <1>3, <1>5, <2>1
<1>. QED
  BY <1>1, <1>4, <1>5

LEMMA FitsMove ==
    ASSUME NEW i, NEW A, NEW T, NEW tx, NEW n \in Nat, Fits(i, A, T, tx, n),
           i.do \in {"move", "share"}
    PROVE  /\ i.from \in A \cap SlotsOf(tx, n, Pointers)
           /\ i.slot \in {0} \cup SlotsOf(tx, n, Pointers) /\ i.slot \notin A
           /\ After(i, A, tx) = A \cup {i.slot}
<1>1. /\ i.from \in SlotsOf(tx, n, Pointers) \cap A
      /\ i.slot \in (SlotsOf(tx, n, Pointers) \cup {0}) \ A
  BY DEF Fits
<1>2. After(i, A, tx) = A \cup {i.slot}
  BY DEF After
<1>. QED
  BY <1>1, <1>2

LEMMA FitsAgain ==
    ASSUME NEW i, NEW A, NEW T, NEW tx, NEW n \in Nat, Fits(i, A, T, tx, n), i.do = "again"
    PROVE  /\ i.slot = 0 /\ 0 \in A /\ -1 \notin A
           /\ After(i, A, tx) = A \cup {-1}
<1>1. i.slot = 0 /\ 0 \in A /\ -1 \notin A
  BY DEF Fits
<1>2. After(i, A, tx) = A \cup {-1}
  BY DEF After
<1>. QED
  BY <1>1, <1>2

LEMMA FitsRead ==
    ASSUME NEW i, NEW A, NEW T, NEW tx, NEW n \in Nat, Fits(i, A, T, tx, n), i.do = "read"
    PROVE  /\ i.slot = 0 /\ 0 \notin A /\ i.from \in SlotsOf(tx, n, {"value"})
           /\ After(i, A, tx) = A \cup {-1, 0}
<1>1. i.slot = 0 /\ 0 \notin A /\ i.from \in SlotsOf(tx, n, {"value"})
  BY DEF Fits
<1>2. After(i, A, tx) = A \cup {-1, 0}
  BY DEF After
<1>. QED
  BY <1>1, <1>2

LEMMA FitsRefer ==
    ASSUME NEW i, NEW A, NEW T, NEW tx, NEW n \in Nat, Fits(i, A, T, tx, n), i.do = "refer"
    PROVE  /\ i.slot \in SlotsOf(tx, n, {"ref"}) /\ i.from \in 1..n
           /\ After(i, A, tx) = A
<1>1. i.slot \in SlotsOf(tx, n, {"ref"}) /\ i.from \in 1..n
  BY DEF Fits
<1>2. After(i, A, tx) = A
  BY DEF After
<1>. QED
  BY <1>1, <1>2

LEMMA FitsStore ==
    ASSUME NEW i, NEW A, NEW T, NEW tx, NEW n \in Nat, Fits(i, A, T, tx, n), i.do = "store"
    PROVE  /\ 0 \in A /\ -1 \notin A /\ i.slot \in SlotsOf(tx, n, Pointers) /\ i.slot \notin A
           /\ After(i, A, tx) = (A \ {0}) \cup {i.slot}
<1>1. 0 \in A /\ -1 \notin A /\ i.slot \in SlotsOf(tx, n, Pointers) \ A
  BY DEF Fits
<1>2. After(i, A, tx) = (A \ {0}) \cup {i.slot}
  BY DEF After
<1>. QED
  BY <1>1, <1>2

LEMMA FitsPut ==
    ASSUME NEW i, NEW A, NEW T, NEW tx, NEW n \in Nat, Fits(i, A, T, tx, n),
           i.do \in {"put", "graft"}
    PROVE  /\ 0 \in A /\ -1 \notin A /\ i.slot \in SlotsOf(tx, n, Pointers) /\ i.slot \in A
           /\ After(i, A, tx) = A \ {0}
<1>1. 0 \in A /\ -1 \notin A /\ i.slot \in SlotsOf(tx, n, Pointers) \cap A
  BY DEF Fits
<1>2. After(i, A, tx) = A \ {0}
  BY DEF After
<1>. QED
  BY <1>1, <1>2

LEMMA FitsAccess ==
    ASSUME NEW i, NEW A, NEW T, NEW tx, NEW n \in Nat, Fits(i, A, T, tx, n),
           i.do \in {"use", "write"}
    PROVE  /\ i.slot \in 1..n /\ After(i, A, tx) = A
           /\ Kind[tx[i.at].v] \in Pointers => i.slot \in A \cap SlotsOf(tx, n, Pointers)
<1>1. /\ i.slot \in 1..n
      /\ Kind[tx[i.at].v] \in Pointers => i.slot \in A \cap SlotsOf(tx, n, Pointers)
  BY DEF Fits
<1>2. After(i, A, tx) = A
  BY DEF After
<1>. QED
  BY <1>1, <1>2

LEMMA FitsRelease ==
    ASSUME NEW i, NEW A, NEW T, NEW tx, NEW n \in Nat, Fits(i, A, T, tx, n), i.do = "release"
    PROVE  i.slot \in A \cap SlotsOf(tx, n, Pointers) /\ After(i, A, tx) = A \ {i.slot}
<1>1. i.slot \in SlotsOf(tx, n, Pointers) \cap A
  BY DEF Fits
<1>2. After(i, A, tx) = A \ {i.slot}
  BY DEF After
<1>. QED
  BY <1>1, <1>2

LEMMA FitsDrop ==
    ASSUME NEW i, NEW A, NEW T, NEW tx, NEW n \in Nat, Fits(i, A, T, tx, n), i.do = "drop"
    PROVE  i.slot \in SlotsOf(tx, n, {"value"}) /\ After(i, A, tx) = A
<1>1. i.slot \in SlotsOf(tx, n, {"value"})
  BY DEF Fits
<1>2. After(i, A, tx) = A
  BY DEF After
<1>. QED
  BY <1>1, <1>2

LEMMA FitsGive ==
    ASSUME NEW i, NEW A, NEW T, NEW tx, NEW n \in Nat, Fits(i, A, T, tx, n), i.do = "give"
    PROVE  /\ \/ i.slot \in SlotsOf(tx, n, {"value"}) /\ Kind[tx[i.slot].v] # "unique"
              \/ i.slot \in A \cap SlotsOf(tx, n, Pointers) /\ Kind[tx[i.slot].v] = "unique"
           /\ After(i, A, tx) = A
<1>1. \/ i.slot \in SlotsOf(tx, n, {"value"})
      \/ i.slot \in A \cap SlotsOf(tx, n, {"unique"})
  BY DEF Fits
<1>2. After(i, A, tx) = A
  BY DEF After
<1>. QED
  BY <1>1, <1>2 DEF SlotsOf, Pointers

LEMMA FitsControl ==
    ASSUME NEW i, NEW A, NEW T, NEW tx, NEW n \in Nat, Fits(i, A, T, tx, n), i.do \in Control
    PROVE  A = T[i.to[1]] /\ After(i, A, tx) = A
<1>1. A = T[i.to[1]]
  BY DEF Fits, Control
<1>2. After(i, A, tx) = A
  BY DEF After, Control
<1>. QED
  BY <1>1, <1>2

LEMMA FitsRet ==
    ASSUME NEW i, NEW A, NEW T, NEW tx, NEW n \in Nat, Fits(i, A, T, tx, n), i.do = "ret"
    PROVE  A \subseteq {-1, 0} /\ (i.value <=> 0 \in A)
BY DEF Fits

-----------------------------------------------------------------------------
(* A run                                                                   *)

\* The instruction to run next fits what is owned, whatever way led to it.
At(S, T) ==
    /\ Program(code, S, T, text, profile.len) /\ pc \in 1..Len(code)
    /\ Memory(S[pc], slots, heap, text, profile.len)
    /\ code[pc].do = "again" => slots[0] = slots[code[pc].from]

LEMMA InstrFits ==
    ASSUME NEW S, NEW T, At(S, T)
    PROVE  /\ Fits(Instr, S[pc], T, text, profile.len) /\ Instr \in Instrs(profile.len)
           /\ profile.len \in Nat /\ pc \in DOMAIN code
           /\ S[pc] \in States(text, profile.len)
           /\ DOMAIN slots = 0..profile.len
<1>1. /\ Flow(code, S, T, text, profile.len) /\ pc \in 1..Len(code) /\ profile.len \in Nat
      /\ Memory(S[pc], slots, heap, text, profile.len)
  BY DEF At, Program
<1>2. /\ code \in Seq(Instrs(profile.len))
      /\ Fits(code[pc], S[pc], T, text, profile.len)
  BY <1>1 DEF Flow
<1>3. S[pc] \in States(text, profile.len) /\ DOMAIN slots = 0..profile.len
  BY <1>1 DEF Memory, SlotsFit
<1>. QED
  BY <1>1, <1>2, <1>3 DEF Instr

\* What follows an instruction that control does not leave.
Goes(S) ==
    /\ S[pc + 1] = After(Instr, S[pc], text)
    /\ S[pc + 1] \in States(text, profile.len)
    /\ pc + 1 \in 1..Len(code)
    /\ code[pc + 1].do = "again" => /\ Instr.do = "share" /\ Instr.slot = 0
                                    /\ Instr.from = code[pc + 1].from

LEMMA InstrGoes ==
    ASSUME NEW S, NEW T, At(S, T), ~Leaves(Instr)
    PROVE  Goes(S)
<1>1. /\ Flow(code, S, T, text, profile.len) /\ pc \in 1..Len(code)
      /\ Len(code) > 0 /\ Leaves(code[Len(code)])
      /\ code \in Seq(Instrs(profile.len)) /\ Len(code) \in Nat
  BY DEF At, Program, Flow
<1>2. pc # Len(code)
  BY <1>1 DEF Instr
<1>3. pc + 1 \in 1..Len(code)
  BY <1>1, <1>2
<1>4. /\ S[pc + 1] = After(Instr, S[pc], text)
  BY <1>1 DEF Flow, Instr
<1>5. S[pc + 1] \in States(text, profile.len)
  <2>1. pc + 1 \in 1..(Len(code) + 1)
    BY <1>1, <1>3
  <2>. QED  BY <1>1, <2>1 DEF Flow
<1>6. code[pc + 1].do = "again" => /\ Instr.do = "share" /\ Instr.slot = 0
                                   /\ Instr.from = code[pc + 1].from
  <2>1. (pc + 1) - 1 = pc
    BY <1>1
  <2>. QED  BY <1>1, <1>3, <2>1 DEF Flow, Instr
<1>. QED
  BY <1>3, <1>4, <1>5, <1>6 DEF Goes

LEMMA Advances ==
    ASSUME NEW S, NEW T, At(S, T), ~Leaves(Instr), pc' = pc + 1,
           UNCHANGED <<code, checkVars>>,
           Memory(After(Instr, S[pc], text), slots', heap', text, profile.len),
           Instr.do = "share" /\ Instr.slot = 0 => slots'[0] = slots'[Instr.from]
    PROVE  At(S, T)'
<1>1. Goes(S)
  BY InstrGoes
<1>2. code' = code /\ text' = text /\ profile' = profile
  BY DEF checkVars
<1>3. Program(code', S, T, text', profile'.len) /\ pc' \in 1..Len(code')
  BY <1>1, <1>2 DEF At, Goes
<1>4. Memory(S[pc'], slots', heap', text', profile'.len)
  BY <1>1, <1>2 DEF Goes
<1>5. code'[pc'].do = "again" => slots'[0] = slots'[code'[pc'].from]
  BY <1>1, <1>2 DEF Goes
<1>. QED
  BY <1>3, <1>4, <1>5 DEF At

-----------------------------------------------------------------------------
(* The steps of a run, one lemma per action                                *)

\* Nothing but the program counter, the slots and the heap.
LEMMA Unchanged ==
    ASSUME NEW S, NEW T, At(S, T), ~Leaves(Instr), pc' = pc + 1,
           UNCHANGED <<code, checkVars, slots, heap>>,
           After(Instr, S[pc], text) = S[pc], Instr.do # "share"
    PROVE  At(S, T)'
<1>1. Memory(S[pc], slots, heap, text, profile.len)
  BY DEF At
<1>2. Memory(After(Instr, S[pc], text), slots', heap', text, profile.len)
  BY <1>1
<1>. QED
  BY <1>2, Advances

LEMMA RunNew ==
    ASSUME NEW S, NEW T, At(S, T), New PROVE At(S, T)'
<1>. DEFINE n == profile.len
            i == Instr
            A == S[pc]
            B == After(i, A, text)
            kind == Kind[text[i.at].v]
<1>1. /\ i.do = "new" /\ pc' = pc + 1 /\ UNCHANGED <<code, checkVars>>
      /\ heap' = Append(heap, [kind |-> kind, owners |-> 1, lost |-> 0])
      /\ slots' = [slots EXCEPT ![i.slot] = Len(heap) + 1]
  BY DEF New, Running, NewObject
<1>2. /\ Fits(i, A, T, text, n) /\ n \in Nat /\ DOMAIN slots = 0..n
      /\ Memory(A, slots, heap, text, n)
  BY InstrFits DEF At
<1>3. ~Leaves(i)
  BY <1>1 DEF Leaves
<1>4. B \in States(text, n)
  BY <1>3, InstrGoes DEF Goes
<1>. HIDE DEF n, i, A, B, kind
<1>5. /\ i.slot \notin A /\ i.slot \in 0..n /\ kind \in {"unique", "shared", "value"}
      /\ i.slot \in SlotsOf(text, n, {"value"}) => kind = "value"
      /\ kind = "value" => i.slot \notin {0} \cup SlotsOf(text, n, Pointers)
      /\ i.slot # -1
      /\ B = IF kind = "value" THEN A ELSE A \cup {i.slot}
  BY <1>1, <1>2, FitsNew DEF B, kind
<1>6. Writes(slots, slots', i.slot, Len(heap) + 1, n)
  BY <1>1, <1>2, <1>5 DEF Writes
<1>7. Memory(B, slots', heap', text, n)
  BY <1>1, <1>2, <1>4, <1>5, <1>6, MemoryMakes
<1>. QED
  BY <1>1, <1>3, <1>7, Advances DEF n, i, A, B

LEMMA RunMove ==
    ASSUME NEW S, NEW T, At(S, T), Move PROVE At(S, T)'
<1>. DEFINE n == profile.len
            i == Instr
            A == S[pc]
            B == After(i, A, text)
            s1 == [slots EXCEPT ![i.from] = 0]
<1>1. /\ i.do = "move" /\ pc' = pc + 1 /\ UNCHANGED <<code, checkVars, heap>>
      /\ slots' = [slots EXCEPT ![i.from] = 0, ![i.slot] = slots[i.from]]
  BY DEF Move, Running
<1>2. /\ Fits(i, A, T, text, n) /\ n \in Nat /\ DOMAIN slots = 0..n
      /\ Memory(A, slots, heap, text, n)
  BY InstrFits DEF At
<1>3. ~Leaves(i)
  BY <1>1 DEF Leaves
<1>4. B \in States(text, n)
  BY <1>3, InstrGoes DEF Goes
<1>. HIDE DEF n, i, A, B
<1>5. /\ i.from \in A \cap SlotsOf(text, n, Pointers)
      /\ i.slot \in {0} \cup SlotsOf(text, n, Pointers) /\ i.slot \notin A
      /\ B = A \cup {i.slot}
  BY <1>1, <1>2, FitsMove DEF B
<1>6. i.from \in 0..n /\ i.slot \in 0..n
  BY <1>2, <1>5, PointerSlot
<1>7. slots' = [s1 EXCEPT ![i.slot] = slots[i.from]]
  BY <1>1
<1>8. Writes(slots, s1, i.from, 0, n)
  BY <1>2, <1>6 DEF Writes
<1>. HIDE DEF s1
<1>9. DOMAIN s1 = 0..n
  BY <1>8, WritesEffect
<1>10. Writes(s1, slots', i.slot, slots[i.from], n)
  BY <1>6, <1>7, <1>9 DEF Writes
<1>11. Memory(B, slots', heap, text, n)
  BY <1>2, <1>4, <1>5, <1>8, <1>10, MemoryMoves
<1>12. Memory(B, slots', heap', text, n)
  BY <1>1, <1>11
<1>. QED
  BY <1>1, <1>3, <1>12, Advances DEF n, i, A, B

LEMMA Rewrites ==
    ASSUME NEW n, NEW R, NEW sl \in [0..n -> R], NEW k, NEW s2, s2 = [sl EXCEPT ![k] = sl[k]]
    PROVE  s2 = sl
OBVIOUS

LEMMA RunShare ==
    ASSUME NEW S, NEW T, At(S, T), Share PROVE At(S, T)'
<1>. DEFINE n == profile.len
            i == Instr
            A == S[pc]
            B == After(i, A, text)
            x == slots[i.from]
<1>1. /\ i.do \in {"share", "again"} /\ pc' = pc + 1 /\ UNCHANGED <<code, checkVars>>
      /\ slots' = [slots EXCEPT ![i.slot] = x]
      /\ heap' = Count(x, 1)
  BY DEF Share, Running
<1>2. /\ Fits(i, A, T, text, n) /\ n \in Nat /\ DOMAIN slots = 0..n
      /\ Memory(A, slots, heap, text, n)
  BY InstrFits DEF At
<1>3. ~Leaves(i)
  BY <1>1 DEF Leaves
<1>4. B \in States(text, n)
  BY <1>3, InstrGoes DEF Goes
<1>5. i.do = "again" => slots[0] = x
  BY DEF At, Instr
<1>6. Counted(heap, heap', x, 1)
  BY <1>1 DEF Counted, Count, Freed
<1>. HIDE DEF n, i, A, B
<1>7. CASE i.do = "share"
  <2>1. /\ i.from \in A \cap SlotsOf(text, n, Pointers)
        /\ i.slot \in {0} \cup SlotsOf(text, n, Pointers) /\ i.slot \notin A
        /\ B = A \cup {i.slot}
    BY <1>2, <1>7, FitsMove DEF B
  <2>2. i.from \in 0..n /\ i.slot \in 0..n /\ i.from # i.slot
    BY <1>2, <2>1, PointerSlot
  <2>3. Writes(slots, slots', i.slot, x, n)
    BY <1>1, <1>2, <2>2 DEF Writes
  <2>4. Memory(B, slots', heap', text, n)
    BY <1>2, <1>4, <1>6, <2>1, <2>3, MemoryShares
  <2>5. i.slot = 0 => slots'[0] = slots'[i.from]
    BY <2>2, <2>3, WritesEffect
  <2>. QED  BY <1>1, <1>3, <2>4, <2>5, Advances DEF n, i, A, B
<1>8. CASE i.do = "again"
  <2>1. i.slot = 0 /\ 0 \in A /\ -1 \notin A /\ B = A \cup {-1}
    BY <1>2, <1>8, FitsAgain DEF B
  <2>2. x = slots[0] /\ slots' = [slots EXCEPT ![0] = x]
    BY <1>1, <1>5, <1>8, <2>1
  <2>. HIDE DEF x
  <2>3. slots \in [0..n -> (-n)..Len(heap)]
    BY <1>2 DEF Memory, SlotsFit
  <2>4. slots' = slots
    BY <2>2, <2>3, Rewrites
  <2>5. Counted(heap, heap', slots[0], 1)
    BY <1>6, <2>2
  <2>6. Memory(B, slots, heap', text, n)
    BY <1>2, <1>4, <2>1, <2>5, MemoryRepeats
  <2>7. Memory(B, slots', heap', text, n) /\ i.do # "share"
    BY <1>8, <2>4, <2>6
  <2>. QED  BY <1>1, <1>3, <2>7, Advances DEF n, i, A, B
<1>. QED
  BY <1>1, <1>7, <1>8

LEMMA RunRead ==
    ASSUME NEW S, NEW T, At(S, T), Read PROVE At(S, T)'
<1>. DEFINE n == profile.len
            i == Instr
            A == S[pc]
            B == After(i, A, text)
            x == IF i.do = "refer" /\ Kind[text[i.from].v] = "value"
                 THEN -i.from ELSE slots[i.from]
<1>1. /\ i.do \in {"read", "refer"} /\ pc' = pc + 1 /\ UNCHANGED <<code, checkVars, heap>>
      /\ slots' = [slots EXCEPT ![i.slot] = x]
  BY DEF Read, Running
<1>2. /\ Fits(i, A, T, text, n) /\ n \in Nat /\ DOMAIN slots = 0..n
      /\ Memory(A, slots, heap, text, n)
  BY InstrFits DEF At
<1>3. ~Leaves(i)
  BY <1>1 DEF Leaves
<1>4. B \in States(text, n)
  BY <1>3, InstrGoes DEF Goes
<1>. HIDE DEF n, i, A, B
<1>5. CASE i.do = "read"
  <2>1. i.slot = 0 /\ 0 \notin A /\ i.from \in SlotsOf(text, n, {"value"})
        /\ B = A \cup {-1, 0}
    BY <1>2, <1>5, FitsRead DEF B
  <2>2. x = slots[i.from]
    BY <1>5
  <2>. HIDE DEF x
  <2>3. Writes(slots, slots', 0, slots[i.from], n)
    BY <1>1, <1>2, <2>1, <2>2 DEF Writes
  <2>4. Memory(B, slots', heap, text, n)
    BY <1>2, <1>4, <2>1, <2>3, MemoryReads
  <2>5. Memory(B, slots', heap', text, n) /\ i.do # "share"
    BY <1>1, <1>5, <2>4
  <2>. QED  BY <1>1, <1>3, <2>5, Advances DEF n, i, A, B
<1>6. CASE i.do = "refer"
  <2>1. i.slot \in SlotsOf(text, n, {"ref"}) /\ i.from \in 1..n /\ B = A
    BY <1>2, <1>6, FitsRefer DEF B
  <2>2. x \in (-n)..Len(heap)
    <3>1. slots \in [0..n -> (-n)..Len(heap)] /\ Len(heap) \in Nat
      BY <1>2 DEF Memory, SlotsFit
    <3>2. slots[i.from] \in (-n)..Len(heap) /\ -i.from \in (-n)..Len(heap)
      BY <1>2, <2>1, <3>1
    <3>. QED  BY <3>2
  <2>. HIDE DEF x
  <2>3. i.slot \in 0..n /\ i.slot \notin A
    <3>1. i.slot \in 1..n /\ i.slot \notin SlotsOf(text, n, Pointers)
      BY <2>1 DEF SlotsOf, Pointers
    <3>2. A \in States(text, n)
      BY <1>2 DEF Memory
    <3>. QED  BY <1>2, <3>1, <3>2 DEF States
  <2>4. Writes(slots, slots', i.slot, x, n)
    BY <1>1, <1>2, <2>3 DEF Writes
  <2>5. Memory(A, slots', heap, text, n)
    BY <1>2, <2>1, <2>2, <2>3, <2>4, MemoryPuts
  <2>6. Memory(B, slots', heap', text, n) /\ i.do # "share"
    BY <1>1, <1>6, <2>1, <2>5
  <2>. QED  BY <1>1, <1>3, <2>6, Advances DEF n, i, A, B
<1>. QED
  BY <1>1, <1>5, <1>6
LEMMA RunStore ==
    ASSUME NEW S, NEW T, At(S, T), Store PROVE At(S, T)'
<1>. DEFINE n == profile.len
            i == Instr
            A == S[pc]
            B == After(i, A, text)
<1>1. /\ i.do = "store" /\ pc' = pc + 1 /\ UNCHANGED <<code, checkVars, heap>>
      /\ slots' = [slots EXCEPT ![i.slot] = slots[0]]
  BY DEF Store, Running
<1>2. /\ Fits(i, A, T, text, n) /\ n \in Nat /\ DOMAIN slots = 0..n
      /\ Memory(A, slots, heap, text, n)
  BY InstrFits DEF At
<1>3. ~Leaves(i)
  BY <1>1 DEF Leaves
<1>4. B \in States(text, n)
  BY <1>3, InstrGoes DEF Goes
<1>. HIDE DEF n, i, A, B
<1>5. /\ 0 \in A /\ -1 \notin A /\ i.slot \in SlotsOf(text, n, Pointers) /\ i.slot \notin A
      /\ B = (A \ {0}) \cup {i.slot}
  BY <1>1, <1>2, FitsStore DEF B
<1>6. i.slot \in 0..n
  BY <1>2, <1>5, PointerSlot
<1>7. Writes(slots, slots', i.slot, slots[0], n)
  BY <1>1, <1>2, <1>6 DEF Writes
<1>8. Memory(B, slots', heap, text, n)
  BY <1>2, <1>4, <1>5, <1>7, MemoryStores
<1>9. Memory(B, slots', heap', text, n)
  BY <1>1, <1>8
<1>. QED
  BY <1>1, <1>3, <1>9, Advances DEF n, i, A, B

LEMMA RunPlainStore ==
    ASSUME NEW S, NEW T, At(S, T), PlainStore PROVE At(S, T)'
<1>. DEFINE n == profile.len
            i == Instr
            A == S[pc]
            B == After(i, A, text)
<1>1. /\ i.do = "put" /\ pc' = pc + 1 /\ UNCHANGED <<code, checkVars>>
      /\ heap' = Lose(slots[i.slot])
      /\ slots' = [slots EXCEPT ![i.slot] = slots[0]]
  BY DEF PlainStore, Running
<1>2. /\ Fits(i, A, T, text, n) /\ n \in Nat /\ DOMAIN slots = 0..n
      /\ Memory(A, slots, heap, text, n)
  BY InstrFits DEF At
<1>3. ~Leaves(i)
  BY <1>1 DEF Leaves
<1>. HIDE DEF n, i, A, B
<1>4. /\ 0 \in A /\ -1 \notin A /\ i.slot \in SlotsOf(text, n, Pointers) /\ i.slot \in A
      /\ B = A \ {0}
  BY <1>1, <1>2, FitsPut DEF B
<1>5. i.slot \in 0..n
  BY <1>2, <1>4, PointerSlot
<1>6. Writes(slots, slots', i.slot, slots[0], n)
  BY <1>1, <1>2, <1>5 DEF Writes
<1>7. Loses(heap, heap', slots[i.slot])
  BY <1>1 DEF Lose, Loses
<1>8. Memory(B, slots', heap', text, n)
  BY <1>2, <1>4, <1>6, <1>7, MemoryReplaces
<1>. QED
  BY <1>1, <1>3, <1>8, Advances DEF n, i, A, B

LEMMA RunGraft ==
    ASSUME NEW S, NEW T, At(S, T), Graft PROVE At(S, T)'
<1>. DEFINE n == profile.len
            i == Instr
            A == S[pc]
            B == After(i, A, text)
<1>1. /\ i.do = "graft" /\ pc' = pc + 1 /\ UNCHANGED <<code, checkVars, slots>>
      /\ heap' = Lose(slots[0])
  BY DEF Graft, Running
<1>2. /\ Fits(i, A, T, text, n) /\ n \in Nat
      /\ Memory(A, slots, heap, text, n)
  BY InstrFits DEF At
<1>3. ~Leaves(i)
  BY <1>1 DEF Leaves
<1>4. B \in States(text, n)
  BY <1>3, InstrGoes DEF Goes
<1>. HIDE DEF n, i, A, B
<1>5. 0 \in A /\ B = A \ {0}
  BY <1>1, <1>2, FitsPut DEF B
<1>6. Loses(heap, heap', slots[0])
  BY <1>1 DEF Lose, Loses
<1>7. Memory(B, slots, heap', text, n)
  BY <1>2, <1>4, <1>5, <1>6, MemoryLoses
<1>8. Memory(B, slots', heap', text, n)
  BY <1>1, <1>7
<1>. QED
  BY <1>1, <1>3, <1>8, Advances DEF n, i, A, B

LEMMA RunAccess ==
    ASSUME NEW S, NEW T, At(S, T), Access PROVE At(S, T)'
<1>1. /\ Instr.do = "use" /\ pc' = pc + 1
      /\ UNCHANGED <<code, checkVars, slots, heap>>
  BY DEF Access, Running
<1>2. After(Instr, S[pc], text) = S[pc]
  BY <1>1, InstrFits, FitsAccess
<1>3. ~Leaves(Instr)
  BY <1>1 DEF Leaves
<1>. QED
  BY <1>1, <1>2, <1>3, Unchanged

LEMMA RunOverwrite ==
    ASSUME NEW S, NEW T, At(S, T), Overwrite PROVE At(S, T)'
<1>. DEFINE n == profile.len
            i == Instr
            A == S[pc]
            x == slots[i.slot]
            t == IF x < 0 THEN -x ELSE i.slot
<1>1. /\ i.do = "write" /\ pc' = pc + 1 /\ UNCHANGED <<code, checkVars>>
      /\ IF Kind[text[t].v] = "value"
         THEN /\ heap' = Append(heap, [kind |-> "value", owners |-> 1, lost |-> 0])
              /\ slots' = [slots EXCEPT ![t] = Len(heap) + 1]
         ELSE UNCHANGED <<heap, slots>>
  BY DEF Overwrite, Running, NewObject
<1>2. /\ Fits(i, A, T, text, n) /\ n \in Nat /\ DOMAIN slots = 0..n
      /\ Memory(A, slots, heap, text, n)
  BY InstrFits DEF At
<1>3. ~Leaves(i)
  BY <1>1 DEF Leaves
<1>. HIDE DEF n, i, A
<1>4. i.slot \in 1..n /\ After(i, A, text) = A
  BY <1>1, <1>2, FitsAccess
<1>5. t \in 1..n
  <2>1. slots \in [0..n -> (-n)..Len(heap)]
    BY <1>2 DEF Memory, SlotsFit
  <2>2. x \in (-n)..Len(heap)
    BY <1>2, <1>4, <2>1
  <2>. HIDE DEF x
  <2>3. CASE x < 0
    BY <1>2, <2>2, <2>3
  <2>4. CASE ~(x < 0)
    BY <1>4, <2>4
  <2>. QED  BY <2>3, <2>4
<1>. HIDE DEF t
<1>6. CASE Kind[text[t].v] = "value"
  <2>1. A \in States(text, n)
    BY <1>2 DEF Memory
  <2>2. t \notin A /\ t \notin {0} \cup SlotsOf(text, n, Pointers) /\ t # -1
    <3>1. t \notin SlotsOf(text, n, Pointers)
      BY <1>6, PointerSlot DEF Pointers
    <3>2. t # 0 /\ t # -1
      BY <1>2, <1>5
    <3>. QED  BY <1>2, <1>5, <2>1, <3>1, <3>2, StateSlots
  <2>3. Writes(slots, slots', t, Len(heap) + 1, n)
    BY <1>1, <1>2, <1>5, <1>6 DEF Writes
  <2>4. Memory(A, slots', heap', text, n)
    BY <1>1, <1>2, <1>6, <2>1, <2>2, <2>3, MemoryMakes
  <2>5. Memory(After(i, A, text), slots', heap', text, n) /\ i.do # "share"
    BY <1>1, <1>4, <2>4
  <2>. QED  BY <1>1, <1>3, <2>5, Advances DEF n, i, A
<1>7. CASE Kind[text[t].v] # "value"
  <2>1. UNCHANGED <<slots, heap>> /\ i.do # "share"
    BY <1>1, <1>7
  <2>. QED  BY <1>1, <1>3, <1>4, <2>1, Unchanged DEF n, i, A
<1>. QED
  BY <1>6, <1>7

LEMMA RunRelease ==
    ASSUME NEW S, NEW T, At(S, T), Release PROVE At(S, T)'
<1>. DEFINE n == profile.len
            i == Instr
            A == S[pc]
            B == After(i, A, text)
<1>1. /\ i.do \in {"release", "drop"} /\ pc' = pc + 1
      /\ UNCHANGED <<code, checkVars, slots>>
      /\ heap' = Count(slots[i.slot], -1)
  BY DEF Release, Running
<1>2. /\ Fits(i, A, T, text, n) /\ n \in Nat /\ DOMAIN slots = 0..n
      /\ Memory(A, slots, heap, text, n)
  BY InstrFits DEF At
<1>3. ~Leaves(i)
  BY <1>1 DEF Leaves
<1>4. B \in States(text, n)
  BY <1>3, InstrGoes DEF Goes
<1>5. Counted(heap, heap', slots[i.slot], -1)
  BY <1>1 DEF Counted, Count, Freed
<1>. HIDE DEF n, i, A, B
<1>6. Memory(B, slots, heap', text, n)
  <2>1. CASE i.do = "release"
    <3>1. i.slot \in A \cap SlotsOf(text, n, Pointers) /\ B = A \ {i.slot}
      BY <1>2, <2>1, FitsRelease DEF B
    <3>. QED  BY <1>2, <1>4, <1>5, <3>1, MemoryReleases
  <2>2. CASE i.do = "drop"
    <3>1. i.slot \in SlotsOf(text, n, {"value"}) /\ B = A
      BY <1>2, <2>2, FitsDrop DEF B
    <3>. QED  BY <1>2, <1>5, <3>1, MemoryDrops
  <2>. QED  BY <1>1, <2>1, <2>2
<1>7. Memory(B, slots', heap', text, n) /\ i.do # "share"
  BY <1>1, <1>6
<1>. QED
  BY <1>1, <1>3, <1>7, Advances DEF n, i, A, B

LEMMA RunGive ==
    ASSUME NEW S, NEW T, At(S, T), Give PROVE At(S, T)'
<1>. DEFINE n == profile.len
            i == Instr
            A == S[pc]
<1>1. /\ i.do = "give" /\ pc' = pc + 1 /\ UNCHANGED <<code, checkVars>>
      /\ heap' = Count(slots[i.slot], -1)
      /\ slots' = IF Kind[text[i.slot].v] = "unique"
                  THEN [slots EXCEPT ![i.slot] = 0] ELSE slots
  BY DEF Give, Running
<1>2. /\ Fits(i, A, T, text, n) /\ n \in Nat /\ DOMAIN slots = 0..n
      /\ Memory(A, slots, heap, text, n)
  BY InstrFits DEF At
<1>3. ~Leaves(i)
  BY <1>1 DEF Leaves
<1>4. Counted(heap, heap', slots[i.slot], -1)
  BY <1>1 DEF Counted, Count, Freed
<1>. HIDE DEF n, i, A
<1>5. /\ \/ i.slot \in SlotsOf(text, n, {"value"}) /\ Kind[text[i.slot].v] # "unique"
         \/ i.slot \in A \cap SlotsOf(text, n, Pointers) /\ Kind[text[i.slot].v] = "unique"
      /\ After(i, A, text) = A
  BY <1>1, <1>2, FitsGive
<1>6. Memory(A, slots', heap', text, n)
  <2>1. CASE i.slot \in SlotsOf(text, n, {"value"}) /\ Kind[text[i.slot].v] # "unique"
    <3>1. Memory(A, slots, heap', text, n)
      BY <1>2, <1>4, <2>1, MemoryDrops
    <3>2. slots' = slots
      BY <1>1, <2>1
    <3>. QED  BY <3>1, <3>2
  <2>2. CASE i.slot \in A \cap SlotsOf(text, n, Pointers) /\ Kind[text[i.slot].v] = "unique"
    <3>1. i.slot \in 0..n
      BY <1>2, <2>2, PointerSlot
    <3>2. Writes(slots, slots', i.slot, 0, n)
      BY <1>1, <1>2, <2>2, <3>1 DEF Writes
    <3>. QED  BY <1>2, <1>4, <2>2, <3>2, MemoryGives
  <2>. QED  BY <1>5, <2>1, <2>2
<1>7. Memory(After(i, A, text), slots', heap', text, n) /\ i.do # "share"
  BY <1>1, <1>5, <1>6
<1>. QED
  BY <1>1, <1>3, <1>7, Advances DEF n, i, A

\* The place of a label is owned as the jump to it is.
LEMMA Lands ==
    ASSUME NEW S, NEW T, At(S, T), Instr.do \in {"jmp", "br"}, pc' = Goto(Instr.to),
           UNCHANGED <<code, checkVars, slots, heap>>
    PROVE  At(S, T)'
<1>. DEFINE n == profile.len
            i == Instr
            l == Goto(Instr.to)
<1>1. /\ Program(code, S, T, text, n) /\ Flow(code, S, T, text, n)
      /\ code \in Seq(Instrs(n)) /\ n \in Nat
      /\ pc \in DOMAIN code /\ Fits(i, S[pc], T, text, n)
      /\ Memory(S[pc], slots, heap, text, n)
  BY InstrFits DEF At, Program, Flow
<1>2. i.to \in Placed(code)
  <2>1. i.to \in Jumps(code)
    BY <1>1 DEF Jumps, Instr
  <2>. QED  BY <1>1, <2>1 DEF Program
<1>3. \E k \in DOMAIN code : code[k].do = "label" /\ code[k].to = i.to
  BY <1>2 DEF Placed
<1>4. l \in DOMAIN code /\ code[l].do = "label" /\ code[l].to = i.to
  BY <1>3 DEF Goto
<1>5. pc' = l
  OBVIOUS
<1>. HIDE DEF n, i, l
<1>6. Fits(code[l], S[l], T, text, n)
  <2>1. l \in 1..Len(code)
    BY <1>1, <1>4
  <2>. QED  BY <1>1, <2>1 DEF Flow
<1>7. S[pc] = T[i.to[1]]
  <2>1. i.do \in Control
    BY DEF Control, i
  <2>. QED  BY <1>1, <2>1, FitsControl
<1>8. S[l] = T[i.to[1]]
  <2>1. code[l].do \in Control
    BY <1>4 DEF Control
  <2>2. S[l] = T[code[l].to[1]]
    BY <1>1, <1>6, <2>1, FitsControl
  <2>. QED  BY <1>4, <2>2
<1>9. Memory(S[l], slots, heap, text, n) /\ l \in 1..Len(code) /\ code[l].do # "again"
  BY <1>1, <1>4, <1>7, <1>8
<1>10. /\ code' = code /\ text' = text /\ profile' = profile /\ slots' = slots
       /\ heap' = heap /\ pc' = l
  BY <1>5 DEF checkVars
<1>. QED
  BY <1>1, <1>9, <1>10 DEF At, n

LEMMA RunBranch ==
    ASSUME NEW S, NEW T, At(S, T), BranchOn PROVE At(S, T)'
<1>1. /\ Instr.do = "br" /\ UNCHANGED <<code, checkVars, slots, heap>>
      /\ pc' = pc + 1 \/ pc' = Goto(Instr.to)
  BY DEF BranchOn, Running
<1>2. After(Instr, S[pc], text) = S[pc]
  <2>1. Instr.do \in Control
    BY <1>1 DEF Control
  <2>. QED  BY <2>1, InstrFits, FitsControl
<1>3. ~Leaves(Instr)
  BY <1>1 DEF Leaves
<1>4. CASE pc' = pc + 1
  BY <1>1, <1>2, <1>3, <1>4, Unchanged
<1>5. CASE pc' = Goto(Instr.to)
  BY <1>1, <1>5, Lands
<1>. QED
  BY <1>1, <1>4, <1>5

LEMMA RunFollow ==
    ASSUME NEW S, NEW T, At(S, T), Follow PROVE At(S, T)'
<1>1. /\ Instr.do \in {"jmp", "label"} /\ UNCHANGED <<code, checkVars, slots, heap>>
      /\ pc' = IF Instr.do = "jmp" THEN Goto(Instr.to) ELSE pc + 1
  BY DEF Follow, Running
<1>2. After(Instr, S[pc], text) = S[pc]
  <2>1. Instr.do \in Control
    BY <1>1 DEF Control
  <2>. QED  BY <2>1, InstrFits, FitsControl
<1>3. CASE Instr.do = "label"
  <2>1. ~Leaves(Instr)
    BY <1>3 DEF Leaves
  <2>. QED  BY <1>1, <1>2, <1>3, <2>1, Unchanged
<1>4. CASE Instr.do = "jmp"
  BY <1>1, <1>4, Lands
<1>. QED
  BY <1>1, <1>3, <1>4

\* The first instruction: nothing was made, and nothing is owned.
LEMMA RunGenerate ==
    ASSUME CheckInv, Generate, slots = [i \in 0..profile.len |-> 0], heap = <<>>
    PROVE  \E S, T : At(S, T)'
<1>. DEFINE n == profile.len
<1>1. /\ Compiles(scopes, text, n) /\ Len(scopes) = 1 /\ scopes[1].kind = "body"
      /\ code' = GenFunction /\ pc' = 1 /\ UNCHANGED <<text, profile, slots, heap>>
  BY DEF CheckInv, Generate
<1>2. PICK S, T : Program(code', S, T, text, n)
  BY <1>1, FunctionIsProgram DEF GenFunction
<1>3. /\ Flow(code', S, T, text, n) /\ n \in Nat /\ Len(code') > 0
      /\ code' \in Seq(Instrs(n)) /\ S[1] = {}
  BY <1>2 DEF Program, Flow
<1>4. 1 \in 1..Len(code') /\ code'[1].do # "again"
  BY <1>3 DEF Flow
<1>5. Memory({}, slots, heap, text, n)
  <2>1. {} \in States(text, n) /\ heap \in Seq(Objects) /\ Len(heap) = 0
    BY DEF States
  <2>2. slots \in [0..n -> (-n)..Len(heap)]
    BY <1>3, <2>1
  <2>3. \A k \in 0..n : slots[k] = 0
    OBVIOUS
  <2>4. SlotsFit(slots, heap, text, n)
    <3>1. SlotsOf(text, n, {"value"}) \subseteq 0..n
      BY <1>3 DEF SlotsOf
    <3>. QED  BY <2>2, <2>3, <3>1 DEF SlotsFit
  <2>5. Counts({}, slots, heap)
    BY <2>1 DEF Counts
  <2>6. Handles({}, slots, heap, text, n)
    <3>1. Leads({}, text, n) \subseteq 0..n
      BY <1>3 DEF Leads, SlotsOf
    <3>. QED  BY <2>3, <3>1 DEF Handles, PointsTo
  <2>. QED  BY <1>3, <2>1, <2>4, <2>5, <2>6 DEF Memory
<1>6. /\ Program(code', S, T, text', profile'.len) /\ pc' \in 1..Len(code')
      /\ Memory(S[pc'], slots', heap', text', profile'.len)
      /\ code'[pc'].do = "again" => slots'[0] = slots'[code'[pc'].from]
  <2>. HIDE DEF n
  <2>1. text' = text /\ profile'.len = n /\ slots' = slots /\ heap' = heap /\ pc' = 1
    BY <1>1 DEF n
  <2>. QED  BY <1>2, <1>3, <1>4, <1>5, <2>1
<1>7. At(S, T)'
  BY <1>6 DEF At
<1>. QED
  BY <1>7

-----------------------------------------------------------------------------
(* Pointers stay alive                                                     *)

\* What a pointer that owns leads to is not freed.
LEMMA PointerAlive ==
    ASSUME NEW A, NEW sl, NEW hp, NEW tx, NEW n, Memory(A, sl, hp, tx, n),
           NEW t \in A \cap Leads(A, tx, n), sl[t] # 0
    PROVE  hp[sl[t]].owners # 0
<1>1. PointsTo(sl[t], hp) /\ n \in Nat
  BY DEF Memory, Handles
<1>2. t # -1
  BY <1>1 DEF Leads, SlotsOf
<1>3. sl[t] \in 1..Len(hp) /\ hp[sl[t]].kind # "value"
  BY <1>1 DEF PointsTo
<1>. QED
  BY <1>2, <1>3, OwnedAlive

\* The same for the instruction to run next: of a pointer's own slot, and of
\* the register that is shared once more.
LEMMA AtAlive ==
    ASSUME NEW S, NEW T, At(S, T), NEW k,
           \/ k \in S[pc] \cap SlotsOf(text, profile.len, Pointers)
           \/ k = 0 /\ 0 \in S[pc] /\ -1 \notin S[pc]
    PROVE  slots[k] = 0 \/ ~Freed(slots[k])
<1>1. Memory(S[pc], slots, heap, text, profile.len)
  BY DEF At
<1>2. k \in S[pc] \cap Leads(S[pc], text, profile.len)
  BY DEF Leads
<1>. QED
  BY <1>1, <1>2, PointerAlive DEF Freed

\* Not one of the faults that a pointer is spared.
Spares(kind, at) ==
    /\ kind # "double free"
    /\ kind = "use after free" => Kind[text[at].v] \notin {"unique", "shared"}

LEMMA FaultSpares ==
    ASSUME PointersAreAlive, text' = text, NEW kind, Spares(kind, Instr.at),
           faults' = Fault(kind) \/ faults' = faults
    PROVE  PointersAreAlive'
<1>1. ASSUME NEW f \in faults' PROVE Spares(f[1], f[2])
  <2>1. f \in faults => Spares(f[1], f[2])
    BY DEF PointersAreAlive, Spares
  <2>2. f \in faults \/ f = <<kind, Instr.at>>
    BY <1>1 DEF Fault
  <2>. QED  BY <2>1, <2>2
<1>. QED
  BY <1>1 DEF PointersAreAlive, Spares

LEMMA TouchedSpares ==
    ASSUME PointersAreAlive, text' = text, NEW o, faults' = Touched(o),
           o = 0 \/ ~Freed(o) \/ Kind[text[Instr.at].v] \notin {"unique", "shared"}
    PROVE  PointersAreAlive'
<1>1. Spares("null access", Instr.at)
  BY DEF Spares
<1>2. CASE faults' = Fault("null access") \/ faults' = faults
  BY <1>1, <1>2, FaultSpares
<1>3. CASE o # 0 /\ Freed(o) /\ faults' = Fault("use after free")
  <2>1. Spares("use after free", Instr.at)
    BY <1>3 DEF Spares
  <2>. QED  BY <1>3, <2>1, FaultSpares
<1>. QED
  BY <1>2, <1>3 DEF Touched

LEMMA ShareSpares ==
    ASSUME NEW S, NEW T, At(S, T), PointersAreAlive, Share PROVE PointersAreAlive'
<1>. DEFINE o == slots[Instr.from]
<1>1. /\ Instr.do \in {"share", "again"} /\ text' = text
      /\ faults' = IF o = 0 THEN faults ELSE Touched(o)
  BY DEF Share, Running, checkVars
<1>2. o = 0 \/ ~Freed(o)
  <2>1. CASE Instr.do = "share"
    <3>1. Instr.from \in S[pc] \cap SlotsOf(text, profile.len, Pointers)
      BY <2>1, InstrFits, FitsMove
    <3>. QED  BY <3>1, AtAlive
  <2>2. CASE Instr.do = "again"
    <3>1. 0 \in S[pc] /\ -1 \notin S[pc]
      BY <2>2, InstrFits, FitsAgain
    <3>2. slots[0] = o
      BY <2>2 DEF At, Instr
    <3>3. slots[0] = 0 \/ ~Freed(slots[0])
      BY <3>1, AtAlive
    <3>. QED  BY <3>2, <3>3
  <2>. QED  BY <1>1, <2>1, <2>2
<1>. HIDE DEF o
<1>3. CASE faults' = Touched(o)
  BY <1>1, <1>2, <1>3, TouchedSpares
<1>4. CASE faults' = faults
  BY <1>1, <1>4 DEF PointersAreAlive
<1>. QED
  BY <1>1, <1>3, <1>4

\* A statement that names a pointer reads its slot, which holds no address.
LEMMA NamedAlive ==
    ASSUME NEW S, NEW T, At(S, T), Instr.do \in {"use", "write"},
           Kind[text[Instr.at].v] \in {"unique", "shared"}
    PROVE  /\ slots[Instr.slot] = 0 \/ ~Freed(slots[Instr.slot])
           /\ Object(slots[Instr.slot]) = slots[Instr.slot]
<1>1. Instr.slot \in S[pc] \cap SlotsOf(text, profile.len, Pointers)
  <2>1. Kind[text[Instr.at].v] \in Pointers
    BY DEF Pointers
  <2>. QED  BY <2>1, InstrFits, FitsAccess
<1>2. Memory(S[pc], slots, heap, text, profile.len)
  BY DEF At
<1>3. slots[Instr.slot] \in 0..Len(heap)
  BY <1>1, <1>2, Pointed
<1>4. ~(slots[Instr.slot] < 0)
  BY <1>3
<1>. QED
  BY <1>1, <1>4, AtAlive DEF Object

LEMMA AccessSpares ==
    ASSUME NEW S, NEW T, At(S, T), PointersAreAlive, Access PROVE PointersAreAlive'
<1>. DEFINE o == Object(slots[Instr.slot])
<1>1. Instr.do = "use" /\ text' = text /\ faults' = Touched(o)
  BY DEF Access, Running, checkVars
<1>2. o = 0 \/ ~Freed(o) \/ Kind[text[Instr.at].v] \notin {"unique", "shared"}
  BY <1>1, NamedAlive
<1>. HIDE DEF o
<1>. QED
  BY <1>1, <1>2, TouchedSpares

LEMMA OverwriteSpares ==
    ASSUME NEW S, NEW T, At(S, T), PointersAreAlive, Overwrite PROVE PointersAreAlive'
<1>. DEFINE o == slots[Instr.slot]
<1>1. /\ Instr.do = "write" /\ text' = text
      /\ faults' = Touched(o) \/ faults' = faults
  BY DEF Overwrite, Running, checkVars
<1>2. o = 0 \/ ~Freed(o) \/ Kind[text[Instr.at].v] \notin {"unique", "shared"}
  BY <1>1, NamedAlive
<1>. HIDE DEF o
<1>3. CASE faults' = Touched(o)
  BY <1>1, <1>2, <1>3, TouchedSpares
<1>4. CASE faults' = faults
  BY <1>1, <1>4 DEF PointersAreAlive
<1>. QED
  BY <1>1, <1>3, <1>4

LEMMA ReleaseSpares ==
    ASSUME NEW S, NEW T, At(S, T), PointersAreAlive, Release PROVE PointersAreAlive'
<1>. DEFINE o == slots[Instr.slot]
<1>1. /\ Instr.do \in {"release", "drop"} /\ text' = text
      /\ faults' = IF o # 0 /\ Freed(o)
                   THEN Fault(IF Instr.do = "drop" THEN "double drop" ELSE "double free")
                   ELSE faults
  BY DEF Release, Running, checkVars
<1>2. Instr.do = "release" => o = 0 \/ ~Freed(o)
  <2>. SUFFICES ASSUME Instr.do = "release" PROVE o = 0 \/ ~Freed(o)
    OBVIOUS
  <2>1. Instr.slot \in S[pc] \cap SlotsOf(text, profile.len, Pointers)
    BY InstrFits, FitsRelease
  <2>. QED  BY <2>1, AtAlive
<1>. HIDE DEF o
<1>3. faults' = Fault("double drop") \/ faults' = faults
  BY <1>1, <1>2
<1>4. Spares("double drop", Instr.at)
  BY DEF Spares
<1>. QED
  BY <1>1, <1>3, <1>4, FaultSpares

LEMMA GiveSpares ==
    ASSUME NEW S, NEW T, At(S, T), PointersAreAlive, Give PROVE PointersAreAlive'
<1>. DEFINE o == slots[Instr.slot]
            lost == IF Kind[text[Instr.slot].v] = "value" THEN "double drop"
                    ELSE "double free"
<1>1. /\ Instr.do = "give" /\ text' = text
      /\ faults' = IF o # 0 /\ Freed(o) THEN Fault(lost) ELSE Touched(o)
  BY DEF Give, Running, checkVars
<1>2. (o # 0 /\ Freed(o)) => lost = "double drop"
  <2>1. \/ Instr.slot \in SlotsOf(text, profile.len, {"value"})
        \/ Instr.slot \in S[pc] \cap SlotsOf(text, profile.len, Pointers)
    BY <1>1, InstrFits, FitsGive
  <2>2. Instr.slot \in SlotsOf(text, profile.len, {"value"}) => lost = "double drop"
    BY DEF SlotsOf
  <2>3. Instr.slot \in S[pc] \cap SlotsOf(text, profile.len, Pointers)
          => o = 0 \/ ~Freed(o)
    BY AtAlive
  <2>. QED  BY <2>1, <2>2, <2>3
<1>3. Spares("double drop", Instr.at)
  BY DEF Spares
<1>. HIDE DEF o, lost
<1>4. CASE o # 0 /\ Freed(o)
  <2>1. faults' = Fault("double drop")
    BY <1>1, <1>2, <1>4
  <2>. QED  BY <1>1, <1>3, <2>1, FaultSpares
<1>5. CASE ~(o # 0 /\ Freed(o))
  BY <1>1, <1>5, TouchedSpares
<1>. QED
  BY <1>4, <1>5

LEMMA RunSpares ==
    ASSUME NEW S, NEW T, At(S, T), PointersAreAlive,
           New \/ Move \/ Share \/ Read \/ Store \/ PlainStore \/ Graft \/ Access \/ Overwrite
           \/ Release \/ Give \/ BranchOn \/ Follow
    PROVE  PointersAreAlive'
<1>1. CASE New \/ Move \/ Read \/ Store \/ PlainStore \/ Graft \/ BranchOn \/ Follow
  <2>1. UNCHANGED <<text, faults>>
    BY <1>1 DEF New, Move, Read, Store, PlainStore, Graft, BranchOn, Follow, checkVars
  <2>. QED  BY <2>1 DEF PointersAreAlive
<1>. QED
  BY <1>1, ShareSpares, AccessSpares, OverwriteSpares, ReleaseSpares, GiveSpares

-----------------------------------------------------------------------------
(* The theorems                                                            *)

Started ==
    /\ slots = [i \in 0..profile.len |-> 0] /\ heap = <<>> /\ out = 0
    /\ faults = {}

\* What is left when the function has returned.
Ended ==
    /\ heap \in Seq(Objects)
    /\ slots \in [0..profile.len -> (-profile.len)..Len(heap)]
    /\ out \in 0..Len(heap)
    /\ \A o \in 1..Len(heap) : heap[o].kind # "value" =>
          IF o = out THEN heap[o].owners > heap[o].lost
                       ELSE heap[o].owners = heap[o].lost

\* The invariant of the run, next to CheckInv.
RunInv ==
    /\ phase \in {"check", "refused", "accepted"} => Started
    /\ phase = "run"  => out = 0 /\ \E S, T : At(S, T)
    /\ phase = "done" => Ended
    /\ PointersAreAlive

LEMMA RunRet ==
    ASSUME NEW S, NEW T, At(S, T), Ret PROVE Ended'
<1>. DEFINE n == profile.len
            i == Instr
            A == S[pc]
<1>1. /\ i.do = "ret" /\ UNCHANGED <<profile, slots, heap>>
      /\ out' = IF i.value THEN slots[0] ELSE 0
  BY DEF Ret, Running
<1>2. /\ Fits(i, A, T, text, n) /\ n \in Nat
      /\ Memory(A, slots, heap, text, n) /\ A \in States(text, n)
  BY InstrFits DEF At
<1>. HIDE DEF n, i, A
<1>3. A \subseteq {-1, 0} /\ (i.value <=> 0 \in A) /\ (-1 \in A => 0 \in A)
  BY <1>1, <1>2, FitsRet DEF States
<1>4. /\ heap \in Seq(Objects) /\ Len(heap) \in Nat /\ Counts(A, slots, heap)
      /\ slots \in [0..n -> (-n)..Len(heap)]
  BY <1>2 DEF Memory, SlotsFit
<1>5. slots[0] \in 0..Len(heap)
  BY <1>2, Registered
<1>6. out' \in 0..Len(heap)
  BY <1>1, <1>4, <1>5
<1>7. ASSUME NEW o \in 1..Len(heap), heap[o].kind # "value"
      PROVE  IF o = out' THEN heap[o].owners > heap[o].lost
                         ELSE heap[o].owners = heap[o].lost
  <2>. DEFINE H == Holders(A, slots, o)
  <2>1. Owed(heap[o]) = Cardinality(H)
    BY <1>4, <1>7 DEF Counts
  <2>5. heap[o].owners \in Int /\ heap[o].lost \in Nat
        /\ Owed(heap[o]) = heap[o].owners - heap[o].lost
    <3>1. heap[o] \in Objects
      BY <1>4
    <3>. QED  BY <3>1 DEF Objects, Owed
  <2>2. IsFiniteSet(H) /\ Cardinality(H) \in Nat
    BY <1>2, HoldersFinite
  <2>3. CASE o = out'
    <3>1. i.value /\ slots[0] = o
      BY <1>1, <1>7, <2>3
    <3>2. 0 \in H
      BY <1>3, <3>1 DEF Holders, Held
    <3>3. H # {}
      BY <3>2
    <3>. HIDE DEF H
    <3>4. Cardinality(H) # 0
      BY <2>2, <3>3, FS_EmptySet
    <3>. QED  BY <2>1, <2>2, <2>3, <2>5, <3>4
  <2>4. CASE o # out'
    <3>1. ~i.value \/ slots[0] # o
      BY <1>1, <2>4
    <3>2. H = {}
      BY <1>3, <3>1 DEF Holders, Held
    <3>. HIDE DEF H
    <3>3. Owed(heap[o]) = 0
      BY <2>1, <3>2, FS_EmptySet
    <3>. QED  BY <2>4, <2>5, <3>3
  <2>. QED  BY <2>3, <2>4
<1>8. profile'.len = n /\ slots' = slots /\ heap' = heap
  BY <1>1 DEF n
<1>. QED
  BY <1>4, <1>6, <1>7, <1>8 DEF Ended

LEMMA RunInvInit == Init => RunInv
BY DEF Init, BorrowInit, RunInv, Started, PointersAreAlive

LEMMA RunInvStep ==
    ASSUME RunInv, phase = "run",
           New \/ Move \/ Share \/ Read \/ Store \/ PlainStore \/ Graft \/ Access \/ Overwrite
           \/ Release \/ Give \/ BranchOn \/ Follow
    PROVE  RunInv'
<1>1. phase' = "run" /\ out' = out
  BY DEF New, Move, Share, Read, Store, PlainStore, Graft, Access, Overwrite, Release, Give, BranchOn,
         Follow, Running, checkVars
<1>2. PICK S, T : At(S, T)
  BY DEF RunInv
<1>3. At(S, T)'
  BY <1>2, RunNew, RunMove, RunShare, RunRead, RunStore, RunPlainStore, RunGraft, RunAccess, RunOverwrite,
     RunRelease, RunGive, RunBranch, RunFollow
<1>4. \E R, U : At(R, U)'
  BY <1>3
<1>5. PointersAreAlive'
  BY <1>2, RunSpares DEF RunInv
<1>. QED
  BY <1>1, <1>4, <1>5 DEF RunInv

LEMMA RunInvNext == BorrowInv /\ CheckInv /\ RunInv /\ [Next]_vars => RunInv'
<1>. SUFFICES ASSUME BorrowInv, CheckInv, RunInv, [Next]_vars PROVE RunInv'
  OBVIOUS
<1>1. CASE BorrowNext /\ UNCHANGED runVars
  <2>1. phase = "check" /\ profile' = profile /\ phase' \in {"check", "refused", "accepted"}
    BY <1>1, BorrowNextGrows DEF Grows, Accept
  <2>2. Started
    BY <2>1 DEF RunInv
  <2>3. slots' = slots /\ heap' = heap /\ out' = out /\ faults' = faults
    BY <1>1 DEF runVars
  <2>4. Started'
    BY <2>1, <2>2, <2>3 DEF Started
  <2>5. PointersAreAlive'
    BY <2>4 DEF Started, PointersAreAlive
  <2>. QED  BY <2>1, <2>4, <2>5 DEF RunInv
<1>2. CASE Generate
  <2>1. phase = "accepted" /\ phase' = "run" /\ out' = out
    BY <1>2 DEF Generate
  <2>2. Started
    BY <2>1 DEF RunInv
  <2>3. \E S, T : At(S, T)'
    BY <1>2, <2>2, RunGenerate DEF Started
  <2>4. PointersAreAlive'
    BY <1>2, <2>2 DEF Generate, Started, PointersAreAlive
  <2>. QED  BY <2>1, <2>2, <2>3, <2>4 DEF RunInv, Started
<1>3. CASE \/ New \/ Move \/ Share \/ Read \/ Store \/ PlainStore \/ Graft \/ Access \/ Overwrite
           \/ Release \/ Give \/ BranchOn \/ Follow
  <2>1. phase = "run"
    BY <1>3 DEF New, Move, Share, Read, Store, PlainStore, Graft, Access, Overwrite, Release, Give,
                BranchOn, Follow, Running
  <2>. QED  BY <1>3, <2>1, RunInvStep
<1>4. CASE Ret
  <2>1. phase = "run" /\ phase' = "done"
    BY <1>4 DEF Ret, Running
  <2>2. PICK S, T : At(S, T)
    BY <2>1 DEF RunInv
  <2>3. Ended'
    BY <1>4, <2>2, RunRet
  <2>4. PointersAreAlive'
    BY <1>4 DEF Ret, RunInv, PointersAreAlive
  <2>. QED  BY <2>1, <2>3, <2>4 DEF RunInv
<1>5. CASE UNCHANGED vars
  <2>1. /\ text' = text /\ profile' = profile /\ phase' = phase /\ code' = code
        /\ pc' = pc /\ slots' = slots /\ heap' = heap /\ out' = out
        /\ faults' = faults
    BY <1>5 DEF vars, checkVars, runVars
  <2>5. PointersAreAlive'
    BY <2>1 DEF RunInv, PointersAreAlive
  <2>2. CASE phase = "run"
    <3>1. PICK S, T : At(S, T)
      BY <2>2 DEF RunInv
    <3>2. Instr' = Instr
      BY <2>1 DEF Instr
    <3>3. At(S, T)'
      BY <2>1, <3>1 DEF At
    <3>4. \E R, U : At(R, U)'
      BY <3>3
    <3>. QED  BY <2>1, <2>2, <2>5, <3>4 DEF RunInv
  <2>3. CASE phase = "done"
    <3>1. Ended'
      BY <2>1, <2>3 DEF RunInv, Ended
    <3>. QED  BY <2>1, <2>3, <2>5, <3>1 DEF RunInv
  <2>4. CASE phase \in {"check", "refused", "accepted"}
    <3>1. Started'
      BY <2>1, <2>4 DEF RunInv, Started
    <3>. QED  BY <2>1, <2>4, <2>5, <3>1 DEF RunInv
  <2>. QED  BY <2>2, <2>3, <2>4 DEF CheckInv, Phases
<1>. QED
  BY <1>1, <1>2, <1>3, <1>4, <1>5 DEF Next

\* The slots while the function runs, and after.
LEMMA SlotsTyped ==
    CheckInv /\ BorrowInv /\ RunInv =>
        \A i \in DOMAIN slots : slots[i] \in (-profile.len)..Len(heap)
<1>. SUFFICES ASSUME CheckInv, BorrowInv, RunInv, NEW i \in DOMAIN slots
              PROVE  slots[i] \in (-profile.len)..Len(heap)
  OBVIOUS
<1>1. profile.len \in Nat
  BY BoundsArePositive DEF BorrowInv
<1>2. CASE phase \in {"check", "refused", "accepted"}
  <2>1. slots[i] = 0 /\ Len(heap) = 0
    BY <1>2 DEF RunInv, Started
  <2>. QED  BY <1>1, <2>1
<1>3. CASE phase = "run"
  <2>1. PICK S, T : At(S, T)
    BY <1>3 DEF RunInv
  <2>2. slots \in [0..profile.len -> (-profile.len)..Len(heap)]
    BY <2>1 DEF At, Memory, SlotsFit
  <2>. QED  BY <2>2
<1>4. CASE phase = "done"
  BY <1>4 DEF RunInv, Ended
<1>. QED
  BY <1>2, <1>3, <1>4 DEF CheckInv, Phases

LEMMA RunInvTypes == CheckInv /\ BorrowInv /\ RunInv => TypeOK
<1>. SUFFICES ASSUME CheckInv, BorrowInv, RunInv PROVE TypeOK
  OBVIOUS
<1>1. /\ phase \in {"check", "refused", "accepted", "run", "done"}
      /\ Len(scopes) \in 1..MaxNest /\ Len(ledger.maps) = Len(scopes) + 1
  BY DEF CheckInv, Phases
<1>2. \A i \in DOMAIN slots : slots[i] \in -profile.len..Len(heap)
  BY SlotsTyped
<1>3. phase = "run" => pc \in DOMAIN code /\ Len(heap) \in Nat
  <2>. SUFFICES ASSUME phase = "run" PROVE pc \in DOMAIN code /\ Len(heap) \in Nat
    OBVIOUS
  <2>1. PICK S, T : At(S, T)
    BY DEF RunInv
  <2>2. heap \in Seq(Objects)
    BY <2>1 DEF At, Memory
  <2>. QED  BY <2>1, <2>2, InstrFits
<1>4. out \in 0..Len(heap)
  BY <1>1, <1>3 DEF RunInv, Started, Ended
<1>. QED
  BY <1>1, <1>2, <1>3, <1>4 DEF TypeOK

\* Type correctness of the checker and of the run: a program counter that is in
\* the code says that every jump of an accepted text has its label (genBreakExpr,
\* genContinueExpr, genIfExpr, genLoopExpr) and that no path falls off the end
\* of the function (genFunction).
THEOREM TypeCorrect == Spec => []TypeOK
<1>1. Init => BorrowInv /\ CheckInv /\ RunInv
  BY BorrowInvInit, CheckInvInit, RunInvInit
<1>2. BorrowInv /\ CheckInv /\ RunInv /\ [Next]_vars => (BorrowInv /\ CheckInv /\ RunInv)'
  BY BorrowInvNext, CheckInvNext, RunInvNext
<1>3. BorrowInv /\ CheckInv /\ RunInv => TypeOK
  BY RunInvTypes
<1>. QED
  BY <1>1, <1>2, <1>3, PTL DEF Spec

\* When the function is left, whatever the text and the path, every owner of an
\* object that a pointer was made for is released, and the object returned is
\* alive, but for the owners that an assignment without a # stored over
\* (emitSoulAssignment): the releases of executeScopeUnwinding at the end of a
\* block, at break, continue and return, and those of emitEnvelopeRebind, are
\* no more than are needed, and what they leave is exactly what was lost so.
THEOREM OwnersAreReleased == Spec => []OwnersReleased
<1>1. Init => BorrowInv /\ CheckInv /\ RunInv
  BY BorrowInvInit, CheckInvInit, RunInvInit
<1>2. BorrowInv /\ CheckInv /\ RunInv /\ [Next]_vars => (BorrowInv /\ CheckInv /\ RunInv)'
  BY BorrowInvNext, CheckInvNext, RunInvNext
<1>3. RunInv => OwnersReleased
  <2>. SUFFICES ASSUME RunInv, phase = "done", NEW o \in DOMAIN heap,
                       heap[o].kind # "value"
                PROVE  IF o = out THEN heap[o].owners > heap[o].lost
                       ELSE heap[o].owners = heap[o].lost
    BY DEF OwnersReleased
  <2>1. Ended
    BY DEF RunInv
  <2>2. DOMAIN heap = 1..Len(heap)
    BY <2>1 DEF Ended
  <2>. QED  BY <2>1, <2>2 DEF Ended
<1>. QED
  BY <1>1, <1>2, <1>3, PTL DEF Spec

\* No path through an accepted function frees the object of a pointer twice, and
\* none that names a pointer meets an object that was freed: ^v empties the slot
\* it reads, ~v adds an owner for the copy (genUnaryExpr), and a release stands
\* only where its slot still owns (executeScopeUnwinding, emitEnvelopeRebind).
\* It is the part of NoDoubleFree that makes no exception.
THEOREM PointersStayAlive == Spec => []PointersAreAlive
<1>1. Init => BorrowInv /\ CheckInv /\ RunInv
  BY BorrowInvInit, CheckInvInit, RunInvInit
<1>2. BorrowInv /\ CheckInv /\ RunInv /\ [Next]_vars => (BorrowInv /\ CheckInv /\ RunInv)'
  BY BorrowInvNext, CheckInvNext, RunInvNext
<1>3. RunInv => PointersAreAlive
  BY DEF RunInv
<1>. QED
  BY <1>1, <1>2, <1>3, PTL DEF Spec
=============================================================================
