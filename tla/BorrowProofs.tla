---------------------------- MODULE BorrowProofs ----------------------------
(***************************************************************************)
(* A theorem about BorrowCheck and Ledger, for any names, any texts and    *)
(* any nesting: the committed borrow of an exclusive reference stays in    *)
(* the ledger (ExclusiveEntriesStay).                                      *)
(*                                                                         *)
(* The property alone is not inductive: the entry could leave the map with *)
(* the transient borrows at the end of a statement, or with another scope. *)
(* BorrowInv adds that no transient borrow is left between statements and  *)
(* that every open scope has one map.  A statement may then change the     *)
(* ledger as Keeps allows, and the scopes as Weaker does: neither ends an  *)
(* exclusive entry whose claim goes on.                                    *)
(***************************************************************************)
EXTENDS Ownership, TLAPS

-----------------------------------------------------------------------------
(* Maps that are defined on some of the elements of S                      *)

Tables(S, T) == UNION {[D -> T] : D \in SUBSET S}

LEMMA TableIntro ==
    ASSUME NEW S, NEW T, NEW D \in SUBSET S, NEW f \in [D -> T]
    PROVE  f \in Tables(S, T)
BY DEF Tables

LEMMA TableElim ==
    ASSUME NEW S, NEW T, NEW f \in Tables(S, T)
    PROVE  DOMAIN f \in SUBSET S /\ f \in [DOMAIN f -> T]
BY DEF Tables

LEMMA TablePut ==
    ASSUME NEW S, NEW T, NEW f \in Tables(S, T), NEW x \in S, NEW e \in T
    PROVE  Put(f, x, e) \in Tables(S, T)
<1>1. DOMAIN f \cup {x} \in SUBSET S
  BY TableElim
<1>2. Put(f, x, e) \in [DOMAIN f \cup {x} -> T]
  BY TableElim DEF Put
<1>. QED
  BY <1>1, <1>2, TableIntro

LEMMA TableRestrict ==
    ASSUME NEW S, NEW T, NEW f \in Tables(S, T), NEW D \in SUBSET DOMAIN f
    PROVE  [x \in D |-> f[x]] \in Tables(S, T)
<1>1. D \in SUBSET S
  BY TableElim
<1>2. [x \in D |-> f[x]] \in [D -> T]
  BY TableElim
<1>. QED
  BY <1>1, <1>2, TableIntro

-----------------------------------------------------------------------------
(* The ledger                                                              *)

PathMaps == Tables(Places, {"shared", "exclusive"})
Ledgers  == [maps : Seq(PathMaps), transient : Seq(Places)]

Exclusives(m) == {q \in DOMAIN m : m[q] = "exclusive"}

\* What a statement may do to the ledger: no map loses an exclusive entry,
\* and no transient borrow is left.
Keeps(L, M) ==
    /\ M \in Ledgers
    /\ M.transient = <<>>
    /\ Len(M.maps) = Len(L.maps)
    /\ \A i \in 1..Len(L.maps) : Exclusives(L.maps[i]) \subseteq Exclusives(M.maps[i])

\* A ledger between statements.
Settled(L) == L \in Ledgers /\ L.transient = <<>> /\ Len(L.maps) > 0

\* Recording changes one entry of the innermost map.
LEMMA RecordEffect ==
    ASSUME NEW L, Settled(L), NEW p \in Places, NEW x \in BOOLEAN
    PROVE  LET R == Record(L, p, x)
               n == Len(L.maps)
           IN  /\ R \in Ledgers /\ R.transient = <<p>>
               /\ Len(R.maps) = n
               /\ \A i \in 1..n : i # n => R.maps[i] = L.maps[i]
               /\ R.maps[n] = Put(L.maps[n], p,
                                  IF x THEN "exclusive" ELSE "shared")
<1>. DEFINE n == Len(L.maps)
            e == IF x THEN "exclusive" ELSE "shared"
            m == Put(L.maps[n], p, e)
<1>1. L.maps \in Seq(PathMaps) /\ n \in 1..Len(L.maps)
  BY DEF Settled, Ledgers
<1>2. m \in PathMaps
  BY <1>1, TablePut DEF PathMaps
<1>3. [L.maps EXCEPT ![n] = m] \in Seq(PathMaps)
  BY <1>1, <1>2
<1>4. Append(L.transient, p) = <<p>> /\ <<p>> \in Seq(Places)
  BY DEF Settled
<1>. QED
  BY <1>1, <1>3, <1>4 DEF Record, Ledgers

\* The end of a statement takes the transient paths from the innermost map.
LEMMA ClearEffect ==
    ASSUME NEW L \in Ledgers, Len(L.maps) > 0
    PROVE  LET C == ClearTransient(L)
               n == Len(L.maps)
           IN  /\ C \in Ledgers /\ C.transient = <<>>
               /\ Len(C.maps) = n
               /\ \A i \in 1..n : i # n => C.maps[i] = L.maps[i]
               /\ \A q \in Exclusives(L.maps[n]) :
                     q \notin ToSet(L.transient) => q \in Exclusives(C.maps[n])
<1>. DEFINE n    == Len(L.maps)
            kept == DOMAIN L.maps[n] \ ToSet(L.transient)
            m    == [p \in kept |-> L.maps[n][p]]
<1>1. L.maps \in Seq(PathMaps) /\ n \in 1..Len(L.maps)
  BY DEF Ledgers
<1>2. m \in PathMaps
  BY <1>1, TableRestrict DEF PathMaps
<1>3. [L.maps EXCEPT ![n] = m] \in Seq(PathMaps)
  BY <1>1, <1>2
<1>4. ClearTransient(L) = [maps |-> [L.maps EXCEPT ![n] = m], transient |-> <<>>]
  BY DEF ClearTransient, Last
<1>5. \A q \in Exclusives(L.maps[n]) :
         q \notin ToSet(L.transient) => q \in Exclusives(m)
  BY DEF Exclusives
<1>. HIDE DEF m
<1>6. /\ ClearTransient(L) \in Ledgers
      /\ ClearTransient(L).transient = <<>>
      /\ ClearTransient(L).maps = [L.maps EXCEPT ![n] = m]
  BY <1>3, <1>4 DEF Ledgers
<1>7. /\ Len(ClearTransient(L).maps) = n
      /\ \A i \in 1..n : i # n => ClearTransient(L).maps[i] = L.maps[i]
      /\ ClearTransient(L).maps[n] = m
  BY <1>1, <1>6
<1>. QED
  BY <1>5, <1>6, <1>7

LEMMA ToSetOfOne == ASSUME NEW p PROVE ToSet(<<p>>) = {p}
BY DEF ToSet

LEMMA RemoveOnlyOne == ASSUME NEW p PROVE RemoveFirst(<<p>>, p) = <<>>
<1>1. {i \in 1..Len(<<p>>) : <<p>>[i] = p} = {1}
  OBVIOUS
<1>2. Min({1}) = 1
  BY DEF Min
<1>. QED
  BY <1>1, <1>2 DEF RemoveFirst, RemoveAt, SelectInSeq

\* A statement that borrows nothing.
LEMMA NoBorrowKeeps ==
    ASSUME NEW L, Settled(L) PROVE Keeps(L, ClearTransient(L))
<1>. DEFINE n == Len(L.maps)
<1>1. L \in Ledgers /\ Len(L.maps) > 0 /\ ToSet(L.transient) = {}
  BY DEF Settled, ToSet
<1>2. /\ ClearTransient(L) \in Ledgers /\ ClearTransient(L).transient = <<>>
      /\ Len(ClearTransient(L).maps) = n
      /\ \A i \in 1..n : i # n => ClearTransient(L).maps[i] = L.maps[i]
      /\ \A q \in Exclusives(L.maps[n]) :
            q \notin ToSet(L.transient) => q \in Exclusives(ClearTransient(L).maps[n])
  BY <1>1, ClearEffect
<1>. QED
  BY <1>1, <1>2 DEF Keeps

\* A borrow for the length of a statement: where one may be recorded there was no
\* exclusive entry, so that none is the one taken out.
LEMMA TransientKeeps ==
    ASSUME NEW L, Settled(L), NEW p \in Places, NEW x \in BOOLEAN,
           CanRecord(L, p, x)
    PROVE  Keeps(L, ClearTransient(Record(L, p, x)))
<1>. DEFINE R == Record(L, p, x)
            n == Len(L.maps)
<1>1. /\ R \in Ledgers /\ R.transient = <<p>> /\ Len(R.maps) = n
      /\ \A i \in 1..n : i # n => R.maps[i] = L.maps[i]
      /\ R.maps[n] = Put(L.maps[n], p, IF x THEN "exclusive" ELSE "shared")
  BY RecordEffect
<1>2. p \notin Exclusives(L.maps[n])
  BY DEF CanRecord, Last, Exclusives
<1>3. Exclusives(L.maps[n]) \subseteq Exclusives(R.maps[n])
  BY <1>1, <1>2 DEF Exclusives, Put
<1>4. n > 0 /\ n \in Nat
  BY DEF Settled, Ledgers
<1>5. /\ ClearTransient(R) \in Ledgers /\ ClearTransient(R).transient = <<>>
      /\ Len(ClearTransient(R).maps) = n
      /\ \A i \in 1..n : i # n => ClearTransient(R).maps[i] = R.maps[i]
      /\ \A q \in Exclusives(R.maps[n]) :
            q \notin ToSet(R.transient) => q \in Exclusives(ClearTransient(R).maps[n])
  BY <1>1, <1>4, ClearEffect
<1>6. ToSet(R.transient) = {p}
  BY <1>1, ToSetOfOne
<1>. QED
  BY <1>1, <1>2, <1>3, <1>5, <1>6 DEF Keeps

\* An upgrade changes one entry of the innermost map, to exclusive.
LEMMA UpgradeEffect ==
    ASSUME NEW L \in Ledgers, Len(L.maps) > 0, NEW p \in Places
    PROVE  LET U == Upgrade(L, p)
               n == Len(L.maps)
           IN  /\ U \in Ledgers /\ U.transient = L.transient
               /\ Len(U.maps) = n
               /\ \A i \in 1..n : i # n => U.maps[i] = L.maps[i]
               /\ Exclusives(L.maps[n]) \subseteq Exclusives(U.maps[n])
<1>. DEFINE n == Len(L.maps)
            m == [L.maps[n] EXCEPT ![p] = "exclusive"]
<1>1. L.maps \in Seq(PathMaps) /\ n \in 1..Len(L.maps)
  BY DEF Ledgers
<1>2. m \in PathMaps
  <2>1. /\ DOMAIN L.maps[n] \in SUBSET Places
        /\ L.maps[n] \in [DOMAIN L.maps[n] -> {"shared", "exclusive"}]
    BY <1>1, TableElim DEF PathMaps
  <2>2. m \in [DOMAIN L.maps[n] -> {"shared", "exclusive"}]
    BY <2>1
  <2>. QED
    BY <2>1, <2>2, TableIntro DEF PathMaps
<1>3. [L.maps EXCEPT ![n] = m] \in Seq(PathMaps)
  BY <1>1, <1>2
<1>4. Exclusives(L.maps[n]) \subseteq Exclusives(m)
  BY DEF Exclusives
<1>5. Upgrade(L, p) = [L EXCEPT !.maps = [L.maps EXCEPT ![n] = m]]
  BY DEF Upgrade, Ledgers
<1>. HIDE DEF m
<1>6. /\ Upgrade(L, p) \in Ledgers
      /\ Upgrade(L, p).transient = L.transient
      /\ Upgrade(L, p).maps = [L.maps EXCEPT ![n] = m]
  BY <1>3, <1>5 DEF Ledgers
<1>. QED
  BY <1>1, <1>4, <1>6

\* The same for the borrow of a rebinding, made exclusive in between.
LEMMA UpgradeKeeps ==
    ASSUME NEW L, Settled(L), NEW p \in Places, CanRecord(L, p, FALSE)
    PROVE  Keeps(L, ClearTransient(Upgrade(Record(L, p, FALSE), p)))
<1>. DEFINE R == Record(L, p, FALSE)
            U == Upgrade(R, p)
            C == ClearTransient(U)
            n == Len(L.maps)
<1>1. /\ R \in Ledgers /\ R.transient = <<p>> /\ Len(R.maps) = n
      /\ \A i \in 1..n : i # n => R.maps[i] = L.maps[i]
      /\ R.maps[n] = Put(L.maps[n], p, "shared")
  BY RecordEffect
<1>2. p \notin Exclusives(L.maps[n])
  BY DEF CanRecord, Last, Exclusives
<1>3. n > 0 /\ n \in Nat
  BY DEF Settled, Ledgers
<1>4. Exclusives(L.maps[n]) \subseteq Exclusives(R.maps[n])
  BY <1>1, <1>2 DEF Exclusives, Put
<1>. HIDE DEF R
<1>5. /\ U \in Ledgers /\ U.transient = R.transient /\ Len(U.maps) = n
      /\ \A i \in 1..n : i # n => U.maps[i] = R.maps[i]
      /\ Exclusives(R.maps[n]) \subseteq Exclusives(U.maps[n])
  <2>1. R \in Ledgers /\ Len(R.maps) > 0 /\ Len(R.maps) = n
    BY <1>1, <1>3
  <2>. HIDE DEF n
  <2>2. /\ U \in Ledgers /\ U.transient = R.transient
        /\ Len(U.maps) = Len(R.maps)
        /\ \A i \in 1..Len(R.maps) : i # Len(R.maps) => U.maps[i] = R.maps[i]
        /\ Exclusives(R.maps[Len(R.maps)]) \subseteq Exclusives(U.maps[Len(R.maps)])
    BY <2>1, UpgradeEffect
  <2>. QED
    BY <2>1, <2>2
<1>. HIDE DEF U
<1>6. /\ C \in Ledgers /\ C.transient = <<>> /\ Len(C.maps) = n
      /\ \A i \in 1..n : i # n => C.maps[i] = U.maps[i]
      /\ \A q \in Exclusives(U.maps[n]) :
            q \notin ToSet(U.transient) => q \in Exclusives(C.maps[n])
  BY <1>3, <1>5, ClearEffect
<1>7. ToSet(U.transient) = {p}
  BY <1>1, <1>5, ToSetOfOne
<1>. HIDE DEF C
<1>8. \A i \in 1..n : Exclusives(L.maps[i]) \subseteq Exclusives(C.maps[i])
  <2>1. Exclusives(L.maps[n]) \subseteq Exclusives(C.maps[n])
    BY <1>2, <1>4, <1>5, <1>6, <1>7
  <2>2. \A i \in 1..n : i # n => C.maps[i] = L.maps[i]
    BY <1>1, <1>5, <1>6
  <2>. QED
    BY <2>1, <2>2
<1>9. Keeps(L, C)
  BY <1>6, <1>8 DEF Keeps
<1>. QED
  BY <1>9 DEF C, U, R

\* The borrow of a declaration is committed, and there when the statement ends.
LEMMA CommitKeeps ==
    ASSUME NEW L, Settled(L), NEW p \in Places, NEW x \in BOOLEAN,
           CanRecord(L, p, x)
    PROVE  LET C == ClearTransient(Commit(Record(L, p, x), p))
           IN  /\ Keeps(L, C)
               /\ x => p \in Exclusives(C.maps[Len(L.maps)])
<1>. DEFINE R == Record(L, p, x)
            n == Len(L.maps)
            D == Commit(R, p)
<1>1. /\ R \in Ledgers /\ R.transient = <<p>> /\ Len(R.maps) = n
      /\ \A i \in 1..n : i # n => R.maps[i] = L.maps[i]
      /\ R.maps[n] = Put(L.maps[n], p, IF x THEN "exclusive" ELSE "shared")
  BY RecordEffect
<1>2. p \notin Exclusives(L.maps[n])
  BY DEF CanRecord, Last, Exclusives
<1>3. Exclusives(L.maps[n]) \subseteq Exclusives(R.maps[n])
      /\ (x => p \in Exclusives(R.maps[n]))
  BY <1>1, <1>2 DEF Exclusives, Put
<1>4. n > 0 /\ n \in Nat
  BY DEF Settled, Ledgers
<1>. DEFINE C == ClearTransient(D)
<1>. HIDE DEF R
<1>5. D = [maps |-> R.maps, transient |-> <<>>]
  BY <1>1, RemoveOnlyOne DEF Commit, Ledgers
<1>. HIDE DEF D
<1>6. D \in Ledgers /\ D.maps = R.maps /\ ToSet(D.transient) = {}
  BY <1>1, <1>5 DEF Ledgers, ToSet
<1>7. /\ C \in Ledgers /\ C.transient = <<>> /\ Len(C.maps) = n
      /\ \A i \in 1..n : i # n => C.maps[i] = D.maps[i]
      /\ \A q \in Exclusives(D.maps[n]) :
            q \notin ToSet(D.transient) => q \in Exclusives(C.maps[n])
  <2>1. D \in Ledgers /\ Len(D.maps) > 0 /\ Len(D.maps) = n
    BY <1>1, <1>4, <1>6
  <2>. QED
    BY <2>1, ClearEffect, Zenon
<1>. HIDE DEF C
<1>8. Exclusives(R.maps[n]) \subseteq Exclusives(C.maps[n])
  BY <1>6, <1>7
<1>9. \A i \in 1..n : Exclusives(L.maps[i]) \subseteq Exclusives(C.maps[i])
  BY <1>1, <1>3, <1>6, <1>7, <1>8
<1>10. Keeps(L, C) /\ (x => p \in Exclusives(C.maps[n]))
  BY <1>3, <1>7, <1>8, <1>9 DEF Keeps
<1>. QED
  BY <1>10 DEF C, D, R

-----------------------------------------------------------------------------
(* The scopes                                                              *)

Symbol == [moved : BOOLEAN, from : Places \cup {<<>>}, exclusive : BOOLEAN,
           sharp : BOOLEAN]
Symbols == Tables(Names, Symbol)
Flags   == Tables(Names, BOOLEAN)
ScopeKinds == {"body", "block", "if", "else", "loop"}
Scope   == [kind : ScopeKinds, syms : Symbols, before : Flags, then : Flags,
            thenJumps : BOOLEAN, jumps : BOOLEAN, dead : BOOLEAN]

\* The places that exclusive & references of a scope stand for.
Claims(syms) ==
    {syms[v].from : v \in {v \in DOMAIN syms : syms[v].exclusive /\ ~syms[v].sharp}}

\* The invariant: every claim has its entry in the map of its scope.
Matches(scs, L) ==
    /\ scs \in Seq(Scope) /\ Len(scs) > 0 /\ scs[1].kind = "body"
    /\ Settled(L) /\ Len(L.maps) = Len(scs) + 1
    /\ \A i \in 1..Len(scs) : Claims(scs[i].syms) \subseteq Exclusives(L.maps[i + 1])

\* The scopes of T are those of S, with no more claims.
Weaker(S, T) ==
    /\ T \in Seq(Scope) /\ Len(T) = Len(S)
    /\ \A i \in 1..Len(S) : /\ Claims(T[i].syms) \subseteq Claims(S[i].syms)
                            /\ T[i].kind = S[i].kind

LEMMA WeakerIsTransitive ==
    ASSUME NEW S, NEW T, NEW U, Weaker(S, T), Weaker(T, U)
    PROVE  Weaker(S, U)
BY DEF Weaker

LEMMA WeakerMatches ==
    ASSUME NEW S, NEW T, NEW L, NEW M, Matches(S, L), Weaker(S, T), Keeps(L, M)
    PROVE  Matches(T, M)
<1>1. /\ T \in Seq(Scope) /\ Len(T) = Len(S) /\ Len(T) > 0
      /\ T[1].kind = "body" /\ Settled(M) /\ Len(M.maps) = Len(T) + 1
  BY DEF Weaker, Matches, Keeps, Settled
<1>2. ASSUME NEW i \in 1..Len(T)
      PROVE  Claims(T[i].syms) \subseteq Exclusives(M.maps[i + 1])
  <2>1. Claims(T[i].syms) \subseteq Claims(S[i].syms)
    BY <1>1 DEF Weaker
  <2>2. Claims(S[i].syms) \subseteq Exclusives(L.maps[i + 1])
    BY <1>1 DEF Matches
  <2>3. i + 1 \in 1..Len(L.maps)
    BY <1>1 DEF Matches
  <2>4. Exclusives(L.maps[i + 1]) \subseteq Exclusives(M.maps[i + 1])
    BY <2>3 DEF Keeps
  <2>. QED
    BY <2>1, <2>2, <2>4
<1>. QED
  BY <1>1, <1>2 DEF Matches

\* The table of one scope changes, with no new claim.
LEMMA WeakerSyms ==
    ASSUME NEW S \in Seq(Scope), NEW d \in 1..Len(S), NEW syms \in Symbols,
           Claims(syms) \subseteq Claims(S[d].syms)
    PROVE  Weaker(S, [S EXCEPT ![d] = [S[d] EXCEPT !.syms = syms]])
<1>1. S[d] \in Scope
  OBVIOUS
<1>2. /\ [S[d] EXCEPT !.syms = syms] \in Scope
      /\ [S[d] EXCEPT !.syms = syms].syms = syms
      /\ [S[d] EXCEPT !.syms = syms].kind = S[d].kind
  BY <1>1 DEF Scope
<1>. QED
  BY <1>2 DEF Weaker

\* A flag that no claim depends on.
LEMMA MovedClaims ==
    ASSUME NEW syms \in Symbols, NEW v, NEW b \in BOOLEAN
    PROVE  LET new == [syms EXCEPT ![v] = [syms[v] EXCEPT !.moved = b]]
           IN  new \in Symbols /\ Claims(new) \subseteq Claims(syms)
<1>. DEFINE new == [syms EXCEPT ![v] = [syms[v] EXCEPT !.moved = b]]
<1>1. DOMAIN syms \in SUBSET Names /\ syms \in [DOMAIN syms -> Symbol]
  BY TableElim DEF Symbols
<1>2. new \in [DOMAIN syms -> Symbol]
  BY <1>1 DEF Symbol
<1>3. \A u \in DOMAIN syms : /\ new[u].from = syms[u].from
                             /\ new[u].exclusive = syms[u].exclusive
                             /\ new[u].sharp = syms[u].sharp
  BY <1>1 DEF Symbol
<1>4. DOMAIN new = DOMAIN syms
  OBVIOUS
<1>5. new \in Symbols
  BY <1>1, <1>2, TableIntro DEF Symbols
<1>. HIDE DEF new
<1>6. Claims(new) \subseteq Claims(syms)
  BY <1>3, <1>4 DEF Claims
<1>. QED
  BY <1>5, <1>6 DEF new

LEMMA MovedWeaker ==
    ASSUME NEW S \in Seq(Scope), NEW d, NEW v, NEW b \in BOOLEAN
    PROVE  Weaker(S, [S EXCEPT ![d].syms[v].moved = b])
<1>. DEFINE new == [S[d].syms EXCEPT ![v] = [S[d].syms[v] EXCEPT !.moved = b]]
            T   == [S EXCEPT ![d] = [S[d] EXCEPT !.syms = new]]
<1>1. [S EXCEPT ![d].syms[v].moved = b] = T
  OBVIOUS
<1>2. CASE d \in 1..Len(S)
  <2>1. S[d].syms \in Symbols
    <3>1. S[d] \in Scope
      BY <1>2
    <3>. QED
      BY <3>1 DEF Scope
  <2>2. new \in Symbols /\ Claims(new) \subseteq Claims(S[d].syms)
    BY <2>1, MovedClaims
  <2>. HIDE DEF new
  <2>3. Weaker(S, T)
    BY <1>2, <2>2, WeakerSyms
  <2>. QED
    BY <1>1, <2>3
<1>3. CASE d \notin 1..Len(S)
  <2>. HIDE DEF new
  <2>1. T = S
    BY <1>3
  <2>. QED
    BY <1>1, <2>1 DEF Weaker
<1>. QED
  BY <1>2, <1>3

\* A jump is noted in the innermost scope.
LEMMA JumpingWeaker ==
    ASSUME NEW S \in Seq(Scope), Len(S) > 0
    PROVE  Weaker(S, Jumping(S))
<1>1. Len(S) \in 1..Len(S) /\ S[Len(S)] \in Scope
  OBVIOUS
<1>. DEFINE sc == [S[Len(S)] EXCEPT !.jumps = TRUE, !.dead = TRUE]
<1>2. sc \in Scope /\ sc.syms = S[Len(S)].syms /\ sc.kind = S[Len(S)].kind
  BY <1>1 DEF Scope
<1>3. Jumping(S) = [S EXCEPT ![Len(S)] = sc]
  BY <1>1 DEF Jumping
<1>. HIDE DEF sc
<1>. QED
  BY <1>1, <1>2, <1>3 DEF Weaker

LEMMA NoSymbolsIsTable == NoSymbols \in Symbols /\ NoSymbols \in Flags
<1>1. {} \in SUBSET Names
  OBVIOUS
<1>2. NoSymbols \in [{} -> Symbol] /\ NoSymbols \in [{} -> BOOLEAN]
  BY DEF NoSymbols
<1>. QED
  BY <1>1, <1>2, TableIntro DEF Symbols, Flags

LEMMA NoClaims == Claims(NoSymbols) = {}
BY DEF Claims, NoSymbols

LEMMA NewScopeType ==
    ASSUME NEW kind \in ScopeKinds
    PROVE  /\ NewScope(kind) \in Scope
           /\ NewScope(kind).syms = NoSymbols /\ NewScope(kind).kind = kind
BY NoSymbolsIsTable DEF NewScope, Scope

LEMMA MovedMapType ==
    ASSUME NEW syms \in Symbols PROVE MovedMap(syms) \in Flags
<1>1. DOMAIN syms \in SUBSET Names /\ syms \in [DOMAIN syms -> Symbol]
  BY TableElim DEF Symbols
<1>2. MovedMap(syms) \in [DOMAIN syms -> BOOLEAN]
  BY <1>1 DEF MovedMap, Symbol
<1>. QED
  BY <1>1, <1>2, TableIntro DEF Flags

\* Setting the moved flags leaves the claims.
LEMMA WithMovedClaims ==
    ASSUME NEW syms \in Symbols, NEW moved \in Flags
    PROVE  /\ WithMoved(syms, moved) \in Symbols
           /\ Claims(WithMoved(syms, moved)) \subseteq Claims(syms)
<1>. DEFINE new == WithMoved(syms, moved)
<1>1. DOMAIN syms \in SUBSET Names /\ syms \in [DOMAIN syms -> Symbol]
  BY TableElim DEF Symbols
<1>2. moved \in [DOMAIN moved -> BOOLEAN]
  BY TableElim DEF Flags
<1>3. new \in [DOMAIN syms -> Symbol]
  BY <1>1, <1>2 DEF WithMoved, Symbol
<1>4. \A u \in DOMAIN syms : /\ new[u].from = syms[u].from
                             /\ new[u].exclusive = syms[u].exclusive
                             /\ new[u].sharp = syms[u].sharp
  BY <1>1, <1>2 DEF WithMoved, Symbol
<1>5. DOMAIN new = DOMAIN syms
  BY DEF WithMoved
<1>6. new \in Symbols
  BY <1>1, <1>3, TableIntro DEF Symbols
<1>. HIDE DEF new
<1>7. Claims(new) \subseteq Claims(syms)
  BY <1>4, <1>5 DEF Claims
<1>. QED
  BY <1>6, <1>7 DEF new

\* A declaration adds at most the claim of its own reference.
LEMMA DefineClaims ==
    ASSUME NEW syms \in Symbols, NEW v \in Names,
           NEW from \in Places \cup {<<>>}, NEW x \in BOOLEAN, NEW sharp \in BOOLEAN
    PROVE  LET new == Put(syms, v, [moved |-> FALSE, from |-> from,
                                    exclusive |-> x, sharp |-> sharp])
           IN  /\ new \in Symbols
               /\ Claims(new) \subseteq
                     Claims(syms) \cup {p \in {from} : x /\ ~sharp}
<1>. DEFINE e   == [moved |-> FALSE, from |-> from, exclusive |-> x,
                    sharp |-> sharp]
            new == Put(syms, v, e)
<1>1. e \in Symbol /\ e.from = from /\ e.exclusive = x /\ e.sharp = sharp
  BY DEF Symbol
<1>. HIDE DEF e
<1>2. new \in Symbols
  BY <1>1, TablePut DEF Symbols
<1>3. DOMAIN new = DOMAIN syms \cup {v}
      /\ \A u \in DOMAIN new : new[u] = IF u = v THEN e ELSE syms[u]
  BY DEF Put
<1>. HIDE DEF new
<1>4. ASSUME NEW u \in DOMAIN new, new[u].exclusive, ~new[u].sharp
      PROVE  new[u].from \in Claims(syms) \cup {p \in {from} : x /\ ~sharp}
  <2>1. CASE u = v
    BY <1>1, <1>3, <1>4, <2>1
  <2>2. CASE u # v
    <3>1. u \in DOMAIN syms /\ new[u] = syms[u]
      BY <1>3, <2>2
    <3>. QED
      BY <1>4, <3>1 DEF Claims
  <2>. QED
    BY <2>1, <2>2
<1>5. Claims(new) \subseteq Claims(syms) \cup {p \in {from} : x /\ ~sharp}
  BY <1>4 DEF Claims
<1>. QED
  BY <1>2, <1>5 DEF new, e

\* The scopes after a declaration, with the ledger it leaves.
LEMMA DefineMatches ==
    ASSUME NEW S, NEW L, NEW M, Matches(S, L), Keeps(L, M),
           NEW v \in Names, NEW from \in Places \cup {<<>>}, NEW x \in BOOLEAN,
           NEW sharp \in BOOLEAN,
           x /\ ~sharp => from \in Exclusives(M.maps[Len(L.maps)])
    PROVE  Matches(Define(S, v, from, x, sharp), M)
<1>. DEFINE n   == Len(S)
            new == Put(S[n].syms, v, [moved |-> FALSE, from |-> from,
                                      exclusive |-> x, sharp |-> sharp])
            sc  == [S[n] EXCEPT !.syms = new]
            T   == [S EXCEPT ![n] = sc]
<1>1. S \in Seq(Scope) /\ n \in 1..n /\ S[n] \in Scope /\ S[1].kind = "body"
      /\ Len(L.maps) = n + 1
  BY DEF Matches
<1>2. S[n].syms \in Symbols
  BY <1>1 DEF Scope
<1>3. /\ new \in Symbols
      /\ Claims(new) \subseteq Claims(S[n].syms) \cup {p \in {from} : x /\ ~sharp}
  BY <1>2, DefineClaims
<1>4. Define(S, v, from, x, sharp) = T
  BY DEF Define
<1>. HIDE DEF new
<1>5. sc \in Scope /\ sc.syms = new /\ sc.kind = S[n].kind
  BY <1>1, <1>3 DEF Scope
<1>. HIDE DEF sc
<1>6. /\ T \in Seq(Scope) /\ Len(T) = n /\ T[n] = sc
      /\ \A i \in 1..n : i # n => T[i] = S[i]
  BY <1>1, <1>5
<1>. HIDE DEF T
<1>7. T[1].kind = "body"
  BY <1>1, <1>5, <1>6
<1>8. Settled(M) /\ Len(M.maps) = n + 1
  BY <1>1 DEF Keeps, Settled
<1>9. ASSUME NEW i \in 1..n
      PROVE  Claims(T[i].syms) \subseteq Exclusives(M.maps[i + 1])
  <2>1. Claims(S[i].syms) \subseteq Exclusives(M.maps[i + 1])
    <3>1. Claims(S[i].syms) \subseteq Exclusives(L.maps[i + 1])
      BY DEF Matches
    <3>2. i + 1 \in 1..Len(L.maps)
      BY <1>1
    <3>. QED
      BY <3>1, <3>2 DEF Keeps
  <2>2. CASE i = n
    BY <1>1, <1>3, <1>5, <1>6, <2>1, <2>2
  <2>3. CASE i # n
    BY <1>6, <2>1, <2>3
  <2>. QED
    BY <2>2, <2>3
<1>10. Matches(T, M)
  BY <1>1, <1>6, <1>7, <1>8, <1>9 DEF Matches
<1>. QED
  BY <1>4, <1>10

-----------------------------------------------------------------------------
(* Blocks                                                                  *)

LEMMA NoEntriesType == NoEntries \in PathMaps /\ Exclusives(NoEntries) = {}
<1>1. NoEntries \in [{} -> {"shared", "exclusive"}] /\ {} \in SUBSET Places
  BY DEF NoEntries
<1>2. NoEntries \in PathMaps
  BY <1>1, TableIntro DEF PathMaps
<1>. QED
  BY <1>2 DEF Exclusives, NoEntries

LEMMA SettledKeeps == ASSUME NEW L, Settled(L) PROVE Keeps(L, L)
BY DEF Settled, Keeps

\* A scope without claims opens, with a map of its own.
LEMMA PushMatches ==
    ASSUME NEW S, NEW L, Matches(S, L), NEW sc \in Scope, Claims(sc.syms) = {}
    PROVE  Matches(Append(S, sc), PushScope(L))
<1>. DEFINE n == Len(S)
            T == Append(S, sc)
            M == PushScope(L)
<1>1. /\ S \in Seq(Scope) /\ n \in Nat /\ n > 0 /\ S[1].kind = "body"
      /\ L \in Ledgers /\ L.transient = <<>> /\ L.maps \in Seq(PathMaps)
      /\ Len(L.maps) = n + 1
  BY DEF Matches, Settled, Ledgers
<1>2. /\ T \in Seq(Scope) /\ Len(T) = n + 1 /\ T[n + 1] = sc
      /\ \A i \in 1..n : T[i] = S[i]
  BY <1>1
<1>3. Append(L.maps, NoEntries) \in Seq(PathMaps)
  BY <1>1, NoEntriesType
<1>4. M = [maps |-> Append(L.maps, NoEntries), transient |-> <<>>]
  <2>. DEFINE maps == Append(L.maps, NoEntries)
  <2>1. M = [L EXCEPT !.maps = maps]
    BY DEF PushScope
  <2>. HIDE DEF maps, M
  <2>2. M = [maps |-> maps, transient |-> <<>>]
    BY <1>1, <2>1 DEF Ledgers
  <2>. QED
    BY <2>2 DEF maps
<1>5. /\ Settled(M) /\ Len(M.maps) = n + 2
      /\ \A i \in 1..(n + 1) : M.maps[i] = L.maps[i]
  BY <1>1, <1>3, <1>4 DEF Settled, Ledgers
<1>. HIDE DEF T, M
<1>6. ASSUME NEW i \in 1..Len(T)
      PROVE  Claims(T[i].syms) \subseteq Exclusives(M.maps[i + 1])
  <2>1. CASE i = n + 1
    BY <1>2, <2>1
  <2>2. CASE i \in 1..n
    <3>1. Claims(S[i].syms) \subseteq Exclusives(L.maps[i + 1])
      BY <2>2 DEF Matches
    <3>2. i + 1 \in 1..(n + 1)
      BY <1>1, <2>2
    <3>. QED
      BY <1>2, <1>5, <2>2, <3>1, <3>2
  <2>. QED
    BY <1>1, <1>2, <2>1, <2>2
<1>7. T[1].kind = "body"
  BY <1>1, <1>2
<1>8. Len(M.maps) = Len(T) + 1 /\ Len(T) > 0
  BY <1>1, <1>2, <1>5
<1>9. Matches(T, M)
  BY <1>2, <1>5, <1>6, <1>7, <1>8 DEF Matches
<1>. QED
  BY <1>9 DEF T, M

\* The innermost scope ends, and its map with it.
LEMMA PopMatches ==
    ASSUME NEW S, NEW L, Matches(S, L), Len(S) > 1
    PROVE  Matches(Front(S), PopScope(L)) /\ Len(Front(S)) = Len(S) - 1
<1>. DEFINE n == Len(S) - 1
            T == Front(S)
            M == PopScope(L)
<1>1. /\ S \in Seq(Scope) /\ n \in Nat /\ n > 0 /\ S[1].kind = "body"
      /\ L \in Ledgers /\ L.transient = <<>> /\ L.maps \in Seq(PathMaps)
      /\ Len(L.maps) = n + 2 /\ Len(S) = n + 1
  BY DEF Matches, Settled, Ledgers
<1>2. /\ T \in Seq(Scope) /\ Len(T) = n
      /\ \A i \in 1..n : T[i] = S[i]
  BY <1>1 DEF Front
<1>3. /\ Front(L.maps) \in Seq(PathMaps) /\ Len(Front(L.maps)) = n + 1
      /\ \A i \in 1..(n + 1) : Front(L.maps)[i] = L.maps[i]
  BY <1>1 DEF Front
<1>4. M = [maps |-> Front(L.maps), transient |-> <<>>]
  BY <1>1 DEF PopScope, Ledgers
<1>5. /\ Settled(M) /\ Len(M.maps) = n + 1
      /\ \A i \in 1..(n + 1) : M.maps[i] = L.maps[i]
  BY <1>1, <1>3, <1>4 DEF Settled, Ledgers
<1>. HIDE DEF T, M
<1>6. ASSUME NEW i \in 1..Len(T)
      PROVE  Claims(T[i].syms) \subseteq Exclusives(M.maps[i + 1])
  <2>1. i \in 1..Len(S) /\ i \in 1..n /\ i + 1 \in 1..(n + 1)
    BY <1>1, <1>2
  <2>2. Claims(S[i].syms) \subseteq Exclusives(L.maps[i + 1])
    BY <2>1 DEF Matches
  <2>. QED
    BY <1>2, <1>5, <2>1, <2>2
<1>7. T[1].kind = "body"
  BY <1>1, <1>2
<1>8. Matches(T, M)
  BY <1>1, <1>2, <1>5, <1>6, <1>7 DEF Matches
<1>. QED
  BY <1>1, <1>2, <1>8 DEF T, M

\* The last scope is told what moved, and whether it jumps.
LEMMA FlagsWeaker ==
    ASSUME NEW S \in Seq(Scope), Len(S) > 0, NEW moved \in Flags,
           NEW jumps \in BOOLEAN, NEW dead \in BOOLEAN
    PROVE  Weaker(S, [S EXCEPT ![Len(S)] =
                        [S[Len(S)] EXCEPT !.syms = WithMoved(S[Len(S)].syms, moved),
                                          !.jumps = jumps, !.dead = dead]])
<1>1. Len(S) \in 1..Len(S) /\ S[Len(S)] \in Scope /\ S[Len(S)].syms \in Symbols
  <2>1. Len(S) \in 1..Len(S) /\ S[Len(S)] \in Scope
    OBVIOUS
  <2>. QED
    BY <2>1 DEF Scope
<1>. DEFINE new == WithMoved(S[Len(S)].syms, moved)
            sc  == [S[Len(S)] EXCEPT !.syms = new, !.jumps = jumps, !.dead = dead]
<1>2. new \in Symbols /\ Claims(new) \subseteq Claims(S[Len(S)].syms)
  BY <1>1, WithMovedClaims
<1>. HIDE DEF new
<1>3. sc \in Scope /\ sc.syms = new /\ sc.kind = S[Len(S)].kind
  BY <1>1, <1>2 DEF Scope
<1>. HIDE DEF sc
<1>4. Weaker(S, [S EXCEPT ![Len(S)] = sc])
  BY <1>1, <1>2, <1>3 DEF Weaker
<1>. QED
  BY <1>4 DEF sc, new

-----------------------------------------------------------------------------
(* The inductive invariant, one lemma per action                           *)

BorrowInv == profile \in Profiles /\ (phase = "check" => Matches(scopes, ledger))

LEMMA WhileChecking ==
    ASSUME BorrowInv, phase = "check"
    PROVE  /\ profile \in Profiles /\ profile.names \subseteq Names
           /\ Matches(scopes, ledger) /\ Settled(ledger)
           /\ scopes \in Seq(Scope) /\ Len(scopes) > 0
BY NamesHaveKinds DEF BorrowInv, Matches, Names

LEMMA StepNew ==
    ASSUME BorrowInv, NEW v \in profile.names, DeclareNew(v) PROVE BorrowInv'
<1>1. phase = "check" /\ profile' = profile
      /\ scopes' = Define(scopes, v, <<>>, FALSE, FALSE)
      /\ ledger' = ClearTransient(ledger)
  BY DEF DeclareNew, MayWrite, Statement
<1>2. Keeps(ledger, ClearTransient(ledger))
  BY <1>1, WhileChecking, NoBorrowKeeps
<1>3. Matches(Define(scopes, v, <<>>, FALSE, FALSE), ClearTransient(ledger))
  <2>1. v \in Names /\ <<>> \in Places \cup {<<>>} /\ FALSE \in BOOLEAN
    BY <1>1, WhileChecking
  <2>. QED
    BY <1>1, <1>2, <2>1, WhileChecking, DefineMatches
<1>. QED
  BY <1>1, <1>3, WhileChecking DEF BorrowInv

LEMMA StepFrom ==
    ASSUME BorrowInv, NEW v \in profile.names, NEW w, DeclareFrom(v, w)
    PROVE  BorrowInv'
<1>. DEFINE scs == Define(scopes, v, <<>>, FALSE, FALSE)
<1>1. phase = "check" /\ profile' = profile
      /\ \/ phase' = "refused"
         \/ /\ ledger' = ClearTransient(ledger)
            /\ scopes' = scs \/ scopes' = SetMoved(scs, w, TRUE)
  BY DEF DeclareFrom, MayWrite, Statement
<1>2. Keeps(ledger, ClearTransient(ledger))
  BY <1>1, WhileChecking, NoBorrowKeeps
<1>3. Matches(scs, ClearTransient(ledger))
  <2>1. v \in Names /\ <<>> \in Places \cup {<<>>} /\ FALSE \in BOOLEAN
    BY <1>1, WhileChecking
  <2>. QED
    BY <1>1, <1>2, <2>1, WhileChecking, DefineMatches
<1>. HIDE DEF scs
<1>4. Matches(SetMoved(scs, w, TRUE), ClearTransient(ledger))
  <2>1. scs \in Seq(Scope)
    BY <1>3 DEF Matches
  <2>2. Weaker(scs, SetMoved(scs, w, TRUE))
    BY <2>1, MovedWeaker DEF SetMoved
  <2>3. Keeps(ClearTransient(ledger), ClearTransient(ledger))
    BY <1>3, SettledKeeps DEF Matches
  <2>. QED
    BY <1>3, <2>2, <2>3, WeakerMatches
<1>. QED
  BY <1>1, <1>3, <1>4, WhileChecking DEF BorrowInv

LEMMA StepRef ==
    ASSUME BorrowInv, NEW r \in profile.names, NEW place \in Places,
           NEW wanted \in BOOLEAN, NEW sharp \in BOOLEAN,
           DeclareRef(r, place, wanted, sharp)
    PROVE  BorrowInv'
<1>. DEFINE x    == Exclusive(place, wanted)
            from == IF sharp THEN <<>> ELSE place
            M    == ClearTransient(IF sharp THEN Record(ledger, place, x)
                                   ELSE Commit(Record(ledger, place, x), place))
<1>1. phase = "check" /\ profile' = profile
      /\ \/ phase' = "refused"
         \/ /\ ledger' = M
            /\ scopes' = Define(scopes, r, from, x, sharp)
            /\ BorrowErrors(place, x, r) = {}
  BY DEF DeclareRef, MayWrite, Statement
<1>2. CASE phase' = "refused"
  BY <1>1, <1>2, WhileChecking DEF BorrowInv
<1>3. CASE phase' # "refused"
  <2>1. CanRecord(ledger, place, x)
    BY <1>1, <1>3 DEF BorrowErrors
  <2>2. x \in BOOLEAN
    BY DEF Exclusive
  <2>. HIDE DEF x
  <2>3. /\ Keeps(ledger, M)
        /\ x /\ ~sharp => from \in Exclusives(M.maps[Len(ledger.maps)])
    <3>1. CASE sharp
      BY <1>1, <2>1, <2>2, <3>1, WhileChecking, TransientKeeps
    <3>2. CASE ~sharp
      BY <1>1, <2>1, <2>2, <3>2, WhileChecking, CommitKeeps
    <3>. QED
      BY <3>1, <3>2
  <2>. HIDE DEF M
  <2>4. r \in Names /\ from \in Places \cup {<<>>}
    BY <1>1, WhileChecking
  <2>. HIDE DEF from
  <2>5. Matches(Define(scopes, r, from, x, sharp), M)
    BY <1>1, <2>2, <2>3, <2>4, WhileChecking, DefineMatches
  <2>. QED
    BY <1>1, <1>3, <2>5, WhileChecking DEF BorrowInv
<1>. QED
  BY <1>2, <1>3

LEMMA StepUse ==
    ASSUME BorrowInv, NEW v, Use(v) PROVE BorrowInv'
<1>1. phase = "check" /\ profile' = profile
      /\ \/ phase' = "refused"
         \/ ledger' = ClearTransient(ledger) /\ scopes' = scopes
  BY DEF Use, MayWrite, Statement
<1>2. Keeps(ledger, ClearTransient(ledger)) /\ Weaker(scopes, scopes)
  BY <1>1, WhileChecking, NoBorrowKeeps DEF Weaker
<1>3. Matches(scopes, ClearTransient(ledger))
  BY <1>1, <1>2, WhileChecking, WeakerMatches
<1>. QED
  BY <1>1, <1>3, WhileChecking DEF BorrowInv

LEMMA StepLend ==
    ASSUME BorrowInv, NEW place \in Places, Lend(place) PROVE BorrowInv'
<1>. DEFINE M == ClearTransient(Record(ledger, place, FALSE))
<1>1. phase = "check" /\ profile' = profile
      /\ \/ phase' = "refused"
         \/ /\ ledger' = M /\ scopes' = scopes
            /\ BorrowErrors(place, FALSE, "") = {}
  BY DEF Lend, MayWrite, Statement
<1>2. CASE phase' = "refused"
  BY <1>1, <1>2, WhileChecking DEF BorrowInv
<1>3. CASE phase' # "refused"
  <2>1. CanRecord(ledger, place, FALSE)
    BY <1>1, <1>3 DEF BorrowErrors
  <2>2. Keeps(ledger, M)
    BY <1>1, <2>1, WhileChecking, TransientKeeps
  <2>. HIDE DEF M
  <2>3. Weaker(scopes, scopes)
    BY <1>1, WhileChecking DEF Weaker
  <2>4. Matches(scopes, M)
    BY <1>1, <2>2, <2>3, WhileChecking, WeakerMatches
  <2>. QED
    BY <1>1, <1>3, <2>4, WhileChecking DEF BorrowInv
<1>. QED
  BY <1>2, <1>3

\* The statements that change flags only: T is what they make of the scopes.
LEMMA FlagsMatch ==
    ASSUME BorrowInv, phase = "check", NEW T, Weaker(scopes, T)
    PROVE  Matches(T, ClearTransient(ledger))
BY WhileChecking, NoBorrowKeeps, WeakerMatches

LEMMA StepWrite ==
    ASSUME BorrowInv, NEW v, Write(v) PROVE BorrowInv'
<1>1. phase = "check" /\ profile' = profile
      /\ \/ phase' = "refused"
         \/ /\ ledger' = ClearTransient(ledger)
            /\ scopes' = SetMoved(scopes, v, FALSE)
  BY DEF Write, MayWrite, Statement
<1>2. Weaker(scopes, SetMoved(scopes, v, FALSE))
  BY <1>1, WhileChecking, MovedWeaker DEF SetMoved
<1>3. Matches(SetMoved(scopes, v, FALSE), ClearTransient(ledger))
  BY <1>1, <1>2, FlagsMatch
<1>. QED
  BY <1>1, <1>3, WhileChecking DEF BorrowInv

LEMMA StepCede ==
    ASSUME BorrowInv, NEW v, Cede(v) PROVE BorrowInv'
<1>1. phase = "check" /\ profile' = profile
      /\ \/ phase' = "refused"
         \/ /\ ledger' = ClearTransient(ledger)
            /\ scopes' = SetMoved(scopes, v, TRUE)
  BY DEF Cede, MayWrite, Statement
<1>2. Weaker(scopes, SetMoved(scopes, v, TRUE))
  BY <1>1, WhileChecking, MovedWeaker DEF SetMoved
<1>3. Matches(SetMoved(scopes, v, TRUE), ClearTransient(ledger))
  BY <1>1, <1>2, FlagsMatch
<1>. QED
  BY <1>1, <1>3, WhileChecking DEF BorrowInv

LEMMA StepAssign ==
    ASSUME BorrowInv, NEW v, NEW w, NEW sharp, Assign(v, w, sharp)
    PROVE  BorrowInv'
<1>. DEFINE scs == IF w # "" /\ Kind[v] = "unique"
                   THEN SetMoved(scopes, w, TRUE) ELSE scopes
            T   == [scs EXCEPT ![Depth(v)].syms[v].moved = FALSE]
<1>1. phase = "check" /\ profile' = profile
      /\ \/ phase' = "refused"
         \/ ledger' = ClearTransient(ledger) /\ scopes' = T
  BY DEF Assign, MayWrite, Statement
<1>2. Weaker(scopes, scs)
  <2>1. Weaker(scopes, scopes)
    BY <1>1, WhileChecking DEF Weaker
  <2>2. Weaker(scopes, SetMoved(scopes, w, TRUE))
    BY <1>1, WhileChecking, MovedWeaker DEF SetMoved
  <2>. QED
    BY <2>1, <2>2
<1>. HIDE DEF scs
<1>3. Weaker(scopes, T)
  <2>1. scs \in Seq(Scope)
    BY <1>2 DEF Weaker
  <2>2. Weaker(scs, T)
    BY <2>1, MovedWeaker
  <2>. HIDE DEF T
  <2>. QED
    BY <1>2, <2>2, WeakerIsTransitive
<1>. HIDE DEF T
<1>4. Matches(T, ClearTransient(ledger))
  BY <1>1, <1>3, FlagsMatch
<1>. QED
  BY <1>1, <1>4, WhileChecking DEF BorrowInv

LEMMA StepRebind ==
    ASSUME BorrowInv, NEW r, NEW place \in Places, NEW sharp \in BOOLEAN,
           Rebind(r, place, sharp)
    PROVE  BorrowInv'
<1>. DEFINE M == ClearTransient(IF sharp
                                THEN Upgrade(Record(ledger, place, FALSE), place)
                                ELSE Record(ledger, place, FALSE))
<1>1. phase = "check" /\ profile' = profile
      /\ \/ phase' = "refused"
         \/ /\ ledger' = M /\ scopes' = scopes
            /\ BorrowErrors(place, FALSE, "") = {}
  BY DEF Rebind, MayWrite, Statement
<1>2. CASE phase' = "refused"
  BY <1>1, <1>2, WhileChecking DEF BorrowInv
<1>3. CASE phase' # "refused"
  <2>1. CanRecord(ledger, place, FALSE)
    BY <1>1, <1>3 DEF BorrowErrors
  <2>2. Keeps(ledger, M)
    <3>1. CASE sharp
      BY <1>1, <2>1, <3>1, WhileChecking, UpgradeKeeps
    <3>2. CASE ~sharp
      BY <1>1, <2>1, <3>2, WhileChecking, TransientKeeps
    <3>. QED
      BY <3>1, <3>2
  <2>. HIDE DEF M
  <2>3. Weaker(scopes, scopes)
    BY <1>1, WhileChecking DEF Weaker
  <2>4. Matches(scopes, M)
    BY <1>1, <2>2, <2>3, WhileChecking, WeakerMatches
  <2>. QED
    BY <1>1, <1>3, <2>4, WhileChecking DEF BorrowInv
<1>. QED
  BY <1>2, <1>3

LEMMA StepReturn ==
    ASSUME BorrowInv, NEW v, Return(v) PROVE BorrowInv'
<1>1. phase = "check" /\ profile' = profile
      /\ \/ phase' = "refused"
         \/ ledger' = ClearTransient(ledger) /\ scopes' = Jumping(scopes)
  BY DEF Return, MayWrite, Statement
<1>2. Matches(Jumping(scopes), ClearTransient(ledger))
  BY <1>1, WhileChecking, JumpingWeaker, FlagsMatch
<1>. QED
  BY <1>1, <1>2, WhileChecking DEF BorrowInv

LEMMA StepJump ==
    ASSUME BorrowInv, NEW op, Jump(op) PROVE BorrowInv'
<1>1. phase = "check" /\ profile' = profile
      /\ ledger' = ClearTransient(ledger) /\ scopes' = Jumping(scopes)
  BY DEF Jump, MayWrite, Statement
<1>2. Matches(Jumping(scopes), ClearTransient(ledger))
  BY <1>1, WhileChecking, JumpingWeaker, FlagsMatch
<1>. QED
  BY <1>1, <1>2, WhileChecking DEF BorrowInv

LEMMA HereType ==
    ASSUME BorrowInv, phase = "check"
    PROVE  Here \in Scope /\ Here = scopes[Len(scopes)]
           /\ Here.syms \in Symbols /\ Here.before \in Flags
           /\ Here.then \in Flags /\ Here.thenJumps \in BOOLEAN
           /\ Here.jumps \in BOOLEAN /\ Here.dead \in BOOLEAN
<1>1. scopes \in Seq(Scope) /\ Len(scopes) \in 1..Len(scopes)
  BY WhileChecking
<1>2. Here = scopes[Len(scopes)] /\ Here \in Scope
  BY <1>1 DEF Here, Last
<1>. QED
  BY <1>2 DEF Scope

LEMMA StepOpen ==
    ASSUME BorrowInv, NEW kind, Open(kind) PROVE BorrowInv'
<1>. DEFINE sc == [NewScope(kind) EXCEPT !.before = MovedMap(Here.syms)]
<1>1. phase = "check" /\ profile' = profile /\ kind \in ScopeKinds
      /\ scopes' = Append(scopes, sc) /\ ledger' = PushScope(ledger)
  <2>1. kind \in {"block", "if", "loop"}
    BY DEF Open
  <2>2. kind \in ScopeKinds
    BY <2>1 DEF ScopeKinds
  <2>3. phase = "check" /\ profile' = profile /\ scopes' = Append(scopes, sc)
    BY DEF Open, MayWrite
  <2>4. ledger' = PushScope(ledger)
    BY DEF Open
  <2>. HIDE DEF sc
  <2>. QED
    BY <2>2, <2>3, <2>4
<1>2. MovedMap(Here.syms) \in Flags
  BY <1>1, HereType, MovedMapType
<1>3. sc \in Scope /\ sc.syms = NoSymbols
  <2>1. NewScope(kind) \in Scope /\ NewScope(kind).syms = NoSymbols
    BY <1>1, NewScopeType
  <2>. QED
    BY <1>2, <2>1 DEF Scope
<1>. HIDE DEF sc
<1>4. Claims(sc.syms) = {}
  BY <1>3, NoClaims
<1>5. Matches(Append(scopes, sc), PushScope(ledger))
  BY <1>1, <1>3, <1>4, WhileChecking, PushMatches
<1>. QED
  BY <1>1, <1>5, WhileChecking DEF BorrowInv

\* A block that closes or goes on with else is not the body of the function.
LEMMA NotTheBody ==
    ASSUME BorrowInv, phase = "check", Here.kind # "body"
    PROVE  Len(scopes) > 1
<1>1. scopes[1].kind = "body" /\ Len(scopes) \in Nat /\ Len(scopes) > 0
  BY WhileChecking DEF Matches
<1>2. Here.kind = scopes[Len(scopes)].kind
  BY HereType
<1>. QED
  BY <1>1, <1>2

LEMMA StepElse ==
    ASSUME BorrowInv, Else PROVE BorrowInv'
<1>. DEFINE n  == Outer(scopes)
            S  == Front(scopes)
            L  == PopScope(ledger)
            T  == [S EXCEPT ![n].syms = WithMoved(@, Here.before)]
            sc == [NewScope("else") EXCEPT
                      !.before = Here.before,
                      !.then = MovedMap(scopes[n].syms),
                      !.thenJumps = Here.jumps]
<1>1. phase = "check" /\ profile' = profile /\ Here.kind = "if"
      /\ scopes' = T \o <<sc>> /\ ledger' = PushScope(L)
  BY DEF Else
<1>2. Len(scopes) > 1
  BY <1>1, NotTheBody
<1>3. Matches(S, L) /\ Len(S) = n /\ S \in Seq(Scope) /\ Len(S) > 0
  BY <1>1, <1>2, WhileChecking, PopMatches DEF Outer, Matches
<1>4. S[n] \in Scope /\ S[n] = scopes[n] /\ S[n].jumps \in BOOLEAN
      /\ S[n].dead \in BOOLEAN /\ scopes[n].syms \in Symbols
  <2>1. n \in 1..Len(S) /\ n \in 1..(Len(scopes) - 1)
    BY <1>2, <1>3, WhileChecking, <1>1 DEF Outer
  <2>2. S[n] \in Scope
    BY <1>3, <2>1
  <2>3. S[n] = scopes[n]
    BY <1>1, <1>2, <2>1, WhileChecking DEF Front
  <2>. QED
    BY <2>2, <2>3 DEF Scope
<1>5. Weaker(S, T)
  <2>. DEFINE new == [S[n] EXCEPT !.syms = WithMoved(S[n].syms, Here.before),
                                  !.jumps = S[n].jumps, !.dead = S[n].dead]
  <2>1. Weaker(S, [S EXCEPT ![n] = new])
    <3>1. Here.before \in Flags
      BY <1>1, HereType
    <3>. HIDE DEF n, S
    <3>. QED
      BY <1>3, <1>4, <3>1, FlagsWeaker
  <2>2. new = [S[n] EXCEPT !.syms = WithMoved(S[n].syms, Here.before)]
    <3>. DEFINE o == S[n]
                syms == WithMoved(S[n].syms, Here.before)
    <3>1. o \in Scope
      BY <1>4
    <3>. HIDE DEF o, syms
    <3>2. [o EXCEPT !.syms = syms, !.jumps = o.jumps, !.dead = o.dead]
             = [o EXCEPT !.syms = syms]
      BY <3>1 DEF Scope
    <3>. QED
      BY <3>2 DEF o, syms
  <2>3. T = [S EXCEPT ![n] = [S[n] EXCEPT !.syms = WithMoved(S[n].syms, Here.before)]]
    OBVIOUS
  <2>. QED
    BY <2>1, <2>2, <2>3
<1>6. sc \in Scope /\ sc.syms = NoSymbols
  <2>1. NewScope("else") \in Scope /\ NewScope("else").syms = NoSymbols
    BY NewScopeType DEF ScopeKinds
  <2>2. Here.before \in Flags /\ Here.jumps \in BOOLEAN
    BY <1>1, HereType
  <2>3. MovedMap(scopes[n].syms) \in Flags
    BY <1>4, MovedMapType
  <2>. QED
    BY <2>1, <2>2, <2>3 DEF Scope
<1>. HIDE DEF T, sc
<1>7. Matches(T, L)
  <2>1. Keeps(L, L)
    BY <1>3, SettledKeeps DEF Matches
  <2>. HIDE DEF S, L
  <2>. QED
    BY <1>3, <1>5, <2>1, WeakerMatches
<1>8. Claims(sc.syms) = {}
  BY <1>6, NoClaims
<1>. HIDE DEF L
<1>9. Matches(Append(T, sc), PushScope(L))
  BY <1>6, <1>7, <1>8, PushMatches
<1>10. T \o <<sc>> = Append(T, sc)
  BY <1>6, <1>7 DEF Matches
<1>. QED
  BY <1>1, <1>9, <1>10, WhileChecking DEF BorrowInv

LEMMA AfterType ==
    ASSUME NEW now \in Flags, NEW f \in Scope
    PROVE  AfterIf(now, f) \in Flags /\ AfterElse(now, f) \in Flags
<1>1. DOMAIN now \in SUBSET Names /\ now \in [DOMAIN now -> BOOLEAN]
  BY TableElim DEF Flags
<1>2. f.before \in Flags /\ f.then \in Flags /\ f.jumps \in BOOLEAN
  BY DEF Scope
<1>3. f.before \in [DOMAIN f.before -> BOOLEAN]
      /\ f.then \in [DOMAIN f.then -> BOOLEAN]
  BY <1>2, TableElim DEF Flags
<1>4. AfterIf(now, f) \in [DOMAIN now -> BOOLEAN]
  BY <1>1, <1>2, <1>3 DEF AfterIf
<1>5. [v \in DOMAIN now |-> now[v] \/ (v \in DOMAIN f.then /\ f.then[v])]
         \in [DOMAIN now -> BOOLEAN]
  BY <1>1, <1>3
<1>6. /\ AfterIf(now, f) \in Flags
      /\ [v \in DOMAIN now |-> now[v] \/ (v \in DOMAIN f.then /\ f.then[v])] \in Flags
  BY <1>1, <1>4, <1>5, TableIntro DEF Flags
<1>. QED
  BY <1>2, <1>6 DEF AfterElse

LEMMA StepClose ==
    ASSUME BorrowInv, Close PROVE BorrowInv'
<1>. DEFINE f   == Here
            n   == Outer(scopes)
            now == MovedMap(scopes[n].syms)
            S   == Front(scopes)
            L   == PopScope(ledger)
            moved == CASE f.kind = "if"   -> AfterIf(now, f)
                       [] f.kind = "else" -> AfterElse(now, f)
                       [] OTHER           -> now
            jumps == S[n].jumps \/ (CASE f.kind = "if"   -> FALSE
                                      [] f.kind = "else" -> f.jumps /\ f.thenJumps
                                      [] OTHER           -> f.jumps)
            dead  == f.dead /\ f.kind = "block"
            T == [S EXCEPT ![n] = [S[n] EXCEPT !.syms = WithMoved(S[n].syms, moved),
                                               !.jumps = jumps, !.dead = dead]]
<1>1. phase = "check" /\ profile' = profile /\ Len(scopes) > 1
      /\ ledger' = ClearTransient(L)
  BY DEF Close
<1>2. Matches(S, L) /\ Len(S) = n /\ S \in Seq(Scope) /\ Len(S) > 0
  BY <1>1, WhileChecking, PopMatches DEF Outer, Matches
<1>3. /\ n \in 1..Len(S) /\ S[n] \in Scope /\ S[n].jumps \in BOOLEAN
      /\ scopes[n] = S[n] /\ S[n].syms \in Symbols
  <2>1. n \in 1..Len(S) /\ n \in 1..(Len(scopes) - 1)
    BY <1>1, <1>2, WhileChecking DEF Outer
  <2>2. S[n] \in Scope
    BY <1>2, <2>1
  <2>3. S[n] = scopes[n]
    BY <1>1, <2>1, WhileChecking DEF Front
  <2>. QED
    BY <2>1, <2>2, <2>3 DEF Scope
<1>4. scopes' = T
  BY <1>3 DEF Close
<1>5. now \in Flags
  BY <1>3, MovedMapType
<1>6. moved \in Flags
  <2>1. f \in Scope
    BY <1>1, HereType
  <2>2. AfterIf(now, f) \in Flags /\ AfterElse(now, f) \in Flags
    BY <1>5, <2>1, AfterType
  <2>. HIDE DEF now
  <2>. QED
    BY <1>5, <2>2
<1>7. jumps \in BOOLEAN /\ dead \in BOOLEAN
  <2>1. f.jumps \in BOOLEAN /\ f.thenJumps \in BOOLEAN /\ f.dead \in BOOLEAN
    BY <1>1, HereType
  <2>. QED
    BY <1>3, <2>1
<1>8. Weaker(S, T)
  <2>. HIDE DEF moved, jumps, dead, S, n
  <2>. QED
    BY <1>2, <1>6, <1>7, FlagsWeaker
<1>. HIDE DEF T, S, L
<1>9. Matches(T, ClearTransient(L))
  <2>1. Keeps(L, ClearTransient(L))
    BY <1>2, NoBorrowKeeps DEF Matches
  <2>. QED
    BY <1>2, <1>8, <2>1, WeakerMatches
<1>. QED
  BY <1>1, <1>4, <1>9, WhileChecking DEF BorrowInv

-----------------------------------------------------------------------------
(* The theorem                                                             *)

LEMMA BorrowInvInit == Init => BorrowInv
<1>. SUFFICES ASSUME Init PROVE BorrowInv
  OBVIOUS
<1>1. profile \in Profiles /\ scopes = <<NewScope("body")>>
      /\ ledger = PushScope(EmptyLedger)
  BY DEF Init, BorrowInit
<1>2. ledger = [maps |-> <<NoEntries, NoEntries>>, transient |-> <<>>]
  BY <1>1 DEF PushScope, EmptyLedger
<1>3. Settled(ledger) /\ Len(ledger.maps) = 2
  BY <1>2, NoEntriesType DEF Settled, Ledgers
<1>4. /\ scopes \in Seq(Scope) /\ Len(scopes) = 1
      /\ scopes[1].kind = "body" /\ scopes[1].syms = NoSymbols
  <2>1. /\ NewScope("body") \in Scope /\ NewScope("body").kind = "body"
        /\ NewScope("body").syms = NoSymbols
    BY NewScopeType DEF ScopeKinds
  <2>. QED
    BY <1>1, <2>1
<1>5. Matches(scopes, ledger)
  BY <1>3, <1>4, NoClaims DEF Matches
<1>. QED
  BY <1>1, <1>5 DEF BorrowInv

LEMMA BorrowInvNext == BorrowInv /\ [Next]_vars => BorrowInv'
<1>. SUFFICES ASSUME BorrowInv, [Next]_vars PROVE BorrowInv'
  OBVIOUS
<1>1. CASE BorrowNext
  <2>1. ASSUME NEW v \in profile.names, DeclareNew(v) \/ Use(v) \/ Write(v) \/ Cede(v)
        PROVE  BorrowInv'
    BY <2>1, StepNew, StepUse, StepWrite, StepCede
  <2>2. ASSUME NEW v \in profile.names \cap Owners, NEW w \in profile.names \cap Owners,
               DeclareFrom(v, w)
        PROVE  BorrowInv'
    BY <2>2, StepFrom
  <2>3. ASSUME NEW v \in profile.names, NEW w \in profile.names \cup {""},
              NEW sharp \in BOOLEAN, Assign(v, w, sharp)
        PROVE  BorrowInv'
    BY <2>3, StepAssign
  <2>4. ASSUME NEW r \in profile.names, NEW place \in Places, NEW sharp \in BOOLEAN,
               \/ Rebind(r, place, sharp)
               \/ \E x \in BOOLEAN : DeclareRef(r, place, x, sharp)
        PROVE  BorrowInv'
    BY <2>4, StepRebind, StepRef
  <2>5. ASSUME NEW place \in Places, Lend(place) PROVE BorrowInv'
    BY <2>5, StepLend
  <2>6. ASSUME NEW v \in profile.names \cup {""}, Return(v) PROVE BorrowInv'
    BY <2>6, StepReturn
  <2>7. ASSUME NEW op \in {"break", "continue"}, Jump(op) PROVE BorrowInv'
    BY <2>7, StepJump
  <2>8. ASSUME NEW kind \in {"block", "if", "loop"}, Open(kind) PROVE BorrowInv'
    BY <2>8, StepOpen
  <2>9. CASE Else
    BY <2>9, StepElse
  <2>10. CASE Close
    BY <2>10, StepClose
  <2>11. CASE Accept
    BY <2>11 DEF Accept, BorrowInv
  <2>. QED
    BY <1>1, <2>1, <2>2, <2>3, <2>4, <2>5, <2>6, <2>7, <2>8, <2>9, <2>10, <2>11
       DEF BorrowNext
<1>2. CASE Generate
  BY <1>2 DEF Generate, BorrowInv
<1>3. CASE \/ New \/ Move \/ Share \/ Read \/ Store \/ PlainStore \/ Graft
           \/ Access \/ Overwrite \/ Release \/ Give \/ BranchOn \/ Follow
  <2>1. phase = "run" /\ phase' = phase /\ profile' = profile
    BY <1>3 DEF New, Move, Share, Read, Store, PlainStore, Graft, Access,
                Overwrite, Release, Give, BranchOn, Follow, Running, checkVars
  <2>. QED
    BY <2>1 DEF BorrowInv
<1>4. CASE Ret
  BY <1>4 DEF Ret, BorrowInv
<1>5. CASE UNCHANGED vars
  BY <1>5 DEF vars, checkVars, BorrowInv
<1>. QED
  BY <1>1, <1>2, <1>3, <1>4, <1>5 DEF Next

LEMMA BorrowInvEntry == BorrowInv => ExclusiveKeepsEntry
<1>. SUFFICES ASSUME BorrowInv, phase = "check",
                     NEW i \in DOMAIN scopes, NEW v \in DOMAIN scopes[i].syms,
                     scopes[i].syms[v].exclusive, ~scopes[i].syms[v].sharp
              PROVE  /\ scopes[i].syms[v].from \in DOMAIN ledger.maps[i + 1]
                     /\ ledger.maps[i + 1][scopes[i].syms[v].from] = "exclusive"
  BY DEF ExclusiveKeepsEntry
<1>1. i \in 1..Len(scopes) /\ Matches(scopes, ledger)
  BY WhileChecking
<1>2. scopes[i].syms[v].from \in Claims(scopes[i].syms)
  BY DEF Claims
<1>3. scopes[i].syms[v].from \in Exclusives(ledger.maps[i + 1])
  BY <1>1, <1>2 DEF Matches
<1>. QED
  BY <1>3 DEF Exclusives

\* For every set of names, every grammar of texts and every nesting: between
\* statements the committed borrow of an exclusive & reference is in the map of
\* the scope that declares it, also when &# references borrowed, and lost, the
\* same place since (recordBorrow, upgradeBorrow, commitTransient,
\* clearTransient and the scopes of PAL_Checker.cpp).
THEOREM ExclusiveEntriesStay == Spec => []ExclusiveKeepsEntry
<1>1. Init => BorrowInv
  BY BorrowInvInit
<1>2. BorrowInv /\ [Next]_vars => BorrowInv'
  BY BorrowInvNext
<1>3. BorrowInv => ExclusiveKeepsEntry
  BY BorrowInvEntry
<1>. QED
  BY <1>1, <1>2, <1>3, PTL DEF Spec
=============================================================================
