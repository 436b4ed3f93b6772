-------------------------------- MODULE Ledger --------------------------------
(***************************************************************************)
(* PAL, the ledger of the borrow checker (src/Sema/PAL_Checker.cpp).  A    *)
(* path is a name with the members selected from it.  The ledger has one   *)
(* map per scope, from borrowed path to the kind of borrow, and the list   *)
(* of transient borrows: those the statement being checked has recorded    *)
(* and nothing has committed.                                              *)
(*                                                                         *)
(* A definition marked Faulty is no part of the model: it is the named bug *)
(* some property must notice when it takes the place of the one below it.  *)
(***************************************************************************)
EXTENDS Integers, SequencesExt

\* isPrefixOf, either way: one path is the other or a part of it.
Overlap(p, q) == IsPrefix(p, q) \/ IsPrefix(q, p)

\* The map f with e at x, which may be new.
Put(f, x, e) == [y \in DOMAIN f \cup {x} |-> IF y = x THEN e ELSE f[y]]

NoEntries   == [p \in {} |-> "shared"]
EmptyLedger == [maps |-> <<NoEntries>>, transient |-> <<>>]

PushScope(L) == [L EXCEPT !.maps = Append(@, NoEntries)]

FaultyPopScope(L) == L

\* The list of transient borrows is not scoped.
PopScope(L) == [L EXCEPT !.maps = Front(@)]

\* recordBorrow asks the innermost map only.
CanRecord(L, p, exclusive) ==
    p \in DOMAIN Last(L.maps) => Last(L.maps)[p] = "shared" /\ ~exclusive

Record(L, p, exclusive) ==
    [maps      |-> [L.maps EXCEPT ![Len(L.maps)] =
                      Put(@, p, IF exclusive THEN "exclusive" ELSE "shared")],
     transient |-> Append(L.transient, p)]

CanUpgrade(L, p) ==
    p \in DOMAIN Last(L.maps) /\ Last(L.maps)[p] = "shared"

Upgrade(L, p) == [L EXCEPT !.maps[Len(L.maps)][p] = "exclusive"]

\* The paths borrowed as one of kinds that overlap p, in the map of scope i.
Borrowed(L, i, p, kinds) ==
    {q \in DOMAIN L.maps[i] : L.maps[i][q] \in kinds /\ Overlap(p, q)}

\* The first conflict a search from the innermost map finds (the maps are
\* sorted, so a prefix comes before its extensions), <<>> for none.
Conflict(L, p, kinds) ==
    LET hit == {i \in DOMAIN L.maps : Borrowed(L, i, p, kinds) # {}}
    IN  IF hit = {} THEN <<>>
        ELSE LET i == CHOOSE i \in hit : \A j \in hit : j <= i
             IN  CHOOSE q \in Borrowed(L, i, p, kinds) :
                    \A r \in Borrowed(L, i, p, kinds) : Len(q) <= Len(r)

\* verifyMutation: no borrow of either kind may be in the way.
MutationConflict(L, p) == Conflict(L, p, {"shared", "exclusive"})

\* verifyAccess: a shared borrow does not disturb a read.
AccessConflict(L, p) == Conflict(L, p, {"exclusive"})

FaultyCommit(L, p) == L

\* commitTransient: one occurrence of the path leaves the list.
Commit(L, p) == [L EXCEPT !.transient = RemoveFirst(@, p)]

\* clearTransient, at the end of every statement: the paths of the list leave
\* the innermost map, whoever put them there.
ClearTransient(L) ==
    LET kept == DOMAIN Last(L.maps) \ ToSet(L.transient)
    IN  [maps      |-> [L.maps EXCEPT ![Len(L.maps)] = [p \in kept |-> @[p]]],
         transient |-> <<>>]
=============================================================================
