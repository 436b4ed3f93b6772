----------------------------- MODULE BorrowCheck -----------------------------
(***************************************************************************)
(* Sema on the body of one function (src/Sema): scopes, moved variables,   *)
(* borrows.  The text is written one statement at a time, in any way the   *)
(* grammar allows; each action is what checkStmt does with the statement,  *)
(* up to clearTransient at its end.  The first error refuses the text.     *)
(*                                                                         *)
(* Every local is initialised and mutable, one name has one morphology     *)
(* (^# unique, ~# shared, & or &# reference, or a plain value that has a   *)
(* drop), and conditions, calls and types are left out: a statement is     *)
(* what it does to variables.  A pointer is declared with a # here, so that *)
(* it may be assigned to; the assignment itself may carry a # or not.      *)
(*                                                                         *)
(* A definition marked Faulty is no part of the model: it is the named bug *)
(* some property must notice when it takes the place of the one below it.  *)
(***************************************************************************)
EXTENDS Ledger

CONSTANTS
    Kind,       \* name -> "unique", "shared", "value" or "ref"
    Profiles,   \* [ops, names, len]: the statements and the names a text may
                \* draw from, and the bound on its length
    MaxNest     \* bound: scopes inside each other

ASSUME BoundsArePositive ==
    MaxNest \in Nat \ {0} /\ \A p \in Profiles : p.len \in Nat

ASSUME NamesHaveKinds ==
    /\ \A v \in DOMAIN Kind : Kind[v] \in {"unique", "shared", "value", "ref"}
    /\ \A p \in Profiles : p.names \subseteq DOMAIN Kind

VARIABLES
    text,      \* the statements so far
    profile,   \* environment: the member of Profiles this text is from
    scopes,    \* the scopes that are open, with their symbols
    ledger,    \* PALCheckerState
    phase      \* check, refused, accepted, then the phases of the run

checkVars == <<text, profile, scopes, ledger, phase>>

Names   == DOMAIN Kind
Owners  == {v \in Names : Kind[v] \in {"unique", "shared"}}
OfKind(k) == {v \in Names : Kind[v] = k}

\* What & may be applied to: a variable, or a member of a value.
Places == {<<v>> : v \in Names \ OfKind("ref")}
          \cup {<<v, "f">> : v \in OfKind("value")}

NoSymbols == [v \in {} |-> FALSE]
NewScope(kind) == [kind |-> kind, syms |-> NoSymbols, before |-> NoSymbols,
                   then |-> NoSymbols, thenJumps |-> FALSE,
                   jumps |-> FALSE, dead |-> FALSE]

BorrowInit ==
    /\ text = <<>>
    /\ profile \in Profiles
    /\ scopes = <<NewScope("body")>>
    /\ ledger = PushScope(EmptyLedger)
    /\ phase = "check"

-----------------------------------------------------------------------------
(* Scope and SymbolInfo                                                    *)

Here == Last(scopes)
Visible == UNION {DOMAIN scopes[i].syms : i \in DOMAIN scopes}

\* findSymbol: the innermost scope that has the name.
Depth(v) == LET has == {i \in DOMAIN scopes : v \in DOMAIN scopes[i].syms}
            IN  CHOOSE i \in has : \A j \in has : j <= i
Sym(v) == scopes[Depth(v)].syms[v]

\* from is BorrowedFrom; sharp says that the sigil of a reference carries a #.
Define(scs, v, from, exclusive, sharp) ==
    [scs EXCEPT ![Len(scs)].syms =
        Put(@, v, [moved |-> FALSE, from |-> from, exclusive |-> exclusive,
                   sharp |-> sharp])]

SetMoved(scs, v, moved) == [scs EXCEPT ![Depth(v)].syms[v].moved = moved]

MovedMap(syms) == [v \in DOMAIN syms |-> syms[v].moved]
WithMoved(syms, moved) == [v \in DOMAIN syms |->
    IF v \in DOMAIN moved THEN [syms[v] EXCEPT !.moved = moved[v]]
    ELSE syms[v]]

Jumping(scs) == [scs EXCEPT ![Len(scs)].jumps = TRUE,
                            ![Len(scs)].dead = TRUE]

InLoop == \E i \in DOMAIN scopes : scopes[i].kind = "loop"

-----------------------------------------------------------------------------
(* Expressions: the errors of reading, moving and borrowing                *)

\* A variable may pass a borrow that it made itself, and so may an expression
\* that is to become the value of such a variable (the control flow label).
Authorised(v, label, conflict) ==
    \/ Sym(v).from = conflict
    \/ label \in Visible /\ (Sym(label).from = conflict \/ label = v)

\* VariableExpr not on the left of an assignment.
ReadErrors(v, label) ==
    LET c == AccessConflict(ledger, <<v>>)
    IN  {e \in {"moved"} : Sym(v).moved}
        \cup {e \in {"borrowed"} : c # <<>> /\ ~Authorised(v, label, c)}

\* A member read asks for the whole path and knows no authorisation.
PlaceErrors(place, label) ==
    IF Len(place) = 1 THEN ReadErrors(place[1], label)
    ELSE {e \in {"moved"} : Sym(place[1]).moved}
         \cup {e \in {"borrowed"} : AccessConflict(ledger, place) # <<>>}

\* ^v: the pointer leaves v.
MoveErrors(v) ==
    ReadErrors(v, "")
    \cup {e \in {"move of borrowed"} : MutationConflict(ledger, <<v>>) # <<>>}

\* &place: refused when the innermost map has another borrow of the place.
BorrowErrors(place, exclusive, label) ==
    PlaceErrors(place, label)
    \cup {e \in {"borrowed"} : ~CanRecord(ledger, place, exclusive)}

\* A shared pointer gives interior access, so & of it is never exclusive.
Exclusive(place, wanted) == wanted /\ Kind[place[1]] # "shared"

FaultyWriteErrors(v) == {}

\* The left of an assignment: no borrow of any kind may overlap it.  The check
\* in VariableExpr accepts what the assignment itself is called after; the
\* second one, on the whole path, does not.
WriteErrors(v) ==
    LET c == MutationConflict(ledger, <<v>>)
    IN  {e \in {"borrowed"} : c # <<>> /\ Sym(v).from # c}

-----------------------------------------------------------------------------
(* Statements                                                              *)

\* Bound: nothing is written after a statement that jumps (dead code).
MayWrite(op) ==
    /\ phase = "check" /\ op \in profile.ops
    /\ Len(text) < profile.len /\ ~Here.dead

\* The end of checkStmt.
Statement(s, errors, scs, led) ==
    /\ text' = Append(text, s)
    /\ IF errors = {}
       THEN /\ scopes' = scs
            /\ ledger' = ClearTransient(led)
            /\ UNCHANGED phase
       ELSE phase' = "refused" /\ UNCHANGED <<scopes, ledger>>
    /\ UNCHANGED profile

\* Bound: no name is declared again while it is visible.
MayDeclare(v) == v \notin Visible

\* auto ^v = new S(..), auto ~v = new S(..), auto v = S(..)
DeclareNew(v) ==
    /\ MayWrite("new") /\ MayDeclare(v) /\ Kind[v] # "ref"
    /\ Statement([op |-> "new", v |-> v], {},
                 Define(scopes, v, <<>>, FALSE, FALSE), ledger)

\* auto ^v = ^w, auto ~v = ~w
DeclareFrom(v, w) ==
    /\ MayWrite("from") /\ MayDeclare(v) /\ w \in Visible \ {v}
    /\ Kind[v] = Kind[w] /\ v \in Owners
    /\ LET scs == Define(scopes, v, <<>>, FALSE, FALSE)
       IN  Statement([op |-> "from", v |-> v, w |-> w],
               IF Kind[w] = "unique" THEN MoveErrors(w) ELSE ReadErrors(w, v),
               IF Kind[w] = "unique" THEN SetMoved(scs, w, TRUE) ELSE scs,
               ledger)

\* auto &r = &place, auto &r# = &place: r has the borrow, which is committed, so
\* that it outlives the statement.  auto &#r = &place: the morphology is not
\* "&", r has no borrow, and what was recorded ends with the statement; so it
\* does for auto nul &r, which is an &#r that nothing rebinds.
DeclareRef(r, place, wanted, sharp) ==
    /\ MayWrite("ref") /\ MayDeclare(r) /\ Kind[r] = "ref"
    /\ place[1] \in Visible
    /\ LET x   == Exclusive(place, wanted)
           led == Record(ledger, place, x)
       IN  Statement([op |-> "ref", v |-> r, w |-> place[1], x |-> x,
                      sharp |-> sharp],
                     BorrowErrors(place, x, r),
                     Define(scopes, r, IF sharp THEN <<>> ELSE place, x, sharp),
                     IF sharp THEN led ELSE Commit(led, place))

\* The value of v, or what a reference v refers to, is read.
Use(v) ==
    /\ MayWrite("use") /\ v \in Visible
    /\ Statement([op |-> "use", v |-> v], ReadErrors(v, ""), scopes, ledger)

\* f(&place): a borrow for the length of the statement.
Lend(place) ==
    /\ MayWrite("lend") /\ place[1] \in Visible
    /\ Statement([op |-> "lend", v |-> place[1]],
                 BorrowErrors(place, FALSE, ""), scopes,
                 Record(ledger, place, FALSE))

\* v = S(..): writes the value, through the pointer if v is one.
Write(v) ==
    /\ MayWrite("write") /\ v \in Visible
    /\ Kind[v] = "ref" => Sym(v).exclusive
    /\ Kind[v] # "shared"
    /\ Statement([op |-> "write", v |-> v], WriteErrors(v),
                 SetMoved(scopes, v, FALSE), ledger)

\* ^v = ^w, ~v = ~w, or the same with new on the right (w = ""); ^#v and ~#v on
\* the left when sharp, which makes no difference here.
Assign(v, w, sharp) ==
    /\ MayWrite("assign") /\ v \in Visible \cap Owners
    /\ w # "" => w \in Visible /\ Kind[w] = Kind[v]
    /\ LET moves == w # "" /\ Kind[v] = "unique"
           scs   == IF moves THEN SetMoved(scopes, w, TRUE) ELSE scopes
       IN  Statement([op |-> "assign", v |-> v, w |-> w, sharp |-> sharp],
               WriteErrors(v)
               \cup (IF moves THEN MoveErrors(w)
                     ELSE IF w # "" THEN ReadErrors(w, "") ELSE {}),
               [scs EXCEPT ![Depth(v)].syms[v].moved = FALSE], ledger)

\* &r = &place or, sharp, &#r = &place, for an r declared &#r: borrowed shared,
\* made exclusive by the # on the left, and committed by neither.
Rebind(r, place, sharp) ==
    /\ MayWrite("rebind") /\ r \in Visible /\ Kind[r] = "ref" /\ Sym(r).sharp
    /\ place[1] \in Visible
    /\ LET led == Record(ledger, place, FALSE)
       IN  Statement([op |-> "rebind", v |-> r, w |-> place[1]],
               BorrowErrors(place, FALSE, "")
               \cup {e \in {"lifetime"} : Depth(r) < Depth(place[1])},
               scopes, IF sharp THEN Upgrade(led, place) ELSE led)

\* f(cede ^v), f(cede v): the callee becomes the owner.  Only for a unique
\* pointer a loop between here and the declaration is an error.
Cede(v) ==
    /\ MayWrite("cede") /\ v \in Visible /\ Kind[v] \in {"unique", "value"}
    /\ Statement([op |-> "cede", v |-> v],
           MoveErrors(v)
           \cup {e \in {"cede in loop"} : Kind[v] = "unique" /\
                    \E i \in (Depth(v) + 1)..Len(scopes) :
                        scopes[i].kind = "loop"},
           SetMoved(scopes, v, TRUE), ledger)

\* return, return ^v, return ~v, return v ("" for none)
Return(v) ==
    /\ MayWrite("return")
    /\ v # "" => v \in Visible /\ Kind[v] # "ref"
    /\ Statement([op |-> "return", v |-> v],
           IF v = "" THEN {}
           ELSE IF Kind[v] = "unique" THEN MoveErrors(v)
           ELSE ReadErrors(v, ""),
           Jumping(scopes), ledger)

Jump(op) ==
    /\ MayWrite(op) /\ InLoop /\ op \in {"break", "continue"}
    /\ Statement([op |-> op], {},
                 Jumping(scopes), ledger)

-----------------------------------------------------------------------------
(* Blocks                                                                  *)

\* {, if c {, loop c {: the moved flags of the scope around an if are kept.
Open(kind) ==
    /\ MayWrite(kind) /\ kind \in {"block", "if", "loop"}
    /\ Len(scopes) < MaxNest
    /\ text' = Append(text, [op |-> kind])
    /\ scopes' = Append(scopes, [NewScope(kind) EXCEPT
                                    !.before = MovedMap(Here.syms)])
    /\ ledger' = PushScope(ledger)
    /\ UNCHANGED <<profile, phase>>

Outer(scs) == Len(scs) - 1

\* } else {: the else branch starts from the flags before the if.
Else ==
    /\ phase = "check" /\ "else" \in profile.ops /\ Here.kind = "if"
    /\ LET n == Outer(scopes)
       IN  scopes' = [Front(scopes) EXCEPT
               ![n].syms = WithMoved(@, Here.before)]
               \o <<[NewScope("else") EXCEPT
                        !.before = Here.before,
                        !.then = MovedMap(scopes[n].syms),
                        !.thenJumps = Here.jumps]>>
    /\ text' = Append(text, [op |-> "else"])
    /\ ledger' = PushScope(PopScope(ledger))
    /\ UNCHANGED <<profile, phase>>

\* After an if without else: moved if moved before, or in a branch that comes
\* here.
AfterIf(now, f) ==
    [v \in DOMAIN now |-> IF v \in DOMAIN f.before
                          THEN f.before[v] \/ (now[v] /\ ~f.jumps) ELSE now[v]]

FaultyAfterElse(now, f) == IF f.jumps THEN f.then ELSE now

\* After both branches: what the branches that come here agree on.
AfterElse(now, f) ==
    IF f.thenJumps THEN now
    ELSE IF f.jumps THEN f.then
    ELSE [v \in DOMAIN now |-> now[v] \/ (v \in DOMAIN f.then /\ f.then[v])]

\* The flags of the scope around the block; whether the block jumps on every
\* path (allPathsJump counts a loop's body).
Close ==
    /\ phase = "check" /\ Len(scopes) > 1
    /\ LET f   == Here
           n   == Outer(scopes)
           now == MovedMap(scopes[n].syms)
       IN  scopes' = [Front(scopes) EXCEPT
               ![n].syms = WithMoved(@, CASE f.kind = "if"   -> AfterIf(now, f)
                                          [] f.kind = "else" -> AfterElse(now, f)
                                          [] OTHER           -> now),
               ![n].jumps = @ \/ (CASE f.kind = "if"   -> FALSE
                                    [] f.kind = "else" -> f.jumps /\ f.thenJumps
                                    [] OTHER           -> f.jumps),
               ![n].dead = f.dead /\ f.kind = "block"]
    /\ text' = Append(text, [op |-> "close"])
    /\ ledger' = ClearTransient(PopScope(ledger))
    /\ UNCHANGED <<profile, phase>>

Accept ==
    /\ phase = "check" /\ Len(scopes) = 1
    /\ phase' = "accepted"
    /\ UNCHANGED <<text, profile, scopes, ledger>>

BorrowNext ==
    \/ \E v \in profile.names : DeclareNew(v) \/ Use(v) \/ Write(v) \/ Cede(v)
    \/ \E v, w \in profile.names \cap Owners : DeclareFrom(v, w)
    \/ \E v \in profile.names, w \in profile.names \cup {""}, sharp \in BOOLEAN :
          Assign(v, w, sharp)
    \/ \E r \in profile.names, place \in Places, sharp \in BOOLEAN :
          Rebind(r, place, sharp) \/ \E x \in BOOLEAN : DeclareRef(r, place, x, sharp)
    \/ \E place \in Places : Lend(place)
    \/ \E v \in profile.names \cup {""} : Return(v)
    \/ \E op \in {"break", "continue"} : Jump(op)
    \/ \E kind \in {"block", "if", "loop"} : Open(kind)
    \/ Else \/ Close \/ Accept
=============================================================================
