------------------------------ MODULE Ownership ------------------------------
(***************************************************************************)
(* An accepted body, compiled and run (src/CodeGen): who frees what, and   *)
(* when.  CodeGen turns the text into code whose releases are placed at    *)
(* compile time, from the variables registered in m_ScopeStack; the code   *)
(* is then run, each condition going either way.                           *)
(*                                                                         *)
(* A slot is the alloca of one declaration and is named by the index of    *)
(* the declaration in the text.  It holds 0 for null, n > 0 for the object *)
(* n of the heap, and -n for the address of slot n.  What an object owns   *)
(* in turn is left out: an object is freed or it is not.                   *)
(*                                                                         *)
(* A definition marked Faulty is no part of the model: it is the named bug *)
(* some property must notice when it takes the place of the one below it.  *)
(***************************************************************************)
EXTENDS BorrowCheck, FiniteSets

CONSTANT MaxObjects   \* bound: objects made, and owners of one object lost,
                      \* before no loop is entered again

ASSUME MaxObjectsIsPositive == MaxObjects \in Nat \ {0}

VARIABLES
    code,     \* the function CodeGen made
    pc,       \* the instruction to run next
    slots,    \* the content of each alloca
    heap,     \* per object: its kind, its owners (0 when it is freed) and, as
              \* history, how many of them are lost: nothing leads there
    out,      \* the object that was returned, 0 for none
    faults    \* what went wrong: <<kind, index of the statement>>

runVars == <<code, pc, slots, heap, out, faults>>
vars    == <<checkVars, runVars>>

-----------------------------------------------------------------------------
(* Code generation                                                         *)

\* A frame stands for a scope of m_ScopeStack and, for an if or a loop, for
\* its CFInfo: where it starts in the text, and whether it has an else.
Frame(kind, at) == [kind |-> kind, at |-> at, entries |-> <<>>]

\* m_Symbols maps a name to its alloca and is one map for the function.
Gen0 == [code |-> <<>>, frames |-> <<Frame("body", 0)>>,
         sym |-> [v \in Names |-> 0], live |-> TRUE]

\* Nothing is emitted when the builder has no insertion point.
Emit(g, instrs) == IF g.live THEN [g EXCEPT !.code = @ \o instrs] ELSE g

Stop(g) == [g EXCEPT !.live = FALSE]

Label(g, at, which) == [g EXCEPT !.code = Append(@,
                           [do |-> "label", to |-> <<at, which>>]),
                        !.live = TRUE]

Ret0              == [do |-> "ret", value |-> FALSE]
Jmp(at, which)    == [do |-> "jmp", to |-> <<at, which>>]
Branch(at, which) == [do |-> "br", to |-> <<at, which>>]

\* The end of genVariableDecl: every variable is registered, a reference with
\* nothing to drop.
Register(g, v, at) ==
    LET how == CASE Kind[v] = "ref"   -> "none"
                 [] Kind[v] = "value" -> "drop"
                 [] OTHER             -> "release"
    IN  [g EXCEPT !.sym[v] = at,
                  !.frames[Len(g.frames)].entries =
                     Append(@, [name |-> v, slot |-> at, how |-> how])]

\* One scope, the last variable first: left[n] is what is there when the
\* entries after n are released.
Cleanup(g, entries, at) ==
    LET left[n \in 0..Len(entries)] ==
          IF n = Len(entries) THEN g
          ELSE LET e == entries[n + 1]
               IN  IF e.how = "none" THEN left[n + 1]
                   ELSE Emit(left[n + 1],
                             <<[do |-> e.how, slot |-> e.slot, at |-> at]>>)
    IN  left[0]

FaultyUnwind(g, depth, at) == Cleanup(g, Last(g.frames).entries, at)

\* executeScopeUnwinding: from the innermost scope to the one above depth.
Unwind(g, depth, at) ==
    LET left[n \in depth..Len(g.frames)] ==
          IF n = Len(g.frames) THEN g
          ELSE Cleanup(left[n + 1], g.frames[n + 1].entries, at)
    IN  left[depth]

FaultySuppress(g, v) == g

\* A value that is returned or ceded is no longer dropped, on any path: the
\* flag belongs to the variable, not to the path.
Suppress(g, v) ==
    LET has == {i \in DOMAIN g.frames :
                  \E j \in DOMAIN g.frames[i].entries :
                      g.frames[i].entries[j].name = v}
        d   == CHOOSE i \in has : \A k \in has : k <= i
    IN  IF Kind[v] # "value" THEN g
        ELSE [g EXCEPT !.frames[d].entries =
                [j \in DOMAIN @ |-> IF @[j].name = v
                                    THEN [@[j] EXCEPT !.how = "none"]
                                    ELSE @[j]]]

\* How a handle is read: ^v empties the slot, ~v adds an owner.
Fetch(v) == CASE Kind[v] = "unique" -> "move"
              [] Kind[v] = "shared" -> "share"
              [] OTHER              -> "read"

\* genReturnStmt: the value, then every scope.  For ~v it adds an owner, after
\* genUnaryExpr has done so.
GenReturn(g, v, at) ==
    IF v = "" THEN Stop(Emit(Unwind(g, 0, at), <<Ret0>>))
    ELSE LET load  == [do |-> Fetch(v), from |-> g.sym[v], slot |-> 0, at |-> at]
             again == IF Kind[v] = "shared" THEN <<[load EXCEPT !.do = "again"]>>
                      ELSE <<>>
         IN  Stop(Emit(Unwind(Suppress(Emit(g, <<load>> \o again), v), 0, at),
                       <<[do |-> "ret", value |-> TRUE]>>))

\* genBreakExpr, genContinueExpr: unwind to the depth at which the innermost
\* loop was entered.
GenJump(g, op, at) ==
    LET n == CHOOSE i \in DOMAIN g.frames :
                /\ g.frames[i].kind = "loop"
                /\ \A j \in (i + 1)..Len(g.frames) : g.frames[j].kind # "loop"
    IN  Stop(Emit(Unwind(g, n - 1, at),
                  <<Jmp(g.frames[n].at, IF op = "break" THEN "after"
                                        ELSE "cond")>>))

\* genBlockStmt inside genIfExpr and genLoopExpr.
GenOpen(g, kind, at) ==
    LET h == CASE kind = "if"   -> Emit(g, <<Branch(at, "else")>>)
               [] kind = "loop" -> Emit(Label(g, at, "cond"),
                                        <<Branch(at, "after")>>)
               [] OTHER         -> g
    IN  [h EXCEPT !.frames = Append(@, Frame(kind, at))]

\* The scope ends here: what it registered is released.
GenEnd(g, at) ==
    LET f == Last(g.frames)
        h == [Unwind(g, Len(g.frames) - 1, at) EXCEPT !.frames = Front(@)]
    IN  CASE f.kind = "if"   -> Label(h, f.at, "else")
          [] f.kind = "else" -> Label(h, f.at, "end")
          [] f.kind = "loop" -> Label(Emit(h, <<Jmp(f.at, "cond")>>),
                                      f.at, "after")
          [] OTHER           -> h

GenElse(g, at) ==
    LET i == Last(g.frames).at
        h == [Unwind(g, Len(g.frames) - 1, at) EXCEPT !.frames = Front(@)]
    IN  [Label(Emit(h, <<Jmp(i, "end")>>), i, "else") EXCEPT
            !.frames = Append(@, Frame("else", i))]

\* emitAssignment: the right-hand side is evaluated first.  Only for a left side
\* with a # does emitEnvelopeRebind release the old object and store the new
\* one; the other form is a store into the alloca.  That replaces the handle,
\* unless a shared pointer gets what new returns, which has no owner count yet
\* and covers the first half of the handle.
GenAssign(g, s, at) ==
    LET to    == g.sym[s.v]
        value == IF s.w = "" THEN [do |-> "new", slot |-> 0, at |-> at]
                 ELSE [do |-> Fetch(s.w), from |-> g.sym[s.w], slot |-> 0,
                       at |-> at]
        plain == IF s.w = "" /\ Kind[s.v] = "shared" THEN "graft" ELSE "put"
    IN  Emit(g, IF s.sharp
                THEN <<value, [do |-> "release", slot |-> to, at |-> at],
                       [do |-> "store", slot |-> to]>>
                ELSE <<value, [do |-> plain, slot |-> to]>>)

GenStatement(g, s, at) ==
    CASE s.op = "new" ->
           Register(Emit(g, <<[do |-> "new", slot |-> at, at |-> at]>>), s.v, at)
      [] s.op = "from" ->
           Register(Emit(g, <<[do |-> Fetch(s.w), from |-> g.sym[s.w],
                               slot |-> at, at |-> at]>>), s.v, at)
      [] s.op = "ref" ->
           Register(Emit(g, <<[do |-> "refer", from |-> g.sym[s.w],
                               slot |-> at, at |-> at]>>), s.v, at)
      [] s.op = "rebind" ->
           Emit(g, <<[do |-> "refer", from |-> g.sym[s.w],
                      slot |-> g.sym[s.v], at |-> at]>>)
      [] s.op \in {"use", "lend"} ->
           Emit(g, <<[do |-> "use", slot |-> g.sym[s.v], at |-> at]>>)
      [] s.op = "write" ->
           Emit(g, <<[do |-> "write", slot |-> g.sym[s.v], at |-> at]>>)
      [] s.op = "assign" -> GenAssign(g, s, at)
      [] s.op = "cede" ->
           Suppress(Emit(g, <<[do |-> "give", slot |-> g.sym[s.v],
                               at |-> at]>>), s.v)
      [] s.op = "return" -> GenReturn(g, s.v, at)
      [] s.op \in {"break", "continue"} -> GenJump(g, s.op, at)
      [] s.op \in {"block", "if", "loop"} -> GenOpen(g, s.op, at)
      [] s.op = "else"  -> GenElse(g, at)
      [] s.op = "close" -> GenEnd(g, at)

\* The statements of a body, in their order.
GenBody(body) ==
    LET gen[n \in 0..Len(body)] ==
          IF n = 0 THEN Gen0 ELSE GenStatement(gen[n - 1], body[n], n)
    IN  gen[Len(body)]

\* The end of genFunction: what falls off the end is cleaned up as well.
GenFunction == Emit(Unwind(GenBody(text), 0, Len(text)), <<Ret0>>).code

-----------------------------------------------------------------------------
(* Running                                                                 *)

Generate ==
    /\ phase = "accepted"
    /\ code' = GenFunction
    /\ phase' = "run" /\ pc' = 1
    /\ UNCHANGED <<text, profile, scopes, ledger, slots, heap, out, faults>>

Instr == code[pc]
Goto(label) == CHOOSE i \in DOMAIN code :
                  code[i].do = "label" /\ code[i].to = label

Running(ops) == phase = "run" /\ Instr.do \in ops

\* What a slot leads to: a reference to a value leads to the slot of the value.
Object(x) == IF x < 0 THEN slots[-x] ELSE x

Freed(o) == heap[o].owners = 0
NewObject(kind) == Append(heap, [kind |-> kind, owners |-> 1, lost |-> 0])

\* One owner more, or less; counting on a freed object has no effect here,
\* because it is a fault already.
Count(o, n) == IF o = 0 \/ Freed(o) THEN heap
                 ELSE [heap EXCEPT ![o].owners = @ + n]

\* What owned o is overwritten; o keeps its count.
Lose(o) == IF o = 0 THEN heap ELSE [heap EXCEPT ![o].lost = @ + 1]

Fault(kind) == faults \cup {<<kind, Instr.at>>}
Touched(o) == IF o = 0 THEN Fault("null access")
              ELSE IF Freed(o) THEN Fault("use after free") ELSE faults

\* Slot 0 is the register an expression leaves its value in.
New ==
    /\ Running({"new"}) /\ pc' = pc + 1
    /\ heap' = NewObject(Kind[text[Instr.at].v])
    /\ slots' = [slots EXCEPT ![Instr.slot] = Len(heap) + 1]
    /\ UNCHANGED <<checkVars, code, out, faults>>

Move ==
    /\ Running({"move"}) /\ pc' = pc + 1
    /\ slots' = [slots EXCEPT ![Instr.from] = 0,
                              ![Instr.slot] = slots[Instr.from]]
    /\ UNCHANGED <<checkVars, code, heap, out, faults>>

\* emitAcquire skips a null handle.
Share ==
    /\ Running({"share", "again"}) /\ pc' = pc + 1
    /\ LET o == slots[Instr.from]
       IN  /\ slots' = [slots EXCEPT ![Instr.slot] = o]
           /\ heap' = Count(o, 1)
           /\ faults' = IF o = 0 THEN faults ELSE Touched(o)
    /\ UNCHANGED <<checkVars, code, out>>

\* A value is copied out, or the address of a place is taken.
Read ==
    /\ Running({"read", "refer"}) /\ pc' = pc + 1
    /\ slots' = [slots EXCEPT ![Instr.slot] =
          IF Instr.do = "refer" /\ Kind[text[Instr.from].v] = "value"
          THEN -Instr.from ELSE slots[Instr.from]]
    /\ UNCHANGED <<checkVars, code, heap, out, faults>>

Store ==
    /\ Running({"store"}) /\ pc' = pc + 1
    /\ slots' = [slots EXCEPT ![Instr.slot] = slots[0]]
    /\ UNCHANGED <<checkVars, code, heap, out, faults>>

\* emitSoulAssignment into the alloca of a pointer.
PlainStore ==
    /\ Running({"put"}) /\ pc' = pc + 1
    /\ heap' = Lose(slots[Instr.slot])
    /\ slots' = [slots EXCEPT ![Instr.slot] = slots[0]]
    /\ UNCHANGED <<checkVars, code, out, faults>>

\* The same, of what new returns into a shared pointer.  A shared handle is known
\* here by its owner count: it keeps the one it has, and the new object gets
\* none.  The last release of that count frees what its own handle points to,
\* so one of the two objects leaks, and the model lets it be the new one.
Graft ==
    /\ Running({"graft"}) /\ pc' = pc + 1
    /\ heap' = Lose(slots[0])
    /\ UNCHANGED <<checkVars, code, slots, out, faults>>

Access ==
    /\ Running({"use"}) /\ pc' = pc + 1
    /\ faults' = Touched(Object(slots[Instr.slot]))
    /\ UNCHANGED <<checkVars, code, slots, heap, out>>

\* emitSoulAssignment: a value that is overwritten is not dropped.
Overwrite ==
    /\ Running({"write"}) /\ pc' = pc + 1
    /\ LET x      == slots[Instr.slot]
           target == IF x < 0 THEN -x ELSE Instr.slot
       IN  IF Kind[text[target].v] = "value"
           THEN /\ heap' = NewObject("value")
                /\ slots' = [slots EXCEPT ![target] = Len(heap) + 1]
                /\ UNCHANGED faults
           ELSE /\ faults' = Touched(x)
                /\ UNCHANGED <<heap, slots>>
    /\ UNCHANGED <<checkVars, code, out>>

\* A handle is tested for null and keeps its value; a value is dropped without
\* a test, but its slot is never null.
Release ==
    /\ Running({"release", "drop"}) /\ pc' = pc + 1
    /\ LET o == slots[Instr.slot]
       IN  /\ heap' = Count(o, -1)
           /\ faults' = IF o # 0 /\ Freed(o)
                        THEN Fault(IF Instr.do = "drop" THEN "double drop"
                                   ELSE "double free")
                        ELSE faults
    /\ UNCHANGED <<checkVars, code, slots, out>>

\* The callee has the object now, and may free it.
Give ==
    /\ Running({"give"}) /\ pc' = pc + 1
    /\ LET o == slots[Instr.slot]
       IN  /\ heap' = Count(o, -1)
           /\ faults' = IF o # 0 /\ Freed(o)
                        THEN Fault(IF Kind[text[Instr.slot].v] = "value"
                                   THEN "double drop" ELSE "double free")
                        ELSE Touched(o)
           /\ slots' = IF Kind[text[Instr.slot].v] = "unique"
                       THEN [slots EXCEPT ![Instr.slot] = 0] ELSE slots
    /\ UNCHANGED <<checkVars, code, out>>

MayIterate == /\ Len(heap) < MaxObjects
              /\ \A o \in DOMAIN heap : heap[o].lost < MaxObjects

\* A condition goes either way; bound: MaxObjects.
BranchOn ==
    /\ Running({"br"})
    /\ \/ /\ Instr.to[2] = "after" => MayIterate
          /\ pc' = pc + 1
       \/ pc' = Goto(Instr.to)
    /\ UNCHANGED <<checkVars, code, slots, heap, out, faults>>

Follow ==
    /\ Running({"jmp", "label"})
    /\ pc' = IF Instr.do = "jmp" THEN Goto(Instr.to) ELSE pc + 1
    /\ UNCHANGED <<checkVars, code, slots, heap, out, faults>>

Ret ==
    /\ Running({"ret"})
    /\ phase' = "done" /\ out' = IF Instr.value THEN slots[0] ELSE 0
    /\ UNCHANGED <<text, profile, scopes, ledger, code, pc, slots, heap, faults>>

Init == /\ BorrowInit
        /\ code = <<>> /\ pc = 0
        /\ slots = [i \in 0..profile.len |-> 0]
        /\ heap = <<>> /\ out = 0 /\ faults = {}

Next == \/ BorrowNext /\ UNCHANGED runVars
        \/ Generate \/ New \/ Move \/ Share \/ Read \/ Store \/ PlainStore \/ Graft
        \/ Access \/ Overwrite \/ Release \/ Give \/ BranchOn \/ Follow \/ Ret

Spec == Init /\ [][Next]_vars

-----------------------------------------------------------------------------
(* Properties                                                              *)

\* Type correctness: one map of the ledger for every open scope and one for
\* the function, the program counter inside the code, and in the slots only
\* objects that were made and addresses of slots.
TypeOK ==
    /\ phase \in {"check", "refused", "accepted", "run", "done"}
    /\ Len(scopes) \in 1..MaxNest
    /\ Len(ledger.maps) = Len(scopes) + 1
    /\ phase = "run" => pc \in DOMAIN code
    /\ \A i \in DOMAIN slots : slots[i] \in -profile.len..Len(heap)
    /\ out \in 0..Len(heap)

\* A pointer that is visible leads to an object that is there, or is null: no
\* release, copy or use of one meets an object that was freed, on any path.
PointersAreAlive ==
    \A f \in faults :
        /\ f[1] # "double free"
        /\ f[1] = "use after free" => Kind[text[f[2]].v] \notin {"unique", "shared"}

Opens == {"block", "if", "loop"}
Nest(i) == Cardinality({j \in 1..(i - 1) : text[j].op \in Opens})
           - Cardinality({j \in 1..(i - 1) : text[j].op = "close"})
Inside(i, op) == \E j \in 1..(i - 1) : /\ text[j].op = op
                                        /\ \A k \in (j + 1)..i : Nest(k) > Nest(j)
Looped(i) == Inside(i, "loop")
LoopJumps == \E i \in DOMAIN text : /\ text[i].op \in {"return", "break", "continue"}
                                     /\ Looped(i)

\* Sema may take a value for filled that was given away.  It is ceded inside a
\* loop: declared outside of it, it is given away once per iteration, which is
\* refused for a unique pointer only.  Or it is written where the flags of its
\* scope are not merged afterwards: in a loop, which may not be entered, or
\* two scopes deep (an if saves the flags of the scope right around it only).
\* Or it is ceded or written in a branch that is taken for one that always
\* jumps because a loop in it does, though the loop may not be entered.
ValueUnsure ==
    \E i \in DOMAIN text :
        /\ text[i].op \in {"cede", "write"} /\ Kind[text[i].v] = "value"
        /\ \/ Looped(i)
           \/ text[i].op = "write" /\ Nest(i) > 1
           \/ Inside(i, "if") /\ LoopJumps

\* No accepted text frees an object twice, and but for the values above none
\* drops a value twice: what Sema counts as moved and what CodeGen leaves out
\* of the releases agree through branches, loops, early exits and rebindings.
NoDoubleFree ==
    /\ PointersAreAlive
    /\ (\E f \in faults : f[1] = "double drop") => ValueUnsure

\* At the end of the function every unique or shared pointer has given up what
\* it owned, but for what is returned, which is alive, and for what a plain
\* assignment overwrote, which is never freed: break, continue, return, the
\* end of a block and an assignment with a # release what they leave, and no
\* more, and nothing else leaks.
OwnersReleased ==
    phase = "done" =>
        \A o \in DOMAIN heap : heap[o].kind # "value" =>
           IF o = out THEN heap[o].owners > heap[o].lost
           ELSE heap[o].owners = heap[o].lost

\* The moved flags, merged over branches, never let a read of an empty pointer
\* pass, in a text that writes through no pointer (a write through a moved
\* pointer is accepted and marks it as filled), has no loop (the second
\* iteration is not checked) and refills no pointer two scopes deep (an if
\* saves and merges the flags of the scope right around it only).
ReadsSeeOwner ==
    \A f \in faults : f[1] = "null access" =>
        \E i \in 1..f[2] :
            \/ text[i].op \in {"write", "loop"}
            \/ text[i].op = "assign" /\ Nest(i) > 1

\* The reference declared at index at of the text is exclusive and is an &, not
\* an &# or a nul &.
ExclusiveRef(at) == text[at].op = "ref" /\ text[at].x /\ ~text[at].sharp

\* But for the values above, only a reference that is shared, or whose borrow is
\* not committed because it is an &# or a nul &, may be used after the object
\* it refers to was freed: the committed entry of an exclusive & keeps the
\* owner from being moved, ceded or rebound.
ExclusiveNeverDangles ==
    \A f \in faults : f[1] = "use after free" =>
        \/ ValueUnsure /\ Kind[text[f[2]].v] \in {"value", "ref"}
        \/ \E i \in DOMAIN code :
              /\ code[i].do \in {"use", "write"} /\ code[i].at = f[2]
              /\ Kind[text[f[2]].v] = "ref" /\ ~ExclusiveRef(code[i].slot)

\* Between statements every exclusive & reference has its entry in the map of
\* the scope that declares it, whatever statements, inner scopes, branches,
\* and borrows by &# references came since.
ExclusiveKeepsEntry ==
    phase = "check" =>
        \A i \in DOMAIN scopes : \A v \in DOMAIN scopes[i].syms :
            LET s == scopes[i].syms[v]
            IN  s.exclusive /\ ~s.sharp =>
                   /\ s.from \in DOMAIN ledger.maps[i + 1]
                   /\ ledger.maps[i + 1][s.from] = "exclusive"
=============================================================================
