--------------------------------- MODULE Passes ---------------------------------
(***************************************************************************)
(* The steps of tokac that hand on text: a type is printed and read again, *)
(* a generic impl is copied and filled in, a module is exported and parsed *)
(* from its interface; and the rule for which type may flow into which.    *)
(* One input is taken through one of them, step by step: item is           *)
(* <<pass, the input or its number>>, outcome what the steps have given.   *)
(***************************************************************************)
EXTENDS Instantiation

CONSTANTS
    TypeItems,    \* a set of types
    FlowItems,    \* a set of <<target, source>>
    ModuleItems,  \* a sequence of trees of modules
    ImplItems     \* a sequence of [impl, concrete, args]: a generic impl and
                  \* what it is for

I == INSTANCE Interface
P == INSTANCE Parser

VARIABLES item, outcome
stepVars == <<item, outcome>>

Idle == <<"none", 0>>
At(pass, step) == item[1] = pass /\ Len(outcome) = step
Input == item[2]
Module == ModuleItems[Input]
Template == ImplItems[Input]
Give(result) == outcome' = Append(outcome, result) /\ UNCHANGED item

PassInit ==
    /\ \/ \E t \in TypeItems : item = <<"text", t>>
       \/ \E f \in FlowItems : item = <<"flow", f>>
       \/ \E i \in DOMAIN ModuleItems : item = <<"interface", i>>
       \/ \E i \in DOMAIN ImplItems : item = <<"instance", i>>
    /\ outcome = <<>>

-----------------------------------------------------------------------------
(* The steps                                                               *)

PrintType == At("text", 0) /\ Give(ToText(Input))
ReadType  == At("text", 1) /\ Give(FromText(outcome[1]))

Decide == At("flow", 0)
          /\ Give(IsTypeCompatible(Input[1], Input[2]))
Name   == At("flow", 1)
          /\ Give([i \in 1..2 |-> InstanceName("Box", <<Input[i]>>)])

\* The interface is read where the source was: into fresh tokens.
Export  == At("interface", 0) /\ Give(I!ModuleText(Module))
ReadInterface == At("interface", 1)
                 /\ LET read == P!Parse(outcome[1], "other")
                    IN  Give([f \in {"halt", "errs", "starts", "imports"} |-> read[f]])

NoMethods == [type \in {} |-> {}]
Instantiate ==
    At("instance", 0)
    /\ LET in == Template
       IN  Give(InstantiateImpl(in.impl, in.concrete, in.args, NoMethods))

\* The same impl for the same type once more.
Again ==
    At("instance", 1)
    /\ LET in == Template
       IN  Give(IF outcome[1] = Absent THEN Absent
                ELSE InstantiateImpl(in.impl, in.concrete, in.args,
                        [type \in {Joined(outcome[1].word)} |->
                            {Joined(m.word) : m \in ToSet(outcome[1].kids.Methods)}]))

PassNext == \/ PrintType \/ ReadType
            \/ Decide \/ Name
            \/ Export \/ ReadInterface
            \/ Instantiate \/ Again

-----------------------------------------------------------------------------
(* What the steps must keep                                                *)

HasMarks(t) == t.w \/ t.n \/ t.b
RECURSIVE EndsMarked(_), KindsIn(_), Printable(_)
EndsMarked(t) == CASE IsPointer(t)  -> EndsMarked(Inner(t))
                   [] IsFunction(t) -> EndsMarked(Return(t))
                   [] OTHER         -> HasMarks(t)
KindsIn(t) == {t.kind} \cup UNION {KindsIn(t.sub[i]) : i \in DOMAIN t.sub}

\* The types whose text says all about them.  The others are: a marked
\* function or one whose result ends in a mark, a pointer to a pointer to
\* something marked, an array in an array or a slice, a function as a generic
\* argument, and $ beside both # and ?.
Printable(t) ==
    /\ \A i \in DOMAIN t.sub : Printable(t.sub[i])
    /\ t.kind = "void" => ~HasMarks(t) /\ ~t.c
    /\ ~(t.w /\ t.b)
    /\ IsFunction(t) => ~HasMarks(t) /\ ~EndsMarked(Return(t))
    /\ IsPointer(t) => ~(IsPointer(Inner(t)) /\ EndsMarked(Inner(t)))
    /\ t.kind \in {"array", "slice"} => "array" \notin KindsIn(Inner(t))
    /\ t.kind \in {"shape", "uninit"} =>
          \A i \in DOMAIN t.sub : KindsIn(t.sub[i]) \cap {"fn", "dynfn"} = {}

\* A type that goes through its text comes back as it was: with its handles,
\* its marks where they were, its arguments and its size.  Every pass after
\* the parser reads the types the one before it printed.
TypeTextIsExact ==
    At("text", 2) /\ Printable(Input) => outcome[2] = Input

\* A handle that may be null flows into one that must not be at no depth: not
\* the handle itself, and not what a chain of the same handles leads to.
RECURSIVE Gains(_, _)
Gains(target, source) ==
    /\ IsPointer(target) /\ target.kind = source.kind
    /\ \/ source.n /\ ~target.n
       \/ Gains(Inner(target), Inner(source))
NothingGained ==
    At("flow", 2) /\ outcome[1] => ~Gains(Input[1], Input[2])

\* Two arguments that are different types make two instances: one name for
\* both would give the second the layout and the methods of the first.
InstancesHaveTheirOwnName ==
    At("flow", 2) /\ Input[1] # Input[2] =>
        outcome[2][1] # outcome[2][2]

-----------------------------------------------------------------------------
(* Trees                                                                   *)

RECURSIVE Nodes(_)
Nodes(n) == {n} \cup UNION {IF r \in Many
                            THEN UNION {Nodes(n.kids[r][i]) : i \in DOMAIN n.kids[r]}
                            ELSE Nodes(n.kids[r]) : r \in DOMAIN n.kids}

\* A tree with the parameter replaced wherever it stands, piece by piece, and
\* without what the analysis finds out anew for each copy.
Joining(texts) == FoldLeft(LAMBDA s, t : s \o t, <<>>, texts)
InText(text, param, arg) == Joining([i \in DOMAIN text |->
                                IF text[i] = param THEN arg ELSE <<text[i]>>])
RECURSIVE Filled(_, _, _)
Filled(n, param, arg) ==
    [n EXCEPT !.word = InText(@, param, arg), !.marks = @ \ (LeftBehind(n.k) \ {"MorphologyPrefix"}),
              !.types = [i \in DOMAIN @ |-> InText(@[i], param, arg)],
              !.kids = Kids(n, LAMBDA m : Filled(m, param, arg))]

\* What the instantiator does not look into: there the parameter stays.
Unseen == {"GuardExpr", "GuardBindStmt", "DestructuringDecl", "FreeStmt", "AwaitExpr",
           "WaitExpr", "StartExpr", "CedeExpr", "UnwrapPropagationExpr",
           "DereferenceExpr", "SpreadExpr", "ElisionExpr"}
Mentions(n, param) == \E m \in Nodes(n) : \E t \in {m.word} \cup ToSet(m.types) :
                         param \in ToSet(t)
Overlooked(n, param) ==
    \E m \in Nodes(n) :
       \/ m.k \in Unseen /\ Mentions(m, param)
       \/ m.k \in {"NewExpr", "ArrayInitExpr"} /\ Mentions(m.kids.ArraySize, param)
       \/ "MorphologyPrefix" \in m.marks

\* An instance is the template with the argument for the parameter, and with
\* nothing else changed; and a type has one instance of a method.  Left out:
\* what stands where the instantiator does not look, T::name for a T that is
\* no shape, which becomes the bare type, and the prefix of a loop variable,
\* which a copied loop forgets.
InstanceIsTheTemplate ==
    /\ item[1] = "instance" /\ outcome # <<>>
    /\ Template.args[1].kind = "shape" \/ \A n \in Nodes(Template.impl) : Len(n.word) < 2
                                                             \/ n.word[2] # ":"
    => /\ \A i \in DOMAIN Template.impl.kids.Methods :
             LET m == Template.impl.kids.Methods[i]
                 p == Template.impl.kids.GenericParams[1].word[1]
             IN  ~Overlooked(m, p) =>
                    outcome[1].kids.Methods[i] = Filled(m, p, ToText(Template.args[1]))
       /\ Len(outcome) = 2 => outcome[2] = Absent

\* The units the text of a tree must hold: declarations, methods, entries,
\* fields and variants, arms and statements.
SumOf(counts) == FoldLeft(LAMBDA a, b : a + b, 0, counts)
Declared == {"Imports", "TypeAliases", "Shapes", "Globals", "Impls", "Traits",
             "Externs", "Functions", "Methods", "EncapEntries", "Arms", "Statements",
             "Then", "Else"}
IsUnit(parent, role) ==
    \/ role \in Declared
    \/ role = "Members" /\ parent.k = "ShapeDecl" /\ "Array" \notin parent.marks
    \/ parent.k = "UnsafeStmt" /\ parent.kids.Statement.k # "BlockStmt"
    \/ role = "Body" /\ parent.k \in {"LoopExpr", "ForExpr", "MatchArm"}

\* What the interface is to leave out: private declarations, implicit imports,
\* bodies of functions that are no templates, methods nobody may call.
Hidden(parent, role, n) ==
    \/ n = Absent
    \/ /\ role \in {"TypeAliases", "Shapes", "Traits", "Globals"}
       /\ "IsPub" \notin n.marks
    \/ role = "Globals" /\ "IsConst" \notin n.marks
    \/ role = "Imports" /\ "IsImplicit" \in n.marks
    \/ role = "Methods" /\ parent.k = "ImplDecl" /\ parent.types = <<>>
       /\ "IsPub" \notin n.marks

RECURSIVE Units(_, _)
Units(n, template) ==
    LET inner == template \/ (/\ n.k \in {"FunctionDecl", "ImplDecl"}
                              /\ n.kids.GenericParams # <<>>)
        One(r, m) == IF Hidden(n, r, m) THEN 0
                     ELSE (IF IsUnit(n, r) THEN 1 ELSE 0) + Units(m, inner)
        Role(r) == IF n.k = "FunctionDecl" /\ r = "Body" /\ ~inner THEN 0
                   ELSE IF r \in Many
                   THEN SumOf([j \in DOMAIN n.kids[r] |-> One(r, n.kids[r][j])])
                   ELSE One(r, n.kids[r])
    IN  MapThenSumSet(Role, DOMAIN n.kids)

\* The nodes the exporter has no text for that the parser reads.
Misprinted(n) ==
    \/ n.k \in {"GuardExpr", "ViewStringExpr", "AwaitExpr", "WaitExpr", "StartExpr",
                "ClosureExpr"}
    \/ n.k = "ForExpr" /\ (n.kids.ElseBody # Absent \/ "IsMutable" \in n.marks)
    \/ n.k = "IfExpr" /\ "IsComptime" \in n.marks
    \/ n.k \in {"BreakExpr", "ContinueExpr"} /\ n.word # <<>>
    \/ n.k = "FunctionDecl" /\ n.kids.Effects # <<>> /\ n.kids.GenericParams = <<>>

InterfaceReadsBack ==
    /\ At("interface", 2)
    /\ \A n \in Nodes(Module) : ~Misprinted(n)
    => /\ outcome[2].halt = "" /\ outcome[2].errs = 0
       /\ Cardinality(outcome[2].starts) = Units(Module, FALSE)
       /\ Len(outcome[2].imports) =
             Len(SelectSeq(Module.kids.Imports, LAMBDA n : "IsImplicit" \notin n.marks))
=============================================================================
