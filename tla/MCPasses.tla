------------------------------- MODULE MCPasses -------------------------------
(* Small inputs for Passes. *)
EXTENDS Passes, TLC

-----------------------------------------------------------------------------
(* Types                                                                   *)

I32      == Type("prim", "i32", <<>>, "")
Shp(n)   == Type("shape", n, <<>>, "")
To(k, t) == Type(k, "", <<t>>, "")
OrNull(t)  == [t EXCEPT !.n = TRUE]
Writable(t)  == [t EXCEPT !.w = TRUE]

Marking(T) == UNION {{[t EXCEPT !.w = w, !.n = n, !.b = b] : w, n, b \in BOOLEAN} : t \in T}
Handles(T) == {To(k, t) : k \in {"^", "*", "~", "&"}, t \in T}
BuiltFrom(T)    == Handles(T) \cup {Type("array", "", <<t>>, "2") : t \in T}
              \cup {To("slice", t) : t \in T} \cup {To("uninit", t) : t \in T}
              \cup {Type("shape", "Q", <<t>>, "") : t \in T}
Funs(T)    == {Type(k, "", <<t, u>>, "") : k \in {"fn", "dynfn"}, t, u \in T}
              \cup {Type("fn", "...", <<t, Void>>, "") : t \in T}

PlainTypes  == {I32, Shp("P")}
FirstTypes  == {I32, Shp("P"), OrNull(I32), Writable(Shp("P"))}
SecondTypes == Marking(BuiltFrom(FirstTypes)) \cup Funs({I32, OrNull(I32), To("^", I32)})
MCTypeItems ==
    Marking(PlainTypes) \cup SecondTypes
             \cup BuiltFrom({t \in SecondTypes : ~t.w \/ ~t.b})
             \cup {[Type("shape", "Q", <<t, I32>>, "") EXCEPT
                       !.suffix = <<":", ":", "V">>, !.c = TRUE] : t \in BuiltFrom(FirstTypes)}

\* A soul, a weak and a strong alias of it, and one of the strong one.
MCAliases ==
    ("W" :> [params |-> <<>>, target |-> <<"A">>, strong |-> FALSE])
    @@ ("S" :> [params |-> <<>>, target |-> <<"A">>, strong |-> TRUE])
    @@ ("WS" :> [params |-> <<>>, target |-> <<"S">>, strong |-> FALSE])
ShapeParameter(name) == [name |-> name, morphic |-> TRUE, bounds |-> {}]
MemberOf(name, sigil, type) == [name |-> name, sigil |-> sigil, type |-> type]
MCShapes ==
    ("A" :> [kind |-> "struct", params |-> <<>>,
             members |-> <<MemberOf("x", <<>>, <<"i32">>)>>])
    @@ ("Box" :> [kind |-> "struct", params |-> <<ShapeParameter("T")>>,
                  members |-> <<MemberOf("x", <<"^">>, <<"T">>)>>])
MCRecords == "(x: i32)" :> <<MemberOf("x", <<>>, <<"i32">>)>>
MCClosures == "__Closure_0" :> Type("fn", "", <<I32, Void>>, "")
MCImpls    == {<<"A", "Show">>}
MCSafe     == {"A"}
NoLocals   == [n \in {} |-> I32]
NoModules  == [n \in {} |-> MCAliases]

Souls == {Shp("A"), I32, Shp("W"), Shp("S"), Shp("WS"), OrNull(Shp("A"))}
Level1 == {t \in Marking(Handles({Shp("A"), I32, OrNull(Shp("A"))})) : ~t.b}
          \cup Handles(Souls)
Level2 == {t \in Marking({To(k, t) : k \in {"^", "&"},
                          t \in {u \in Level1 : ~u.w /\ Inner(u) = Shp("A")}}) :
              ~t.b /\ ~t.w}
OtherTypes == {Shp("(x: i32)"), Shp("__Closure_0"), Shp("dyn @Show"), Void,
           Type("prim", "null", <<>>, ""), Type("prim", "i64", <<>>, ""),
           Type("fn", "", <<I32, Void>>, ""), Type("array", "", <<I32>>, "2"),
           Type("shape", "Box", <<I32>>, ""), Type("shape", "Box", <<To("^", I32)>>, "")}
PairsOf(T) == {<<t, s>> : t, s \in T}
MCFlowItems ==
    PairsOf(Level1) \cup PairsOf(Level2) \cup PairsOf(OtherTypes \cup Souls)
             \cup {<<OrNull(To("^", Shp("A"))), s>> : s \in OtherTypes}

-----------------------------------------------------------------------------
(* Trees                                                                   *)

Node(k, word, types, marks, kids) ==
    [k |-> k, word |-> word, types |-> types, marks |-> marks, kids |-> kids]
NoKids == [r \in {} |-> 0]
WordNode(k, word) == Node(k, word, <<>>, {}, NoKids)
Over(k, word, kid) == Node(k, word, <<>>, {}, kid)
Num(d)    == WordNode("NumberExpr", <<d>>)
Id(x)     == WordNode("VariableExpr", <<x>>)
Sized(t)  == Node("SizeOfExpr", <<>>, <<t>>, {}, NoKids)
CallNode(f, args)     == Over("CallExpr", <<f>>, [Args |-> args])
BinaryNode(a, op, b)  == Over("BinaryExpr", <<op>>, [LHS |-> a, RHS |-> b])
CastNode(e, t)        == Node("CastExpr", <<>>, <<t>>, {}, [Expression |-> e])
DoNode(e)             == Over("ExprStmt", <<>>, [Expression |-> e])
BlockNode(stmts)   == Over("BlockStmt", <<>>, [Statements |-> stmts])
ReturnNode(e)          == Over("ReturnStmt", <<>>, [ReturnValue |-> e])
FieldNode(x, v)       == Over("Field", <<x>>, [Value |-> v])
VarNode(x, types, marks, e) == Node("VariableDecl", <<x>>, types, marks, [Init |-> e])
Pat(kind, word, subs) == Node("Pattern", word, <<>>, {kind}, [SubPatterns |-> subs])
ArmOf(p, g, b)    == Over("MatchArm", <<>>, [Pat |-> p, Guard |-> g, Body |-> b])
ParamNode(x, t, marks) == Node("Arg", <<x>>, <<t>>, marks, [DefaultValue |-> Absent])
GenericNode(x, bounds) == Node("GenericParam", <<x>>, bounds, {}, NoKids)
FunNode(name, marks, generics, args, result, body) ==
    Node("FunctionDecl", <<name>>, <<result>>, marks,
         [GenericParams |-> generics, Args |-> args, Effects |-> <<>>, Body |-> body])

\* Every class of expression, with T in the types.
T == <<"T">>
X == Id("x")
SomeExprs == <<
    X, Num("1"), WordNode("FloatExpr", <<"1", ".", "0">>), WordNode("BoolExpr", <<"true">>),
    WordNode("NoneExpr", <<>>), WordNode("UnsetExpr", <<>>), WordNode("NullExpr", <<>>),
    WordNode("StringExpr", <<"s">>), WordNode("ViewStringExpr", <<"s">>),
    WordNode("CharLiteralExpr", <<"c">>), WordNode("MagicExpr", <<"__LINE__">>), Sized(T),
    Node("VariableExpr", <<"x">>, <<>>, {"IsUnique", "HasParens"}, NoKids),
    Over("DereferenceExpr", <<>>,
         [Expression |-> Node("VariableExpr", <<"x">>, <<>>, {"IsShared"}, NoKids)]),
    BinaryNode(X, "<", Num("1")), BinaryNode(X, "=", BinaryNode(X, "+", Num("2"))),
    Over("UnaryExpr", <<"-">>, [RHS |-> X]), Over("UnaryExpr", <<"!">>, [RHS |-> X]),
    Over("UnaryExpr", <<"bnot">>, [RHS |-> X]),
    Over("PostfixExpr", <<"+", "+">>, [LHS |-> X]), CastNode(X, T),
    Over("AwaitExpr", <<>>, [Expression |-> CallNode("f", <<>>)]),
    Over("WaitExpr", <<>>, [Expression |-> CallNode("f", <<>>)]),
    Over("StartExpr", <<>>, [Expression |-> CallNode("f", <<>>)]),
    Over("UnwrapPropagationExpr", <<>>, [Base |-> X]),
    CallNode("f", <<Over("SpreadExpr", <<>>, [Base |-> X])>>),
    Over("AddressOfExpr", <<>>, [Expression |-> X]),
    Over("CedeExpr", <<>>, [Value |-> X]), Over("PassExpr", <<>>, [Value |-> X]),
    CallNode("f", <<Over("UnsafeExpr", <<>>, [Expression |-> CallNode("f", <<X>>)])>>),
    Over("MemberExpr", <<"m">>, [Object |-> X]),
    Over("MethodCallExpr", <<"m">>, [Object |-> X, Args |-> <<Num("1"), X>>]),
    Node("CallExpr", <<"f">>, <<T, <<"i32">>>>, {}, [Args |-> <<X>>]),
    Over("CallExpr", <<"T", ":", ":", "new">>, [Args |-> <<>>]),
    Over("ArrayIndexExpr", <<>>, [Array |-> X, Indices |-> <<Num("1")>>]),
    Over("ArrayExpr", <<>>, [Elements |-> <<X, Sized(T)>>]),
    Over("RepeatedArrayExpr", <<>>, [Value |-> X, Count |-> Sized(T)]),
    Over("InitStructExpr", <<"P">>, [Members |-> <<FieldNode("a", X), FieldNode("b", CastNode(X, T))>>]),
    Over("AnonymousRecordExpr", <<>>, [Fields |-> <<FieldNode("a", X)>>]),
    Node("NewExpr", <<>>, <<<<"P">>>>, {},
         [Initializer |-> Over("AnonymousRecordExpr", <<>>, [Fields |-> <<FieldNode("a", X)>>]),
          ArraySize |-> Absent]),
    Node("AllocExpr", <<>>, <<T>>, {"IsArray"}, [Initializer |-> Absent, ArraySize |-> X]),
    Over("MatchExpr", <<>>, [Target |-> X, Arms |->
        <<ArmOf(Pat("Decons", <<"P">>, <<Pat("Variable", <<"a">>, <<>>),
                                         Pat("Elision", <<>>, <<>>)>>),
                BinaryNode(X, "<", Sized(T)), DoNode(CallNode("f", <<>>))),
          ArmOf(Pat("Or", <<>>, <<Pat("Literal", <<"1">>, <<>>),
                                  Pat("Literal", <<"2">>, <<>>)>>), Absent, ReturnNode(X)),
          ArmOf(Node("Pattern", <<>>, <<>>, {"Range", "IsInclusive"},
                     [SubPatterns |-> <<Pat("Literal", <<"1">>, <<>>),
                                        Pat("Literal", <<"2">>, <<>>)>>]),
                Absent, BlockNode(<<DoNode(X)>>)),
          ArmOf(Pat("Wildcard", <<>>, <<>>), Absent, DoNode(CastNode(X, T)))>>]),
    Over("IfExpr", <<>>, [Condition |-> BinaryNode(X, "<", Num("1")),
                          Then |-> BlockNode(<<DoNode(X)>>), Else |-> Absent]),
    Over("IfExpr", <<>>, [Condition |-> X, Then |-> BlockNode(<<DoNode(Sized(T))>>),
                          Else |-> BlockNode(<<ReturnNode(CastNode(X, T))>>)]),
    Over("GuardExpr", <<>>, [Condition |-> X, Then |-> BlockNode(<<DoNode(X)>>),
                             Else |-> BlockNode(<<DoNode(Sized(T))>>)]),
    Over("LoopExpr", <<>>, [Condition |-> X,
            Body |-> BlockNode(<<DoNode(Over("BreakExpr", <<>>, [Value |-> Absent])),
                                DoNode(WordNode("ContinueExpr", <<>>))>>)]),
    Node("ForExpr", <<"i">>, <<>>, {"MorphologyPrefix"},
         [Collection |-> X, Body |-> BlockNode(<<DoNode(Id("i"))>>), ElseBody |-> Absent]),
    Over("ForExpr", <<"i">>, [Collection |-> CallNode("f", <<Sized(T)>>),
         Body |-> BlockNode(<<DoNode(CastNode(X, T))>>), ElseBody |-> BlockNode(<<DoNode(X)>>)]),
    Over("LoopExpr", <<>>, [Condition |-> Absent,
            Body |-> BlockNode(<<DoNode(Over("BreakExpr", <<"l">>, [Value |-> Absent]))>>)]),
    CallNode("f", <<Node("ClosureExpr", <<>>, << <<>>, <<"a">>, <<"b">> >>, {"HasExplicitArgs"},
                         [ExplicitCaptures |-> <<>>, Body |-> BlockNode(<<DoNode(X)>>)])>>),
    CallNode("f", <<Node("ClosureExpr", <<>>, <<T>>, {},
                         [ExplicitCaptures |->
                             <<Node("CaptureItem", <<"x">>, <<>>, {"ExplicitCopy"}, NoKids)>>,
                          Body |-> BlockNode(<<DoNode(X)>>)])>>),
    CallNode("f", <<Node("ClosureExpr", <<>>, << <<>> >>, {},
                         [ExplicitCaptures |-> <<>>,
                          Body |-> BlockNode(<<DoNode(CallNode("f", <<Sized(T)>>))>>)])>>) >>

SomeStmts ==
    <<VarNode("y", <<T>>, {"IsUnique"}, X), VarNode("y", <<>>, {"IsValueMutable"}, Num("1")),
      Over("DestructuringDecl", <<>>,
           [Variables |-> <<WordNode("DestructuredVar", <<"a">>),
                            Node("DestructuredVar", <<>>, <<>>, {"IsWildcard"}, NoKids)>>,
            Init |-> CastNode(X, T)]),
      ReturnNode(Absent), ReturnNode(Over("UnaryExpr", <<"-">>, [RHS |-> X])),
      Over("DeleteStmt", <<>>, [Expression |-> X]),
      Over("FreeStmt", <<>>, [Expression |-> X, Count |-> Absent]),
      Over("UnsafeStmt", <<>>, [Statement |-> BlockNode(<<DoNode(CastNode(X, T))>>)]),
      Over("UnsafeStmt", <<>>, [Statement |-> DoNode(CallNode("f", <<X>>))]),
      WordNode("UnreachableStmt", <<>>), BlockNode(<<DoNode(X), DoNode(Num("1"))>>),
      Over("GuardBindStmt", <<>>,
           [Pat |-> Pat("Decons", <<"P">>, <<Pat("Variable", <<"a">>, <<>>)>>),
            Target |-> X, ElseBody |-> BlockNode(<<ReturnNode(Sized(T))>>)])>>
    \o [i \in DOMAIN SomeExprs |-> DoNode(SomeExprs[i])]

-----------------------------------------------------------------------------
(* Modules and impls                                                       *)

NoParts == [r \in {"Imports", "TypeAliases", "Shapes", "Globals", "Impls", "Traits",
                 "Externs", "Functions"} |-> <<>>]
ModuleOf(parts) == Node("Module", <<>>, <<>>, {}, parts @@ NoParts)
TemplateFun(body)  == FunNode("f", {}, <<GenericNode("T", <<>>)>>, <<ParamNode("x", T, {"IsUnique"})>>,
                       T, BlockNode(body))
\* Every statement before each of some.  None of these begins with ( or [,
\* which go on with the line before: the exporter writes no semicolon.
Followers == <<DoNode(X), DoNode(Over("UnaryExpr", <<"-">>, [RHS |-> X])),
               DoNode(Over("AddressOfExpr", <<>>, [Expression |-> X]))>>
Bodies ==
    LET n == Len(Followers)
    IN  [i \in 1..(n * Len(SomeStmts)) |->
            <<SomeStmts[((i - 1) \div n) + 1], Followers[((i - 1) % n) + 1]>>]

\* Declarations of every kind, with what the exporter makes of each flag.
Pub == {"IsPub"}
MemberNode(x, t, marks, d) == Node("ShapeMember", <<x>>, <<t>>, marks,
                                [SubMembers |-> <<>>, DefaultValue |-> d])
ShapeNode(x, types, marks, generics, members) ==
    Node("ShapeDecl", <<x>>, types, marks, [GenericParams |-> generics, Members |-> members])
ImportNode(path, types, marks, items) ==
    Node("ImportDecl", path, types, marks, [Items |-> items])
ImplNode(type, types, entries, methods) ==
    Node("ImplDecl", type, types, {}, [GenericParams |-> <<>>, EncapEntries |-> entries,
                                       Methods |-> methods])
Entry(word, types, marks) == Node("EncapEntry", word, types, marks, NoKids)
I32Text == <<"i32">>
MethodNode(name, marks) ==
    FunNode(name, marks, <<>>, <<ParamNode("self", <<>>, {}), ParamNode("b", I32Text, {"IsCeded"})>>,
            I32Text, BlockNode(<<ReturnNode(Num("1"))>>))
Decls == <<
    <<"Imports", ImportNode(<<"std", "/", "io">>, <<>>, {}, <<>>)>>,
    <<"Imports", ImportNode(<<"std", "/", "io">>, << <<"m">> >>, Pub, <<>>)>>,
    <<"Imports", ImportNode(<<"std", "/", "io">>, <<>>, {}, <<WordNode("ImportItem", <<"*">>)>>)>>,
    <<"Imports", ImportNode(<<"std", "/", "io">>, <<>>, Pub,
        <<WordNode("ImportItem", <<"a">>), Node("ImportItem", <<"b">>, << <<"c">> >>, {}, NoKids)>>)>>,
    <<"Imports", ImportNode(<<"core", "/", "prelude">>, <<>>, {"IsImplicit"}, <<>>)>>,
    <<"TypeAliases", Node("TypeAliasDecl", <<"U">>, <<I32Text>>, Pub, [GenericParams |-> <<>>])>>,
    <<"TypeAliases", Node("TypeAliasDecl", <<"U">>, << <<"^", "T">> >>, {"IsPub", "IsStrong"},
                          [GenericParams |-> <<GenericNode("T", <<>>)>>])>>,
    <<"TypeAliases", Node("TypeAliasDecl", <<"U">>, <<I32Text>>, {}, [GenericParams |-> <<>>])>>,
    <<"Shapes", ShapeNode("P", <<>>, Pub \cup {"Struct"}, <<>>,
        <<MemberNode("a", I32Text, {"IsValueMutable"}, Num("1")), MemberNode("b", <<"P">>, {"IsUnique", "IsPointerNullable"}, Absent)>>)>>,
    <<"Shapes", ShapeNode("P", << <<"a">>, <<"b">> >>, Pub \cup {"Struct", "IsPacked"},
        <<GenericNode("T", << <<"A">> >>), GenericNode("U", << <<"A">>, <<"B">> >>)>>,
        <<MemberNode("a", T, {"IsReference"}, Absent)>>)>>,
    <<"Shapes", ShapeNode("P", << <<"1">> >>, Pub \cup {"Array"}, <<>>, <<MemberNode("", <<"u8">>, {}, Absent)>>)>>,
    <<"Shapes", ShapeNode("E", <<>>, Pub \cup {"Enum"}, <<>>,
        <<Node("ShapeMember", <<"A">>, << <<>> >>, {"Tuple"},
               [SubMembers |-> <<MemberNode("", I32Text, {}, Absent)>>, DefaultValue |-> Absent]),
          MemberNode("B", <<"1">>, {"Tag"}, Absent), MemberNode("C", <<>>, {}, Absent)>>)>>,
    <<"Shapes", ShapeNode("P", <<>>, {"Struct"}, <<>>, <<MemberNode("a", I32Text, {}, Absent)>>)>>,
    <<"Traits", Node("TraitDecl", <<"S">>, <<>>, Pub,
        [GenericParams |-> <<>>, Methods |-> <<[MethodNode("f", {}) EXCEPT !.kids.Body = Absent], MethodNode("g", Pub)>>])>>,
    <<"Impls", ImplNode(<<"P">>, <<>>, <<>>, <<MethodNode("f", {}), MethodNode("g", Pub)>>)>>,
    <<"Impls", ImplNode(<<"P">>, << <<"S">> >>, <<>>, <<MethodNode("f", {}), MethodNode("g", Pub)>>)>>,
    <<"Impls", ImplNode(<<"P">>, << <<"encap">> >>,
        <<Entry(<<>>, << <<"a">>, <<"b">> >>, {}), Entry(<<>>, << <<"c">> >>, {"Crate"}),
          Entry(<<"std", "/", "io">>, << <<"d">> >>, {"Path"}),
          Entry(<<>>, << <<"e">> >>, {"IsExclusion"})>>, <<>>)>>,
    <<"Externs", Node("ExternDecl", <<"puts">>, <<I32Text>>, {"IsVariadic"},
        [Args |-> <<ParamNode("s", <<"*", "u8">>, {"IsRawPointer"})>>])>>,
    <<"Functions", MethodNode("f", Pub)>>,
    <<"Functions", [MethodNode("f", Pub) EXCEPT !.types = <<T, <<"b">>, <<"self">> >>]>>,
    <<"Functions", [MethodNode("f", {"IsDeleted"}) EXCEPT !.kids.Body = Absent]>>,
    <<"Functions", [MethodNode("f", Pub) EXCEPT !.kids.Effects =
        <<Node("Effect", <<"a">>, << <<"b">> >>, {}, NoKids)>>]>>,
    <<"Functions", FunNode("f", {"IsVariadic"}, <<>>,
        <<Node("Arg", <<"x">>, <<I32Text>>, {"IsShared", "IsRebindable"}, [DefaultValue |-> Num("1")])>>,
        <<"void">>, BlockNode(<<DoNode(X)>>))>>,
    <<"Functions", FunNode("f", {"Async"}, <<>>, <<>>, I32Text, BlockNode(<<DoNode(X)>>))>>,
    <<"Functions", TemplateFun(<<DoNode(X)>>)>>,
    <<"Globals", VarNode("g", <<I32Text>>, {"IsPub", "IsConst"}, BinaryNode(Num("1"), "+", Num("2")))>>,
    <<"Globals", VarNode("g", <<I32Text>>, {"IsConst"}, Num("1"))>> >>

Alone(d) == ModuleOf(d[1] :> <<d[2]>>)
Together(d, e) ==
    ModuleOf(IF d[1] = e[1] THEN d[1] :> <<d[2], e[2]>> ELSE d[1] :> <<d[2]>> @@ e[1] :> <<e[2]>>)
MCModuleItems ==
    [i \in DOMAIN Bodies |-> ModuleOf([Functions |-> <<TemplateFun(Bodies[i])>>])]
    \o [i \in DOMAIN Decls |-> Alone(Decls[i])]
    \o [i \in DOMAIN Decls |-> Together(Decls[i], Decls[(i % Len(Decls)) + 1])]

ImplOf(body) ==
    Node("ImplDecl", <<"Box", "<", "T", ">">>, <<>>, {},
         [GenericParams |-> <<GenericNode("T", <<>>)>>, EncapEntries |-> <<>>,
          Methods |-> <<FunNode("m", {"IsPub"}, <<>>, <<ParamNode("x", T, {})>>, T,
                            BlockNode(body))>>])
MCImplItems ==
    LET n == Len(SomeStmts)
        For(i, arg) == [impl |-> ImplOf(<<SomeStmts[i]>>),
                        concrete |-> <<"Box", "<">> \o ToText(arg) \o <<">">>, args |-> <<arg>>]
    IN  [i \in 1..n |-> For(i, I32)] \o [i \in 1..n |-> For(i, Shp("P"))]
        \o [i \in 1..n |-> For(i, To("^", Shp("A")))]

=============================================================================
