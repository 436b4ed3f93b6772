------------------------------- MODULE Syntax -------------------------------
(***************************************************************************)
(* The syntax tree (include/toka/AST.h).  A node is a record               *)
(*   k      its class                                                      *)
(*   word   its name, operator, path or literal: pieces of text            *)
(*   types  the other texts it has: the type it names, then the generic    *)
(*          arguments, dependencies, bounds, names of parameters, or tag   *)
(*   marks  its flags that are set                                         *)
(*   kids   role -> node, or sequence of nodes for the roles in Many       *)
(* What only later passes fill in and read (locations, serial numbers,     *)
(* resolved types and declarations) is left out.                           *)
(***************************************************************************)
EXTENDS Types

Absent == [k |-> "nullptr", word |-> <<>>, types |-> <<>>, marks |-> {},
           kids |-> [r \in {} |-> 0]]

\* The roles of a class, and the flags it has beside those of every node.
Class(roles, marks) == [roles |-> roles, marks |-> marks]
Leaf     == Class({}, {})
Of(role) == Class({role}, {})

Many == {"Indices", "Elements", "Members", "Fields", "Args", "SubPatterns", "Arms",
         "Statements", "Variables", "ExplicitCaptures", "Methods", "EncapEntries",
         "GenericParams", "SubMembers", "Items", "Imports", "TypeAliases", "Shapes",
         "Globals", "Impls", "Traits", "Externs", "Functions", "Effects"}

-----------------------------------------------------------------------------
(* Expressions                                                             *)

\* What every expression has beside; Spread alone hands it on to its copy.
ExprMarks == {"HasParens", "IsMorphicExempt", "ExtendLifetime"}

ValueMarks == {"IsValueMutable", "IsValueNullable", "IsValueBlocked"}

LiteralNodes ==
    [NumberExpr |-> Leaf, FloatExpr |-> Leaf, BoolExpr |-> Leaf, NullExpr |-> Leaf,
     NoneExpr |-> Leaf, UnsetExpr |-> Leaf, SizeOfExpr |-> Leaf,
     VariableExpr |-> Class({}, {"IsRawPointer", "IsUnique", "IsShared",
                                 "IsImplicitDeref", "HasConstantValue"} \cup ValueMarks)]

TextsAndOperators ==
    [StringExpr |-> Leaf, ViewStringExpr |-> Leaf, CharLiteralExpr |-> Leaf,
     DereferenceExpr |-> Of("Expression"),
     BinaryExpr  |-> Class({"LHS", "RHS"}, {}),
     UnaryExpr   |-> Class({"RHS"}, {"HasNull", "IsRebindable", "IsRebindBlocked"}
                                    \cup ValueMarks),
     PostfixExpr |-> Of("LHS")]

WrapperNodes ==
    [UnwrapPropagationExpr |-> Of("Base"), AwaitExpr |-> Of("Expression"),
     WaitExpr |-> Of("Expression"), StartExpr |-> Of("Expression"),
     CastExpr |-> Of("Expression"), AddressOfExpr |-> Of("Expression")]

Accesses ==
    [MemberExpr |-> Class({"Object"}, {"IsStatic"}),
     ArrayIndexExpr |-> Class({"Array", "Indices"}, {}),
     ArrayExpr |-> Of("Elements"),
     RepeatedArrayExpr |-> Class({"Value", "Count"}, {}),
     UnsafeExpr |-> Of("Expression"),
     AllocExpr |-> Class({"Initializer", "ArraySize"}, {"IsArray"})]

\* A field with its value is a node of its own here, of class Field.
Makers ==
    [InitStructExpr |-> Of("Members"), AnonymousRecordExpr |-> Of("Fields"),
     CallExpr |-> Class({"Args"}, {"Resolved", "IsIsomorphicCopy"}),
     MethodCallExpr |-> Class({"Object", "Args"}, {"IsCompilerInternal"}),
     MagicExpr |-> Leaf, Field |-> Of("Value")]

Allocators ==
    [NewExpr |-> Class({"Initializer", "ArraySize"}, {}),
     ArrayInitExpr |-> Class({"Initializer", "ArraySize"}, {}),
     PassExpr |-> Of("Value"), CedeExpr |-> Of("Value"),
     ElisionExpr |-> Of("Target"), SpreadExpr |-> Of("Base")]

\* PatternKind is one of the flags.  A part of a deconstruction that is named
\* stands in a Field, as a destructured variable with a field does.
Patterns ==
    [Pattern |-> Class({"SubPatterns"},
                       {"Literal", "Variable", "Decons", "Wildcard", "Or", "Elision",
                        "Range", "IsReference", "IsValueMutable", "IsValueBlocked",
                        "IsInclusive"}),
     MatchArm |-> Class({"Pat", "Guard", "Body"}, {}),
     ComptimeFieldExpr |-> Leaf, ComptimeReflectExpr |-> Leaf,
     MatchExpr |-> Class({"Target", "Arms"}, {})]

-----------------------------------------------------------------------------
(* Statements                                                              *)

StatementNodes ==
    [BreakExpr |-> Of("Value"), ContinueExpr |-> Leaf, BlockStmt |-> Of("Statements"),
     ReturnStmt |-> Of("ReturnValue"), ExprStmt |-> Of("Expression"),
     DeleteStmt |-> Of("Expression"), UnsafeStmt |-> Of("Statement"),
     FreeStmt |-> Class({"Expression", "Count"}, {}), UnreachableStmt |-> Leaf]

\* The prefix of a loop's variable is a flag of the loop.
Control ==
    [IfExpr |-> Class({"Condition", "Then", "Else"}, {"IsComptime", "ComptimeTaken"}),
     GuardExpr |-> Class({"Condition", "Then", "Else"}, {}),
     LoopExpr |-> Class({"Condition", "Body"}, {}),
     ForExpr |-> Class({"Collection", "Body", "ElseBody"},
                       {"MorphologyPrefix", "IsReference", "IsMutable",
                        "IsComptimeUnrolled"})]

HandleMarks == {"IsRawPointer", "IsUnique", "IsShared", "IsReference"}
PointerMarks == {"IsRebindable", "IsPointerNullable", "IsRebindBlocked"}

Bindings ==
    [DestructuredVar |-> Class({}, {"IsWildcard", "IsReference"} \cup ValueMarks),
     DestructuringDecl |-> Class({"Variables", "Init"}, {}),
     VariableDecl |-> Class({"Init"}, {"IsPub", "IsConst", "IsMorphicExempt"}
                                      \cup HandleMarks \cup PointerMarks \cup ValueMarks),
     GuardBindStmt |-> Class({"Pat", "Target", "ElseBody"}, {})]

-----------------------------------------------------------------------------
(* Declarations                                                            *)

GenericParameter == [GenericParam |-> Class({}, {"IsConst", "IsMorphic"})]

Shapely ==
    [TypeAliasDecl |-> Class({"GenericParams"}, {"IsPub", "IsStrong"}),
     ShapeMember |-> Class({"SubMembers", "DefaultValue"},
                           {"IsExplicitBound", "IsMorphicExempt", "Tuple", "Tag"}
                           \cup HandleMarks \cup PointerMarks \cup ValueMarks)]

ShapesAndImports ==
    [ShapeDecl |-> Class({"GenericParams", "Members"},
                         {"IsPub", "IsPacked", "Struct", "Tuple", "Array", "Enum",
                          "Union", "IsSync"}),
     ImportItem |-> Leaf,
     ImportDecl |-> Class({"Items"}, {"IsPub", "IsImplicit"})]

ArgMarks == {"IsMorphicExempt", "IsCeded"} \cup HandleMarks \cup PointerMarks \cup ValueMarks

Functions ==
    [Arg |-> Class({"DefaultValue"}, ArgMarks),
     Effect |-> Leaf,   \* an entry of MemberDependencies: member <- sources
     FunctionDecl |-> Class({"GenericParams", "Args", "Effects", "Body"},
                            {"IsPub", "IsVariadic", "IsDeleted", "Async", "Wait"})]

ClosuresAndExterns ==
    [CaptureItem |-> Class({}, {"ExplicitCede", "ExplicitCopy"}),
     ClosureExpr |-> Class({"ExplicitCaptures", "Body"},
                           {"HasExplicitArgs", "InjectedParamTypes"}),
     ExternDecl |-> Class({"Args"}, {"IsVariadic", "Async", "Wait"})]

Blocks ==
    [EncapEntry |-> Class({}, {"Crate", "Path", "IsExclusion"}),
     ImplDecl |-> Class({"GenericParams", "EncapEntries", "Methods"}, {}),
     TraitDecl |-> Class({"GenericParams", "Methods"}, {"IsPub"}),
     Module |-> Class({"Imports", "TypeAliases", "Shapes", "Globals", "Impls",
                       "Traits", "Externs", "Functions"}, {"IsRootModule"})]

Exprs == LiteralNodes @@ TextsAndOperators @@ WrapperNodes @@ Accesses @@ Makers
         @@ Allocators @@ Control @@ [k \in {"ComptimeFieldExpr", "ComptimeReflectExpr",
                                              "MatchExpr"} |-> Patterns[k]]
         @@ [k \in {"BreakExpr", "ContinueExpr"} |-> StatementNodes[k]]
         @@ [ClosureExpr |-> ClosuresAndExterns.ClosureExpr]
Classes == Exprs @@ Patterns @@ StatementNodes @@ Bindings @@ GenericParameter @@ Shapely
           @@ ShapesAndImports @@ Functions @@ ClosuresAndExterns @@ Blocks

\* A tree as the parser and the analysis can have it.
RECURSIVE IsTree(_)
IsTree(n) ==
    \/ n = Absent
    \/ /\ n.k \in DOMAIN Classes
       /\ DOMAIN n.kids = Classes[n.k].roles
       /\ n.marks \subseteq Classes[n.k].marks \cup (IF n.k \in DOMAIN Exprs
                                                     THEN ExprMarks ELSE {})
       /\ \A r \in DOMAIN n.kids :
             IF r \in Many THEN \A i \in DOMAIN n.kids[r] : IsTree(n.kids[r][i])
             ELSE IsTree(n.kids[r])

-----------------------------------------------------------------------------
(* Copies                                                                  *)

\* F at every kid.
Kids(n, F(_)) ==
    [r \in DOMAIN n.kids |-> IF r \in Many
                             THEN [i \in DOMAIN n.kids[r] |-> F(n.kids[r][i])]
                             ELSE F(n.kids[r])]

\* What clone() leaves behind: the flags of Expr, of which the clones of the
\* classes but one know nothing, and what four of them do not hand on.
LeftBehind(k) ==
    (IF k \in DOMAIN Exprs \ {"SpreadExpr"} THEN ExprMarks ELSE {})
    \cup (CASE k = "IfExpr"      -> {"IsComptime", "ComptimeTaken"}
            [] k = "ForExpr"     -> {"MorphologyPrefix", "IsComptimeUnrolled"}
            [] k = "CallExpr"    -> {"Resolved"}
            [] k = "ClosureExpr" -> {"InjectedParamTypes"}
            [] OTHER             -> {})

\* clone
RECURSIVE Clone(_)
Clone(n) == [n EXCEPT !.marks = @ \ LeftBehind(n.k), !.kids = Kids(n, Clone)]
=============================================================================
