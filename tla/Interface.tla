------------------------------- MODULE Interface -------------------------------
(***************************************************************************)
(* Interface files (src/AST/TKIExporter.cpp): a module's tree as a text    *)
(* the parser is to read back.  Indentation is left out; line ends are     *)
(* not, the parser minds them.                                             *)
(***************************************************************************)
EXTENDS Syntax

NewLine == <<"\n">>
Space   == <<" ">>
Lines(texts) == FoldLeft(LAMBDA s, t : s \o t, <<>>, texts)
Between(texts, mark) ==
    FoldLeft(LAMBDA s, i : s \o (IF i = 1 THEN <<>> ELSE mark) \o texts[i],
             <<>>, [i \in DOMAIN texts |-> i])
InParens(text) == <<"(">> \o text \o <<")">>

\* The first of several flags that is set prints its mark; a sequence of
\* <<flag, mark>>.
FirstOf(marks, choices) ==
    LET set == {i \in DOMAIN choices : choices[i][1] \in marks}
    IN  IF set = {} THEN <<>> ELSE <<choices[Min(set)][2]>>
Sigil(marks) == FirstOf(marks, << <<"IsUnique", "^">>, <<"IsShared", "~">>,
                                  <<"IsReference", "&">>, <<"IsRawPointer", "*">> >>)
ValueMark(marks) == FirstOf(marks, << <<"IsValueMutable", "#">>,
                                      <<"IsValueNullable", "?">>,
                                      <<"IsValueBlocked", "$">> >>)

\* reconstructVar: a name with the morphology that its flags say.
Variable(n) ==
    LET Set(flag, text) == IF flag \in n.marks THEN text ELSE <<>>
    IN  Set("IsCeded", <<"cede", " ">>) \o Set("IsExplicitBound", <<"backtick">>)
        \o Set("IsPointerNullable", <<"nul", " ">>) \o Sigil(n.marks)
        \o FirstOf(n.marks, << <<"IsRebindable", "#">>, <<"IsRebindBlocked", "$">> >>)
        \o Set("IsMorphicExempt", <<"'">>) \o StripMorphology(n.word)
        \o ValueMark(n.marks)

\* name: Type, whose prefixes the name carries already.
Typed(n) == Variable(n) \o (IF n.types = <<>> THEN <<>>
                            ELSE <<":", " ">> \o StripPrefixes(n.types[1]))

-----------------------------------------------------------------------------
(* Expressions                                                             *)

\* The text of a node, by what it is (below).
RECURSIVE Text(_, _)
Expression(n, bare) == Text(IF bare THEN "operand" ELSE "expression", n)
OneStmt(n)     == Text("statement", n)
Stmts(nodes)   == Lines([i \in DOMAIN nodes |-> OneStmt(nodes[i])])
PatternText(n) == Text("pattern", n)

List(nodes) ==
    Between([i \in DOMAIN nodes |-> Expression(nodes[i], FALSE)], <<",", " ">>)
Fields(nodes) ==
    Between([i \in DOMAIN nodes |-> nodes[i].word \o <<" ", "=", " ">>
                                    \o Expression(nodes[i].kids.Value, FALSE)],
            <<",", " ">>)
Block(n) == <<"{", "\n">> \o Stmts(n.kids.Statements) \o <<"}", "\n">>
OrNothing(n, In(_)) == IF n = Absent THEN <<>> ELSE In(n)

\* What stands before its operand, and what behind it, with the operand's role.
Before ==
    [AwaitExpr |-> <<"await", " ">>, WaitExpr |-> <<"wait", " ">>,
     StartExpr |-> <<"start", " ">>, UnsafeExpr |-> <<"unsafe", " ">>,
     PassExpr |-> <<"pass", " ">>, CedeExpr |-> <<"cede", " ">>,
     AddressOfExpr |-> <<"&">>]
OperandOf(n) == n.kids[CHOOSE r \in DOMAIN n.kids : TRUE]
Behind == [UnwrapPropagationExpr |-> <<"?">>, SpreadExpr |-> <<".", "*">>]

\* A variable without its sigil where a dereference is around it.
VariableText(n, bare) ==
    (IF bare THEN <<>> ELSE Sigil(n.marks \ {"IsReference"})) \o n.word
    \o ValueMark(n.marks)

\* Of a prefix operator only these have a text; ++, -- and @ vanish.
PrefixTexts == {"^", "~", "*", "&", "+", "-", "!", "bnot"}
UnaryText(n) ==
    (IF n.word[1] \notin PrefixTexts THEN <<>>
     ELSE IF n.word[1] = "bnot" THEN <<"bnot", " ">> ELSE n.word)
    \o If("HasNull" \in n.marks, "?") \o If("IsRebindable" \in n.marks, "#")
    \o If("IsRebindBlocked" \in n.marks, "$") \o Expression(n.kids.RHS, FALSE)

\* new and alloc: the initializer, a tree with its type, again in parentheses.
MakerText(n, word) ==
    LET size == n.kids.ArraySize
    IN  word \o (IF size # Absent \/ "IsArray" \in n.marks
                 THEN <<"[">> \o OrNothing(size, LAMBDA e : Expression(e, FALSE))
                      \o <<"]">> ELSE <<>>)
        \o n.types[1]
        \o OrNothing(n.kids.Initializer, LAMBDA e : InParens(Expression(e, FALSE)))

\* { [captures] |names| newline body }
ClosureText(n) ==
    LET Capture(c) == (IF "ExplicitCede" \in c.marks THEN <<"cede", " ">>
                       ELSE IF "ExplicitCopy" \in c.marks THEN <<"copy", " ">>
                       ELSE <<>>) \o c.word
        captures == n.kids.ExplicitCaptures
    IN  <<"{", "\n">>
        \o (IF captures = <<>> THEN <<>>
            ELSE <<"[">> \o Between([i \in DOMAIN captures |-> Capture(captures[i])],
                                    <<",", " ">>) \o <<"]", " ">>)
        \o (IF "HasExplicitArgs" \notin n.marks THEN <<>>
            ELSE <<"|">> \o Between(Tail(n.types), <<",", " ">>) \o <<"|", " ">>)
        \o NewLine \o OrNothing(n.kids.Body, LAMBDA b : Stmts(b.kids.Statements))
        \o <<"}">>

ArmText(arm) ==
    PatternText(arm.kids.Pat)
    \o OrNothing(arm.kids.Guard, LAMBDA g : <<" ", "if", " ">> \o Expression(g, FALSE))
    \o <<" ", "=", ">", " ">> \o OneStmt(arm.kids.Body) \o NewLine

\* if, guard, loop, for, match, break, continue
ControlText(n) ==
    LET Part(role) == Expression(n.kids[role], FALSE)
        Else(role) == OrNothing(n.kids[role], LAMBDA s : <<" ", "else", " ">> \o OneStmt(s))
    IN  CASE n.k = "IfExpr" ->
                (IF "IsComptime" \in n.marks THEN <<"comptime", " ">> ELSE <<>>)
                \o <<"if", " ">> \o Part("Condition") \o Space \o OneStmt(n.kids.Then)
                \o Else("Else")
          [] n.k = "GuardExpr" -> <<"guard", " ">> \o Part("Condition")
                                  \o <<" ", "else", " ">> \o OneStmt(n.kids.Else)
          [] n.k = "LoopExpr" -> <<"loop", " ">>
                \o OrNothing(n.kids.Condition, LAMBDA c : Expression(c, FALSE) \o Space)
                \o OneStmt(n.kids.Body)
          [] n.k = "ForExpr" ->
                <<"for", " ", IF "IsMutable" \in n.marks THEN "mut" ELSE "auto", " ">>
                \o If("MorphologyPrefix" \in n.marks, "^") \o n.word \o <<" ", "in", " ">>
                \o Part("Collection") \o Space \o OneStmt(n.kids.Body) \o Else("ElseBody")
          [] n.k = "MatchExpr" ->
                <<"match", " ">> \o Part("Target") \o <<" ", "{", "\n">>
                \o Lines([i \in DOMAIN n.kids.Arms |-> ArmText(n.kids.Arms[i])]) \o <<"}">>
          [] n.k = "BreakExpr" ->
                <<"break">> \o (IF n.word = <<>> THEN <<>> ELSE Space \o n.word)
                \o OrNothing(n.kids.Value, LAMBDA e : Space \o Expression(e, FALSE))
          [] n.k = "ContinueExpr" ->
                <<"continue">> \o (IF n.word = <<>> THEN <<>> ELSE Space \o n.word)

\* exportExpr, without the parentheses.
Bare(n, bare) ==
    LET Part(role) == Expression(n.kids[role], FALSE)
        types == Between(n.types, <<",", " ">>)
    IN  CASE n.k \in DOMAIN Before -> Before[n.k] \o Expression(OperandOf(n), FALSE)
          [] n.k \in DOMAIN Behind -> Expression(OperandOf(n), FALSE) \o Behind[n.k]
          [] n.k \in DOMAIN Control \cup {"MatchExpr", "BreakExpr", "ContinueExpr"} ->
                ControlText(n)
          [] n.k \in {"NumberExpr", "FloatExpr", "BoolExpr", "MagicExpr",
                      "ComptimeFieldExpr", "ComptimeReflectExpr"} -> n.word
          [] n.k = "NullExpr"       -> <<"nullptr">>
          [] n.k = "NoneExpr"       -> <<"none">>
          [] n.k = "UnsetExpr"      -> <<"unset">>
          [] n.k = "ElisionExpr"    -> <<".", ".">>
          [] n.k = "SizeOfExpr"     -> <<"sizeof">> \o InParens(n.types[1])
          [] n.k = "VariableExpr"   -> VariableText(n, bare)
          [] n.k = "StringExpr"     -> <<"\"">> \o n.word \o <<"\"">>
          [] n.k = "ViewStringExpr" -> <<"v", "\"">> \o n.word \o <<"\"">>
          [] n.k = "CharLiteralExpr" -> <<"'">> \o n.word \o <<"'">>
          [] n.k = "DereferenceExpr" -> Expression(n.kids.Expression, TRUE)
          [] n.k = "BinaryExpr" -> Part("LHS") \o Space \o n.word \o Space \o Part("RHS")
          [] n.k = "UnaryExpr"   -> UnaryText(n)
          [] n.k = "PostfixExpr" -> Part("LHS")
                \o (IF n.word \in {<<"+", "+">>, <<"-", "-">>} THEN n.word ELSE <<>>)
          [] n.k = "CastExpr"    -> Part("Expression") \o <<" ", "as", " ">> \o n.types[1]
          [] n.k = "MemberExpr"  -> Part("Object") \o <<".">> \o n.word
          [] n.k = "ArrayIndexExpr" -> Part("Array") \o <<"[">> \o List(n.kids.Indices)
                                       \o <<"]">>
          [] n.k = "ArrayExpr"   -> <<"[">> \o List(n.kids.Elements) \o <<"]">>
          [] n.k = "RepeatedArrayExpr" ->
                <<"[">> \o Part("Value") \o <<";", " ">> \o Part("Count") \o <<"]">>
          [] n.k = "AllocExpr"   -> MakerText(n, <<"alloc", " ">>)
          [] n.k \in {"NewExpr", "ArrayInitExpr"} -> MakerText(n, <<"new", " ">>)
          [] n.k = "InitStructExpr" -> n.word \o InParens(Fields(n.kids.Members))
          [] n.k = "AnonymousRecordExpr" -> InParens(Fields(n.kids.Fields))
          [] n.k = "CallExpr"    ->
                n.word \o (IF types = <<>> THEN <<>> ELSE <<"<">> \o types \o <<">">>)
                \o InParens(List(n.kids.Args))
          [] n.k = "MethodCallExpr" -> Part("Object") \o <<".">> \o n.word
                                       \o InParens(List(n.kids.Args))
          [] n.k = "ClosureExpr" -> ClosureText(n)

ExpressionText(n, bare) ==
    IF n = Absent THEN <<>>
    ELSE If("HasParens" \in n.marks, "(") \o Bare(n, bare)
         \o If("HasParens" \in n.marks, ")")

-----------------------------------------------------------------------------
(* Patterns and statements                                                 *)

\* exportPattern.  A literal is a number, whatever it was.
PatternOf(n) ==
    LET subs  == n.kids.SubPatterns
        Part(p) == IF p.k = "Field"
                   THEN p.word \o <<" ", "=", " ">> \o PatternText(p.kids.Value)
                   ELSE PatternText(p)
        texts == [i \in DOMAIN subs |-> Part(subs[i])]
        Is(kind) == kind \in n.marks
    IN  CASE Is("Literal")  -> n.word
          [] Is("Variable") -> If(Is("IsReference"), "&") \o n.word
                               \o If(Is("IsValueMutable"), "#")
          [] Is("Wildcard") -> <<"_">>
          [] Is("Elision")  -> <<".", ".">>
          [] Is("Decons")   -> n.word \o InParens(Between(texts, <<",", " ">>))
          [] Is("Or")       -> Between(texts, <<" ", "|", " ">>)
          [] Is("Range")    -> texts[1] \o <<" ", ".", ".",
                                  IF Is("IsInclusive") THEN "=" ELSE "<", " ">> \o texts[2]

DestructuredText(n) ==
    LET v == IF n.k = "Field" THEN n.kids.Value ELSE n
    IN  IF "IsWildcard" \in v.marks THEN <<"_">>
        ELSE (IF n.k = "Field" THEN n.word \o <<" ", "=", " ">> ELSE <<>>)
             \o v.word \o ValueMark(v.marks)

\* exportStmt
StatementText(n) ==
    LET Part(role) == Expression(n.kids[role], FALSE)
        init == OrNothing(n.kids.Init, LAMBDA e : <<" ", "=", " ">> \o Expression(e, FALSE))
    IN  CASE n.k = "nullptr"   -> <<>>
          [] n.k = "BlockStmt" -> Block(n)
          [] n.k = "VariableDecl" ->
                <<IF "IsConst" \in n.marks THEN "const" ELSE "auto", " ">> \o Typed(n)
                \o init \o NewLine
          [] n.k = "DestructuringDecl" ->
                <<"auto", " ">> \o Lines(n.types)
                \o InParens(Between([i \in DOMAIN n.kids.Variables |->
                                        DestructuredText(n.kids.Variables[i])],
                                    <<",", " ">>)) \o init \o NewLine
          [] n.k = "ReturnStmt" -> <<"return">>
                \o OrNothing(n.kids.ReturnValue, LAMBDA e : Space \o Expression(e, FALSE))
                \o NewLine
          [] n.k = "ExprStmt"   -> Part("Expression") \o NewLine
          [] n.k = "DeleteStmt" -> <<"delete", " ">> \o Part("Expression") \o NewLine
          [] n.k = "FreeStmt"   -> <<"free", " ">> \o Part("Expression") \o NewLine
          [] n.k = "UnsafeStmt" -> <<"unsafe", " ">> \o OneStmt(n.kids.Statement)
          [] n.k = "UnreachableStmt" -> <<"unreachable", "\n">>
          [] n.k = "GuardBindStmt" ->
                <<"guard", " ", "auto", " ">> \o PatternText(n.kids.Pat)
                \o <<" ", "=", " ">> \o Part("Target") \o <<" ", "else", " ">>
                \o OneStmt(n.kids.ElseBody)

-----------------------------------------------------------------------------
(* Declarations                                                            *)

FaultyDependencies(names) == <<" ">> \o Between(names, <<" ", "|", " ">>)
Dependencies(names) ==
    IF names = <<>> THEN <<>>
    ELSE <<" ", "<", "-", " ">> \o Between(names, <<" ", "|", " ">>)
Public(n) == IF "IsPub" \in n.marks THEN <<"pub", " ">> ELSE <<>>

\* printGenericParams
GenericParams(params) ==
    LET One(p) ==
            IF "IsConst" \in p.marks
            THEN IF p.types = <<>> THEN <<"const", " ">> \o p.word
                 ELSE p.word \o <<":", " ">> \o p.types[1]
            ELSE p.word \o
                 (CASE p.types = <<>> -> <<>>
                    [] Len(p.types) = 1 -> <<":", " ", "@">> \o p.types[1]
                    [] OTHER -> <<":", " ", "@", "{">>
                                \o Between(p.types, <<",", " ">>) \o <<"}">>)
    IN  IF params = <<>> THEN <<>>
        ELSE <<"<">> \o Between([i \in DOMAIN params |-> One(params[i])], <<",", " ">>)
             \o <<">">>

ImportText(n) ==
    LET Item(i) == i.word \o (IF i.types = <<>> THEN <<>>
                              ELSE <<" ", "as", " ">> \o i.types[1])
        items == n.kids.Items
    IN  IF "IsImplicit" \in n.marks THEN <<>>
        ELSE Public(n) \o <<"import", " ">> \o n.word
        \o (IF n.types = <<>> THEN <<>> ELSE <<" ", "as", " ">> \o n.types[1])
        \o (CASE items = <<>> -> <<>>
              [] Len(items) = 1 /\ items[1].word = <<"*">> -> <<" ", ":", ":", " ", "*">>
              [] OTHER -> <<" ", ":", ":", " ", "{">>
                          \o Between([i \in DOMAIN items |-> Item(items[i])], <<",", " ">>)
                          \o <<"}">>) \o NewLine

AliasText(n) ==
    IF "IsPub" \notin n.marks THEN <<>>
    ELSE <<"pub", " ", "alias", " ">> \o n.word \o GenericParams(n.kids.GenericParams)
         \o <<" ", "=", " ">>
         \o (IF "IsStrong" \in n.marks THEN <<"[">> \o n.types[1] \o <<"]">>
             ELSE n.types[1]) \o NewLine

\* A field, a parameter, a constant: with a default where it has one.
WithDefault(n) ==
    Typed(n) \o OrNothing(n.kids.DefaultValue,
                          LAMBDA e : <<" ", "=", " ">> \o Expression(e, FALSE))

\* The members of a shape of each kind.
MembersText(n) ==
    LET ms == n.kids.Members
        Each(Member(_), mark) == Between([i \in DOMAIN ms |-> Member(ms[i])], mark)
        Payload(m) == IF "Tuple" \notin m.marks THEN <<>>
                      ELSE InParens(Between([i \in DOMAIN m.kids.SubMembers |->
                                                m.kids.SubMembers[i].types[1]],
                                            <<",", " ">>))
        Variant(m) == m.word \o Payload(m)
                      \o (IF "Tag" \in m.marks THEN <<" ", "=", " ">> \o m.types[1]
                          ELSE <<>>)
        Overlay(m) == <<"as", " ">> \o (IF m.word = <<>> THEN <<>>
                                        ELSE m.word \o <<":", " ">>) \o m.types[1]
    IN  CASE "Struct" \in n.marks -> Each(WithDefault, <<",", " ">>)
          [] "Tuple" \in n.marks  -> Each(LAMBDA m : m.types[1], <<",", " ">>)
          [] "Enum" \in n.marks   -> Each(Variant, <<" ", "|", " ">>)
          [] "Union" \in n.marks  -> Each(Overlay, <<" ", "|", " ">>)

\* types: the dependencies, and the size of an array behind them.
ShapeText(n) ==
    LET isArray == "Array" \in n.marks
        deps    == IF isArray THEN Front(n.types) ELSE n.types
    IN  IF "IsPub" \notin n.marks THEN <<>>
        ELSE <<"pub", " ">> \o (IF "IsPacked" \in n.marks THEN <<"packed", " ">> ELSE <<>>)
             \o <<"shape", " ">> \o n.word \o GenericParams(n.kids.GenericParams)
             \o Dependencies(deps)
             \o (IF isArray
                 THEN <<" ", "=", " ", "[">> \o n.kids.Members[1].types[1]
                      \o <<";", " ">> \o Last(n.types) \o <<"]">>
                 ELSE InParens(MembersText(n))) \o NewLine

\* printArg, with the three dots of a variadic function; -> and the result.
Arguments(n) ==
    LET texts == [i \in DOMAIN n.kids.Args |-> WithDefault(n.kids.Args[i])]
    IN  InParens(Between(IF "IsVariadic" \in n.marks
                         THEN Append(texts, <<".", ".", ".">>) ELSE texts,
                         <<",", " ">>))
ResultText(type) == IF type \in {<<>>, <<"void">>} THEN <<>>
                    ELSE <<" ", "-", ">", " ">> \o type

\* exportFunction.  async and wait have no text, and a body only a generic
\* function has.
FunctionText(n, keepBody) ==
    LET effects == n.kids.Effects
        Effect(e) == <<"return">> \o (IF e.word = <<>> THEN <<>> ELSE <<".">> \o e.word)
                     \o Dependencies(e.types) \o NewLine
    IN  Public(n) \o <<"fn", " ">> \o n.word \o GenericParams(n.kids.GenericParams)
        \o Arguments(n) \o ResultText(n.types[1])
        \o (IF effects = <<>> THEN Dependencies(Tail(n.types))
            ELSE <<"\n", "effects", ":", "\n">>
                 \o Lines([i \in DOMAIN effects |-> Effect(effects[i])]))
        \o (IF "IsDeleted" \in n.marks THEN <<" ", "=", " ", "delete", "\n">>
            ELSE IF n.kids.Body # Absent /\ (keepBody \/ n.kids.GenericParams # <<>>)
            THEN Space \o Block(n.kids.Body)
            ELSE NewLine)

ExternText(n) ==
    <<"extern", " ", "fn", " ">> \o n.word \o Arguments(n) \o ResultText(n.types[1])
    \o NewLine

TraitText(n) ==
    IF "IsPub" \notin n.marks THEN <<>>
    ELSE <<"pub", " ", "trait", " ", "@">> \o n.word
         \o GenericParams(n.kids.GenericParams) \o <<" ", "{", "\n">>
         \o Lines([i \in DOMAIN n.kids.Methods |->
                      Text("Functions", n.kids.Methods[i])]) \o <<"}", "\n">>

EntryText(e) ==
    <<"pub">> \o (CASE "Crate" \in e.marks -> <<"(", "crate", ")">>
                    [] "Path" \in e.marks  -> InParens(e.word)
                    [] OTHER -> <<>>)
    \o (IF "IsExclusion" \in e.marks THEN <<" ", "*", " ", "!", " ">> ELSE Space)
    \o Between(e.types, <<",", " ">>) \o NewLine

\* Of an impl without a trait only the public methods.
ImplText(n) ==
    LET isTrait == n.types # <<>>
        methods == SelectSeq(n.kids.Methods, LAMBDA m : isTrait \/ "IsPub" \in m.marks)
    IN  <<"impl">> \o GenericParams(n.kids.GenericParams) \o Space
        \o (IF isTrait THEN <<"@">> \o n.types[1] \o <<" ", "for", " ">> ELSE <<>>)
        \o n.word \o <<" ", "{", "\n">>
        \o Lines([i \in DOMAIN n.kids.EncapEntries |-> EntryText(n.kids.EncapEntries[i])])
        \o Lines([i \in DOMAIN methods |->
                     Text(IF n.kids.GenericParams = <<>> THEN "Functions" ELSE "template", methods[i])])
        \o <<"}", "\n">>

\* evaluateConstExpr: is this a constant?  Any value stands for its value.
RECURSIVE IsConstant(_)
IsConstant(n) ==
    \/ n.k = "NumberExpr"
    \/ n.k = "VariableExpr" /\ "HasConstantValue" \in n.marks
    \/ /\ n.k = "BinaryExpr" /\ IsConstant(n.kids.LHS) /\ IsConstant(n.kids.RHS)
       /\ Joined(n.word) \in {"+", "-", "*", "/", "%", "&&", "||", "==", "!=",
                              "<", ">", "<=", ">="}
       /\ n.word[1] \in {"/", "%"} => n.kids.RHS.word # <<"0">>
    \/ n.k = "UnaryExpr" /\ n.word \in {<<"-">>, <<"!">>, <<"~">>} /\ IsConstant(n.kids.RHS)
ConstantText(n) == IF n.k # "NumberExpr" /\ IsConstant(n) THEN <<"1">>
                   ELSE Expression(n, FALSE)

GlobalText(n) ==
    IF n.k # "VariableDecl" \/ ~({"IsPub", "IsConst"} \subseteq n.marks) THEN <<>>
    ELSE <<"pub", " ", "const", " ">> \o Typed(n) \o <<" ", "=", " ">>
         \o ConstantText(n.kids.Init) \o NewLine

Text(what, n) ==
    CASE what = "expression"  -> ExpressionText(n, FALSE)
      [] what = "operand"     -> ExpressionText(n, TRUE)
      [] what = "statement"   -> StatementText(n)
      [] what = "pattern"     -> PatternOf(n)
      [] what = "Imports"     -> ImportText(n)
      [] what = "TypeAliases" -> AliasText(n)
      [] what = "Shapes"      -> ShapeText(n)
      [] what = "Traits"      -> TraitText(n)
      [] what = "Impls"       -> ImplText(n)
      [] what = "Functions"   -> FunctionText(n, FALSE)
      [] what = "template"    -> FunctionText(n, TRUE)
      [] what = "Externs"     -> ExternText(n)
      [] what = "Globals"     -> GlobalText(n)

\* exportModule: each group of declarations ends with an empty line.
Groups == <<"Imports", "TypeAliases", "Shapes", "Traits", "Impls", "Functions",
            "Externs", "Globals">>
GroupText(m, role) ==
    Lines([i \in DOMAIN m.kids[role] |-> Text(role, m.kids[role][i])])
    \o (IF m.kids[role] = <<>> \/ role = "Globals" THEN <<>> ELSE NewLine)
ModuleText(m) == Lines([g \in DOMAIN Groups |-> GroupText(m, Groups[g])])
=============================================================================
