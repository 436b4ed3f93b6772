----------------------------- MODULE Expressions -----------------------------
(***************************************************************************)
(* The parser inside a function (src/Parser/Parser_Expr.cpp,               *)
(* Parser_Stmt.cpp): patterns, expressions, statements.  Of what is built  *)
(* only what the parser itself asks for later is kept, in val: null,       *)
(* var, call, mcall, member, elision, spread, cedespread, other.  The      *)
(* lexer has no word let, so what the parser does with it is left out.     *)
(*                                                                         *)
(* A definition marked Faulty is no part of the model: it is the named bug *)
(* some property must notice when it takes the place of the one below it.  *)
(***************************************************************************)
EXTENDS TokenStream

RECURSIVE Expr(_, _, _), Primary(_, _), Operators(_, _, _), SuffixesOf(_, _)

\* A production by its name (below): through it they reach each other.
RECURSIVE Production(_, _)
Value(st)     == Production("value", st)       \* parseExpr()
Condition(st) == Production("condition", st)   \* a { behind it is a body
Pattern(st)   == Production("pattern", st)
Closure(st)   == Production("closure", st)
Stmt(st)      == Production("statement", st)
Block(st)     == Production("block", st)
Variable(st)  == Production("variable", st)
Conditional(st) == Production("if", st)
Loop(st)      == Production("loop", st)
For(st)       == Production("for", st)
MatchOn(st)    == Production("match", st)
Other(st)     == Made(st, "other")
IfKind(st, kinds, Step(_)) == IF Kind(st) \in kinds THEN Step(Advance(st)) ELSE st
Passed(st)    == IF st.val = "null" THEN Advance(st) ELSE st
Recovered(st) == IF st.panic THEN Synchronize(st) ELSE st
IfMade(st, Step(_)) == IF st.val = "null" THEN st ELSE Step(st)

\* Seen in a loop of the production at work; a nested production has its own.
Saw(st, what) == [st EXCEPT !.flags = @ \cup {what}]
WithFlags(outer, st) == [st EXCEPT !.flags = outer.flags]

-----------------------------------------------------------------------------
(* Lists                                                                   *)

\* Arguments, behind the opening parenthesis, with the closing one.
Arguments(st) ==
    Consume(IF Kind(st) = ")" THEN st ELSE CommaList(Value, st), ")")

\* What stands in a list of named fields without a name: "..", or with
\* spread, something.* at the very end.
UnnamedField(st, spread) ==
    LET e == Value(st)
        isSpread == spread /\ e.val \in {"spread", "cedespread"}
        isLast == \/ Kind(e) = ")"
                  \/ Kind(e) = "," /\ KindAt(e, 1) = ")"
    IN  Match(IF e.val = "elision" \/ (isSpread /\ isLast) THEN e ELSE Error(e),
              {","})

\* name = value, with a sigil and, where marks says so, ? and # before it.
NamedField(st, marks) ==
    LET sigil == Match(st, Sigils)
        name  == IF marks THEN Match(Match(sigil, {"?"}), {"#"}) ELSE sigil
    IN  Match(Value(Consume(FieldName(name), "=")), {","})

FieldList(st, close, marks, spread) ==
    Consume(Until(close, LAMBDA s : IF IsNextNamedField(s, 0)
                                    THEN NamedField(s, marks)
                                    ELSE UnnamedField(s, spread), st), close)

\* Behind the < of a list of types, with the > at its end.
TypeArguments(st) == Consume(CommaList(TypeString, st), ">")

\* Type(..): named fields or arguments.
Initializer(st) ==
    IF IsNamedInitList(st) THEN FieldList(st, ")", TRUE, FALSE)
    ELSE Arguments(st)

-----------------------------------------------------------------------------
(* Patterns                                                                *)

\* = .field, of a named subpattern or a named destructured variable.
FieldOf(st) ==
    FieldName(Match(Match(Match(Consume(Consume(st, "="), "."), Sigils),
                          {"?"}), {"#"}))

IsMixed(st) == {"named", "positional"} \subseteq st.flags

SubPattern(st) ==
    Match(IF Kind(st) = ".." THEN Advance(st)
          ELSE IF IsNextNamedField(st, 0)
          THEN Saw(FieldOf(WithFlags(st, Pattern(st))), "named")
          ELSE Saw(WithFlags(st, Pattern(st)), "positional"), {","})

\* Name, Name<..>, Name::Variant, each also with (subpatterns).
SubPatterns(st) == Consume(Until(")", SubPattern, [st EXCEPT !.flags = {}]), ")")
NamePattern(st) ==
    LET Case(s) == IF IsColons(s, 0) THEN Consume(Skip(s, 2), "id") ELSE s
        Pure(s) == IF IsMixed(s) THEN Error(s) ELSE s
    IN  IfKind(Case(IfKind(Namespace(st), {"<", "<T"}, TypeArguments)), {"("},
               LAMBDA s : WithFlags(s, Pure(SubPatterns(s))))

\* A literal, or a range of two numbers or characters.
LiteralPattern(st) ==
    LET Countable(s) == Kind(s) \in {"int", "char"}
        a == Advance(st)
        b == IF ~Countable(st) THEN Error(a) ELSE a
        c == IF ~Ahead(a, 0).spaced THEN Error(b) ELSE b
        d == Advance(c)
    IN  IF Kind(a) \notin {"..<", "..="} THEN a
        ELSE Advance(IF Countable(d) THEN d ELSE Error(d))

PatternSigils(st) ==
    While(LAMBDA s : Kind(s) \in Sigils \cup {"&&"},
          LAMBDA s : IF Kind(s) \in {"&", "&&"}
                     THEN Match(Advance(s), {"mut"}) ELSE Advance(s), st)

PatternBehind(st) ==   \* behind auto and sigils
    LET k == Kind(st)
    IN  CASE k = "(" ->
                Other(Consume(Until(")", LAMBDA s : Match(Pattern(s), {","}),
                                    Advance(st)), ")"))
          [] k \in {"int", "str", "char", "true", "false"} -> Other(LiteralPattern(st))
          [] k = "id"      -> Other(IF Ahead(st, 0).t = "_" THEN Advance(st)
                                    ELSE NamePattern(st))
          [] k = "default" -> Other(Advance(st))
          [] OTHER         -> Null(Error(st))
SinglePattern(st) ==
    IF Kind(st) = ".." THEN Other(Advance(st))
    ELSE PatternBehind(PatternSigils(Match(st, {"auto"})))

Alternatives(st) ==
    IF Kind(st) # "|" THEN st
    ELSE Other(While(LAMBDA s : Kind(s) = "|",
                     LAMBDA s : Production("single", Advance(s)), st))
ParsePattern(st) == IfMade(SinglePattern(st), Alternatives)

-----------------------------------------------------------------------------
(* Control flow                                                            *)

\* A word the caller may have consumed already.
Keyword(st, word) == IF Previous(st) = word THEN st ELSE Consume(st, word)

\* A condition, in parentheses or not: the first ( is taken for its own.
InParens(st) ==
    IF Kind(st) = "(" THEN Consume(Condition(Advance(st)), ")")
    ELSE Condition(st)

BlockOrStmt(st) == IF Kind(st) = "{" THEN Block(st) ELSE Stmt(st)

IfExpr(st) ==
    Other(IfKind(Stmt(InParens(Keyword(st, "if"))), {"else"}, Stmt))

GuardExpr(st) ==
    Other(IfKind(Block(Condition(Keyword(st, "guard"))), {"else"},
                 BlockOrStmt))

LoopExpr(st) ==
    LET a == Keyword(st, "loop")
    IN  Other(Stmt(IF Kind(a) = "{" THEN a ELSE InParens(a)))

\* while is reported and parsed all the same.
WhileExpr(st) ==
    Other(Stmt(InParens([st EXCEPT !.errs = IF st.halt = "" THEN @ + 1
                                            ELSE @])))

ForExpr(st) ==
    LET a == Consume(Keyword(st, "for"), "auto")
        b == While(LAMBDA s : Kind(s) \in Sigils \cup {"&&"}, Advance, a)
        c == Condition(Consume(Consume(b, "id"), "in"))
    IN  Other(IfKind(Stmt(c), {"or"}, Block))

Label(st) == IfKind(st, {"to"}, LAMBDA s : Consume(s, "id"))
BreakExpr(st) ==
    LET a == Label(st) IN Other(IF IsEndOfStatement(a) THEN a ELSE Value(a))

\* One arm; what is no pattern is skipped token by token.
Arm(st) ==
    LET p == Pattern([st EXCEPT !.starts = @ \cup {st.pos}])
    IN  IF p.val = "null" THEN Advance(p)
        ELSE Stmt(Consume(IfKind(p, {"if"}, Value), "=>"))

MatchExpr(st) ==
    Other(Consume(Until("}", Arm, Consume(Condition(st), "{")), "}"))

-----------------------------------------------------------------------------
(* Closures                                                                *)

\* Where => is, seen from behind the brace: [captures], then names and sigils.
ArrowBehind(st, from) ==
    LET to == Min({n \in from..(from + Len(st.toks)) : KindAt(st, n) \notin
                     {"id", ",", "&", "^", "~", "*", "?", "#"}})
    IN  KindAt(st, to) = "=>"
ArrowAhead(st) ==
    LET Captures(n) == \A i \in 1..(n - 1) : KindAt(st, i) \notin {"]", "eof"}
        skipTo == Max({n \in 1..Len(st.toks) : Captures(n)})
    IN  IF Kind(st) # "[" \/ KindAt(st, 1) \notin {"cede", "copy"}
        THEN ArrowBehind(st, 0)
        ELSE ArrowBehind(st, IF KindAt(st, skipTo) = "]" THEN skipTo + 1 ELSE skipTo)

Capture(st) ==
    IF Kind(st) \notin {"cede", "copy"} THEN Fail(st)
    ELSE LET a == Match(Match(Match(Advance(st), Sigils), {"?"}), {"#"})
             b == Consume(a, "id")
         IN  IF Kind(b) = "]" THEN b ELSE Consume(b, ",")

Parameter(st) ==
    LET a == FoldLeft(LAMBDA s, k : Match(s, {k}), st,
                      <<"^", "~", "*", "&", "?", "#">>)
        b == Consume(a, "id")
    IN  IF Kind(a) = "=>" THEN a
        ELSE IF Kind(b) = "=>" THEN b ELSE Consume(b, ",")

ClosureHead(st) ==
    LET a == IF Kind(st) = "["
             THEN Then(Until("]", Capture, Advance(st)),
                       LAMBDA s : Consume(s, "]")) ELSE st
    IN  Then(a, LAMBDA s : Consume(Until("=>", Parameter, s), "=>"))

\* A closure without => must use an implicit parameter (.a to .z).
ClosureEnd(st, arrow, outer) ==
    [IF arrow \/ st.implicit THEN st ELSE Error(st) EXCEPT !.implicit = outer]
ClosureBody(st, arrow) ==
    ClosureEnd(Consume(Until("}", LAMBDA s : Passed(Stmt(s)),
                             [st EXCEPT !.implicit = FALSE]), "}"),
               arrow, st.implicit)

ClosureBehind(st, arrow) ==   \* behind the {
    Result(Then(IF arrow THEN ClosureHead(st)
                ELSE IF Kind(st) = "[" /\ KindAt(st, 1) \in {"cede", "copy"}
                THEN Fail(st) ELSE st,
                LAMBDA s : ClosureBody(s, arrow)))
ParseClosure(st) ==
    LET a == Consume(st, "{") IN ClosureBehind(a, ArrowAhead(a))

-----------------------------------------------------------------------------
(* Statements                                                              *)

\* let-less declarations: sigils, then Type(v, ..) = e, (v, ..) = e, or
\* name: Type = e.  The word auto is not consumed when the token before it is
\* auto as well, or garbage that looks like it.
Destructured(st) ==
    LET name == Consume(Match(st, Sigils), "id")
    IN  IF Kind(st) = ".." THEN Advance(st)
        ELSE IF IsNextNamedField(st, 0) THEN Saw(FieldOf(name), "named")
        ELSE Saw(name, "positional")

OneMore(st) == IF Kind(st) \in {")", "eof"} THEN st ELSE Destructured(st)
PureList(st, outer) ==
    WithFlags(outer, IF IsMixed(st) THEN Error(st) ELSE st)
Destructuring(st) ==
    LET open == [Consume(Match(st, {"id"}), "(") EXCEPT !.flags = {}]
    IN  Value(Consume(Consume(PureList(CommaList(OneMore, open), st), ")"), "="))

VariableSigils(st, nullable) ==
    While(LAMBDA s : Kind(s) \in Sigils \cup {"&&"},
          LAMBDA s : IF nullable /\ Kind(s) \in {"&", "&&"}
                     THEN Error(Advance(s)) ELSE Advance(s), st)

Bound(st) ==   \* behind the sigils
    IF Kind(st) = "(" \/ (Kind(st) = "id" /\ KindAt(st, 1) = "(")
    THEN Destructuring(st)
    ELSE IfKind(IfKind(Consume(st, "id"), {":"}, TypeString), {"="}, Value)
Declarator(st) ==   \* behind auto
    Bound(VariableSigils(Match(st, {"nul"}), Kind(st) = "nul"))
VariableDecl(st) ==
    Other(ExpectEndOfStatement(Declarator(
        IF Kind(st) = "const" THEN Advance(st)
        ELSE IF Previous(st) = "auto" THEN st ELSE Match(st, {"auto"}))))

GuardBind(st) ==
    LET a == Pattern(Consume(Advance(st), "auto"))
        b == Value(Consume(a, "="))
    IN  Other(BlockOrStmt(Consume(b, "else")))

FaultyReturnStmt(st) == Other(ExpectEndOfStatement(Value(Advance(st))))

ReturnStmt(st) ==
    LET a == Advance(st)
    IN  Other(ExpectEndOfStatement(IF IsEndOfStatement(a) THEN a ELSE Value(a)))

DeleteStmt(st) == Other(ExpectEndOfStatement(Value(Advance(st))))

FreeStmt(st) ==
    LET count == IfKind(Advance(st), {"["},
                        LAMBDA s : Consume(Value(s), "]"))
    IN  Other(ExpectEndOfStatement(Value(count)))

UnsafeStmt(st) ==
    LET a == Advance(st)
    IN  Other(CASE Kind(a) = "{"    -> Block(a)
                [] Kind(a) = "free" -> FreeStmt(a)
                [] OTHER            -> Stmt(a))

ExprStmt(st) ==
    LET e == Value(st)
    IN  IF e.val = "null" THEN e ELSE Other(ExpectEndOfStatement(e))

StmtOf(st) ==
    LET k == Kind(st)
    IN  CASE k = "{"      -> Block(st)
          [] k = "guard" /\ KindAt(st, 1) = "auto" -> GuardBind(st)
          [] k = "if"     -> Conditional(st)
          [] k = "match"  -> MatchOn(Advance(st))
          [] k = "loop"   -> Loop(st)
          [] k = "for"    -> For(st)
          [] k = "return" -> ReturnStmt(st)
          [] k = "auto"   -> Variable(st)
          [] k = "delete" -> DeleteStmt(st)
          [] k = "unsafe" -> UnsafeStmt(st)
          [] k = "free"   -> FreeStmt(st)
          [] k = "unreachable" -> Other(ExpectEndOfStatement(Advance(st)))
          [] k = "guard" /\ KindAt(st, 1) # "auto" -> ExprStmt(st)
          [] OTHER        -> ExprStmt(st)
ParseStmt(st) == StmtOf([st EXCEPT !.starts = @ \cup {st.pos}])

\* A statement that is nothing is stepped over, and after an error the block
\* goes on at the next declaration or behind the next semicolon.
ParseBlock(st) ==
    LET Next(s) == Recovered(Passed(Stmt(s)))
    IN  Other(Consume(Until("}", Next, Consume(st, "{")), "}"))

-----------------------------------------------------------------------------
(* Expressions                                                             *)

Precedence(k) ==
    CASE k \in {"*", "/", "%", "<<", ">>", "bshl", "bshr"} -> 20
      [] k \in {"+", "-", "&", "band"} -> 10
      [] k \in {"==", "!=", "<", ">", "<=", ">=", "is", "|", "^",
                "bor", "bxor"} -> 5
      [] k = "&&" -> 4
      [] k = "||" -> 3
      [] k \in {"=", "+=", "-=", "*=", "/="} -> 1
      [] OTHER -> -1

\* The type of a cast: any tokens up to one of these outside of brackets.  A
\* ] that closes nothing, or a bracket that is never closed, is followed to
\* the end of the file, where the loop stays.
EndsCast == {">", "<", ":", "as", ",", ")", "}", "=", "==", "!=", "is", "{",
             "eof", "+", "-", "/", "&&", "%", "||", "."}
RECURSIVE CastType(_, _)
CastType(st, depth) ==
    IF depth = 0 /\ (Kind(st) \in EndsCast \/ IsEndOfStatement(st)) THEN st
    ELSE IF AtEnd(st) THEN Halt(st, "hang")
    ELSE CastType(Advance(st),
                  depth + (CASE Kind(st) \in {"[", "(", "<T"} -> 1
                             [] Kind(st) \in {"]", ")", ">"}  -> -1
                             [] OTHER -> 0))

\* What follows an operand: casts, and operators that bind at least as tight
\* as least and stand on the same line.
Operators(st, least, trailing) ==
    LET p   == Precedence(Kind(st))
        rhs == Expr(Advance(st), p + 1, trailing)
    IN  IF Kind(st) \in {":", "as"}
        THEN Operators(Other(CastType(Advance(st), 0)), least, trailing)
        ELSE IF p < least \/ Ahead(st, 0).newline THEN st
        ELSE IF rhs.val = "null"
        THEN [rhs EXCEPT !.val = st.val, !.parens = st.parens]
        ELSE Operators(Other(rhs), least, trailing)

Expr(st, least, trailing) ==
    IfMade(Primary(st, trailing), LAMBDA a : Operators(a, least, trailing))

PrefixOperators == {"!", "-", "++", "--", "^", "~", "*", "&", "&&", "@", "bnot"}

\* & may not stand before a chain of members that has no parentheses.
Unary(st, trailing) ==
    LET sub == Primary(Advance(st), trailing)
    IN  IF Kind(st) = "&" /\ sub.val = "member" /\ ~sub.parens
        THEN Null(Error(sub)) ELSE Other(sub)

Literals == {"float", "true", "false", "null", "none", "unset", "str", "char",
             "self", "continue", "__FILE__", "__LINE__", "__LOC__"}

SizeofExpr(st) ==
    LET a == IF Kind(st) = "(" THEN TypeString(Advance(st)) ELSE Fail(st)
    IN  Result(Then(a, LAMBDA s : IF Kind(s) = ")" THEN Advance(s)
                                  ELSE Fail(s)))

\* new Type{..}, new Type(..), new [n]Type(..)
NewSize(st) == Consume(IF Kind(st) = "]" THEN st ELSE Value(st), "]")
NewObject(st) ==
    CASE Kind(st) = "{" -> Other(FieldList(Advance(st), "}", FALSE, FALSE))
      [] Kind(st) = "(" -> Other(Initializer(Advance(st)))
      [] OTHER          -> Null(Error(st))
NewOf(st) == IF Kind(st) = "id" THEN NewObject(MadeType(st)) ELSE Null(Error(st))
NewExpr(st) == NewOf(IfKind(st, {"["}, NewSize))

AllocFields(st) == IF IsNamedInitList(st) THEN FieldList(st, ")", FALSE, FALSE)
                   ELSE Arguments(st)
AllocExpr(st) ==
    Other(IfKind(Generics(Namespace(
              IfKind(st, {"["}, LAMBDA s : Consume(Value(s), "]")))),
                 {"("}, AllocFields))

\* [a, b], [a; n], and [n]Type(..): after one element a name, on whatever
\* line, is taken for the type.
ArrayOf(st) ==   \* behind the type
    Other(IF Kind(st) = "(" THEN Initializer(Advance(st)) ELSE Error(st))
Repeated(st) ==
    [Other(Consume(Value(Advance(st)), "]")) EXCEPT !.fail = TRUE]
Elements(st) ==
    Consume(While(LAMBDA s : Kind(s) = ",", LAMBDA s : Value(Advance(s)), st), "]")
SizedArray(st) == IF Kind(st) = "id" THEN ArrayOf(MadeType(st)) ELSE Other(st)
ArrayFrom(st) ==   \* behind the first element
    CASE Kind(st) = ";" -> Repeated(st)
      [] Kind(st) = "," -> Other(Elements(st))
      [] OTHER          -> SizedArray(Consume(st, "]"))
ArrayExpr(st) == IF Kind(st) = "]" THEN Other(Elements(st)) ELSE ArrayFrom(Value(st))

\* (name = e, ..)
RecordFieldEnd(st) == IF Kind(st) = ")" THEN st ELSE Consume(st, ",")
RecordExpr(st) ==
    Other(Consume(Until(")", LAMBDA s : RecordFieldEnd(Value(Consume(DashedName(s), "="))),
                        st), ")"))

\* (e); (e, ..) is refused.  When e is null the parser stores into it.
GroupEnd(st) ==   \* behind the first expression
    IF Kind(st) = ","
    THEN Null(Error(Consume(Until(")", LAMBDA s : Match(Value(s), {","}), Advance(st)),
                            ")")))
    ELSE IF st.val = "null" THEN Halt(Consume(st, ")"), "crash")
    ELSE [Consume(st, ")") EXCEPT !.val = st.val, !.parens = TRUE]
GroupExpr(st) ==
    IF Kind(st) = ")" THEN Consume(Other(st), ")") ELSE GroupEnd(Value(st))

\* name, name<..>, name(..), name(f = ..), name::member, name::member(..)
CallOf(st) ==
    IF IsNamedInitList(st) THEN Other(FieldList(st, ")", FALSE, TRUE))
    ELSE Made(Arguments(st), "call")
StaticMember(st) ==
    IF Kind(st) \notin {"id", "new"} THEN Null(Error(st))
    ELSE IF KindAt(st, 1) = "(" THEN Made(Arguments(Skip(st, 2)), "call")
    ELSE Made(Advance(st), "member")
NameEnd(st) == IF Kind(st) = "(" THEN CallOf(Advance(st))
               ELSE IF IsColons(st, 0) THEN StaticMember(Skip(st, 2))
               ELSE Made(st, "var")
NameExpr(st) ==
    NameEnd(IfKind(IF Kind(st) = "Self" THEN Advance(st) ELSE Namespace(st),
                   {"<T"}, TypeArguments))

\* .a, an implicit parameter of the closure around it
Letters == {"a", "b", "c"}
ImplicitParameter(st) ==
    IF Kind(st) # "id" \/ Ahead(st, 0).t \notin Letters
    THEN Null(Error(Match(st, {"id"})))
    ELSE [Made(Advance(st), "var") EXCEPT !.implicit = TRUE]

\* The operand without its suffixes.
Operand(st, trailing) ==
    LET k == Kind(st)
        a == Advance(st)
        v == IF trailing THEN Value(a) ELSE Condition(a)
    IN  CASE k \in Literals -> Other(IF k = "continue" THEN Label(a) ELSE a)
          [] k = "int"    -> Other(IF Ahead(st, 0).t = "2^64"
                                   THEN Halt(a, "crash") ELSE a)
          [] k = ".."     -> Made(a, "elision")
          [] k = "if"     -> Conditional(a)
          [] k = "guard"  -> GuardExpr(a)
          [] k = "while"  -> WhileExpr(a)
          [] k = "loop"   -> Loop(a)
          [] k = "for"    -> For(a)
          [] k = "match"  -> MatchOn(a)
          [] k = "break"  -> BreakExpr(a)
          [] k \in {"pass", "yield", "unsafe"} -> Other(Value(a))
          [] k = "cede"   -> Made(v, IF v.val = "spread" THEN "cedespread"
                                     ELSE "other")
          [] k = "sizeof" -> SizeofExpr(a)
          [] k = "alloc"  -> AllocExpr(a)
          [] k = "new"    -> NewExpr(a)
          [] k = "["      -> ArrayExpr(a)
          [] k = "("      -> IF IsNextNamedField(st, 1) THEN RecordExpr(a)
                             ELSE GroupExpr(a)
          [] k \in {"id", "Self"} -> NameExpr(st)
          [] k = "."      -> ImplicitParameter(a)
          [] OTHER        -> Null(Error(st))

\* Behind a dot: .*, .name, .name(..), .await, .wait, .0
DotSuffix(st, before) ==
    LET Named(s) == Kind(s) \in {"id", "unset", "null", "self"}
        a == Match(st, Sigils \cup {"??"})
        b == Advance(a)
    IN  CASE Kind(st) = "*" /\ ~Named(Advance(st)) -> Made(Advance(st), "spread")
          [] Named(a) -> IF a = st /\ Ahead(a, 0).t = "start" /\ Kind(b) # "("
                         THEN Other(b)
                         ELSE IF Kind(b) = "("
                         THEN Made(Arguments(Advance(b)), "mcall")
                         ELSE Made(b, IF Ahead(a, 0).marked THEN "other"
                                      ELSE "member")
          [] Kind(a) \in {"await", "wait"} -> Other(b)
          [] a = st /\ Kind(a) = "int"     -> Made(b, "member")
          [] OTHER -> [Error(a) EXCEPT !.val = before.val,
                                       !.parens = before.parens]

\* A closure behind a call, a member or a name becomes its last argument.
TrailingClosure(st) ==
    LET c == Closure(st)
    IN  CASE st.val \in {"call", "var"}     -> Made(c, "call")
          [] st.val \in {"mcall", "member"} -> Made(c, "mcall")
          [] OTHER                          -> Null(Error(c))

SuffixesOf(st, trailing) ==
    LET k == Kind(st)
        a == Advance(st)
    IN  IF st.val = "null" THEN st
        ELSE CASE k = "."  -> SuffixesOf(DotSuffix(a, st), trailing)
               [] k = "->" -> Null(Error(a))
               [] k = "["  -> SuffixesOf(Other(Consume(
                                 IF Kind(a) = "]" THEN a
                                 ELSE CommaList(Value, a), "]")), trailing)
               [] k \in {"++", "--", "??", "#", "?", "$", "!"} ->
                     SuffixesOf(Other(a), trailing)
               [] k = "{" /\ trailing /\ ~IsEndOfStatement(st) ->
                     SuffixesOf(TrailingClosure(st), trailing)
               [] k = "{" /\ ~(trailing /\ ~IsEndOfStatement(st)) -> st
               [] OTHER -> st

\* An array with a repeat count takes no suffix (it is marked with fail).
Suffixed(st, trailing) == IF st.fail THEN [st EXCEPT !.fail = FALSE]
                          ELSE SuffixesOf(st, trailing)
Primary(st, trailing) ==
    CASE Kind(st) \in PrefixOperators -> Unary(st, trailing)
      [] Kind(st) = "{"               -> Closure(st)
      [] OTHER -> Suffixed(Operand(st, trailing), trailing)

Production(name, st) ==
    CASE name \in {"value", "condition"} -> Expr(st, 0, name = "value")
      [] name = "pattern"   -> ParsePattern(st)
      [] name = "closure"   -> ParseClosure(st)
      [] name = "statement" -> ParseStmt(st)
      [] name = "block"     -> ParseBlock(st)
      [] name = "variable"  -> VariableDecl(st)
      [] name = "single"    -> SinglePattern(st)
      [] name = "if"        -> IfExpr(st)
      [] name = "loop"      -> LoopExpr(st)
      [] name = "for"       -> ForExpr(st)
      [] name = "match"     -> MatchExpr(st)
=============================================================================
