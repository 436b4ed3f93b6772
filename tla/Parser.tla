-------------------------------- MODULE Parser --------------------------------
(***************************************************************************)
(* The declarations of a module (src/Parser/Parser_Decl.cpp, parseModule). *)
(* Of the tree only the imports are kept, as the loader's paths.  Bounds:  *)
(* an import has a path that ends with a name, and the last dot in the     *)
(* name begins the extension.                                              *)
(***************************************************************************)
EXTENDS Expressions

\* A part of a declaration by its name (below).
RECURSIVE Part(_, _)
Declaration(st)   == Part("declaration", st)
Function(st)      == Part("function", st)
Initial(st)       == Part("value", st)    \* parseExpr()
FunctionBlock(st) == Part("block", st)
TypePart(st)      == Part("type", st)

Begins(st) == [st EXCEPT !.starts = @ \cup {st.pos}]

-----------------------------------------------------------------------------
(* Generic parameters and dependencies                                     *)

TraitBounds(st) ==
    LET a == Match(st, {"@"})
        One(s) == Consume(Match(s, {"@"}), "id")
    IN  IF Kind(a) = "{" THEN Consume(CommaList(One, Advance(a)), "}")
        ELSE One(a)

GenericParam(st) ==
    LET a == Consume(Match(st, {"const"}), "id")
    IN  IfKind(a, {":"}, LAMBDA s : IF Kind(s) \in {"@", "{"} THEN TraitBounds(s)
                                    ELSE TypePart(s))

GenericParams(st) ==
    IfKind(st, {"<T"}, LAMBDA s : Consume(CommaList(GenericParam, s), ">"))

DependencyName(st) ==
    IF Kind(st) \in {"id", "self", "Self"} THEN Advance(st) ELSE Fail(st)

\* <- a | b, the names of what must outlive the result.
Dependencies(st, Name(_)) ==
    IfKind(st, {"<-"}, LAMBDA s : Separated({"|", ","}, Name, s))

-----------------------------------------------------------------------------
(* Shapes                                                                  *)

\* The first of these marks before the closing parenthesis, nested ones
\* left out.
RECURSIVE Scan(_, _, _)
Scan(st, n, depth) ==
    LET k == KindAt(st, n)
    IN  CASE k = "eof" \/ (k = ")" /\ depth = 0)          -> "none"
          [] depth = 0 /\ k \in {"as", "|", ":", "="}     -> k
          [] k = ")" /\ depth > 0                         -> Scan(st, n + 1, depth - 1)
          [] OTHER -> Scan(st, n + 1, IF k = "(" THEN depth + 1 ELSE depth)

\* Name(Type, ..) = tag
Variant(st) ==
    LET Payload(s) == Consume(Until(")", LAMBDA t : Match(TypePart(t), {","}),
                                    s), ")")
        a == IfKind(Consume(Begins(st), "id"), {"("}, Payload)
    IN  Match(IfKind(a, {"="}, NumberOf), {"|"})

\* `name: Type = value, with nul and one sigil before the name
FieldSigil(st, nul) ==
    IF nul /\ Kind(st) \notin {"*", "^", "~"} THEN Error(Match(st, Sigils))
    ELSE Match(st, Sigils)
FieldBehind(st) ==   \* behind the backtick
    Match(IfKind(TypePart(Consume(Consume(
              FieldSigil(Match(st, {"nul"}), Kind(st) = "nul"), "id"), ":")),
                 {"="}, Initial), {","})
Field(st) == FieldBehind(Match(Begins(st), {"backtick"}))

\* (variants), (fields); (Type, Type) and (a as T) are refused.
ShapeBody(st) ==
    LET mark == Scan(st, 0, 0)
    IN  CASE mark = "as"        -> Fail(st)
          [] mark \in {"|", "="} -> Match(Until(")", Variant, st), {")"})
          [] mark = ":" \/ (mark = "none" /\ Kind(st) = ")") ->
                Match(Until(")", Field, st), {")"})
          [] mark = "none" /\ Kind(st) # ")" -> Fail(st)

ShapeOf(st) ==
    CASE Kind(st) = "[" -> Consume(NumberOf(Consume(Skip(st, 2), ";")), "]")
      [] Kind(st) = "as" -> Fail(Advance(st))
      [] Kind(st) = "("  -> ShapeBody(Advance(st))
      [] OTHER           -> Error(st)
Packed(st) == IF Previous(st) = "packed" THEN Consume(st, "shape") ELSE st
ShapeName(st) == Dependencies(GenericParams(Consume(st, "id")), DependencyName)
Shape(st) ==
    IF Kind(st) = "union" THEN Null(Error(Advance(st)))
    ELSE Result(Then(ShapeName(Packed(Match(Match(st, {"shape"}), {"packed"}))),
                     LAMBDA s : ShapeOf(Match(s, {"="}))))

-----------------------------------------------------------------------------
(* Functions                                                               *)

\* One parameter; ... ends the list.  Only the first may be a plain self.
Typed(st) == IfKind(st, {":"}, TypePart)
Default(st) ==
    CASE Kind(st) = "=" -> Saw(Initial(Advance(st)), "default")
      [] Kind(st) # "=" /\ "default" \in st.flags -> Error(st)
      [] OTHER -> st
\* From the sigil on; pointer: something of the kind stands before the name.
ArgumentName(st, pointer) ==
    LET Rest(s) == LET t == Default(Typed(s))
                   IN  IF Kind(st) = "self" /\ pointer THEN Fail(t) ELSE t
    IN  Then(DependencyName(st), Rest)
ArgumentMarks(st, nul) ==
    IF nul /\ Kind(st) = "&" THEN ArgumentName(Error(Advance(st)), TRUE)
    ELSE ArgumentName(Match(st, Sigils), nul \/ Kind(st) \in Sigils)
OtherArgument(st) == ArgumentMarks(Match(st, {"nul"}), Kind(st) = "nul")
Argument(st) ==
    IF Kind(st) = "..." THEN st
    ELSE IF "rest" \notin st.flags /\ Kind(Match(st, {"cede"})) = "self"
    THEN Saw(Typed(Advance(Match(st, {"cede"}))), "rest")
    ELSE Saw(OtherArgument(Match(st, {"cede"})), "rest")

ParameterList(st) ==
    IF Kind(st) = ")" THEN st ELSE CommaList(Argument, [st EXCEPT !.flags = {}])
ArgumentList(st) ==
    Then(WithFlags(st, ParameterList(st)), LAMBDA s : Consume(Match(s, {"..."}), ")"))

\* How many of nul, a sigil, # stand at n.
Marked(st, n) ==
    LET a == IF KindAt(st, n) = "nul" THEN n + 1 ELSE n
        b == IF KindAt(st, a) \in Sigils THEN a + 1 ELSE a
    IN  IF KindAt(st, b) = "#" THEN b + 1 ELSE b

\* -> async Type, -> name: Type
NamesResult(st) == /\ KindAt(st, Marked(st, 0)) = "id"
                   /\ KindAt(st, Marked(st, 0) + 1) = ":"
ReturnType(st) ==
    IF Kind(st) \in {"<-", "{"} THEN st
    ELSE TypePart(IF NamesResult(st) THEN Skip(st, Marked(st, 0) + 2) ELSE st)
Effect(st) == Match(st, {"async", "wait"})

\* What a line of effects is about: return, return.member, or the result by
\* its name.
EffectTarget(st, name) ==
    LET Member(s) ==
            IF Kind(s) # "." THEN s
            ELSE Match(Skip(s, Marked(s, 1)), {"id", "int"})
        l == Marked(st, 0)
        m == Member(Skip(st, l + 1))
    IN  IF Kind(st) = "return" THEN Member(Advance(st))
        ELSE IF /\ name # "" /\ KindAt(st, l) = "id"
                /\ Ahead(st, l).t = name /\ Kind(m) = "<-"
        THEN m ELSE Fail(st)

EffectSource(st) ==
    While(LAMBDA s : Kind(s) = ".",
          LAMBDA s : IF Kind(Advance(s)) \in {"id", "int"} THEN Skip(s, 2)
                     ELSE Fail(Advance(s)),
          DependencyName(Match(st, {"&"})))

Effects(st, name) ==
    LET Line(s) == Then(EffectTarget(s, name), LAMBDA t :
                        Separated({"|", ","}, EffectSource, Consume(t, "<-")))
    IN  IF Kind(st) = "id" /\ Ahead(st, 0).t = "effects" /\ KindAt(st, 1) = ":"
        THEN Until("{", Line, Skip(st, 2)) ELSE st

FunctionBody(st) ==
    CASE Kind(st) = "=" -> ExpectEndOfStatement(Consume(Advance(st), "delete"))
      [] Kind(st) = "{" -> FunctionBlock(st)
      [] OTHER          -> ExpectEndOfStatement(st)

\* The name a result has, or "".
ResultName(st) == IF Kind(st) \notin {"<-", "{"} /\ NamesResult(st)
                  THEN Ahead(st, Marked(st, 0)).t ELSE ""
Tied(st) == Dependencies(st, LAMBDA s : DependencyName(Match(s, {"&"})))
WithSignature(st, name) == Then(Then(Tied(st), LAMBDA s : Effects(s, name)), FunctionBody)
WithResult(st) == WithSignature(ReturnType(st), ResultName(st))
FunctionTail(st) == IF Kind(st) = "->" THEN WithResult(Effect(Advance(st)))
                    ELSE WithSignature(st, "")
FunctionName(st) == IF Kind(st) \in {"main", "new", "id", "free", "alloc"}
                    THEN GenericParams(Advance(st)) ELSE Fail(st)
ParseFunction(st) ==
    Result(Then(Then(FunctionName(Consume(Match(st, {"pub"}), "fn")),
                     LAMBDA s : ArgumentList(Consume(s, "("))), FunctionTail))

\* extern fn name(a: T, ..) -> T
ExternArgument(st) ==
    LET a == Match(Match(Match(st, {"cede"}), {"nul"}), {"^", "*"})
    IN  IF Kind(st) = "..." THEN st
        ELSE IfKind(Typed(Consume(a, "id")), {"="}, Initial)
ExternArguments(st) ==
    Consume(Match(IF Kind(st) = ")" THEN st ELSE CommaList(ExternArgument, st),
                  {"..."}), ")")
ExternResult(st) == IF Kind(st) = ";" THEN st ELSE TypePart(st)
ExternName(st) ==
    IF Kind(st) \notin {"id", "free", "alloc"} THEN Fail(st)
    ELSE ExpectEndOfStatement(
             IfKind(ExternArguments(Consume(Advance(st), "(")), {"->"},
                    LAMBDA s : ExternResult(Effect(s))))
Extern(st) == Result(ExternName(Consume(Consume(st, "extern"), "fn")))

-----------------------------------------------------------------------------
(* Imports and aliases                                                     *)

PathWords == Keywords \ {"unsafe", "alloc", "free", "unset", "variant",
                         "union", "unreachable", "__FILE__", "__LINE__",
                         "__LOC__", "sizeof"}
PathPieces == PathWords \cup {"id", "-", ".", "..", "/"}

\* The tokens of a path as its directories, its stem and its extension.
Segments(toks) ==
    FoldLeft(LAMBDA segments, t :
                 IF t.k = "/" THEN Append(segments, <<>>)
                 ELSE Append(Front(segments),
                             Append(Last(segments),
                                    IF t.k \in {"-", ".", ".."} THEN t.k ELSE t.t)),
             << <<>> >>, toks)
\* sys/os is the directory of the host.
HostPath(dirs, stem, ext) ==
    [dirs |-> [i \in DOMAIN dirs |->
                  IF i = 2 /\ dirs[1] = "sys" /\ dirs[2] = "os" THEN "linux"
                  ELSE dirs[i]],
     stem |-> IF dirs = <<"sys">> /\ stem = "os" /\ ext = "" THEN "linux" ELSE stem,
     ext  |-> ext]
PathIn(dirs, name) ==
    LET dots == {i \in 2..Len(name) : name[i] = "."}
    IN  IF dots = {} THEN HostPath(dirs, Joined(name), "")
        ELSE HostPath(dirs, Joined(SubSeq(name, 1, Max(dots) - 1)),
                      Joined(SubSeq(name, Max(dots) + 1, Len(name))))
PathOf(toks) ==
    LET segments == Segments(toks)
    IN  PathIn([i \in 1..(Len(segments) - 1) |-> Joined(segments[i])], Last(segments))

\* @name as alias
ImportItem(st) ==
    IfKind(Consume(Match(st, {"@"}), "id"), {"as"},
           LAMBDA s : Consume(s, "id"))

\* import path, path::*, path::{a, b}, path::a, path as alias.  The path ends
\* with its line; any end is taken for the statement's end but one on the
\* same line.
ImportPath(st) ==
    While(LAMBDA s : ~Ahead(s, 0).newline /\ Kind(s) \in PathPieces /\ Kind(s) # "as",
          Advance, st)
ListedItem(st) ==
    LET a == ImportItem(st) IN IF Kind(a) = "," THEN Advance(a) ELSE Saw(a, "last")
ImportItems(st) ==
    While(LAMBDA s : Kind(s) \notin {"}", "eof"} /\ "last" \notin s.flags,
          ListedItem, [st EXCEPT !.flags = {}])
Imported(st) ==
    CASE Kind(st) = "*" -> Advance(st)
      [] Kind(st) = "{" -> Consume(WithFlags(st, ImportItems(Advance(st))), "}")
      [] OTHER          -> ImportItem(st)
ImportEnd(st) ==
    IF Ahead(st, 0).newline \/ Kind(st) \in {";", "eof", "}"}
    THEN Match(st, {";"}) ELSE ExpectEndOfStatement(st)
WithImport(st, path) == [st EXCEPT !.imports = Append(@, path)]
ImportFrom(st, from) ==
    WithImport(ImportEnd(IF IsColons(st, 0) THEN Imported(Skip(st, 2))
                         ELSE IfKind(st, {"as"}, DashedName)),
               PathOf(SubSeq(st.toks, from, st.pos - 1)))
ImportBehind(st) == ImportFrom(ImportPath(st), st.pos)
Import(st) == ImportBehind(Consume(st, "import"))

TypeAlias(st) ==
    ExpectEndOfStatement(
        TypePart(Consume(GenericParams(Consume(Advance(st), "id")), "=")))

-----------------------------------------------------------------------------
(* Impl and trait                                                          *)

\* pub(crate) a, b;  pub(path) *!a
Visibility(st) ==
    LET Path(s) == While(LAMBDA t : Kind(t) \in {"id", "/", ":"}, Advance, s)
        a == IfKind(st, {"("}, LAMBDA s :
                Consume(IF Kind(s) = "crate" THEN Advance(s) ELSE Path(s), ")"))
        b == IfKind(a, {"*"}, LAMBDA s : Match(s, {"!"}))
    IN  While(LAMBDA s : /\ Kind(s) = "id"
                         /\ Previous(s) = "," \/ s.pos = b.pos,
              LAMBDA s : Match(Advance(s), {","}), b)

EncapEntry(st) ==
    CASE Kind(st) = "fn" \/ (Kind(st) = "pub" /\ KindAt(st, 1) = "fn") ->
            Function(Begins(st))
      [] Kind(st) = "pub" /\ KindAt(st, 1) # "fn" -> Visibility(Advance(Begins(st)))
      [] OTHER -> Advance(Error(st))

Method(st) ==
    LET a == Match(Begins(st), {"pub"})
    IN  IF Kind(a) = "fn" THEN Function(a) ELSE Advance(Error(a))

\* The text of the tokens from a position on.
TextFrom(st, from) ==
    Joined([i \in 1..(st.pos - from) |->
               LET t == st.toks[from + i - 1] IN IF t.k = "id" THEN t.t ELSE t.k])

\* impl Type, impl Type@Trait, impl Trait for Type
ImplBody(st, trait) ==
    Consume(Until("}", LAMBDA s : IF trait \in {"encap", "@encap"} THEN EncapEntry(s)
                                  ELSE Method(s), Consume(st, "{")), "}")
ImplOfTrait(st, from) == ImplBody(st, TextFrom(st, from))
ImplTarget(st, from) ==
    CASE Kind(st) = "@"   -> ImplOfTrait(TypePart(Advance(st)), st.pos + 1)
      [] Kind(st) = "for" -> ImplBody(TypePart(Advance(st)), TextFrom(st, from))
      [] OTHER            -> ImplBody(st, "")
ImplFrom(st) == ImplTarget(TypePart(st), st.pos)
Impl(st) == ImplFrom(GenericParams(Consume(st, "impl")))

\* What is no method is reported, and stays where it is.
TraitMethod(st) ==
    LET a == Match(Begins(st), {"pub"})
    IN  IF Kind(a) = "fn" THEN Function(a) ELSE Error(a)

Trait(st) ==
    LET a == Consume(Match(Consume(st, "trait"), {"@"}), "id")
    IN  Consume(Until("}", TraitMethod, Consume(GenericParams(a), "{")), "}")

-----------------------------------------------------------------------------
(* The module                                                              *)

DeclarationBehind(st, isPub) ==   \* behind pub
    LET k == Kind(st)
        OrError(s) == IF isPub THEN Error(s) ELSE s
    IN  CASE k = "import" -> Import(st)
          [] k = "fn"     -> Function(st)
          [] k \in {"auto", "const"} -> Part("variable", st)
          [] k \in {"type", "alias"} -> TypeAlias(st)
          [] k = "extern" -> Extern(OrError(st))
          [] k = "impl"   -> Impl(OrError(st))
          [] k = "trait"  -> Trait(st)
          [] \/ k \in {"shape", "packed", "union"}
             \/ k = "id" /\ KindAt(st, 1) = "=" -> Shape(st)
          [] OTHER -> Advance(Error(st))
ParseDeclaration(st) ==
    DeclarationBehind(Match(Begins(st), {"pub"}), Kind(st) = "pub")

Part(name, st) ==
    CASE name = "declaration" -> ParseDeclaration(st)
      [] name = "function"    -> ParseFunction(st)
      [] name = "type"        -> TypeString(st)
      [] OTHER                -> Production(name, st)

\* parseModule, without the prelude.
ParseModule(toks, before) ==
    While(LAMBDA s : ~AtEnd(s),
          LAMBDA s : Recovered(Declaration(s)),
          StreamOf(toks, before))
Parse(text, before) == ParseModule(Tokenize(text), before)
=============================================================================
