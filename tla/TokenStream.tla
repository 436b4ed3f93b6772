----------------------------- MODULE TokenStream -----------------------------
(***************************************************************************)
(* The parser's hold on its tokens (src/Parser/Parser.cpp): looking ahead, *)
(* consuming, reporting, recovering, and the parts every production uses.  *)
(* A parsing function is an operator from a parser state to a parser       *)
(* state:                                                                  *)
(*   toks, pos    the tokens, the last one says eof; m_Pos, from 1 here    *)
(*   panic, errs  PanicMode; how many errors were reported                 *)
(*   halt         "", or what stopped the parser: "hang", "crash"          *)
(*   val, parens  what the production made, "null" for nullptr; HasParens  *)
(*   fail         the production at work returns nullptr from the middle   *)
(*   implicit     an implicit closure parameter was seen                   *)
(*   flags        what a loop of the production at work has seen           *)
(*   before       the kind the memory before the first token looks like    *)
(*   imports      the names imported so far                                *)
(*   starts       where declarations, members, arms and statements begin   *)
(***************************************************************************)
EXTENDS Lexer

StreamOf(toks, before) ==
    [toks |-> toks, pos |-> 1, panic |-> FALSE, errs |-> 0, halt |-> "",
     val |-> "null", parens |-> FALSE, fail |-> FALSE, implicit |-> FALSE,
     flags |-> {}, before |-> before, imports |-> <<>>, starts |-> {}]

-----------------------------------------------------------------------------
(* Looking and moving                                                      *)

\* peekAt: behind the last token there is the last token.  A parser that
\* stopped sees the end of the file, so that every loop around it ends.
Ahead(st, n) == IF st.halt # "" \/ st.pos + n > Len(st.toks)
                THEN Last(st.toks) ELSE st.toks[st.pos + n]
Kind(st)      == Ahead(st, 0).k
KindAt(st, n) == Ahead(st, n).k
AtEnd(st)     == Kind(st) = "eof"

\* previous: at the first token it reads memory in front of the tokens.
Previous(st) == IF st.pos > 1 THEN st.toks[st.pos - 1].k
                ELSE st.before

Advance(st) == IF st.halt # "" \/ st.pos > Len(st.toks) THEN st
               ELSE [st EXCEPT !.pos = @ + 1]
Skip(st, n) == IF st.halt # "" THEN st ELSE [st EXCEPT !.pos = @ + n]

Halt(st, how) == IF st.halt # "" THEN st ELSE [st EXCEPT !.halt = how]

\* error: only the first one until the parser has recovered.
Error(st) == IF st.panic \/ st.halt # "" THEN st
             ELSE [st EXCEPT !.panic = TRUE, !.errs = @ + 1]

\* match, for any of a set of kinds; consume.
Match(st, kinds) == IF Kind(st) \in kinds THEN Advance(st) ELSE st
Consume(st, kind) == IF Kind(st) = kind THEN Advance(st) ELSE Error(st)

Made(st, val) == [st EXCEPT !.val = val, !.parens = FALSE]
Null(st)      == Made(st, "null")

\* return nullptr in the middle of a production: the steps left are skipped,
\* and the end of the production makes the null.
Fail(st)      == [Error(st) EXCEPT !.fail = TRUE]
Then(st, Step(_)) == IF st.fail THEN st ELSE Step(st)
Result(st)    == IF st.fail THEN [Null(st) EXCEPT !.fail = FALSE]
                 ELSE Made(st, "other")

-----------------------------------------------------------------------------
(* Loops                                                                   *)

\* while (Cond) Body.  What a loop does depends on the position and on panic,
\* and panic only grows in it: an iteration that stays where it is, in a loop
\* that goes on, repeats for ever.
While(Cond(_), Body(_), st) ==
    LET Goes(s) == s.halt = "" /\ ~s.fail /\ Cond(s)
        Once(s) == LET t == Body(s)
                   IN  IF t.pos = s.pos /\ Goes(t) THEN Halt(t, "hang") ELSE t
        RECURSIVE Loop(_)
        Loop(s) == IF Goes(s) THEN Loop(Once(s)) ELSE s
    IN  Loop(st)

\* while (!check(close) && !check(EndOfFile)) Body
Until(close, Body(_), st) ==
    While(LAMBDA s : Kind(s) \notin {close, "eof"}, Body, st)

\* do Body while (match(separator))
Separated(seps, Body(_), st) ==
    While(LAMBDA s : Kind(s) \in seps, LAMBDA s : Body(Advance(s)), Body(st))
CommaList(Body(_), st) == Separated({","}, Body, st)

-----------------------------------------------------------------------------
(* Ends of statements, recovery                                            *)

\* After one of these a new line goes on with the statement.
OpenOperators == {"+", "-", "*", "/", "=", "+=", "-=", "*=", "/=", "==", "!=",
                  "<", "&&", "||", ".", "->", ",", ":", "@", "<-", "(", "[",
                  "{", "&", "|", "^", "~"}

IsEndOfStatement(st) ==
    \/ Kind(st) \in {";", "}", "eof"}
    \/ Ahead(st, 0).newline /\ Previous(st) \notin OpenOperators

ExpectEndOfStatement(st) ==
    IF IsEndOfStatement(st) THEN Match(st, {";"}) ELSE Error(st)

\* synchronize: on to what begins a declaration, or behind a semicolon, but
\* at least one token on.
SyncKinds == {"pub", "fn", "auto", "const", "shape", "union", "packed",
              "trait", "impl", "import", "}", "eof"}
Synchronize(st) ==
    LET stops == {p \in st.pos..Len(st.toks) :
                    \/ st.toks[p].k \in SyncKinds
                    \/ p > 1 /\ st.toks[p - 1].k = ";"}
        p     == Min(stops)
    IN  IF st.halt # "" \/ stops = {} THEN [st EXCEPT !.panic = FALSE]
        ELSE [st EXCEPT !.panic = FALSE,
                 !.pos = IF p = st.pos /\ st.toks[p].k # "eof" THEN p + 1
                         ELSE p]

-----------------------------------------------------------------------------
(* Types, names and lookahead                                              *)

Openers == {"(", "{", "["}
Closers == {")", "}", "]"}

\* parseTypeString: any tokens, up to one that ends a type outside of all
\* brackets.  A bracket that closes nothing makes the balance negative, and
\* then nothing ends the type but an opening one.
RECURSIVE TypeFrom(_, _, _, _)
TypeFrom(st, balance, dyn, empty) ==
    LET k    == Kind(st)
        b    == balance + (IF k \in {"[", "(", "<T"} THEN 1 ELSE 0)
        ends == \/ k = "eof"
                \/ b = 0 /\ k \in {",", ")", "=", "{", ">", "|", "for", "<-"}
                \/ b = 0 /\ IsEndOfStatement(st)
                \/ b = 0 /\ k = "@" /\ ~dyn /\ ~empty
    IN  IF ends THEN st
        ELSE TypeFrom(Advance(st),
                      b - (IF k \in {"]", ")", ">"} THEN 1 ELSE 0),
                      dyn \/ k = "dyn", FALSE)
TypeString(st) == TypeFrom(st, 0, FALSE, TRUE)

\* isNextNamedField: an = before the next comma or closing bracket.
RECURSIVE NamedFrom(_, _, _)
NamedFrom(st, n, balance) ==
    LET k == KindAt(st, n)
    IN  CASE k = "eof" \/ (balance = 0 /\ k \in {")", "}", ","}) -> FALSE
          [] k \in Openers -> NamedFrom(st, n + 1, balance + 1)
          [] k \in Closers ->
                NamedFrom(st, n + 1, IF balance > 0 THEN balance - 1 ELSE 0)
          [] OTHER -> \/ balance = 0 /\ k = "="
                      \/ NamedFrom(st, n + 1, balance)
IsNextNamedField(st, n) == NamedFrom(st, n, 0)

\* isNamedInitList: some field up to the closing bracket is a named one.
RECURSIVE NamedListFrom(_, _, _)
NamedListFrom(st, n, balance) ==
    LET k == KindAt(st, n)
    IN  CASE k = "eof" \/ (balance = 0 /\ k \in {")", "}"}) -> FALSE
          [] k \in Openers -> NamedListFrom(st, n + 1, balance + 1)
          [] k \in Closers -> NamedListFrom(st, n + 1, balance - 1)
          [] OTHER -> \/ balance = 0 /\ IsNextNamedField(st, n)
                      \/ NamedListFrom(st, n + 1, balance)
IsNamedInitList(st) == NamedListFrom(st, 0, 0)

IsColons(st, n) == KindAt(st, n) = ":" /\ KindAt(st, n + 1) = ":"

\* parseNamespaceOrIdentifier: the dashes belong to the name before ::.
Namespace(st) ==
    LET a == Consume(st, "id")
        Pairs(n) == \A i \in 0..(n - 1) : /\ KindAt(a, 2 * i) = "-"
                                          /\ KindAt(a, 2 * i + 1) = "id"
        n == Max({m \in 0..Len(st.toks) : Pairs(m)})
    IN  IF IsColons(a, 2 * n) THEN Skip(a, 2 * n) ELSE a

\* name, or name-with-dashes
DashedName(st) ==
    While(LAMBDA s : Kind(s) = "-", LAMBDA s : Consume(Advance(s), "id"),
          Consume(st, "id"))

\* The name of a field, which may carry neither # nor $.
FieldName(st) ==
    LET a == DashedName(st) IN IF Ahead(st, 0).marked THEN Error(a) ELSE a

Sigils == {"*", "^", "~", "&"}

\* std::stoull on the text of a token that should be an integer: a text that
\* is no number ends the process.
NumberOf(st) ==
    LET a == Consume(st, "int")
    IN  IF Ahead(st, 0).t \in Digits \ {"2^64"} THEN a ELSE Halt(a, "crash")

\* <..> skipped by counting, in the types after new, alloc and [n].
RECURSIVE SkipGenerics(_, _)
SkipGenerics(st, balance) ==
    IF balance = 0 \/ AtEnd(st) THEN st
    ELSE SkipGenerics(Advance(st), balance + (CASE Kind(st) = "<T" -> 1
                                                [] Kind(st) = ">"  -> -1
                                                [] OTHER           -> 0))
Generics(st) == IF Kind(st) = "<T" THEN SkipGenerics(Advance(st), 1) ELSE st

\* The type behind new and [n]: name, generics, ::members.
MadeType(st) == While(LAMBDA s : IsColons(s, 0),
                      LAMBDA s : Consume(Skip(s, 2), "id"),
                      Generics(Namespace(st)))
=============================================================================
