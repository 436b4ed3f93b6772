-------------------------------- MODULE Lexer --------------------------------
(***************************************************************************)
(* tokac, from characters to tokens (src/Lexer/Lexer.cpp).  A text is a    *)
(* sequence of pieces: a blank, a symbol, or a whole word or number, which *)
(* stands for its characters.  Bounds: a number has neither exponent nor   *)
(* hexadecimal digits, what is between single quotes is one piece, and a   *)
(* text does not end inside an escape or after a single quote (the lexer   *)
(* would read past the end of the file).                                   *)
(***************************************************************************)
EXTENDS Integers, SequencesExt

Keywords ==
    {"auto", "mut", "type", "alias", "const", "shape", "packed", "trait",
     "impl", "fn", "new", "dyn", "move", "where", "default", "delete", "del",
     "final", "Fn", "if", "guard", "nul", "else", "match", "case", "for",
     "while", "loop", "pass", "to", "or", "band", "bor", "bxor", "bnot",
     "bshl", "bshr", "break", "continue", "return", "yield", "Task", "suspend",
     "async", "cancel", "await", "wait", "Channel", "cede", "copy", "import",
     "pub", "as", "is", "in", "self", "Self", "true", "false", "none", "null",
     "defer", "main", "extern", "crate", "unsafe", "alloc", "free", "unset",
     "variant", "union", "unreachable", "__FILE__", "__LINE__", "__LOC__",
     "sizeof"}

Blanks  == {" ", "\n"}
Digits  == {"0", "1", "2", "2^64"}   \* the last one stands for any too large
Singles == {"(", ")", "[", "]", "{", "}", "^", ",", ".", ":", ";", "|", "&",
            "+", "-", "*", "/", "%", "=", "!", "<", ">", "~", "@", "#", "?",
            "$", "backtick"}
Marks   == {"\"", "'", "\\"}
IsWord(c) == c \notin Blanks \cup Digits \cup Singles \cup Marks \cup {""}

\* Symbols of more than one character, longest first where one begins another.
Longer == << <<".", ".", "<">>, <<".", ".", "=">>, <<".", ".", ".">>,
             <<".", ".">>, <<"&", "&">>, <<"|", "|">>, <<"+", "=">>,
             <<"+", "+">>, <<"-", "=">>, <<"-", "-">>, <<"-", ">">>,
             <<"*", "=">>, <<"/", "=">>, <<"%", "=">>, <<"=", "=">>,
             <<"=", ">">>, <<"!", "=">>, <<"<", "-">>, <<"<", "=">>,
             <<">", "=">>, <<"?", "?">> >>

\* Strings next to each other make one string.
Joined(pieces) == FoldLeft(LAMBDA text, c : text \o c, "", pieces)

\* The character at i; "" is the NUL behind the last one.
Char(src, i) == IF i \in DOMAIN src THEN src[i] ELSE ""

\* skipWhitespace: where the next token begins, and if a line ended before it.
RECURSIVE SkipBlanks(_, _, _)
SkipBlanks(src, i, newline) ==
    LET ends   == {k \in i..Len(src) : src[k] = "\n"} \cup {Len(src) + 1}
        closes == {k + 2 : k \in {k \in (i + 2)..Len(src) :
                      src[k] = "*" /\ Char(src, k + 1) = "/"}}
                  \cup {Len(src) + 1}
    IN  IF Char(src, i) \in Blanks
        THEN SkipBlanks(src, i + 1, newline \/ src[i] = "\n")
        ELSE IF Char(src, i) = "/" /\ Char(src, i + 1) = "/"
        THEN SkipBlanks(src, Min(ends), newline)
        ELSE IF Char(src, i) = "/" /\ Char(src, i + 1) = "*"
        THEN SkipBlanks(src, Min(closes), newline \/
                        \E k \in i..(Min(closes) - 1) : src[k] = "\n")
        ELSE [at |-> i, newline |-> newline]

\* string, viewString: behind the closing quote; the end of the text closes too.
RECURSIVE StringEnd(_, _)
StringEnd(src, i) ==
    CASE Char(src, i) = ""   -> i
      [] Char(src, i) = "\"" -> i + 1
      [] Char(src, i) = "\\" -> StringEnd(src, i + 2)
      [] OTHER               -> StringEnd(src, i + 1)

\* One token: its kind, its text, where the next one begins, and for a name
\* whether # or $ is attached to it.
Lexeme(kind, text, next) == [k |-> kind, t |-> text, next |-> next,
                             marked |-> FALSE, spaced |-> FALSE]

WordAt(src, i) ==
    LET n    == Max({k \in i..Len(src) : \A j \in i..k :
                        IsWord(src[j]) \/ src[j] \in Digits})
        text == Joined(SubSeq(src, i, n))
        kind == IF text = "del" THEN "delete"
                ELSE IF text \in Keywords THEN text ELSE "id"
        mark == kind \in {"id", "self", "Self"} /\ Char(src, n + 1) \in {"#", "$"}
    IN  [Lexeme(kind, text, IF mark THEN n + 2 ELSE n + 1)
            EXCEPT !.marked = mark]

NumberAt(src, i) ==
    IF Char(src, i + 1) = "." /\ Char(src, i + 2) \in Digits
    THEN Lexeme("float", src[i], i + 3)
    ELSE Lexeme("int", src[i], i + 1)

\* A quote begins a morphic name unless a quote follows the name.
QuoteAt(src, i) ==
    IF IsWord(Char(src, i + 1)) /\ Char(src, i + 2) # "'"
    THEN [WordAt(src, i + 1) EXCEPT !.k = "id", !.t = "'" \o @,
                                    !.marked = FALSE]
    ELSE LET n == i + (IF Char(src, i + 1) = "\\" THEN 3 ELSE 2)
         IN  Lexeme("char", "", IF Char(src, n) = "'" THEN n + 1 ELSE n)

\* punctuation.  << and >> need a blank on both sides; < without a blank after
\* it opens generic arguments ("<T"); a character nobody knows ends the text.
SymbolAt(src, i) ==
    LET Blank(k)  == Char(src, k) \in Blanks
        Begins(s) == \A k \in DOMAIN s : Char(src, i + k - 1) = s[k]
        found     == SelectSeq(Longer, Begins)
        text      == Joined(Head(found))
    IN  IF /\ Begins(<<"<", "<">>) \/ Begins(<<">", ">">>)
           /\ i > 1 /\ Blank(i - 1) /\ Blank(i + 2)
        THEN Lexeme(src[i] \o src[i], "", i + 2)
        ELSE IF found # <<>>
        THEN [Lexeme(text, "", i + Len(Head(found))) EXCEPT !.spaced =
                 i > 1 /\ Blank(i - 1) /\ Blank(i + Len(Head(found)))]
        ELSE IF src[i] = "<" /\ ~Blank(i + 1) THEN Lexeme("<T", "", i + 1)
        ELSE IF src[i] \in {"^", "&", "~", "*"}
                /\ Char(src, i + 1) \in {"#", "$"}
        THEN Lexeme(src[i], "", i + 2)
        ELSE IF src[i] \in Singles THEN Lexeme(src[i], "", i + 1)
        ELSE Lexeme("eof", "UNEXPECTED", Len(src) + 1)

\* nextToken after the blanks.
TokenAt(src, i) ==
    CASE Char(src, i) = ""       -> Lexeme("eof", "", i)
      [] Char(src, i) \in Digits -> NumberAt(src, i)
      [] Char(src, i) = "c" /\ Char(src, i + 1) = "\"" ->
            Lexeme("str", "", StringEnd(src, i + 2))
      [] Char(src, i) = "\""     -> Lexeme("str", "", StringEnd(src, i + 1))
      [] Char(src, i) = "'"      -> QuoteAt(src, i)
      [] IsWord(Char(src, i))    -> WordAt(src, i)
      [] OTHER                   -> SymbolAt(src, i)

\* tokenize: up to and with the first token that says end of file.
RECURSIVE TokensFrom(_, _)
Token(lexeme, newline) ==
    [k |-> lexeme.k, t |-> lexeme.t, newline |-> newline,
     marked |-> lexeme.marked, spaced |-> lexeme.spaced]
TokensOn(src, lexeme, newline) ==
    <<Token(lexeme, newline)>>
    \o (IF lexeme.k = "eof" THEN <<>> ELSE TokensFrom(src, lexeme.next))
TokensBehind(src, blanks) == TokensOn(src, TokenAt(src, blanks.at), blanks.newline)
TokensFrom(src, i) == TokensBehind(src, SkipBlanks(src, i, FALSE))

Tokenize(src) == TokensFrom(src, 1)
=============================================================================
