------------------------------- MODULE Lexer -------------------------------
(***************************************************************************)
(* tokenize (lexer.rs).  A source is a sequence of letters.  A letter is a  *)
(* character, or stands for several that are never told apart: a piece of a *)
(* word ("let", "a"), the start of the version pragma, a version.  Pieces of *)
(* words side by side are one word, as in the code.  A token has its kind,  *)
(* its value as letters, its place, and the `///` lines in front of it.     *)
(***************************************************************************)
EXTENDS Integers, Sequences, FiniteSetsExt

End      == ""
Tick     == "tick"     \* the backtick
Fail     == <<>>
Blanks   == {" ", "\t", "\n"}
Digits   == {"0", "1", "2"}
Keywords == {"type", "enum", "service", "rpc", "stream", "match", "import", "from", "pub", "const", "fn", "let",
             "mut", "return", "if", "else", "while", "for", "in", "test", "transaction", "true", "false", "null"}
Singles  == {"{", "}", "(", ")", "[", "]", ",", ";", ":", "?", "@", ".", "+", "*", "/", "%", "<", ">", "=",
             "!", "-", "|"}
Doubles  == {<<"?", "?">>, <<".", ".">>, <<"<", "=">>, <<">", "=">>, <<"=", "=">>, <<"=", ">">>, <<"!", "=">>,
             <<"-", ">">>, <<"&", "&">>, <<"|", "|">>}
Versions == [met |-> "0.1.0", unmet |-> "9.9.9"]
Escapes  == [n |-> "\n", t |-> "\t"]
Unwordly == Blanks \cup Digits \cup Singles \cup {"&", "\"", "\\", Tick, "$", "#linkc", Versions.met, Versions.unmet}

At(text, i) == IF i \in DOMAIN text THEN text[i] ELSE End
Goes(text, i, letters) == \A j \in DOMAIN letters : At(text, i + j - 1) = letters[j]

\* The first place from i on that holds no letter of the set, or one.
Past(text, i, letters) == Min({j \in i..Len(text) + 1 : At(text, j) \notin letters})
Upto(text, i, letters) == Min({j \in i..Len(text) + 1 : At(text, j) \in letters \cup {End}})

LOCAL TrimStart(s) == SubSeq(s, Past(s, 1, Blanks), Len(s))
TrimEnd(s) == SubSeq(s, 1, Max({0} \cup {j \in DOMAIN s : s[j] \notin Blanks}))

(* The version pragma ------------------------------------------------------*)
RECURSIVE PragmaFrom(_, _)
\* The first and last place of the pragma, when the first line from i on that is neither
\* blank nor a line comment is one.
PragmaFrom(text, i) ==
    LET first == Past(text, i, {" ", "\t"})
        last  == Upto(text, i, {"\n"}) - 1
    IN IF first > last \/ Goes(text, first, <<"/", "/">>)
       THEN IF last >= Len(text) THEN {} ELSE PragmaFrom(text, last + 2)
       ELSE IF text[first] = "#linkc" THEN {first, last} ELSE {}

Pragma(text) == PragmaFrom(text, 1)

parse_version_pragma(rest) ==
    LET s == TrimStart(rest)
        v == TrimStart(TrimEnd(SubSeq(s, 3, Len(s))))
    IN IF Goes(s, 1, <<">", "=">>) /\ Len(v) = 3 /\ v[1] = "\"" /\ v[3] = "\"" /\ v[2] \in {Versions.met, Versions.unmet}
       THEN v[2] ELSE End

\* The pragma may ask for this version or an older one.
PragmaMet(text) ==
    LET at == Pragma(text)
    IN at = {} \/ parse_version_pragma(SubSeq(text, Min(at) + 1, Max(at))) = Versions.met

check_version_pragma(text) ==
    LET at == Pragma(text)
    IN IF at = {} THEN text
       ELSE [i \in DOMAIN text |-> IF i \in Min(at)..Max(at) /\ text[i] # "\t" THEN " " ELSE text[i]]

(* Tokens ------------------------------------------------------------------*)
Token(is, of, from, to) == [is |-> is, of |-> of, from |-> from, to |-> to, doc |-> <<>>]
Is(token, spellings) == token.is \in {"Punct", "Keyword"} /\ token.of \in spellings
Spelled(words) == {<<w>> : w \in words}
Bad(at) == Token("Error", <<>>, at, at)

RECURSIVE skip_trivia(_, _, _)
\* Where the next token starts and the doc lines before it; at 0 when a block comment has no end.
skip_trivia(text, i, doc) ==
    IF At(text, i) \in Blanks THEN skip_trivia(text, i + 1, doc)
    ELSE IF Goes(text, i, <<"/", "/", "/">>) /\ At(text, i + 3) # "/"
    THEN LET from == IF At(text, i + 3) = " " THEN i + 4 ELSE i + 3
             to   == Upto(text, from, {"\n"})
         IN skip_trivia(text, to, Append(doc, SubSeq(text, from, to - 1)))
    ELSE IF Goes(text, i, <<"/", "/">>) THEN skip_trivia(text, Upto(text, i, {"\n"}), doc)
    ELSE IF Goes(text, i, <<"/", "*">>)
    THEN LET ends == {j \in i + 2..Len(text) : Goes(text, j, <<"*", "/">>)}
         IN IF ends = {} THEN [at |-> 0, doc |-> doc] ELSE skip_trivia(text, Min(ends) + 2, doc)
    ELSE [at |-> i, doc |-> doc]

\* The value of a number, which keeps no zeros at its ends.
lex_number(text, i) ==
    LET dot      == Past(text, i, Digits)
        isFloat  == At(text, dot) = "." /\ At(text, dot + 1) \in Digits
        end      == IF isFloat THEN Past(text, dot + 1, Digits) ELSE dot
        whole    == SubSeq(text, Min({dot - 1, Past(text, i, {"0"})}), dot - 1)
        last     == Max({dot} \cup {j \in dot + 1..end - 1 : text[j] # "0"})
    IN IF isFloat THEN Token("Float", whole \o (IF last = dot THEN <<>> ELSE SubSeq(text, dot, last)), i, end)
       ELSE Token("Int", whole, i, end)

lex_ident_or_keyword(text, i) ==
    LET end  == Upto(text, i, Unwordly \ Digits)
        word == SubSeq(text, i, end - 1)
    IN Token(IF Len(word) = 1 /\ word[1] \in Keywords THEN "Keyword" ELSE "Ident", word, i, end)

RECURSIVE StringFrom(_, _, _, _)
StringFrom(text, start, i, value) ==
    LET next == At(text, i + 1)
    IN CASE At(text, i) = "\"" -> Token("Str", value, start, i + 1)
         [] At(text, i) = End  -> Bad(start)
         [] At(text, i) = "\\" ->
              IF next \in {"\\", "\""} THEN StringFrom(text, start, i + 2, Append(value, next))
              ELSE IF next \in DOMAIN Escapes THEN StringFrom(text, start, i + 2, Append(value, Escapes[next]))
              ELSE Bad(start)
         [] OTHER -> StringFrom(text, start, i + 1, Append(value, At(text, i)))

lex_string(text, i) == StringFrom(text, i, i + 1, <<>>)

lex_punct(text, i) ==
    CASE <<text[i], At(text, i + 1)>> \in Doubles -> Token("Punct", <<text[i], text[i + 1]>>, i, i + 2)
      [] text[i] \in Singles -> Token("Punct", <<text[i]>>, i, i + 1)
      [] OTHER -> Bad(i)

RECURSIVE next_token(_, _), HtmlFrom(_, _, _, _), ExprFrom(_, _, _)
\* A word, or the html literal that it starts, with the doc lines in front of it.
WordOrHtml(text, word, doc) ==
    IF word.of = <<"html">> /\ At(text, word.to) = Tick THEN HtmlFrom(text, word.from, word.to + 1, doc)
    ELSE [word EXCEPT !.doc = doc]

\* The token after the trivia t.
TokenAfter(text, t) ==
    LET c == At(text, t.at)
        With(token) == [token EXCEPT !.doc = t.doc]
    IN CASE c = End -> Token("Eof", <<>>, t.at, t.at)
         [] c \in Digits -> With(lex_number(text, t.at))
         [] c = "\"" -> With(lex_string(text, t.at))
         [] c \in Unwordly \ (Digits \cup {"\""}) -> With(lex_punct(text, t.at))
         [] c \notin Unwordly \cup {End} -> WordOrHtml(text, lex_ident_or_keyword(text, t.at), t.doc)

next_token(text, i) ==
    LET Read(t) == IF t.at = 0 THEN Bad(i) ELSE TokenAfter(text, t) IN Read(skip_trivia(text, i, <<>>))

\* The literal html ... between backticks that starts at start, read from i on, kept as it is written.  The
\* doc lines in front of it go to the first token of an expression inside it.
HtmlFrom(text, start, i, doc) ==
    LET next == At(text, i + 1)
    IN CASE At(text, i) = Tick -> [Token("Html", SubSeq(text, start, i), start, i + 1) EXCEPT !.doc = doc]
         [] At(text, i) = End -> Bad(start)
         [] At(text, i) = "\\" ->
              IF next \in {Tick, "$", "\\"} \cup DOMAIN Escapes THEN HtmlFrom(text, start, i + 2, doc) ELSE Bad(start)
         [] At(text, i) = "$" /\ next = "{" ->
              LET Rest(end) == IF end = 0 \/ next_token(text, i + 2).to = end THEN Bad(start)
                               ELSE HtmlFrom(text, start, end, <<>>)
              IN Rest(ExprFrom(text, next_token(text, i + 2), 0))
         [] OTHER -> HtmlFrom(text, start, i + 1, doc)

\* Where the expression of a ${ ... } ends, after its brace, read from a token on; 0 if it does not.
ExprFrom(text, token, depth) ==
    LET Brace(b) == token.is = "Punct" /\ token.of = <<b>>
    IN IF token.is \in {"Eof", "Error"} THEN 0
       ELSE IF Brace("}") /\ depth = 0 THEN token.to
       ELSE ExprFrom(text, next_token(text, token.to),
                     IF Brace("{") THEN depth + 1 ELSE IF Brace("}") THEN depth - 1 ELSE depth)

Joined(token, rest) == IF rest = Fail THEN Fail ELSE <<token>> \o rest

RECURSIVE TokensFrom(_, _)
\* A token and those after it.
TokensFrom(text, token) ==
    CASE token.is = "Error" -> Fail
      [] token.is = "Eof" -> <<token>>
      [] OTHER -> Joined(token, TokensFrom(text, next_token(text, token.to)))

Tokens(text) == TokensFrom(text, next_token(text, 1))

\* The tokens of a source, the end of it included, or Fail.
tokenize(text) == IF PragmaMet(text) THEN Tokens(check_version_pragma(text)) ELSE Fail
=============================================================================
