------------------------------ MODULE Formatter ------------------------------
(***************************************************************************)
(* linkc fmt (fmt.rs): a source printed again from its tokens, with the     *)
(* comments put back from the gaps between them.                            *)
(***************************************************************************)
EXTENDS Lexer, SequencesExt

Operators ==
    Spelled({"+", "-", "*", "/", "%", "=", "<", ">", "|"})
        \cup {<<"=", "=">>, <<"!", "=">>, <<"<", "=">>, <<">", "=">>, <<"&", "&">>, <<"|", "|">>, <<"?", "?">>}
Arrows == {<<"-", ">">>, <<"=", ">">>}
Dots   == {<<".">>, <<".", ".">>}

\* Mutant: a keyword or a number is not set apart from a word.
OnlyNames(token) == token.is = "Ident"

is_word_like(token) ==
    token.is \in {"Ident", "Int", "Float"} \/ Is(token, Spelled(Keywords \ {"transaction"}))

needs_space_before(prev, curr) ==
    /\ ~Is(curr, Spelled({",", ";", ")", "]", "?"}) \cup Dots)
    /\ ~Is(prev, Spelled({"!", "(", "[", "@"}) \cup Dots)
    /\ \/ Is(prev, Spelled({",", ":"}) \cup Arrows \cup Spelled(Keywords \ {"transaction", "true", "false", "null"}))
       \/ Is(curr, Operators \cup Arrows \cup {<<"{">>})
       \/ Is(prev, Operators)
       \/ is_word_like(prev) /\ is_word_like(curr)
       \/ Is(prev, Spelled({")", "]"})) /\ is_word_like(curr)

starts_top_level_decl(token) ==
    \/ Is(token, Spelled({"type", "enum", "service", "fn", "test", "import", "const", "pub"}))
    \/ token.is = "Ident" /\ token.of = <<"db">>

\* A string is printed with its backslashes and quotes escaped, and nothing else.
Printed(token) ==
    CASE token.is = "Str" ->
           <<"\"">> \o FlattenSeq([i \in DOMAIN token.of |-> IF token.of[i] \in {"\\", "\""} THEN <<"\\", token.of[i]>>
                                                             ELSE <<token.of[i]>>]) \o <<"\"">>
      [] OTHER -> token.of

(* Comments ----------------------------------------------------------------*)
RECURSIVE CommentsFrom(_, _, _)
\* The comments of a gap, each with whether a line break stands before it.
CommentsFrom(gap, i, own) ==
    IF i > Len(gap) THEN <<>>
    ELSE IF gap[i] = "\n" THEN CommentsFrom(gap, i + 1, TRUE)
    ELSE IF Goes(gap, i, <<"/", "/">>)
    THEN LET end == Upto(gap, i, {"\n"})
         IN <<[of |-> TrimEnd(SubSeq(gap, i, end - 1)), own |-> own]>> \o CommentsFrom(gap, end, FALSE)
    ELSE IF Goes(gap, i, <<"/", "*">>)
    THEN LET end == Min({Len(gap) + 1} \cup {j + 2 : j \in {k \in i + 2..Len(gap) : Goes(gap, k, <<"*", "/">>)}})
         IN <<[of |-> SubSeq(gap, i, end - 1), own |-> own]>> \o CommentsFrom(gap, end, FALSE)
    ELSE CommentsFrom(gap, i + 1, own)

Comments(gap) == CommentsFrom(gap, 1, FALSE)

Indented(level) == [i \in 1..2 * level |-> " "]

\* What has been printed, the depth of blocks, whether a line was just begun, the last token.
Blank == [out |-> <<>>, indent |-> 0, fresh |-> TRUE, prev |-> Token("None", <<>>, 0, 0)]

NewLine(s) == [s EXCEPT !.out = Append(@, "\n"), !.fresh = TRUE]

push_comment(s, comment) ==
    LET line == IF comment.own /\ ~s.fresh THEN NewLine(s) ELSE s
        lead == IF line.fresh THEN Indented(s.indent) ELSE <<" ">>
    IN NewLine([line EXCEPT !.out = @ \o lead \o comment.of])

emit_gap_comments(s, gap) == FoldLeft(push_comment, s, Comments(gap))

(* Tokens ------------------------------------------------------------------*)
\* A closing brace leaves its block and stands on a line of its own.
Outdented(s, token) ==
    IF ~Is(token, {<<"}">>}) THEN s
    ELSE LET out == [s EXCEPT !.indent = IF @ = 0 THEN 0 ELSE @ - 1]
         IN IF out.fresh THEN out ELSE NewLine(out)

\* A declaration that follows one without a closing brace is set apart from it.
Parted(s, token) ==
    IF s.indent = 0 /\ ~s.fresh /\ starts_top_level_decl(token) THEN NewLine(NewLine(s)) ELSE s

Begun(s, token) ==
    [s EXCEPT !.fresh = FALSE,
              !.out = @ \o (IF s.fresh THEN Indented(s.indent)
                            ELSE IF needs_space_before(s.prev, token) THEN <<" ">> ELSE <<>>) \o Printed(token)]

Ended(s, token) ==
    LET in == IF Is(token, {<<"{">>}) THEN [s EXCEPT !.indent = @ + 1] ELSE s
    IN IF Is(token, Spelled({"{", ";"})) THEN NewLine(in)
       ELSE IF Is(token, {<<"}">>}) THEN IF in.indent = 0 THEN NewLine(NewLine(in)) ELSE NewLine(in)
       ELSE in

PrintToken(s, token) ==
    [(IF token.is = "Eof" THEN s ELSE Ended(Begun(Parted(Outdented(s, token), token), token), token))
        EXCEPT !.prev = token]

\* The text between the token before the n-th and the n-th.
Gap(text, tokens, n) == SubSeq(text, IF n = 1 THEN 1 ELSE tokens[n - 1].to, tokens[n].from - 1)

RECURSIVE PrintFrom(_, _, _, _)
\* What is printed once the n-th token and those after it are, each behind the comments of its gap.
PrintFrom(text, tokens, n, s) ==
    IF s.prev.is = "Eof" THEN s.out
    ELSE PrintFrom(text, tokens, n + 1, PrintToken(emit_gap_comments(s, Gap(text, tokens, n)), tokens[n]))

PrintAll(text, tokens) ==
    IF tokens = Fail THEN Fail ELSE Append(TrimEnd(PrintFrom(text, tokens, 1, Blank)), "\n")

format_source(text) == PrintAll(text, tokenize(text))
=============================================================================
