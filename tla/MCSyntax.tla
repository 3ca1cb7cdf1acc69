------------------------------- MODULE MCSyntax -------------------------------
(***************************************************************************)
(* Sources for the formatter and trees for the parser: how the grammar       *)
(* writes a tree, and which trees it can write without parentheses.          *)
(***************************************************************************)
EXTENDS Parser, Formatter

(* Trees written down ------------------------------------------------------*)
W(letter) == <<<<letter>>>>
Between(sep, parts) == FlattenSeq([n \in DOMAIN parts |-> IF n = 1 THEN parts[n] ELSE sep \o parts[n]])
Commas(parts) == Between(W(","), parts)

RECURSIVE TypeText(_, _), Text(_)
TypeTexts(kids, level) == [n \in DOMAIN kids |-> TypeText(kids[n], level)]
TextsOf(kids) == [n \in DOMAIN kids |-> Text(kids[n])]
Without(kids, n) == SubSeq(kids, n + 1, Len(kids))
Enclosed(open, parts, close) == W(open) \o Commas(parts) \o W(close)

\* A type, in parentheses where one is due that is no union and no function (level 1).
TypeText(t, level) ==
    LET n == Len(t.kids)
    IN CASE t.is \in {"Union", "Function"} /\ level > 0 -> W("(") \o TypeText(t, 0) \o W(")")
         [] t.is = "Union" /\ level = 0 -> Between(W("|"), TypeTexts(t.kids, 1))
         [] t.is = "Function" /\ level = 0 ->
              Enclosed("(", TypeTexts(SubSeq(t.kids, 1, n - 1), 0), ")") \o <<<<"-", ">">>>> \o TypeText(t.kids[n], 0)
         [] t.is = "Optional" -> TypeText(t.kids[1], 1) \o W("?")
         [] t.is = "ListOf" -> TypeText(t.kids[1], 1) \o W("[") \o W("]")
         [] t.is = "Tuple" -> W("(") \o Commas(TypeTexts(t.kids, 0)) \o (IF n = 1 THEN W(",") ELSE <<>>) \o W(")")
         [] t.is = "Struct" -> Enclosed("{", TextsOf(t.kids), "}")
         [] t.is = "Named" -> <<t.of>> \o (IF n = 0 THEN <<>> ELSE Enclosed("<", TypeTexts(t.kids, 0), ">"))

\* A function, an rpc or a stream, its doc lines in front of it.
Signature(t) ==
    LET rest == Without(t.kids, 3)
        IsDoc(k) == k.is = "Doc"
    IN FlattenSeq(TextsOf(SelectSeq(rest, IsDoc))) \o <<t.of>> \o Text(t.kids[1])
        \o Enclosed("(", TextsOf(SelectSeq(rest, LAMBDA k : ~IsDoc(k))), ")")
        \o <<<<"-", ">">>>> \o TypeText(t.kids[2], 0) \o Text(t.kids[3])

BlockLike == {"If", "Match", "Transaction"}

Text(t) ==
    LET kid(k) == Text(t.kids[k])
        all    == TextsOf(t.kids)
        n      == Len(t.kids)
    IN CASE t.is = "Str" -> <<<<"\"">> \o t.of \o <<"\"">>>>
         [] t.is \in {"Int", "Float", "Ident", "Keyword", "Name", "Html", "Bind"} -> <<t.of>>
         \* Expressions
         [] t.is = "Binary" -> kid(1) \o <<t.of>> \o kid(2)
         [] t.is = "Unary" -> <<t.of>> \o kid(1)
         [] t.is \in {"FieldAccess", "TupleIndex"} -> kid(1) \o W(".") \o <<t.of>>
         [] t.is = "Call" -> kid(1) \o Enclosed("(", Without(all, 1), ")")
         [] t.is = "Index" -> kid(1) \o W("[") \o kid(2) \o W("]")
         [] t.is = "ArrayLit" -> Enclosed("[", all, "]")
         [] t.is = "Paren" -> Enclosed("(", all, ")")
         [] t.is = "TupleLit" -> W("(") \o Commas(all) \o (IF n = 1 THEN W(",") ELSE <<>>) \o W(")")
         [] t.is = "StructLit" -> (IF t.of = <<>> THEN <<>> ELSE <<t.of>>) \o Enclosed("{", all, "}")
         [] t.is = "VariantLit" -> <<t.of>> \o W(".") \o kid(1) \o Enclosed("{", Without(all, 1), "}")
         [] t.is = "MapLit" -> Enclosed("{", all, "}")
         [] t.is \in {"Init", "Entry"} -> kid(1) \o W(":") \o kid(2)
         [] t.is = "Closure" -> Enclosed("|", SubSeq(all, 1, n - 1), "|") \o kid(n)
         [] t.is = "Param" -> kid(1) \o (IF n = 1 THEN <<>> ELSE W(":") \o TypeText(t.kids[2], 1))
         [] t.is = "If" -> W("if") \o kid(1) \o kid(2) \o W("else") \o kid(3)
         [] t.is = "Match" -> W("match") \o kid(1) \o W("{") \o FlattenSeq(Without(all, 1)) \o W("}")
         [] t.is = "Transaction" -> W("transaction") \o kid(1)
         \* Statements
         [] t.is = "Block" ->
              W("{") \o FlattenSeq([k \in 1..n |-> IF k < n /\ t.kids[k].is = "Expr" /\ t.kids[k].kids[1].is \in BlockLike
                                                    THEN Text(t.kids[k].kids[1]) ELSE all[k]]) \o W("}")
         [] t.is = "Tail" -> kid(1)
         [] t.is = "Expr" -> kid(1) \o W(";")
         [] t.is = "Let" ->
              W("let") \o (IF t.of = <<>> THEN <<>> ELSE <<t.of>>) \o kid(1)
                \o (IF n = 2 THEN <<>> ELSE W(":") \o TypeText(t.kids[2], 0)) \o W("=") \o kid(n) \o W(";")
         [] t.is = "Assign" -> kid(1) \o W("=") \o kid(2) \o W(";")
         [] t.is = "Return" -> W("return") \o FlattenSeq(all) \o W(";")
         [] t.is = "While" -> W("while") \o kid(1) \o kid(2)
         [] t.is = "For" -> W("for") \o kid(1) \o W("in") \o kid(2) \o kid(3)
         [] t.is = "Range" -> kid(1) \o <<<<".", ".">>>> \o kid(2)
         \* Patterns
         [] t.is = "Or" -> Between(W("|"), all)
         [] t.is = "Typed" -> <<t.of>> \o W(":") \o TypeText(t.kids[1], 1)
         [] t.is = "Variant" -> <<t.of>> \o W(".") \o kid(1) \o (IF n = 1 THEN <<>> ELSE kid(2))
         [] t.is = "Fields" -> Enclosed("{", all, "}")
         [] t.is = "Field" ->
              <<t.of>> \o (IF t.kids[1] = Node("Bind", t.of, <<>>) THEN <<>> ELSE W(":") \o kid(1))
         [] t.is = "Guarded" -> kid(1) \o W("if") \o kid(2)
         [] t.is = "Arm" -> kid(1) \o <<<<"=", ">">>>> \o kid(2) \o (IF t.kids[2].is = "Block" THEN <<>> ELSE W(","))
         \* Items
         [] t.is = "Declared" ->
              kid(1) \o (IF t.of = <<>> THEN <<>> ELSE <<t.of>>) \o W(":") \o TypeText(t.kids[2], 0)
                \o (IF n = 2 THEN <<>> ELSE W("=") \o kid(3))
         [] t.is = "Fn" -> Signature(t)
         [] t.is = "Doc" -> <<<<"/", "/", "/", " ">> \o t.of \o <<"\n">>>>
         [] t.is = "Import" /\ n = 1 -> W("import") \o kid(1) \o W(";")
         [] t.is = "Import" /\ n > 1 -> W("import") \o Enclosed("{", Without(all, 1), "}") \o W("from") \o kid(1) \o W(";")
         [] t.is = "Type" -> W("type") \o kid(1) \o kid(2) \o W("=") \o TypeText(t.kids[3], 0)
         [] t.is = "List" -> IF n = 0 THEN <<>> ELSE Enclosed("<", all, ">")
         [] t.is = "Enum" -> W("enum") \o kid(1) \o kid(2) \o Enclosed("{", Without(all, 2), "}")
         [] t.is = "Case" -> <<t.of>> \o Enclosed("{", all, "}")
         [] t.is = "Service" -> W("service") \o kid(1) \o W("{") \o FlattenSeq(Without(all, 1)) \o W("}")
         [] t.is = "Const" -> W("const") \o kid(1) \o W(":") \o TypeText(t.kids[2], 0) \o W("=") \o kid(3) \o W(";")
         [] t.is = "Test" -> W("test") \o <<t.of>> \o kid(1)
         [] t.is = "Db" -> W("db") \o Enclosed("{", all, "}")
         [] t.is = "Ai" -> W("ai") \o Enclosed("{", all, "}")
         [] t.is = "Model" -> kid(1) \o W(":") \o kid(2)

\* The letters of a tree or of some tokens, with a space after each token.
Spaced(tokens) == FoldLeft(LAMBDA text, token : text \o Append(token, " "), <<>>, tokens)
Source(t) == Spaced(Text(t))

(* What the grammar allows where -------------------------------------------*)
Level(t) ==
    CASE t.is \in BlockLike -> 0
      [] t.is = "Binary" -> CHOOSE k \in DOMAIN Levels : t.of \in Levels[k]
      [] t.is = "Unary" -> 8
      [] OTHER -> 9

OnBase == {"FieldAccess", "TupleIndex", "Call", "Index"}

RECURSIVE Exposed(_), BraceFirst(_), Proper(_)
\* A literal with a brace that no bracket encloses: its brace would start the block that follows.
Exposed(t) ==
    CASE t.is \in {"StructLit", "VariantLit", "MapLit"} -> TRUE
      [] t.is \in {"Binary", "Unary"} -> \E k \in DOMAIN t.kids : Exposed(t.kids[k])
      [] t.is \in OnBase -> Exposed(t.kids[1])
      [] OTHER -> FALSE

BraceFirst(t) ==
    CASE t.is = "MapLit" -> TRUE
      [] t.is = "StructLit" -> t.of = <<>>
      [] t.is \in OnBase \cup {"Binary"} -> BraceFirst(t.kids[1])
      [] OTHER -> FALSE

Condition(t) == Level(t) > 0 /\ ~Exposed(t)

Proper(t) ==
    /\ \A k \in DOMAIN t.kids : Proper(t.kids[k])
    /\ t.is = "Binary" => Level(t.kids[1]) >= Level(t) /\ Level(t.kids[2]) > Level(t)
    /\ t.is = "Unary" => Level(t.kids[1]) >= 8
    /\ t.is \in OnBase => Level(t.kids[1]) = 9
    /\ t.is \in {"If", "While"} => Condition(t.kids[1])
    /\ t.is = "For" => t.kids[2].is = "Range" \/ Condition(t.kids[2])
    /\ t.is = "Range" => Condition(t.kids[1]) /\ Condition(t.kids[2])
    /\ t.is = "Guarded" => Condition(t.kids[2])
    /\ t.is = "Match" => ~Exposed(t.kids[1])
    /\ t.is = "Arm" => ~BraceFirst(t.kids[2])

(* Trees -------------------------------------------------------------------*)
a    == Node("Ident", <<"a">>, <<>>)
one  == Node("Int", <<"1">>, <<>>)
text == Node("Str", <<"a">>, <<>>)
A    == Node("Named", <<"A">>, <<>>)
N(letter) == Name(<<letter>>)
Do(e) == Kids("Block", <<Kids("Tail", <<e>>)>>)
Bind(letter) == Node("Bind", <<letter>>, <<>>)
Arm(p, body) == Kids("Arm", <<p, body>>)
Init1(e)  == Kids("Init", <<N("type"), e>>)
Fn(t, b)  == Node("Fn", <<"fn">>, <<N("f"), t, b>>)
Ops == {<<"?", "?">>, <<"|", "|">>, <<"&", "&">>, <<"!", "=">>, <<"<">>, <<"+">>, <<"-">>, <<"*">>}

\* An expression in every place of an expression.
Around(e) ==
    {Node("Binary", op, <<e, a>>) : op \in Ops} \cup {Node("Binary", op, <<a, e>>) : op \in Ops}
    \cup {Node("Unary", <<op>>, <<e>>) : op \in {"-", "!"}}
    \cup {Node("FieldAccess", <<"from">>, <<e>>), Node("TupleIndex", <<"1">>, <<e>>), Kids("Call", <<e>>),
          Kids("Call", <<a, e, one>>), Kids("Index", <<e, a>>), Kids("Index", <<a, e>>), Kids("ArrayLit", <<e, a>>),
          Kids("Paren", <<e>>), Kids("TupleLit", <<e>>), Kids("TupleLit", <<a, e>>),
          Node("StructLit", <<"A">>, <<Init1(e)>>), Node("StructLit", <<>>, <<Init1(e), Init1(a)>>),
          Node("VariantLit", <<"A">>, <<N("B"), Init1(e)>>), Kids("MapLit", <<Kids("Entry", <<text, e>>)>>),
          Kids("Closure", <<Kids("Param", <<N("a")>>), Do(e)>>), Kids("If", <<e, Do(a), Do(a)>>),
          Kids("If", <<a, Do(e), Do(e)>>), Kids("Match", <<e>>), Kids("Match", <<e, Arm(Bind("a"), a)>>),
          Kids("Match", <<a, Arm(one, e), Arm(Bind("a"), Do(e))>>),
          Kids("Match", <<a, Arm(Kids("Guarded", <<Bind("a"), e>>), a)>>), Kids("Transaction", <<Do(e)>>)}

Shapes == {a, one, text, Node("Keyword", <<"true">>, <<>>), Node("StructLit", <<>>, <<>>)} \cup Around(a)
Outer(e) == {x \in Around(e) : x.is \in {"Binary", "Unary", "If", "Match", "Call", "Closure"}}

Blocks(e) ==
    LET stmts == {Kids("Expr", <<e>>), Kids("Let", <<N("a"), e>>), Node("Let", <<"mut">>, <<N("a"), A, e>>),
                  Kids("Assign", <<N("a"), e>>), Kids("Return", <<e>>), Kids("While", <<e, Do(a)>>),
                  Kids("For", <<N("a"), e, Do(a)>>), Kids("For", <<N("a"), Kids("Range", <<e, a>>), Do(a)>>),
                  Kids("For", <<N("a"), Kids("Range", <<a, e>>), Do(a)>>)}
    IN {Do(e)} \cup {Kids("Block", <<s>>) : s \in stmts}
         \cup {Kids("Block", <<s, Kids("Expr", <<Kids("Paren", <<a>>)>>), Kids("Return", <<>>), Kids("Tail", <<a>>)>>) : s \in stmts}

Types0 == {A, Node("Named", <<"Vector">>, <<Node("Named", <<"1">>, <<>>)>>)}
TypesOn(t) ==
    {Kids("Optional", <<t>>), Kids("ListOf", <<t>>), Kids("Union", <<t, A>>), Kids("Union", <<A, t, A>>),
     Kids("Function", <<t>>), Kids("Function", <<A, t, A>>), Kids("Function", <<A, t>>), Kids("Tuple", <<t>>),
     Kids("Tuple", <<A, t>>), Node("Named", <<"B">>, <<A, t>>), Kids("Struct", <<>>),
     Kids("Struct", <<Node("Declared", <<"?">>, <<N("in"), t>>), Kids("Declared", <<N("a"), A, a>>)>>)}
Types == LET once == UNION {TypesOn(t) : t \in Types0} IN Types0 \cup once \cup UNION {TypesOn(t) : t \in once}

Atoms == {one, Node("Int", <<"-", "1">>, <<>>), text, Node("Keyword", <<"null">>, <<>>), Bind("a"),
          Node("Variant", <<"A">>, <<N("B")>>), Node("Variant", <<"A">>, <<N("B"), Kids("Fields", <<>>)>>)}
Patterns(t) ==
    LET atoms == Atoms \cup {Node("Typed", <<"a">>, <<t>>)}
        ors   == {Kids("Or", <<p, q>>) : p, q \in atoms}
    IN atoms \cup ors \cup {Node("Variant", <<"A">>, <<N("B"), Kids("Fields", <<Node("Field", <<"in">>, <<p>>), Node("Field", <<"a">>, <<Bind("a")>>)>>)>>) :
                              p \in atoms \cup ors \cup {Bind("in")}}

Items ==
    LET params == {Kids("List", <<>>), Kids("List", <<N("A"), N("B")>>)}
        rpc    == Node("Fn", <<"rpc">>, <<N("f"), A, Do(a), Kids("Declared", <<N("a"), A, one>>), Kids("Declared", <<N("b"), A>>)>>)
        doc    == [rpc EXCEPT !.kids = @ \o <<Node("Doc", <<"a">>, <<>>), Node("Doc", <<"b">>, <<>>)>>]
        field  == Kids("Declared", <<N("db"), A>>)
    IN {Kids("Import", <<text>>), Kids("Import", <<text, N("a"), N("b")>>), Kids("Service", <<N("a"), doc, rpc, doc>>),
        Kids("Service", <<N("a")>>), Node("Test", <<"a">>, <<Do(a)>>), Kids("Const", <<N("a"), A, a>>),
        Kids("Db", <<field>>), Kids("Ai", <<Kids("Model", <<N("a"), text>>)>>)}
       \cup {Kids("Type", <<N("a"), p, t>>) : p \in params, t \in {A, Kids("Struct", <<field, field>>)}}
       \cup {Kids("Enum", <<N("a"), p, N("A"), Node("Case", <<"B">>, <<field>>), Node("Case", <<"C">>, <<>>)>>) : p \in params}

Trees ==
    LET deep  == UNION {Outer(e) : e \in UNION {Around(s) : s \in {a, Node("StructLit", <<"A">>, <<>>), Kids("MapLit", <<Kids("Entry", <<text, a>>)>>)}}}
        blocks == UNION {Blocks(e) : e \in Shapes} \cup {Do(e) : e \in UNION {Around(s) : s \in Shapes} \cup deep}
        arms  == {Kids("Match", <<a, Arm(p, a), Arm(Kids("Guarded", <<p, a>>), Do(a))>>) : p \in UNION {Patterns(t) : t \in TypesOn(A)}}
        closures == {Kids("Closure", <<Kids("Param", <<N("a"), t>>), Kids("Param", <<N("b")>>), Do(a)>>) : t \in Types}
    IN {t \in {Fn(A, b) : b \in blocks} \cup {Fn(t, Do(a)) : t \in Types} \cup {Fn(A, Do(e)) : e \in arms \cup closures} \cup Items : Proper(t)}

\* The beginning of an item or of a function, or of several items one behind the other, and an item that
\* starts with a keyword of its own, or an ai block.
Broken ==
    LET e      == Node("FieldAccess", <<"from">>, <<a>>)
        match  == Kids("Match", <<a, Arm(Bind("a"), a)>>)
        struct == Kids("Struct", <<Node("Declared", <<"?">>, <<N("in"), A>>)>>)
        first  == Items \cup {Fn(struct, Kids("Block", <<Kids("Let", <<N("a"), match>>), Kids("While", <<e, Do(a)>>), Kids("Return", <<e>>)>>))}
        after  == {t \in Items : t.is \in {"Import", "Service", "Test", "Const", "Ai"}}
                    \cup {Fn(A, Do(a)), Kids("Type", <<N("a"), Kids("List", <<>>), A>>), Kids("Enum", <<N("a"), Kids("List", <<>>)>>)}
        half   == UNION {LET tokens == Text(t) IN {SubSeq(tokens, 1, k) : k \in 1..Len(tokens) - 1} : t \in first}
        many   == {[k \in 1..n |-> <<"import">>] : n \in 2..MaxErrors}
    IN [before : half \cup many, item : after]
=============================================================================
