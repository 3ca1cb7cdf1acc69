------------------------------- MODULE Parser -------------------------------
(***************************************************************************)
(* parse (parser.rs): the syntax tree of a sequence of tokens.  A method of  *)
(* the parser is an operator on the tokens and a place in them; its result   *)
(* is a tree and the place after it, or an error and the place it was found. *)
(* Annotations and the inside of html literals are left out.                 *)
(***************************************************************************)
EXTENDS Lexer

CONSTANT MaxErrors

Node(is, of, kids) == [is |-> is, of |-> of, kids |-> kids]
Got(tree, at) == [tree |-> tree, at |-> at]
Err(at)  == Got(Node("Error", <<>>, <<>>), at)
Fails(r) == r.tree.is = "Error"
Then(r, F(_, _)) == IF Fails(r) THEN r ELSE F(r.tree, r.at)
Made(r, F(_)) == IF Fails(r) THEN r ELSE Got(F(r.tree), r.at)

\* The token at a place; after the last one, that one again.
Peek(self, i) == self.tokens[Min({i, Len(self.tokens)})]
Sees(self, i, w) == Is(Peek(self, i), {w})
check(self, i, letter) == Sees(self, i, <<letter>>)

(* Productions: tokens to eat and things to parse, in order ----------------*)
Eat(letter) == [eat |-> <<letter>>, parse |-> ""]
EatAll(letters) == [eat |-> letters, parse |-> ""]
One(what)   == [eat |-> <<>>, parse |-> what]

RECURSIVE Parts(_, _, _), ItemsFrom(_, _, _, _, _), UntilFrom(_, _, _, _),
    ChainFrom(_, _, _), TypeSuffixes(_, _, _), Binary(_, _, _, _), BinaryRest(_, _, _, _, _), Unary(_, _, _),
    Postfix(_, _, _)

Parse(what, self, i) == self.parse[what, i]

Kids(is, kids) == Node(is, <<>>, kids)
Leaf(token) == Node(token.is, token.of, <<>>)
Name(of) == Node("Name", of, <<>>)

Parts(self, i, parts) ==
    IF parts = <<>> THEN Got(Kids("Parts", <<>>), i)
    ELSE LET part == Head(parts)
         IN IF part.parse # "" THEN Then(Parse(part.parse, self, i), LAMBDA t, j :
                                           Made(Parts(self, j, Tail(parts)), LAMBDA p : Kids("Parts", <<t>> \o p.kids)))
            ELSE IF Sees(self, i, part.eat) THEN Parts(self, i + 1, Tail(parts)) ELSE Err(i)

Built(is, self, i, parts) == Made(Parts(self, i, parts), LAMBDA p : Kids(is, p.kids))

\* One or more of a thing with commas between, up to a token that is not eaten; the token
\* may follow a comma when trail.
ItemsFrom(self, i, what, close, trail) ==
    Then(Parse(what, self, i), LAMBDA t, j :
        IF ~check(self, j, ",") THEN Got(Kids("List", <<t>>), j)
        ELSE IF trail /\ check(self, j + 1, close) THEN Got(Kids("List", <<t>>), j + 1)
        ELSE Made(ItemsFrom(self, j + 1, what, close, trail), LAMBDA rest : Kids("List", <<t>> \o rest.kids)))

Closed(r, self, close) ==
    Then(r, LAMBDA t, j : IF check(self, j, close) THEN Got(t, j + 1) ELSE Err(j))

\* None or more of a thing, and the token that closes them.
Listed(self, i, what, close, trail) ==
    IF check(self, i, close) THEN Got(Kids("List", <<>>), i + 1)
    ELSE Closed(ItemsFrom(self, i, what, close, trail), self, close)

Braced(self, i, what) == IF check(self, i, "{") THEN Listed(self, i + 1, what, "}", TRUE) ELSE Err(i)

\* Whether a list that ended before i had a comma.
HadComma(list, self, i) == Len(list.kids) > 1 \/ check(self, i - 2, ",")

\* None or more of a thing with nothing between, and the token that closes them.  Nothing
\* follows the tail of a block.
UntilFrom(self, i, what, close) ==
    IF check(self, i, close) THEN Got(Kids("List", <<>>), i + 1)
    ELSE Then(Parse(what, self, i), LAMBDA t, j :
            IF t.is = "Tail" /\ ~check(self, j, close) THEN Err(j)
            ELSE Made(UntilFrom(self, j, what, close), LAMBDA rest : Kids("List", <<t>> \o rest.kids)))

\* Things with `|` between.
ChainFrom(self, i, what) ==
    Then(Parse(what, self, i), LAMBDA t, j :
        IF ~check(self, j, "|") THEN Got(Kids("List", <<t>>), j)
        ELSE Made(ChainFrom(self, j + 1, what), LAMBDA rest : Kids("List", <<t>> \o rest.kids)))

Alternatives(is, self, i, what) ==
    Made(ChainFrom(self, i, what), LAMBDA all : IF Len(all.kids) = 1 THEN all.kids[1] ELSE Kids(is, all.kids))

eat_ident(self, i) == IF Peek(self, i).is = "Ident" THEN Got(Name(self.tokens[i].of), i + 1) ELSE Err(i)
eat_field_name(self, i) == IF Peek(self, i).is \in {"Ident", "Keyword"} THEN Got(Name(self.tokens[i].of), i + 1) ELSE Err(i)
eat_string(self, i) == IF Peek(self, i).is = "Str" THEN Got(Leaf(self.tokens[i]), i + 1) ELSE Err(i)

(* Types -------------------------------------------------------------------*)
parse_paren_type(self, i) ==
    Then(Listed(self, i + 1, "type", ")", TRUE), LAMBDA items, j :
        IF Sees(self, j, <<"-", ">">>)
        THEN Made(Parse("type", self, j + 1), LAMBDA to : Kids("Function", Append(items.kids, to)))
        ELSE IF items.kids = <<>> THEN Err(j)
        ELSE Got(IF HadComma(items, self, j) THEN Kids("Tuple", items.kids) ELSE items.kids[1], j))

parse_primary_type(self, i) ==
    LET generic == check(self, i + 1, "<")
    IN CASE Peek(self, i).is = "Ident" /\ self.tokens[i].of = <<"Vector">> /\ generic ->
              IF Peek(self, i + 2).is # "Int" THEN Err(i + 2)
              ELSE Closed(Got(Node("Named", self.tokens[i].of, <<Node("Named", self.tokens[i + 2].of, <<>>)>>), i + 3), self, ">")
         [] Peek(self, i).is = "Ident" /\ ~(self.tokens[i].of = <<"Vector">> /\ generic) ->
              IF generic THEN Made(Closed(ItemsFrom(self, i + 2, "type", ">", FALSE), self, ">"),
                                   LAMBDA args : Node("Named", self.tokens[i].of, args.kids))
              ELSE Got(Node("Named", self.tokens[i].of, <<>>), i + 1)
         [] check(self, i, "{") -> Made(Braced(self, i, "field"), LAMBDA fs : Kids("Struct", fs.kids))
         [] check(self, i, "(") -> parse_paren_type(self, i)
         [] OTHER -> Err(i)

TypeSuffixes(self, t, i) ==
    IF check(self, i, "?") THEN TypeSuffixes(self, Kids("Optional", <<t>>), i + 1)
    ELSE IF ~check(self, i, "[") THEN Got(t, i)
    ELSE IF check(self, i + 1, "]") THEN TypeSuffixes(self, Kids("ListOf", <<t>>), i + 2) ELSE Err(i + 1)

parse_postfix_type(self, i) == Then(parse_primary_type(self, i), LAMBDA t, j : TypeSuffixes(self, t, j))

\* A field of a struct or an enum variant, or a parameter, with its default value if it has one.
Declared(self, i, name, optional) ==
    LET at == IF optional THEN i + 2 ELSE i + 1
    IN Then(Parts(self, i, <<One(name)>>), LAMBDA p, j :
        Then(Parts(self, at, <<Eat(":"), One("type")>>), LAMBDA t, k :
            LET d == Node("Declared", IF optional THEN <<"?">> ELSE <<>>, p.kids \o t.kids)
            IN IF check(self, k, "=") THEN Made(Parse("expr", self, k + 1), LAMBDA v : [d EXCEPT !.kids = Append(@, v)])
               ELSE Got(d, k)))

parse_field(self, i) == Declared(self, i, "field name", check(self, i + 1, "?"))
parse_param(self, i) == Declared(self, i, "ident", FALSE)

(* Expressions -------------------------------------------------------------*)
Levels == <<{<<"?", "?">>}, {<<"|", "|">>}, {<<"&", "&">>}, {<<"=", "=">>, <<"!", "=">>},
            {<<"<">>, <<"<", "=">>, <<">">>, <<">", "=">>}, {<<"+">>, <<"-">>}, {<<"*">>, <<"/">>, <<"%">>}>>

BinaryRest(self, left, i, level, bare) ==
    IF ~Is(Peek(self, i), Levels[level]) THEN Got(left, i)
    ELSE Then(Binary(self, i + 1, level + 1, bare), LAMBDA right, j :
            BinaryRest(self, Node("Binary", self.tokens[i].of, <<left, right>>), j, level, bare))

\* Operators of a level and tighter ones, each associating to the left.
Binary(self, i, level, bare) ==
    IF level > Len(Levels) THEN Unary(self, i, bare)
    ELSE Then(Binary(self, i, level + 1, bare), LAMBDA left, j : BinaryRest(self, left, j, level, bare))

parse_field_init_list(self, i) == Braced(self, i, "field init")

parse_closure_expr(self, i) ==
    Then(Listed(self, i + 1, "closure param", "|", TRUE), LAMBDA ps, j :
        IF ps.kids = <<>> THEN Err(j)
        ELSE Made(Parse("block", self, j), LAMBDA b : Kids("Closure", Append(ps.kids, b))))

Parenthesised(self, i) ==
    Then(Closed(ItemsFrom(self, i + 1, "expr", ")", TRUE), self, ")"), LAMBDA items, j :
        Got(Kids(IF HadComma(items, self, j) THEN "TupleLit" ELSE "Paren", items.kids), j))

\* bare (no_struct_lit): a brace after a name starts a block or arms, not a literal.
parse_primary_expr(self, i, bare) ==
    LET token == Peek(self, i)
        Literal(at, of) == Made(parse_field_init_list(self, at), LAMBDA fs : Node("StructLit", of, fs.kids))
    IN CASE token.is \in {"Int", "Float", "Str", "Html"} \/ Is(token, Spelled({"true", "false", "null"})) ->
              Got(Leaf(token), i + 1)
         [] check(self, i, "[") -> Made(Listed(self, i + 1, "expr", "]", TRUE), LAMBDA all : Kids("ArrayLit", all.kids))
         [] check(self, i, "(") -> Parenthesised(self, i)
         [] token.is = "Ident" ->
              IF ~bare /\ check(self, i + 1, ".") /\ Peek(self, i + 2).is = "Ident" /\ check(self, i + 3, "{")
              THEN Made(parse_field_init_list(self, i + 3),
                        LAMBDA fs : Node("VariantLit", token.of, <<Name(self.tokens[i + 2].of)>> \o fs.kids))
              ELSE IF ~bare /\ check(self, i + 1, "{") THEN Literal(i + 1, token.of)
              ELSE Got(Leaf(token), i + 1)
         [] check(self, i, "|") -> parse_closure_expr(self, i)
         [] check(self, i, "{") /\ ~bare ->
              IF Peek(self, i + 1).is = "Str" THEN Made(Braced(self, i, "map entry"), LAMBDA es : Kids("MapLit", es.kids))
              ELSE Literal(i, <<>>)
         [] Sees(self, i, <<"|", "|">>) -> Err(i + 1)
         [] OTHER -> Err(i)

Postfix(self, e, i) ==
    CASE check(self, i, ".") /\ Peek(self, i + 1).is = "Int" -> Postfix(self, Node("TupleIndex", self.tokens[i + 1].of, <<e>>), i + 2)
      [] check(self, i, ".") /\ Peek(self, i + 1).is # "Int" ->
           Then(eat_field_name(self, i + 1), LAMBDA f, j : Postfix(self, Node("FieldAccess", f.of, <<e>>), j))
      [] check(self, i, "(") ->
           Then(Listed(self, i + 1, "expr", ")", FALSE), LAMBDA args, j : Postfix(self, Kids("Call", <<e>> \o args.kids), j))
      [] check(self, i, "[") ->
           Then(Parts(self, i + 1, <<One("expr"), Eat("]")>>), LAMBDA p, j : Postfix(self, Kids("Index", <<e>> \o p.kids), j))
      [] OTHER -> Got(e, i)

Unary(self, i, bare) ==
    IF Is(Peek(self, i), Spelled({"!", "-"}))
    THEN Made(Unary(self, i + 1, bare), LAMBDA e : Node("Unary", self.tokens[i].of, <<e>>))
    ELSE Then(parse_primary_expr(self, i, bare), LAMBDA e, j : Postfix(self, e, j))

parse_match_expr(self, i) ==
    Then(Parts(self, i + 1, <<One("scrutinee"), Eat("{")>>), LAMBDA p, j :
        Made(UntilFrom(self, j, "arm", "}"), LAMBDA arms : Kids("Match", p.kids \o arms.kids)))

parse_if_expr(self, i) == Built("If", self, i, <<Eat("if"), One("condition"), One("block"), Eat("else"), One("else")>>)

parse_expr_ctx(self, i, bare) ==
    CASE check(self, i, "match") -> parse_match_expr(self, i)
      [] check(self, i, "if") -> parse_if_expr(self, i)
      [] check(self, i, "transaction") -> Built("Transaction", self, i, <<Eat("transaction"), One("block")>>)
      [] OTHER -> Binary(self, i, 1, bare)

(* Statements --------------------------------------------------------------*)
parse_let_stmt(self, i) ==
    LET mut   == check(self, i + 1, "mut")
        at    == IF mut THEN i + 2 ELSE i + 1
        typed == IF check(self, at + 1, ":") THEN <<Eat(":"), One("type")>> ELSE <<>>
    IN Made(Built("Let", self, at, <<One("ident")>> \o typed \o <<Eat("="), One("expr"), Eat(";")>>),
            LAMBDA let : IF mut THEN [let EXCEPT !.of = <<"mut">>] ELSE let)

parse_return_stmt(self, i) ==
    Built("Return", self, i + 1, (IF check(self, i + 1, ";") THEN <<>> ELSE <<One("expr")>>) \o <<Eat(";")>>)

\* What a for goes over: a list, or the integers from one value to before another.
parse_iterable(self, i) ==
    Then(Parse("condition", self, i), LAMBDA first, j :
        IF Sees(self, j, <<".", ".">>)
        THEN Made(Parse("condition", self, j + 1), LAMBDA end : Kids("Range", <<first, end>>))
        ELSE Got(first, j))

\* A statement of a block, or the expression at its end.  if, match and transaction need no
\* semicolon, and are the end only before the brace.
parse_statement(self, i) ==
    LET Is1(letter) == check(self, i + 1, letter)
        name == Peek(self, i).is = "Ident"
    IN CASE check(self, i, "let") -> parse_let_stmt(self, i)
         [] check(self, i, "return") -> parse_return_stmt(self, i)
         [] check(self, i, "while") -> Built("While", self, i + 1, <<One("condition"), One("block")>>)
         [] check(self, i, "for") ->
              Built("For", self, i + 1, <<One("ident"), Eat("in"), One("iterable"), One("block")>>)
         [] name /\ Is1("=") -> Built("Assign", self, i, <<One("ident"), Eat("="), One("expr"), Eat(";")>>)
         [] name /\ Is1(":") ->
              Made(ItemsFrom(self, i, "field init", "}", TRUE),
                   LAMBDA fs : Kids("Tail", <<Kids("StructLit", fs.kids)>>))
         [] Is(Peek(self, i), Spelled({"if", "match", "transaction"})) ->
              Then(Parse("expr", self, i), LAMBDA e, j :
                  IF check(self, j, "}") THEN Got(Kids("Tail", <<e>>), j)
                  ELSE Got(Kids("Expr", <<e>>), IF check(self, j, ";") THEN j + 1 ELSE j))
         [] OTHER ->
              Then(Parse("expr", self, i), LAMBDA e, j :
                  IF check(self, j, ";") THEN Got(Kids("Expr", <<e>>), j + 1) ELSE Got(Kids("Tail", <<e>>), j))

parse_block(self, i) ==
    IF ~check(self, i, "{") THEN Err(i)
    ELSE Made(UntilFrom(self, i + 1, "statement", "}"), LAMBDA b : Kids("Block", b.kids))

\* The block after else; an if there is the end of a block of its own.
parse_else(self, i) ==
    IF check(self, i, "if") THEN Made(parse_if_expr(self, i), LAMBDA e : Kids("Block", <<Kids("Tail", <<e>>)>>))
    ELSE parse_block(self, i)

(* Patterns ----------------------------------------------------------------*)
parse_pattern_atom(self, i) ==
    CASE Peek(self, i).is \in {"Int", "Str"} \/ Is(Peek(self, i), Spelled({"true", "false", "null"})) ->
           Got(Leaf(self.tokens[i]), i + 1)
      [] check(self, i, "-") ->
           IF Peek(self, i + 1).is = "Int" THEN Got(Node("Int", <<"-">> \o self.tokens[i + 1].of, <<>>), i + 2) ELSE Err(i + 1)
      [] Peek(self, i).is = "Ident" /\ check(self, i + 1, ".") ->
           Then(eat_ident(self, i + 2), LAMBDA v, j :
               LET p == Node("Variant", self.tokens[i].of, <<v>>)
               IN IF ~check(self, j, "{") THEN Got(p, j)
                  ELSE Made(Braced(self, j, "field pattern"), LAMBDA fs : [p EXCEPT !.kids = Append(@, Kids("Fields", fs.kids))]))
      [] Peek(self, i).is = "Ident" /\ check(self, i + 1, ":") ->
           Made(parse_postfix_type(self, i + 2), LAMBDA t : Node("Typed", self.tokens[i].of, <<t>>))
      [] OTHER -> Made(eat_ident(self, i), LAMBDA n : Node("Bind", n.of, <<>>))

parse_field_pattern(self, i) ==
    Then(eat_field_name(self, i), LAMBDA name, j :
        IF check(self, j, ":") THEN Made(Parse("pattern", self, j + 1), LAMBDA p : Node("Field", name.of, <<p>>))
        ELSE Got(Node("Field", name.of, <<Node("Bind", name.of, <<>>)>>), j))

\* The pattern of an arm, with its guard.
parse_guarded(self, i) ==
    Then(Parse("pattern", self, i), LAMBDA p, j :
        IF check(self, j, "if") THEN Made(Parse("condition", self, j + 1), LAMBDA g : Kids("Guarded", <<p, g>>))
        ELSE Got(p, j))

\* What an arm does, and the comma that sets it apart from the next.
parse_arm_body(self, i) ==
    IF check(self, i, "{")
    THEN Then(parse_block(self, i), LAMBDA b, j : Got(b, IF check(self, j, ",") THEN j + 1 ELSE j))
    ELSE Then(Parse("expr", self, i), LAMBDA e, j :
            IF check(self, j, "}") THEN Got(e, j) ELSE IF check(self, j, ",") THEN Got(e, j + 1) ELSE Err(j))

parse_match_arm(self, i) == Built("Arm", self, i, <<One("guarded"), EatAll(<<"=", ">">>), One("arm body")>>)

(* Items -------------------------------------------------------------------*)
parse_import_decl(self, i) ==
    IF Peek(self, i + 1).is = "Str" THEN Built("Import", self, i + 1, <<One("string"), Eat(";")>>)
    ELSE IF ~check(self, i + 1, "{") THEN Err(i + 1)
    ELSE Then(Closed(ItemsFrom(self, i + 2, "ident", "}", FALSE), self, "}"), LAMBDA names, j :
            Made(Parts(self, j, <<Eat("from"), One("string"), Eat(";")>>),
                 LAMBDA p : Kids("Import", p.kids \o names.kids)))

parse_type_params(self, i) ==
    IF check(self, i, "<") THEN Closed(ItemsFrom(self, i + 1, "ident", ">", FALSE), self, ">")
    ELSE Got(Kids("List", <<>>), i)

\* The semicolon after a type is optional.
parse_type_decl(self, i) ==
    Then(Built("Type", self, i + 1, <<One("ident"), One("type params"), Eat("="), One("type")>>), LAMBDA d, j :
        Got(d, IF check(self, j, ";") THEN j + 1 ELSE j))

parse_variant(self, i) ==
    Then(eat_ident(self, i), LAMBDA name, j :
        IF ~check(self, j, "{") THEN Got(name, j)
        ELSE Made(Braced(self, j, "field"), LAMBDA fs : Node("Case", name.of, fs.kids)))

parse_enum_decl(self, i) ==
    Then(Parts(self, i + 1, <<One("ident"), One("type params")>>), LAMBDA p, j :
        Made(Braced(self, j, "variant"), LAMBDA vs : Kids("Enum", p.kids \o vs.kids)))

\* The signature and body of a function, an rpc or a stream.
parse_fn_decl(self, i) ==
    Then(Parts(self, i + 1, <<One("ident"), Eat("(")>>), LAMBDA p, j :
        Then(Listed(self, j, "param", ")", TRUE), LAMBDA params, k :
            Made(Parts(self, k, <<EatAll(<<"-", ">">>), One("type"), One("block")>>),
                 LAMBDA b : Node("Fn", self.tokens[i].of, p.kids \o b.kids \o params.kids))))

\* An rpc takes the doc lines of its first token.
parse_member(self, i) ==
    IF ~Is(Peek(self, i), Spelled({"rpc", "stream"})) THEN Err(i)
    ELSE Made(parse_fn_decl(self, i), LAMBDA f :
            [f EXCEPT !.kids = @ \o [n \in DOMAIN self.tokens[i].doc |-> Node("Doc", self.tokens[i].doc[n], <<>>)]])

parse_service_decl(self, i) ==
    Then(Parts(self, i + 1, <<One("ident"), Eat("{")>>), LAMBDA p, j :
        Made(UntilFrom(self, j, "member", "}"), LAMBDA ms : Kids("Service", p.kids \o ms.kids)))

parse_test_decl(self, i) ==
    IF Peek(self, i + 1).is \notin {"Str", "Ident"} THEN Err(i + 1)
    ELSE Made(parse_block(self, i + 2), LAMBDA b : Node("Test", self.tokens[i + 1].of, <<b>>))

\* db and ai are names like any other anywhere else.
Block(self, i, name) == Peek(self, i).is = "Ident" /\ self.tokens[i].of = <<name>> /\ check(self, i + 1, "{")

parse_item(self, i) ==
    CASE check(self, i, "import") -> parse_import_decl(self, i)
      [] check(self, i, "type") -> parse_type_decl(self, i)
      [] check(self, i, "enum") -> parse_enum_decl(self, i)
      [] check(self, i, "service") -> parse_service_decl(self, i)
      [] check(self, i, "const") ->
           Built("Const", self, i + 1, <<One("ident"), Eat(":"), One("type"), Eat("="), One("expr"), Eat(";")>>)
      [] check(self, i, "fn") -> parse_fn_decl(self, i)
      [] check(self, i, "test") -> parse_test_decl(self, i)
      [] Block(self, i, "db") -> Made(Braced(self, i + 1, "field"), LAMBDA fs : Kids("Db", fs.kids))
      [] Block(self, i, "ai") -> Made(Braced(self, i + 1, "model"), LAMBDA ms : Kids("Ai", ms.kids))
      [] OTHER -> Err(i)

(* What a production names -------------------------------------------------*)
Production(what, self, i) ==
    CASE what = "ident" -> eat_ident(self, i)
      [] what = "field name" -> eat_field_name(self, i)
      [] what = "string" -> eat_string(self, i)
      [] what = "type" -> Alternatives("Union", self, i, "postfix type")
      [] what = "postfix type" -> parse_postfix_type(self, i)
      [] what = "field" -> parse_field(self, i)
      [] what = "param" -> parse_param(self, i)
      [] what = "expr" -> parse_expr_ctx(self, i, FALSE)
      [] what = "scrutinee" -> parse_expr_ctx(self, i, TRUE)
      [] what = "condition" -> Binary(self, i, 1, TRUE)
      [] what = "block" -> parse_block(self, i)
      [] what = "else" -> parse_else(self, i)
      [] what = "statement" -> parse_statement(self, i)
      [] what = "iterable" -> parse_iterable(self, i)
      [] what = "closure param" ->
           Built("Param", self, i, <<One("ident")>> \o IF check(self, i + 1, ":") THEN <<Eat(":"), One("postfix type")>> ELSE <<>>)
      [] what = "field init" -> Built("Init", self, i, <<One("field name"), Eat(":"), One("expr")>>)
      [] what = "map entry" -> Built("Entry", self, i, <<One("string"), Eat(":"), One("expr")>>)
      [] what = "model" -> Built("Model", self, i, <<One("ident"), Eat(":"), One("string")>>)
      [] what = "pattern" -> Alternatives("Or", self, i, "pattern atom")
      [] what = "pattern atom" -> parse_pattern_atom(self, i)
      [] what = "field pattern" -> parse_field_pattern(self, i)
      [] what = "guarded" -> parse_guarded(self, i)
      [] what = "arm" -> parse_match_arm(self, i)
      [] what = "arm body" -> parse_arm_body(self, i)
      [] what = "type params" -> parse_type_params(self, i)
      [] what = "variant" -> parse_variant(self, i)
      [] what = "member" -> parse_member(self, i)

(* Programs ----------------------------------------------------------------*)
at_item_start(self, i) ==
    \/ Is(Peek(self, i), Spelled({"import", "type", "enum", "service", "const", "fn", "test"}))
    \/ Block(self, i, "db")

\* Mutant: the token that failed is left behind even when it begins an item.
SkipsFirst(self, i) == Min({j \in Min({i + 1, Len(self.tokens)})..Len(self.tokens) : j = Len(self.tokens) \/ at_item_start(self, j)})

\* After an error, on to the next thing that looks like an item.
synchronize(self, i) == Min({j \in i..Len(self.tokens) : j = Len(self.tokens) \/ at_item_start(self, j)})

RECURSIVE ProgramFrom(_, _, _)
\* The items from i on, and how many errors there were with those before.
ProgramFrom(self, i, errors) ==
    IF Peek(self, i).is = "Eof" \/ errors = MaxErrors THEN [items |-> <<>>, errors |-> errors]
    ELSE LET r    == parse_item(self, i)
             rest == ProgramFrom(self, IF Fails(r) THEN synchronize(self, r.at) ELSE r.at,
                                 IF Fails(r) THEN errors + 1 ELSE errors)
         IN IF Fails(r) THEN rest ELSE [rest EXCEPT !.items = <<r.tree>> \o @]

\* A parser: its tokens, and what it makes of each thing at each place.
Reader(tokens) ==
    LET parse[what \in STRING, i \in Nat] == Production(what, [tokens |-> tokens, parse |-> parse], i)
    IN [tokens |-> tokens, parse |-> parse]

parse_program(tokens) == ProgramFrom(Reader(tokens), 1, 0)
=============================================================================
