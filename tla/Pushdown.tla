------------------------------ MODULE Pushdown ------------------------------
(***************************************************************************)
(* The methods of a collection that take a predicate (findWhere,           *)
(* countWhere, deleteWhere, updateWhere and the match of upsert): the      *)
(* interpreter can evaluate the predicate on every row, or recognise it    *)
(* and let the database select.                                            *)
(*                                                                         *)
(*   ast.rs          recognize_predicate_expr                              *)
(*   runtime/mod.rs  evaluate_predicate_tree, call_method                  *)
(*   runtime/db.rs   condition_sql_with_params, update_where_conjunction   *)
(*                                                                         *)
(* The collection has a text and an optional text, two integers, a flag,   *)
(* an `@encrypted` text and a list; `name` is `@unique`.  A text is a      *)
(* sequence of letters, of which "%" is the wildcard of LIKE.              *)
(***************************************************************************)
EXTENDS Integers, Sequences, FiniteSets, SequencesExt

Columns == [name   |-> [json |-> FALSE, encrypted |-> FALSE],
            nick   |-> [json |-> FALSE, encrypted |-> FALSE],
            n      |-> [json |-> FALSE, encrypted |-> FALSE],
            m      |-> [json |-> FALSE, encrypted |-> FALSE],
            flag   |-> [json |-> FALSE, encrypted |-> FALSE],
            secret |-> [json |-> FALSE, encrypted |-> TRUE],
            tags   |-> [json |-> TRUE,  encrypted |-> FALSE]]

Null    == [is |-> "Null"]
Num(k)  == [is |-> "Int", data |-> k]
Text(s) == [is |-> "Text", data |-> s]
Bool(b) == [is |-> "Bool", data |-> b]
List(s) == [is |-> "List", data |-> s]
NoNode  == [node |-> "none"]

(* The body of the closure.  A computed operand is one that is neither a    *)
(* literal nor a captured variable.                                         *)
Field(f)     == [expr |-> "field", name |-> f]
Const(v)     == [expr |-> "const", value |-> v]
Computed(v)  == [expr |-> "computed", value |-> v]
Bin(op, l, r) == [expr |-> "bin", op |-> op, left |-> l, right |-> r]
Not(e)       == [expr |-> "not", of |-> e]
Call(method, base, arg) == [expr |-> "call", method |-> method, base |-> base, arg |-> arg]

Relational == {"<", "<=", ">", ">="}
Comparisons == Relational \cup {"==", "!="}

Ordered(op, x, y) ==
    CASE op = "<" -> x < y [] op = "<=" -> x <= y [] op = ">" -> x > y [] op = ">=" -> x >= y

Matches(method, text, part) ==
    CASE method = "startsWith" -> IsPrefix(part, text)
      [] method = "endsWith" -> IsSuffix(part, text)
      [] method = "contains" -> \E k \in 0..Len(text) : IsPrefix(part, SubSeq(text, k + 1, Len(text)))

(* The interpreter ---------------------------------------------------------*)
RECURSIVE Holds(_, _)
Term(e, row) ==
    CASE e.expr = "field" -> row[e.name]
      [] e.expr \in {"const", "computed"} -> e.value
      [] OTHER -> Bool(Holds(e, row))

Holds(e, row) ==
    CASE e.expr = "field" -> row[e.name].data
      [] e.expr = "not" -> ~Holds(e.of, row)
      [] e.expr = "call" ->
           LET base == Term(e.base, row)
               arg  == Term(e.arg, row)
           IN IF base.is = "List" THEN arg \in ToSet(base.data) ELSE Matches(e.method, base.data, arg.data)
      [] e.expr = "bin" ->
           CASE e.op = "&&" -> Holds(e.left, row) /\ Holds(e.right, row)
             [] e.op = "||" -> Holds(e.left, row) \/ Holds(e.right, row)
             [] e.op = "==" -> Term(e.left, row) = Term(e.right, row)
             [] e.op = "!=" -> Term(e.left, row) # Term(e.right, row)
             [] OTHER -> Ordered(e.op, Term(e.left, row).data, Term(e.right, row).data)

(* Recognition -------------------------------------------------------------*)
Leaf(f, op, v)      == [node |-> "leaf", field |-> f, op |-> op, value |-> v]
FieldPair(f, op, g) == [node |-> "pair", field |-> f, op |-> op, other |-> g]
InList(f, vs, neg)  == [node |-> "in", field |-> f, values |-> vs, negated |-> neg]
StringMatch(f, method, part, neg) ==
    [node |-> "match", field |-> f, method |-> method, part |-> part, negated |-> neg]
Tree(op, items)     == [node |-> op, items |-> items]

flip_comparison_operator(op) ==
    CASE op = "<" -> ">" [] op = "<=" -> ">=" [] op = ">" -> "<" [] op = ">=" -> "<=" [] OTHER -> op

\* merge_and and merge_or: an operand of the same kind is flattened.
Merge(op, l, r) ==
    LET items(t) == IF t.node = op THEN t.items ELSE <<t>>
    IN IF l = NoNode \/ r = NoNode THEN NoNode ELSE Tree(op, items(l) \o items(r))

\* eval_simple_expr resolves a literal or a captured variable, and nothing else.
recognize_call_predicate(e, negated) ==
    CASE e.method = "contains" /\ e.arg.expr = "field" /\ e.base.expr = "const" ->
           InList(e.arg.name, e.base.value.data, negated)
      [] e.base.expr = "field" /\ e.arg.expr = "const" ->
           IF e.arg.value.is = "Text"
           THEN StringMatch(e.base.name, e.method, e.arg.value.data, negated) ELSE NoNode
      [] OTHER -> NoNode

RecognizeComparison(op, l, r) ==
    CASE op \in {"==", "!="} /\ l.expr = "call" /\ r.expr = "const" ->
           recognize_call_predicate(l, (op = "==") # r.value.data)
      [] op \in Relational /\ l.expr = "field" /\ r.expr = "field" -> FieldPair(l.name, op, r.name)
      [] l.expr = "field" /\ r.expr = "const" -> Leaf(l.name, op, r.value)
      [] l.expr = "const" /\ r.expr = "field" -> Leaf(r.name, flip_comparison_operator(op), l.value)
      [] OTHER -> NoNode

RECURSIVE recognize_predicate_tree(_)
recognize_predicate_tree(e) ==
    CASE e.expr = "bin" /\ e.op \in {"&&", "||"} ->
           Merge(e.op, recognize_predicate_tree(e.left), recognize_predicate_tree(e.right))
      [] e.expr = "bin" /\ e.op \in Comparisons -> RecognizeComparison(e.op, e.left, e.right)
      [] e.expr = "not" ->
           CASE e.of.expr = "call" -> recognize_call_predicate(e.of, TRUE)
             [] e.of.expr = "field" -> Leaf(e.of.name, "==", Bool(FALSE))
             [] OTHER -> NoNode
      [] e.expr = "call" -> recognize_call_predicate(e, FALSE)
      [] e.expr = "field" -> Leaf(e.name, "==", Bool(TRUE))

(* SQL: a clause is a sequence of atoms, "AND", "OR" and groups -------------*)
Atom(a)  == [sql |-> "atom", atom |-> a]
Word(w)  == [sql |-> w]
Group(c) == [sql |-> "group", clause |-> c]

Pushable(f) == f = "id" \/ (f \in DOMAIN Columns /\ ~Columns[f].json /\ ~Columns[f].encrypted)

\* Mutant: NULL is bound like any other value.
LeafBindsNull(c) ==
    IF Pushable(c.field) THEN <<Atom([is |-> "cmp", field |-> c.field, op |-> c.op, value |-> c.value])>>
    ELSE <<>>

\* <<>> when the leaf cannot be pushed.
leaf_condition_sql(c) ==
    CASE c.value = Null /\ c.op \in Relational -> <<>>
      [] c.value = Null /\ c.op \notin Relational ->
           IF c.field = "id" \/ ~Columns[c.field].json
           THEN <<Atom([is |-> "null", field |-> c.field, negated |-> c.op = "!="])>> ELSE <<>>
      [] c.value # Null ->
           IF Pushable(c.field) /\ (c.field = "id" => c.value.is = "Int")
           THEN <<Atom([is |-> "cmp", field |-> c.field, op |-> c.op, value |-> c.value])>> ELSE <<>>

field_pair_condition_sql(c) == <<Atom([is |-> "pair", field |-> c.field, op |-> c.op, other |-> c.other])>>

in_list_condition_sql(c) ==
    CASE c.values = <<>> -> <<Atom([is |-> "const", value |-> c.negated])>>
      [] c.values # <<>> ->
           IF Pushable(c.field) /\ (c.field = "id" => Null \notin ToSet(c.values))
           THEN <<Atom([is |-> "in", field |-> c.field, values |-> ToSet(c.values), negated |-> c.negated])>>
           ELSE <<>>

escape_like_wildcards(part) == [k \in DOMAIN part |-> [letter |-> part[k], wild |-> FALSE]]
AnyText == [letter |-> "%", wild |-> TRUE]

string_match_condition_sql(c) ==
    LET part == escape_like_wildcards(c.part)
        like == CASE c.method = "contains" -> <<AnyText>> \o part \o <<AnyText>>
                  [] c.method = "startsWith" -> part \o <<AnyText>>
                  [] c.method = "endsWith" -> <<AnyText>> \o part
    IN IF Pushable(c.field)
       THEN <<Atom([is |-> "like", field |-> c.field, like |-> like, negated |-> c.negated])>> ELSE <<>>

\* join(" AND ") or join(" OR ").
Join(word, clauses) ==
    FoldLeft(LAMBDA acc, c : IF acc = <<>> THEN c ELSE acc \o <<Word(word)>> \o c, <<>>, clauses)

\* A child of the other kind is parenthesised; one of the same kind was flattened.
RECURSIVE condition_expr_sql(_)
condition_expr_sql(c) ==
    CASE c.node = "leaf" -> leaf_condition_sql(c)
      [] c.node = "pair" -> field_pair_condition_sql(c)
      [] c.node = "in" -> in_list_condition_sql(c)
      [] c.node = "match" -> string_match_condition_sql(c)
      [] c.node \in {"&&", "||"} ->
           LET sub == [k \in DOMAIN c.items |-> condition_expr_sql(c.items[k])]
               clauses == [k \in DOMAIN sub |->
                             IF c.items[k].node \in {"&&", "||"} THEN <<Group(sub[k])>> ELSE sub[k]]
           IN IF \E k \in DOMAIN sub : sub[k] = <<>> THEN <<>> ELSE Join(IF c.node = "&&" THEN "AND" ELSE "OR", clauses)

\* Mutant: the clause of the program is not parenthesised.
WithParamsBare(c, extra) == Join("AND", <<condition_expr_sql(c)>> \o extra)

\* soft_delete_where and tenant_condition are appended to the program's clause.
WithParams(c, extra) ==
    Join("AND", <<IF c.node = "||" /\ extra # <<>> THEN <<Group(condition_expr_sql(c))>>
                                                   ELSE condition_expr_sql(c)>> \o extra)

Extra(coll) ==
    (IF coll.soft_delete THEN <<<<Atom([is |-> "live"])>>>> ELSE <<>>)
        \o (IF coll.tenant THEN <<<<Atom([is |-> "mine"])>>>> ELSE <<>>)

\* condition_sql: the clause, or <<>> for "evaluate it row by row".
condition_sql(e, coll) ==
    LET c == recognize_predicate_tree(e) IN
    IF c = NoNode THEN <<>>
    ELSE IF condition_expr_sql(c) = <<>> THEN <<>> ELSE WithParams(c, Extra(coll))

(* What the database answers: 0 is false, 1 unknown and 2 true --------------*)
Sure(b) == IF b THEN 2 ELSE 0
Negated(neg, t) == IF neg THEN 2 - t ELSE t

\* LIKE ignores the case of the ASCII letters on SQLite, not on PostgreSQL.
Folded(backend, letter) == IF backend = "sqlite" /\ letter = "A" THEN "a" ELSE letter

RECURSIVE Like(_, _, _)
Like(backend, like, text) ==
    CASE like = <<>> -> text = <<>>
      [] like # <<>> /\ Head(like).wild ->
           \E k \in 1..Len(text) + 1 : Like(backend, Tail(like), SubSeq(text, k, Len(text)))
      [] OTHER -> /\ text # <<>>
                  /\ Folded(backend, Head(text)) = Folded(backend, Head(like).letter)
                  /\ Like(backend, Tail(like), Tail(text))

SqlAtom(backend, a, row) ==
    CASE a.is = "const" -> Sure(a.value)
      [] a.is = "live" -> Sure(row.live)
      [] a.is = "mine" -> Sure(row.mine)
      [] a.is = "pair" -> Sure(Ordered(a.op, row[a.field].data, row[a.other].data))
      [] a.is = "null" -> Negated(a.negated, Sure(row[a.field] = Null))
      [] a.is \in {"cmp", "in", "like"} /\ row[a.field] = Null -> 1
      [] OTHER ->
           LET cell == row[a.field] IN
           CASE a.is = "like" -> Negated(a.negated, Sure(Like(backend, a.like, cell.data)))
             [] a.is = "in" -> Negated(a.negated, IF cell \in a.values THEN 2
                                                  ELSE IF Null \in a.values THEN 1 ELSE 0)
             [] a.is = "cmp" -> CASE a.value = Null -> 1
                                  [] a.op = "==" -> Sure(cell = a.value)
                                  [] a.op = "!=" -> Sure(cell # a.value)
                                  [] OTHER -> Sure(Ordered(a.op, cell.data, a.value.data))

\* AND binds tighter than OR.
RECURSIVE SqlValue(_, _, _)
SqlValue(backend, clause, row) ==
    LET Of(token) == IF token.sql = "group" THEN SqlValue(backend, token.clause, row)
                                            ELSE SqlAtom(backend, token.atom, row)
        Least(x, y) == IF x < y THEN x ELSE y
        Most(x, y)  == IF x < y THEN y ELSE x
        Step(acc, token) ==
            CASE token.sql = "OR" -> [any |-> Most(acc.any, acc.all), all |-> 2]
              [] token.sql = "AND" -> acc
              [] OTHER -> [acc EXCEPT !.all = Least(@, Of(token))]
        end == FoldLeft(Step, [any |-> 0, all |-> 2], clause)
    IN Most(end.any, end.all)

Selects(backend, clause, row) == SqlValue(backend, clause, row) = 2

(* The methods.  A table is a function from ids to rows, visited in the     *)
(* order of the ids; ids are numbers here, of the kind coll.id.             *)
Visible(coll, row) == (coll.soft_delete => row.live) /\ (coll.tenant => row.mine)

\* findWhere, countWhere and the match of upsert: the rows they see.
Found(e, coll, table) ==
    LET clause == condition_sql(e, coll)
    IN {id \in DOMAIN table : IF clause # <<>> THEN Selects(coll.backend, clause, table[id])
                              ELSE Visible(coll, table[id]) /\ Holds(e, table[id])}

Outcome(table, count, published, failed) ==
    [table |-> table, count |-> count, published |-> published, failed |-> failed]

Delete(coll, table, ids) ==
    IF coll.soft_delete THEN [id \in DOMAIN table |-> [table[id] EXCEPT !.live = @ /\ id \notin ids]]
                        ELSE [id \in DOMAIN table \ ids |-> table[id]]

\* One delete per row; only a numeric id is deleted.
deleteWhere(e, coll, table) ==
    LET ids == IF coll.id = "Int" THEN Found(e, coll, table) ELSE {}
    IN Outcome(Delete(coll, table, ids), Cardinality(ids), ids, FALSE)

Patched(row, patch) == [f \in DOMAIN row |-> IF f \in DOMAIN patch THEN patch[f] ELSE row[f]]

\* `name` is unique in the table, deleted rows and other tenants included.
Unique(table) == \A i, j \in DOMAIN table : i # j => table[i].name # table[j].name

\* One UPDATE, that publishes nothing.
UpdateByStatement(clause, patch, coll, table) ==
    LET ids == {id \in DOMAIN table : Selects(coll.backend, clause, table[id])}
        new == [id \in DOMAIN table |-> IF id \in ids THEN Patched(table[id], patch) ELSE table[id]]
    IN IF Unique(new) THEN Outcome(new, Cardinality(ids), {}, FALSE) ELSE Outcome(table, 0, {}, TRUE)

\* One applyPatch per row; a row that fails, or whose id is a String, is passed over.
UpdateRowByRow(e, patch, coll, table) ==
    LET ids == IF coll.id = "String" THEN {} ELSE Found(e, coll, table)
        Step(acc, id) ==
            LET new == [acc.table EXCEPT ![id] = Patched(@, patch)]
            IN IF id \in ids /\ Unique(new)
               THEN Outcome(new, acc.count + 1, acc.published \cup {id}, FALSE) ELSE acc
    IN FoldLeft(Step, Outcome(table, 0, {}, FALSE), SetToSortSeq(DOMAIN table, <))

\* A patch that sets nothing is answered before the condition is looked at.
updateWhere(e, patch, coll, table) ==
    LET clause == condition_sql(e, coll)
    IN CASE recognize_predicate_tree(e) = NoNode -> UpdateRowByRow(e, patch, coll, table)
         [] recognize_predicate_tree(e) # NoNode ->
              IF \E f \in DOMAIN patch : Columns[f].json \/ Columns[f].encrypted
              THEN UpdateRowByRow(e, patch, coll, table)
              ELSE IF patch = <<>> THEN Outcome(table, 0, {}, FALSE)
              ELSE IF clause = <<>> THEN UpdateRowByRow(e, patch, coll, table)
              ELSE UpdateByStatement(clause, patch, coll, table)
=============================================================================
