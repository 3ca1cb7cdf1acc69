------------------------------- MODULE Typing -------------------------------
(***************************************************************************)
(* Expressions, statements and closures: the type the checker finds         *)
(* (compiler/src/checker.rs) and what the interpreter does with a body the  *)
(* checker accepted (compiler/src/runtime/mod.rs).                          *)
(*                                                                          *)
(* Names are resolved to variables only: the global names (db, time, ...)   *)
(* are not here.  A function has one parameter, and reduce() takes a literal *)
(* closure.  match is module Matching, the built-in methods are Methods.    *)
(***************************************************************************)
EXTENDS Methods

LOCAL SetsExt == INSTANCE FiniteSetsExt

CONSTANT MaxSteps   \* MAX_WHILE_ITERATIONS

(* Syntax ------------------------------------------------------------------*)
Const(v)        == [e |-> "Lit", value |-> v]
Var(x)          == [e |-> "Var", name |-> x]
FieldOf(b, f)   == [e |-> "Field", of |-> b, name |-> f]
Method(b, m, as) == [e |-> "Method", of |-> b, name |-> m, args |-> as]
Reducer(a, x, b) == [e |-> "Reducer", acc |-> a, item |-> x, body |-> b]   \* |a, x| { b }
TupleAt(b, i)   == [e |-> "TupleAt", of |-> b, at |-> i]
Index(b, i)     == [e |-> "Index", of |-> b, at |-> i]
ListLit(es)     == [e |-> "List", items |-> es]
StructLit(fs)   == [e |-> "Struct", fields |-> fs]
Bin(op, l, r)   == [e |-> "Bin", op |-> op, left |-> l, right |-> r]
Not(x)          == [e |-> "Not", of |-> x]
Neg(x)          == [e |-> "Neg", of |-> x]
If(c, a, b)     == [e |-> "If", cond |-> c, then |-> a, else |-> b]
Closure(x, t, b) == [e |-> "Closure", param |-> x, type |-> t, body |-> b]
Call(f, x)      == [e |-> "Call", callee |-> f, arg |-> x]
Range(a, b)     == [e |-> "Range", from |-> a, to |-> b]   \* after "in" only
NoExpr          == [e |-> "None"]

Let(x, t, v)    == [s |-> "Let", name |-> x, mutable |-> FALSE, type |-> t, value |-> v]
LetMut(x, t, v) == [Let(x, t, v) EXCEPT !.mutable = TRUE]
Assign(x, v)    == [s |-> "Assign", name |-> x, value |-> v]
Return(v)       == [s |-> "Return", value |-> v]
Do(x)           == [s |-> "Expr", value |-> x]
While(c, b)     == [s |-> "While", cond |-> c, body |-> b]
For(x, l, b)    == [s |-> "For", var |-> x, list |-> l, body |-> b]
Block(ss, t)    == [e |-> "Block", stmts |-> ss, tail |-> t]

Ill      == Scalar("error")      \* what has no type
Inferred == Scalar("inferred")   \* no annotation
Unknown  == Scalar("unknown")    \* nothing is expected
Binding(t, m) == [type |-> t, mutable |-> m]

(* Checking ----------------------------------------------------------------*)
Numeric == {"Int", "Int64", "Decimal", "Float"}

\* A field that may be absent is read as an optional one.
FieldType(f) == IF f.optional THEN Optional(f.type) ELSE f.type

\* Some order of a set.
InOrder(S) == SetsExt!FoldSet(LAMBDA x, s : Append(s, x), <<>>, S)

RECURSIVE HoldsFunction(_)
HoldsFunction(t) ==
    CASE t.kind = "Function" -> TRUE
      [] t.kind \in {"Optional", "List", "Map"} -> HoldsFunction(t.of)
      [] t.kind = "Tuple" -> \E p \in RangeOf(t.parts) : HoldsFunction(p)
      [] t.kind = "Struct" -> \E f \in DOMAIN t.fields : HoldsFunction(t.fields[f].type)
      [] OTHER -> FALSE

\* Mutant: any optional on the left, whatever the default is.
CoalesceAny(l, r) == IF l.kind = "Optional" THEN l.of ELSE Ill

\* a ?? b: the default is the inner type, or optional itself.
CoalesceType(l, r) ==
    IF l.kind # "Optional" THEN Ill
    ELSE IF Equivalent(r, l.of) THEN l.of
    ELSE IF r.kind = "Optional" /\ Equivalent(r.of, l.of) THEN l
    ELSE Ill

\* synth_binary once both sides have a type; && and || are checked instead.
BinaryType(op, l, r) ==
    CASE Ill \in {l, r} -> Ill
      [] op = "+" -> IF l = r /\ l.kind \in Numeric \cup {"String", "List"} THEN l ELSE Ill
      [] op \in {"-", "*", "/"} -> IF l = r /\ l.kind \in Numeric THEN l ELSE Ill
      [] op = "%" -> IF l = r /\ l.kind \in Numeric \ {"Decimal"} THEN l ELSE Ill
      [] op \in {"==", "!="} -> IF ~HoldsFunction(l) /\ ~HoldsFunction(r) /\ (Subtype(l, r) \/ Subtype(r, l))
                                THEN Scalar("Bool") ELSE Ill
      [] op \in {"<", "<=", ">", ">="} -> IF l = r /\ l.kind \in Numeric \cup {"Timestamp"}
                                          THEN Scalar("Bool") ELSE Ill
      [] op = "??" -> CoalesceType(l, r)

\* A return this block or a block inside it holds; a closure keeps its own.
RECURSIVE HasReturn(_), Hidden(_)
Hidden(x) == x.e = "If" /\ (Hidden(x.cond) \/ HasReturn(x.then) \/ HasReturn(x.else))
HasReturn(b) ==
    \/ \E s \in RangeOf(b.stmts) :
          \/ s.s = "Return"
          \/ s.s \in {"Let", "Assign", "Expr"} /\ Hidden(s.value)
          \/ s.s = "While" /\ (Hidden(s.cond) \/ HasReturn(s.body))
          \/ s.s = "For" /\ (Hidden(s.list) \/ HasReturn(s.body))
    \/ Hidden(b.tail)

RECURSIVE TypeOf(_, _, _)

\* synth_expr and check_expr: without and with a type that the context expects.
Synth(x, env) == TypeOf(x, Unknown, env)
Check(x, expected, env) == TypeOf(x, expected, env) # Ill

WhenOk(ok, t) == IF ok THEN t ELSE Ill
Param(x, t) == x :> Binding(t, FALSE)

\* synth_block: a block whose return type nothing tells.
SynthBlock(b, env) == IF HasReturn(b) THEN Ill ELSE Synth(b, env)

\* synth_callback_result: what a callback gives for an item of type t.
CallbackType(f, t, env) ==
    IF f.e = "Closure"
    THEN LET p == IF f.type = Inferred THEN t ELSE f.type
         IN IF Subtype(t, p) THEN SynthBlock(f.body, Param(f.param, p) @@ env) ELSE Ill
    ELSE LET u == Synth(f, env) IN IF u.kind = "Function" /\ Subtype(t, u.param) THEN u.ret ELSE Ill

\* try_builtin_method, on a receiver of type t.
MethodType(m, args, t, env) ==
    LET methods == MethodsOf(t)
        takes   == methods[m].takes
    IN CASE t.kind = "List" /\ m \in Callbacks /\ Len(args) = 1 ->
              LET u == CallbackType(args[1], t.of, env)
              IN IF u # Ill /\ CallbackAllows(m, u) THEN CallbackGives(m, t.of, u) ELSE Ill
         [] t.kind = "List" /\ m = "zip" /\ Len(args) = 1 ->
              LET u == Synth(args[1], env) IN IF u.kind = "List" THEN ListOf(TupleT(<<t.of, u.of>>)) ELSE Ill
         [] t.kind = "List" /\ m = "reduce" /\ Len(args) = 2 ->
              LET u == Synth(args[1], env)
              IN IF u = Ill \/ args[2].e # "Reducer" THEN Ill
                 ELSE TypeOf(args[2].body, u, Param(args[2].item, t.of) @@ Param(args[2].acc, u) @@ env)
         [] m \in DOMAIN methods ->
              WhenOk(Len(args) = Len(takes) /\ \A i \in DOMAIN args : Check(args[i], takes[i], env), methods[m].gives)
         [] OTHER -> Ill

\* check_stmt: whether a statement of a block that has to give this type checks.
StatementChecks(s, declared, looped, expected, env) ==
    CASE s.s = "Let" -> declared # Ill
      [] s.s = "Assign" -> s.name \in DOMAIN env /\ env[s.name].mutable /\ Check(s.value, env[s.name].type, env)
      [] s.s = "Return" -> IF s.value = NoExpr THEN Subtype(Void, expected) ELSE Check(s.value, expected, env)
      [] s.s = "Expr" -> TypeOf(s.value, IF s.value.e = "If" THEN Void ELSE Unknown, env) # Ill
      [] s.s = "While" -> Check(s.cond, BoolT, env) /\ ~HasReturn(s.body) /\ Check(s.body, Void, env)
      [] s.s = "For" -> looped.kind = "List" /\ ~HasReturn(s.body) /\ Check(s.body, Void, Param(s.var, looped.of) @@ env)

\* check_block and synth_block: each statement in the scope that those before it leave.
BlockType(b, expected, env) ==
    IF b.stmts # <<>>
    THEN LET s == Head(b.stmts)
             declared == IF s.s # "Let" THEN Void
                         ELSE TypeOf(s.value, IF s.type = Inferred THEN Unknown ELSE s.type, env)
             looped == IF s.s # "For" THEN Void
                       ELSE IF s.list.e # "Range" THEN Synth(s.list, env)
                       ELSE WhenOk(Check(s.list.from, IntT, env) /\ Check(s.list.to, IntT, env), ListOf(IntT))
             scope == IF s.s = "Let" THEN (s.name :> Binding(declared, s.mutable)) @@ env ELSE env
         IN IF StatementChecks(s, declared, looped, expected, env)
            THEN TypeOf([b EXCEPT !.stmts = Tail(@)], expected, scope) ELSE Ill
    ELSE IF b.tail # NoExpr THEN TypeOf(b.tail, expected, env)
    ELSE IF expected = Unknown THEN Void ELSE WhenOk(Subtype(Void, expected), expected)

\* The type of an expression that nothing is expected of.
SynthType(x, env) ==
    CASE x.e = "Lit" -> Scalar(x.value.is)
      [] x.e = "Var" -> IF x.name \in DOMAIN env THEN env[x.name].type ELSE Ill
      [] x.e = "Field" -> LET t == Synth(x.of, env)
                          IN IF t.kind = "Struct" /\ x.name \in DOMAIN t.fields THEN FieldType(t.fields[x.name]) ELSE Ill
      [] x.e = "Method" -> MethodType(x.name, x.args, Synth(x.of, env), env)
      [] x.e = "TupleAt" -> LET t == Synth(x.of, env)
                            IN IF t.kind = "Tuple" /\ x.at \in DOMAIN t.parts THEN t.parts[x.at] ELSE Ill
      [] x.e = "Index" -> LET t == Synth(x.of, env)
                          IN IF t.kind = "List" /\ Check(x.at, IntT, env) THEN t.of ELSE Ill
      [] x.e = "List" -> IF x.items = <<>> THEN Ill
                         ELSE LET t == Synth(x.items[1], env)
                              IN WhenOk(t # Ill /\ \A i \in 2..Len(x.items) : Check(x.items[i], t, env), ListOf(t))
      [] x.e = "Struct" -> LET ts == [f \in DOMAIN x.fields |-> Synth(x.fields[f], env)]
                           IN WhenOk(\A f \in DOMAIN ts : ts[f] # Ill, Struct([f \in DOMAIN ts |-> Required(ts[f])]))
      [] x.e = "Bin" -> IF x.op \in {"&&", "||"}
                        THEN WhenOk(Check(x.left, BoolT, env) /\ Check(x.right, BoolT, env), BoolT)
                        ELSE BinaryType(x.op, Synth(x.left, env), Synth(x.right, env))
      [] x.e = "Not" -> WhenOk(Check(x.of, BoolT, env), BoolT)
      [] x.e = "Neg" -> LET t == Synth(x.of, env) IN WhenOk(t.kind \in Numeric, t)
      [] x.e = "Call" -> LET f == Synth(x.callee, env)
                         IN IF f.kind = "Function" /\ Check(x.arg, f.param, env) THEN f.ret ELSE Ill
      [] x.e = "Closure" -> IF x.type = Inferred THEN Ill
                            ELSE LET ret == SynthBlock(x.body, Param(x.param, x.type) @@ env)
                                 IN WhenOk(ret # Ill, Fn(x.type, ret))
      [] x.e \in {"If", "Reducer"} -> Ill

\* check_closure: a closure where a function is expected.
CheckClosure(x, expected, env) ==
    IF expected.kind # "Function" THEN FALSE
    ELSE LET p == IF x.type = Inferred THEN expected.param ELSE x.type
         IN Subtype(expected.param, p) /\ Check(x.body, expected.ret, Param(x.param, p) @@ env)

TypeOf(x, expected, env) ==
    CASE x.e = "Block" -> BlockType(x, expected, env)
      [] x.e # "Block" /\ expected = Unknown -> SynthType(x, env)
      [] x.e = "If" /\ expected # Unknown ->
           WhenOk(Check(x.cond, BoolT, env) /\ Check(x.then, expected, env) /\ Check(x.else, expected, env), expected)
      [] x.e = "Closure" /\ expected # Unknown -> WhenOk(CheckClosure(x, expected, env), expected)
      [] x.e = "List" /\ expected # Unknown /\ x.items = <<>> -> WhenOk(expected.kind = "List", expected)
      [] OTHER -> LET t == Synth(x, env) IN WhenOk(t # Ill /\ Subtype(t, expected), expected)

(* Running -----------------------------------------------------------------*)
\* A machine: how the last step ended, its value, the cells of the variables and
\* the iterations so far.  "fails" is an error any program may meet (overflow,
\* division by zero, an index that is not there, too many iterations); "wrong" is
\* one that the checker exists to rule out; "shadowed" stands for the call of a field
\* of the value that has the name of the method.  A scope maps a name to its cell.
Machine(cells) == [end |-> "ok", v |-> Null, cells |-> cells, steps |-> 0]
Gives(m, v) == [m EXCEPT !.v = v]
Fails(m)    == [m EXCEPT !.end = "fails"]
Wrong(m)    == [m EXCEPT !.end = "wrong"]
Then(m, Next(_)) == IF m.end = "ok" THEN Next(m) ELSE m
IsBool(v)   == v.is = "Bool"

Number(m, k, n) == IF n = None THEN Fails(m) ELSE Gives(m, Data(k, n))

Less(op, a, b) == CASE op = "<" -> a < b [] op = "<=" -> a <= b [] op = ">" -> a > b [] op = ">=" -> a >= b

\* eval_binary on two values.  NaN is not among the floats here.
Apply(op, a, b, m) ==
    CASE op \in {"==", "!="} -> Gives(m, Data("Bool", Same(a, b) = (op = "==")))
      [] op = "+" /\ a.is = "String" /\ b.is = "String" -> Gives(m, Data("String", a.data \o b.data))
      [] op = "+" /\ a.is = "List" /\ b.is = "List" -> Gives(m, Items(a.items \o b.items))
      [] op \in {"+", "-", "*", "/", "%"} /\ a.is = b.is /\ a.is \in {"Int", "Int64"} ->
           Number(m, a.is, checked(op, MaxInt, a.data, b.data))
      [] op \in {"+", "-", "*", "/"} /\ a.is = "Decimal" /\ b.is = "Decimal" -> Number(m, "Decimal", decimal(op, a.data, b.data))
      [] op \in {"<", "<=", ">", ">="} /\ a.is = b.is /\ a.is \in {"Int", "Int64", "Decimal", "Timestamp"} ->
           Gives(m, Data("Bool", Less(op, a.data, b.data)))
      [] OTHER -> Wrong(m)

RECURSIVE Eval(_, _, _), EvalAll(_, _, _, _), Run(_, _, _, _), Repeat(_, _, _), Each(_, _, _, _), CallEach(_, _, _, _, _),
          Reduce(_, _, _, _)

EvalBlock(b, env, m) == Run(b.stmts, b.tail, env, m)

\* The cell of a variable that a let, a parameter or a loop brings.
Bound(m, v) == [m EXCEPT !.cells = Append(@, v)]
Scoped(env, x, m) == (x :> Len(m.cells) + 1) @@ env

Truth(m) == IF IsBool(m.v) THEN m ELSE Wrong(m)

EvalField(x, env, m) ==
    Then(Eval(x.of, env, m), LAMBDA r :
         IF r.v.is \notin {"Struct", "Variant"} THEN Wrong(r)
         ELSE Gives(r, IF x.name \in DOMAIN r.v.at THEN r.v.at[x.name] ELSE Null))

\* call_callable: a closure on one value.
Apply1(f, v, m) ==
    IF f.is # "Closure" THEN Wrong(m) ELSE EvalBlock(f.body, Scoped(f.env, f.param, m), Bound(m, v))

\* The callback on each item, from the first one; the value is the list of what they gave.
CallEach(name, f, items, got, m) ==
    IF Len(got) = Len(items) THEN Gives(m, Items(got))
    ELSE Then(Apply1(f, items[Len(got) + 1], m), LAMBDA r :
              IF CallbackGave(name, r.v) THEN CallEach(name, f, items, Append(got, r.v), r) ELSE Wrong(r))

Reduce(f, acc, items, m) ==
    IF items = <<>> THEN Gives(m, acc)
    ELSE LET first  == Bound(m, acc)
             second == Bound(first, Head(items))
         IN Then(EvalBlock(f.body, Scoped(Scoped(f.env, f.acc, m), f.item, first), second),
                 LAMBDA r : Reduce(f, r.v, Tail(items), r))

Ended(m, o) == [m EXCEPT !.end = o.end, !.v = o.v]

\* The value that is called on, the arguments, then the method.
EvalMethod(x, env, m) ==
    Then(Eval(x.of, env, m), LAMBDA r : Then(EvalAll(x.args, <<>>, env, r), LAMBDA a :
         LET args == a.v.items
             field == r.v.is = "Struct" /\ x.name \in DOMAIN r.v.at
         IN CASE field /\ (x.name \in {"isSome", "isNone"} \/ r.v.at[x.name].is = "Closure") -> [a EXCEPT !.end = "shadowed"]
              [] ~field /\ x.name \in {"isSome", "isNone"} -> Gives(a, BoolV((r.v # Null) = (x.name = "isSome")))
              [] r.v.is = "List" /\ x.name \in Callbacks \cup {"filter"} ->
                   Then(CallEach(x.name, args[1], r.v.items, <<>>, a), LAMBDA c : Ended(c, AfterCallbacks(x.name, r.v.items, c.v.items)))
              [] r.v.is = "List" /\ x.name = "reduce" -> Reduce(args[2], args[1], r.v.items, a)
              [] OTHER -> Ended(a, call_method(x.name, r.v, args))))

EvalTupleAt(x, env, m) ==
    Then(Eval(x.of, env, m), LAMBDA r :
         IF r.v.is # "Tuple" THEN Wrong(r) ELSE IF x.at \notin DOMAIN r.v.items THEN Fails(r) ELSE Gives(r, r.v.items[x.at]))

EvalIndex(x, env, m) ==
    Then(Eval(x.of, env, m), LAMBDA l : Then(Eval(x.at, env, l), LAMBDA r :
         IF l.v.is # "List" \/ r.v.is # "Int" THEN Wrong(r)
         ELSE IF r.v.data + 1 \notin DOMAIN l.v.items THEN Fails(r)
         ELSE Gives(r, l.v.items[r.v.data + 1])))

EvalStruct(x, env, m) ==
    LET names == InOrder(DOMAIN x.fields)
    IN Then(EvalAll([i \in DOMAIN names |-> x.fields[names[i]]], <<>>, env, m), LAMBDA r :
            Gives(r, Record([f \in DOMAIN x.fields |-> r.v.items[CHOOSE i \in DOMAIN names : names[i] = f]])))

\* eval_binary: && and || and ?? may leave their right side alone.
EvalBin(x, env, m) ==
    Then(Eval(x.left, env, m), LAMBDA l :
         CASE x.op \in {"&&", "||"} -> IF ~IsBool(l.v) THEN Wrong(l)
                                       ELSE IF l.v.data = (x.op = "||") THEN l
                                       ELSE Then(Eval(x.right, env, l), Truth)
           [] x.op = "??" -> IF l.v = Null THEN Eval(x.right, env, l) ELSE l
           [] OTHER -> Then(Eval(x.right, env, l), LAMBDA r : Apply(x.op, l.v, r.v, r)))

Negated(r) ==
    IF r.v.is \notin Numeric THEN Wrong(r)
    ELSE Number(r, r.v.is, checked("-", IF r.v.is = "Decimal" THEN MaxWide ELSE MaxInt, 0, r.v.data))

EvalIf(x, env, m) ==
    Then(Eval(x.cond, env, m), LAMBDA c :
         IF ~IsBool(c.v) THEN Wrong(c) ELSE EvalBlock(IF c.v.data THEN x.then ELSE x.else, env, c))

EvalCall(x, env, m) ==
    Then(Eval(x.callee, env, m), LAMBDA f : Then(Eval(x.arg, env, f), LAMBDA a : Apply1(f.v, a.v, a)))

Eval(x, env, m) ==
    CASE x.e = "Lit" -> Gives(m, x.value)
      [] x.e = "Var" -> IF x.name \in DOMAIN env THEN Gives(m, m.cells[env[x.name]]) ELSE Wrong(m)
      [] x.e = "Field" -> EvalField(x, env, m)
      [] x.e = "Method" -> EvalMethod(x, env, m)
      [] x.e = "TupleAt" -> EvalTupleAt(x, env, m)
      [] x.e = "Index" -> EvalIndex(x, env, m)
      [] x.e = "List" -> EvalAll(x.items, <<>>, env, m)
      [] x.e = "Struct" -> EvalStruct(x, env, m)
      [] x.e = "Bin" -> EvalBin(x, env, m)
      [] x.e = "Not" -> Then(Then(Eval(x.of, env, m), Truth), LAMBDA r : Gives(r, Data("Bool", ~r.v.data)))
      [] x.e = "Neg" -> Then(Eval(x.of, env, m), Negated)
      [] x.e = "If" -> EvalIf(x, env, m)
      [] x.e = "Closure" -> Gives(m, [is |-> "Closure", param |-> x.param, body |-> x.body, env |-> env])
      [] x.e = "Reducer" -> Gives(m, [is |-> "Reducer", acc |-> x.acc, item |-> x.item, body |-> x.body, env |-> env])
      [] x.e = "Call" -> EvalCall(x, env, m)

\* Expressions from left to right; the value is the list of theirs.
EvalAll(xs, vs, env, m) ==
    IF xs = <<>> THEN Gives(m, Items(vs))
    ELSE Then(Eval(Head(xs), env, m), LAMBDA r : EvalAll(Tail(xs), Append(vs, r.v), env, r))

\* let: always a new cell.
Declare(s, env, m) == [env |-> Scoped(env, s.name, m), m |-> Bound(m, m.v)]

\* eval_block.  A return ends this block only, and its value is the value of the block.
Run(stmts, tail, env, m) ==
    IF stmts = <<>> THEN IF tail = NoExpr THEN Gives(m, Null) ELSE Eval(tail, env, m)
    ELSE LET s == Head(stmts)
         IN CASE s.s = "Let" ->
                   Then(Eval(s.value, env, m), LAMBDA r :
                        LET d == Declare(s, env, r) IN Run(Tail(stmts), tail, d.env, d.m))
              [] s.s = "Assign" ->
                   Then(Eval(s.value, env, m), LAMBDA r :
                        IF s.name \notin DOMAIN env THEN Wrong(r)
                        ELSE Run(Tail(stmts), tail, env, [r EXCEPT !.cells[env[s.name]] = r.v]))
              [] s.s = "Return" -> IF s.value = NoExpr THEN Gives(m, Null) ELSE Eval(s.value, env, m)
              [] s.s = "Expr" -> Then(Eval(s.value, env, m), LAMBDA r : Run(Tail(stmts), tail, env, r))
              [] s.s = "While" -> Then(Repeat(s, env, m), LAMBDA r : Run(Tail(stmts), tail, env, r))
              [] s.s = "For" /\ s.list.e = "Range" ->
                   Then(Eval(s.list.from, env, m), LAMBDA a : Then(Eval(s.list.to, env, a), LAMBDA b :
                        IF {a.v.is, b.v.is} # {"Int"} THEN Wrong(b)
                        ELSE Then(Each(s, [n \in 1..(b.v.data - a.v.data) |-> Data("Int", a.v.data + n - 1)], env, b),
                                  LAMBDA r : Run(Tail(stmts), tail, env, r))))
              [] s.s = "For" /\ s.list.e # "Range" ->
                   Then(Eval(s.list, env, m), LAMBDA l :
                        IF l.v.is # "List" THEN Wrong(l)
                        ELSE Then(Each(s, l.v.items, env, l), LAMBDA r : Run(Tail(stmts), tail, env, r)))

\* One more iteration of a loop; every loop of the call counts.
Iterate(b, env, m) ==
    IF m.steps = MaxSteps THEN Fails(m) ELSE EvalBlock(b, env, [m EXCEPT !.steps = @ + 1])

Repeat(s, env, m) ==
    Then(Eval(s.cond, env, m), LAMBDA c :
         IF ~IsBool(c.v) THEN Wrong(c)
         ELSE IF ~c.v.data THEN c
         ELSE Then(Iterate(s.body, env, c), LAMBDA r : Repeat(s, env, r)))

Each(s, vs, env, m) ==
    IF vs = <<>> THEN m
    ELSE Then(Iterate(s.body, Scoped(env, s.var, m), Bound(m, Head(vs))), LAMBDA r : Each(s, Tail(vs), env, r))

\* A body called with arguments: args maps its parameters to their values.
Called(b, args) ==
    LET names == InOrder(DOMAIN args)
    IN EvalBlock(b, [x \in DOMAIN args |-> CHOOSE i \in DOMAIN names : names[i] = x],
                 Machine([i \in DOMAIN names |-> args[names[i]]]))
=============================================================================
