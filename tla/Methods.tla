------------------------------ MODULE Methods ------------------------------
(***************************************************************************)
(* The methods of the built-in types: what the checker allows               *)
(* (compiler/src/checker.rs, try_builtin_method) and what the interpreter   *)
(* does (compiler/src/runtime/mod.rs, call_method).                         *)
(*                                                                          *)
(* A string is the sequence of its characters, each one byte wide.  Left    *)
(* out: what only formats or rewrites text (toString, trim, case, HTML,     *)
(* slugs, regular expressions), floats and UUIDs.  A map is a function, so  *)
(* the order of its keys is some order of them.                             *)
(***************************************************************************)
EXTENDS Matching, Arithmetic, TLC

LOCAL INSTANCE SequencesExt

CONSTANTS
    MaxPad,      \* MAX_PAD_LENGTH
    MaxRepeat    \* MAX_REPEAT_LEN

Fn(p, r) == [kind |-> "Function", param |-> p, ret |-> r]
Void     == Scalar("Void")
IntT     == Scalar("Int")
BoolT    == Scalar("Bool")
StringT  == Scalar("String")
Stamp    == Scalar("Timestamp")
TupleT(ts) == [kind |-> "Tuple", parts |-> ts]
Pair(a, b) == [is |-> "Tuple", items |-> <<a, b>>]

(* What the checker allows --------------------------------------------------*)
Takes(ts, t) == [takes |-> ts, gives |-> t]

OrderableKey(t) == t.kind \in {"Int", "Int64", "Float", "Decimal", "String", "Bool", "Timestamp"}
SafeEquality(t) == t.kind \in {"Int", "Int64", "Float", "String", "Bool", "Timestamp"}

\* The methods of List<T> whose arguments and result the element type settles.
ListMethods(t) ==
    [join |-> Takes(<<StringT>>, StringT), reverse |-> Takes(<<>>, ListOf(t)), take |-> Takes(<<IntT>>, ListOf(t)),
     slice |-> Takes(<<IntT, IntT>>, ListOf(t)), length |-> Takes(<<>>, IntT), filter |-> Takes(<<Fn(t, BoolT)>>, ListOf(t))]
    @@ (IF t = IntT THEN "sum" :> Takes(<<>>, IntT) ELSE <<>>)
    @@ (IF SafeEquality(t)
        THEN [contains |-> Takes(<<t>>, BoolT), indexOf |-> Takes(<<t>>, IntT), unique |-> Takes(<<>>, ListOf(t))]
        ELSE <<>>)

MapMethods(v) ==
    [get |-> Takes(<<StringT>>, Optional(v)), set |-> Takes(<<StringT, v>>, MapOf(v)), has |-> Takes(<<StringT>>, BoolT),
     remove |-> Takes(<<StringT>>, MapOf(v)), keys |-> Takes(<<>>, ListOf(StringT)), values |-> Takes(<<>>, ListOf(v)),
     entries |-> Takes(<<>>, ListOf(TupleT(<<StringT, v>>)))]

StringMethods ==
    [m \in {"contains", "startsWith", "endsWith"} |-> Takes(<<StringT>>, BoolT)]
    @@ [m \in {"padStart", "padEnd", "truncate"} |-> Takes(<<IntT, StringT>>, StringT)]
    @@ [length |-> Takes(<<>>, IntT), substring |-> Takes(<<IntT, IntT>>, StringT),
        replace |-> Takes(<<StringT, StringT>>, StringT), split |-> Takes(<<StringT>>, ListOf(StringT)),
        repeat |-> Takes(<<IntT>>, StringT), indexOf |-> Takes(<<StringT>>, IntT), charAt |-> Takes(<<IntT>>, StringT)]

NumberMethods ==
    [Int |-> [toInt64 |-> Takes(<<>>, Scalar("Int64")), toDecimal |-> Takes(<<>>, Scalar("Decimal"))],
     Int64 |-> [toInt |-> Takes(<<>>, IntT)]]

StampMethods ==
    [m \in {"addSeconds", "addMinutes", "addHours", "addDays"} |-> Takes(<<IntT>>, Stamp)]
    @@ [addMillis |-> Takes(<<Scalar("Int64")>>, Stamp), toMillis |-> Takes(<<>>, Scalar("Int64")),
        diffMillis |-> Takes(<<Stamp>>, Scalar("Int64"))]

MethodsOf(t) ==
    CASE t.kind = "Optional" -> [m \in {"isSome", "isNone"} |-> Takes(<<>>, BoolT)]
      [] t.kind = "List" -> ListMethods(t.of)
      [] t.kind = "Map" -> MapMethods(t.of)
      [] t.kind = "String" -> StringMethods
      [] t.kind \in DOMAIN NumberMethods -> NumberMethods[t.kind]
      [] t.kind = "Timestamp" -> StampMethods
      [] OTHER -> <<>>

\* The methods whose result the type u of their callback decides, on a List<T>.
Callbacks == {"map", "flatMap", "sortBy", "sortByDesc", "groupBy"}
CallbackAllows(m, u) ==
    CASE m = "map" -> TRUE
      [] m = "flatMap" -> u.kind = "List"
      [] m \in {"sortBy", "sortByDesc"} -> OrderableKey(IF u.kind = "Optional" THEN u.of ELSE u)
      [] m = "groupBy" -> u = StringT
CallbackGives(m, t, u) ==
    CASE m = "map" -> ListOf(u)
      [] m = "flatMap" -> u
      [] m \in {"sortBy", "sortByDesc"} -> ListOf(t)
      [] m = "groupBy" -> MapOf(ListOf(t))

(* What the interpreter does -------------------------------------------------*)
\* How a method ends: with a value, with an error that any program may meet, or
\* with one about a value of a kind that the checker should have ruled out.
Ok(v)      == [end |-> "ok", v |-> v]
FailsIf(c, v) == IF c THEN [end |-> "fails", v |-> Null] ELSE Ok(v)
Mistaken   == [end |-> "wrong", v |-> Null]
Fits(k, n) == FailsIf(n = None, Data(k, n))
IntV(n)     == Data("Int", n)
StrV(s)     == Data("String", s)
BoolV(b)   == Data("Bool", b)

\* PartialEq on values: kinds first.
Same(a, b) == a.is = b.is /\ a = b
Least(S)   == CHOOSE n \in S : \A k \in S : n <= k

Char(s, i) == SubSeq(s, i, i)
\* The places where n occurs in s, counted from zero.
Places(s, n) == {i \in 0..Len(s) - Len(n) : SubSeq(s, i + 1, i + Len(n)) = n}
IndexIn(s, n) == IF Places(s, n) = {} THEN -1 ELSE Least(Places(s, n))

\* str::split.  An empty separator is found before and after every character.
RECURSIVE Pieces(_, _)
Pieces(s, sep) ==
    IF sep = "" THEN <<"">> \o [i \in 1..Len(s) |-> Char(s, i)] \o <<"">>
    ELSE IF Places(s, sep) = {} THEN <<s>>
    ELSE LET i == IndexIn(s, sep)
         IN <<SubSeq(s, 1, i)>> \o Pieces(SubSeq(s, i + Len(sep) + 1, Len(s)), sep)

Joined(parts, sep) ==
    IF parts = <<>> THEN "" ELSE FoldLeft(LAMBDA s, p : s \o sep \o p, Head(parts), Tail(parts))

Repeated(s, n) == FoldLeft(LAMBDA t, k : t \o s, "", [k \in 1..n |-> k])

pad_to_length(s, n, pad, at_start) ==
    LET fill == SubSeq(Repeated(pad, n), 1, n - Len(s))
    IN IF n \notin 0..MaxPad THEN FailsIf(TRUE, Null)
       ELSE IF Len(s) >= n THEN Ok(StrV(s))
       ELSE IF pad = "" THEN FailsIf(TRUE, Null)
       ELSE Ok(StrV(IF at_start THEN fill \o s ELSE s \o fill))

\* The suffix counts within n, and is never shortened.
Truncated(s, n, suffix) ==
    LET keep == IF Len(suffix) > n THEN 0 ELSE n - Len(suffix)
    IN FailsIf(n < 0, StrV(IF Len(s) <= n THEN s ELSE SubSeq(s, 1, keep) \o suffix))

\* Half-open bounds counted from zero, refused when they do not lie in s.
Cut(s, from, to) == from < 0 \/ to > Len(s) \/ from > to

KindsOf(args) == [i \in DOMAIN args |-> args[i].is]

\* The kinds of the arguments that a method of strings looks at.
StringMethodReads(m) ==
    CASE m \in {"contains", "startsWith", "endsWith", "indexOf", "split"} -> <<"String">>
      [] m \in {"repeat", "charAt"} -> <<"Int">>
      [] m \in {"padStart", "padEnd", "truncate"} -> <<"Int", "String">>
      [] m = "substring" -> <<"Int", "Int">>
      [] m = "replace" -> <<"String", "String">>
      [] OTHER -> <<>>

StringMethod(m, s, args) ==
    LET a == args[1].data
        b == args[2].data
    IN IF KindsOf(args) # StringMethodReads(m) THEN Mistaken
       ELSE CASE m = "length" -> Ok(IntV(Len(s)))
         [] m = "contains" -> Ok(BoolV(Places(s, a) # {}))
         [] m = "startsWith" -> Ok(BoolV(0 \in Places(s, a)))
         [] m = "endsWith" -> Ok(BoolV(Len(s) - Len(a) \in Places(s, a)))
         [] m = "indexOf" -> Ok(IntV(IndexIn(s, a)))
         [] m = "split" -> Ok(Items([i \in DOMAIN Pieces(s, a) |-> StrV(Pieces(s, a)[i])]))
         [] m = "replace" -> Ok(StrV(Joined(Pieces(s, a), b)))
         [] m = "substring" -> FailsIf(Cut(s, a, b), StrV(SubSeq(s, a + 1, b)))
         [] m = "charAt" -> FailsIf(a \notin 0..Len(s) - 1, StrV(Char(s, a + 1)))
         [] m = "repeat" -> FailsIf(a < 0 \/ Len(s) * a > MaxRepeat, StrV(Repeated(s, a)))
         [] m \in {"padStart", "padEnd"} -> pad_to_length(s, a, b, m = "padStart")
         [] m = "truncate" -> Truncated(s, a, b)
         [] OTHER -> Mistaken

\* Texts by their characters, of which these are some in their order.
Alphabet == <<"a", "b", "w">>
Rank(c)  == CHOOSE i \in DOMAIN Alphabet : Alphabet[i] = c
TextLess(s, t) ==
    \E i \in 0..Len(s) : /\ i < Len(t) /\ SubSeq(s, 1, i) = SubSeq(t, 1, i)
                         /\ i = Len(s) \/ Rank(Char(s, i + 1)) < Rank(Char(t, i + 1))

KeyLess(a, b) ==
    CASE a.is = "String" -> TextLess(a.data, b.data)
      [] a.is = "Bool" -> ~a.data /\ b.data
      [] OTHER -> a.data < b.data

\* Mutant: the order is turned round with the nulls in it.
NullsTurned(a, b, desc) ==
    LET less(x, y) == IF Null \in {x, y} THEN y = Null /\ x # Null ELSE KeyLess(x, y)
    IN IF desc THEN less(b, a) ELSE less(a, b)

\* order_cmp: null comes last in both directions.
KeyBefore(a, b, desc) ==
    IF Null \in {a, b} THEN b = Null /\ a # Null
    ELSE IF desc THEN KeyLess(b, a) ELSE KeyLess(a, b)

Orderable(keys) ==
    LET kinds == {k.is : k \in RangeOf(keys)} \ {"Null"}
    IN Cardinality(kinds) <= 1 /\ \A k \in kinds : OrderableKey(Scalar(k))

\* A stable sort.
Sorted(items, keys, desc) ==
    LET order == SetToSortSeq(DOMAIN items,
                     LAMBDA i, j : KeyBefore(keys[i], keys[j], desc) \/ (~KeyBefore(keys[j], keys[i], desc) /\ i < j))
    IN [i \in DOMAIN order |-> items[order[i]]]

\* What each callback has to give, and what the method makes of all of them.
CallbackGave(m, v) ==
    CASE m \in {"map", "sortBy", "sortByDesc"} -> TRUE
      [] m = "filter" -> v.is = "Bool"
      [] m = "flatMap" -> v.is = "List"
      [] m = "groupBy" -> v.is = "String"
AfterCallbacks(m, items, got) ==
    CASE m = "map" -> Ok(Items(got))
      [] m = "filter" -> LET kept == SelectSeq([i \in DOMAIN got |-> i], LAMBDA i : got[i].data)
                         IN Ok(Items([i \in DOMAIN kept |-> items[kept[i]]]))
      [] m = "flatMap" -> Ok(Items(FlattenSeq([i \in DOMAIN got |-> got[i].items])))
      [] m \in {"sortBy", "sortByDesc"} ->
           IF Len(items) > 1 /\ ~Orderable(got) THEN Mistaken ELSE Ok(Items(Sorted(items, got, m = "sortByDesc")))
      [] m = "groupBy" ->
           Ok(Record([k \in {v.data : v \in RangeOf(got)} |->
                  LET mine == SelectSeq([i \in DOMAIN got |-> i], LAMBDA i : got[i].data = k)
                  IN Items([i \in DOMAIN mine |-> items[mine[i]]])]))

\* What join writes of an item that is no string is left open.
Shown(v) == IF v.is = "String" THEN v.data ELSE "?"

Position(v, items) == {i \in DOMAIN items : Same(items[i], v)}

\* sum(): every partial sum has to fit.
Total(items) ==
    FoldLeft(LAMBDA t, v : IF t = None THEN None ELSE checked("+", MaxInt, t, v.data), 0, items)

ListMethod(m, items, args) ==
    CASE m = "length" -> Ok(IntV(Len(items)))
      [] m = "reverse" -> Ok(Items(Reverse(items)))
      [] m = "take" -> IF KindsOf(args) # <<"Int">> THEN Mistaken
                       ELSE LET n == args[1].data   \* a negative one is read as a huge one
                            IN Ok(Items(IF n \in 0..Len(items) THEN SubSeq(items, 1, n) ELSE items))
      [] m = "slice" -> IF KindsOf(args) # <<"Int", "Int">> THEN Mistaken
                        ELSE FailsIf(Cut(items, args[1].data, args[2].data),
                                     Items(SubSeq(items, args[1].data + 1, args[2].data)))
      [] m = "sum" -> IF \E v \in RangeOf(items) : v.is # "Int" THEN Mistaken ELSE Fits("Int", Total(items))
      [] m = "join" -> IF KindsOf(args) # <<"String">> THEN Mistaken
                       ELSE Ok(StrV(Joined([i \in DOMAIN items |-> Shown(items[i])], args[1].data)))
      [] m = "contains" -> Ok(BoolV(Position(args[1], items) # {}))
      [] m = "indexOf" -> Ok(IntV(IF Position(args[1], items) = {} THEN -1 ELSE Least(Position(args[1], items)) - 1))
      [] m = "unique" -> Ok(Items(FoldLeft(LAMBDA out, v : IF Position(v, out) = {} THEN Append(out, v) ELSE out, <<>>, items)))
      [] m = "zip" -> IF KindsOf(args) # <<"List">> THEN Mistaken
                      ELSE LET other == args[1].items
                           IN Ok(Items([i \in DOMAIN items \cap DOMAIN other |-> Pair(items[i], other[i])]))
      [] OTHER -> Mistaken

MapMethod(m, fields, args) ==
    LET key == args[1].data
        names == SetToSeq(DOMAIN fields)
    IN IF m \in {"get", "has", "remove", "set"} /\ Head(KindsOf(args)) # "String" THEN Mistaken
       ELSE CASE m = "get" -> Ok(IF key \in DOMAIN fields THEN fields[key] ELSE Null)
         [] m = "has" -> Ok(BoolV(key \in DOMAIN fields))
         [] m = "remove" -> Ok(Record([k \in DOMAIN fields \ {key} |-> fields[k]]))
         [] m = "set" -> Ok(Record((key :> args[2]) @@ fields))
         [] m = "keys" -> Ok(Items([i \in DOMAIN names |-> StrV(names[i])]))
         [] m = "values" -> Ok(Items([i \in DOMAIN names |-> fields[names[i]]]))
         [] m = "entries" -> Ok(Items([i \in DOMAIN names |-> Pair(StrV(names[i]), fields[names[i]])]))
         [] OTHER -> Mistaken

\* A release build wraps round where nothing checks.
Wrapped(n) == ((n + MaxInt + 1) % (2 * MaxInt + 2)) - MaxInt - 1

Millis == [addSeconds |-> 1000, addMinutes |-> 60000, addHours |-> 3600000, addDays |-> 86400000]
checked_timestamp_offset(ms, n, unit) ==
    LET delta == checked("*", MaxInt, n, unit)
    IN Fits("Timestamp", IF delta = None THEN None ELSE checked("+", MaxInt, ms, delta))

StampMethod(m, ms, args) ==
    CASE m = "toMillis" -> Ok(Data("Int64", ms))
      [] m = "diffMillis" -> IF KindsOf(args) # <<"Timestamp">> THEN Mistaken ELSE Ok(Data("Int64", Wrapped(ms - args[1].data)))
      [] m = "addMillis" -> IF KindsOf(args) # <<"Int64">> THEN Mistaken ELSE Fits("Timestamp", checked("+", MaxInt, ms, args[1].data))
      [] m \in DOMAIN Millis -> IF KindsOf(args) # <<"Int">> THEN Mistaken ELSE checked_timestamp_offset(ms, args[1].data, Millis[m])
      [] OTHER -> Mistaken

call_method(m, v, args) ==
    CASE v.is = "List" -> ListMethod(m, v.items, args)
      [] v.is = "Struct" -> MapMethod(m, v.at, args)
      [] v.is = "String" -> StringMethod(m, v.data, args)
      [] v.is = "Timestamp" -> StampMethod(m, v.data, args)
      [] v.is = "Int" /\ m = "toInt64" -> Ok(Data("Int64", v.data))
      [] v.is = "Int" /\ m = "toDecimal" -> Fits("Decimal", checked("*", MaxWide, v.data, Scale))
      [] v.is = "Int64" /\ m = "toInt" -> Ok(IntV(v.data))
      [] OTHER -> Mistaken
=============================================================================
