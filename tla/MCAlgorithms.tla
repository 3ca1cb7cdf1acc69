---------------------------- MODULE MCAlgorithms ----------------------------
(***************************************************************************)
(* The stateless algorithms, each asked every question of a small bounded   *)
(* set: one step answers the question the behaviour started with, and an    *)
(* invariant compares the answer with a definition of what is promised.     *)
(***************************************************************************)
EXTENDS RateLimit, FailedLogins, Numbers, Imports, Routes, Cron, SequencesExt

CONSTANTS MaxSteps, MaxPad, MaxRepeat, MaxErrors,
    MaxRequests,   \* requests of a behaviour of the rate limiter
    MaxCalls,      \* calls about the failed logins
    MaxTime        \* instants of these calls

M == INSTANCE Columns
P == INSTANCE Pushdown
T == INSTANCE Typing
K == INSTANCE Client
D == INSTANCE Formatter
S == INSTANCE MCSyntax

(* Types, values and arms --------------------------------------------------*)
IntType    == M!Scalar("Int")
StrType    == M!Scalar("String")
BoolType   == M!Scalar("Bool")
Int64Type  == M!Scalar("Int64")
UuidType   == M!Scalar("Uuid")
FloatType  == M!Scalar("Float")
E      == M!Enum("E")
Role   == M!Enum("Role")
X(t)   == M!Struct([x |-> M!Required(t)])
XY(t, y) == M!Struct([x |-> M!Required(t), y |-> y])
ResultInt == M!ResultOf(IntType, Role)
ResultStr == M!ResultOf(StrType, Role)

Zero == M!Data("Int", "0")

RECURSIVE Exact(_)
Among(fields, d) ==
    LET all == UNION {Exact(fields[f].type) : f \in d}
    IN {at \in [d -> all] : \A f \in d : at[f] \in Exact(fields[f].type)}
Variants(enum, decl) ==
    UNION {{M!Variant(enum, v, at) :
              at \in {a \in [DOMAIN decl[v] -> UNION {Exact(decl[v][f]) : f \in DOMAIN decl[v]}] :
                        \A f \in DOMAIN decl[v] : a[f] \in Exact(decl[v][f])}} : v \in DOMAIN decl}

\* The values whose own type is t.
Exact(t) ==
    CASE t.kind \in {"Int", "Int64"} -> {M!Data(t.kind, n) : n \in {"0", "1"}}
      [] t.kind = "Bool" -> {M!Data("Bool", b) : b \in {"true", "false"}}
      [] t.kind = "String" -> {M!Data("String", s) : s \in {"word", "1"} \cup M!Canonical.Uuid}
      [] t.kind = "Float" -> {M!Data("Float", x) : x \in {"1", "NaN"}}
      [] t.kind \in {"Uuid", "Decimal", "Timestamp"} -> {M!Data(t.kind, s) : s \in M!Canonical[t.kind]}
      [] t.kind = "Null" -> {M!Null}
      [] t.kind = "Optional" -> {M!Null} \cup Exact(t.of)
      [] t.kind = "List" -> {M!Items(<<>>)} \cup {M!Items(<<v>>) : v \in Exact(t.of)}
      [] t.kind = "Map" -> {M!Record(M!NoFields)} \cup {M!Record([x |-> v]) : v \in Exact(t.of)}
      [] t.kind = "Struct" ->
           UNION {{M!Record(at) : at \in Among(t.fields, d)} :
                    d \in {s \in SUBSET DOMAIN t.fields :
                             \A f \in DOMAIN t.fields \ s : t.fields[f].optional}}
      [] t.kind \in {"Enum", "Result"} -> Variants(M!EnumName(t), M!VariantFields(t))
      [] t.kind = "Union" -> UNION {Exact(m) : m \in M!RangeOf(t.members)}

MatchedTypes ==
    {IntType, Int64Type, BoolType, E, ResultInt, M!ResultOf(BoolType, Role), M!Optional(IntType),
     M!Optional(X(IntType)), M!Optional(M!ListOf(IntType)),
     M!Union(<<IntType, StrType>>), M!Union(<<E, Role>>), M!Union(<<X(IntType), X(StrType)>>),
     M!Union(<<X(IntType), M!Struct([y |-> M!Required(IntType)])>>),
     M!Union(<<XY(IntType, M!Maybe(IntType)), X(StrType)>>),
     M!Union(<<XY(IntType, M!Maybe(IntType)), XY(IntType, M!Required(StrType))>>),
     M!Union(<<XY(IntType, M!Maybe(IntType)), XY(IntType, M!Maybe(StrType))>>),
     M!Union(<<ResultInt, ResultStr>>), M!Union(<<X(IntType), M!MapOf(IntType)>>),
     M!Union(<<M!ListOf(IntType), M!ListOf(StrType)>>), M!Union(<<M!Optional(IntType), StrType>>)}

\* Types an expression may have that flows into one of the above.
SourceTypes ==
    MatchedTypes \cup UNION {M!RangeOf(t.members) : t \in {u \in MatchedTypes : u.kind = "Union"}}
        \cup {M!Scalar("Null"), XY(IntType, M!Required(StrType)), XY(StrType, M!Required(IntType)), XY(IntType, M!Required(IntType))}

RECURSIVE Below(_)
Below(ts) ==
    LET more == ts \cup {s \in SourceTypes : \E t \in ts : M!Subtype(s, t)}
    IN IF more = ts THEN ts ELSE Below(more)

\* The values an expression of static type t can have, through any assignments.
Flow == [t \in MatchedTypes |-> UNION {Exact(s) : s \in Below({t})}]

ArmPatterns(t) ==
    {M!Bind}
    \cup (CASE t.kind = "Bool" -> {M!Lit(M!Data("Bool", b)) : b \in {"true", "false"}}
           [] t.kind \in {"Int", "Int64"} -> {M!Lit(Zero), M!Lit(M!Null)}
           [] t.kind = "Optional" -> {M!Lit(M!Null), M!Typed(t.of), M!Typed(t), M!Typed(XY(IntType, M!Maybe(IntType)))}
           [] t.kind = "Union" -> {M!Typed(m) : m \in M!RangeOf(t.members)}
                                  \cup {M!Typed(XY(IntType, M!Maybe(IntType))), M!Lit(Zero)}
           [] t.kind = "Enum" -> {M!Of("E", "A", M!NoFields), M!Of("Role", "A", M!NoFields),
                                  M!Of("E", "B", M!NoFields), M!Of("E", "B", [n |-> M!Bind]),
                                  M!Of("E", "B", [n |-> M!Lit(Zero)]), M!Of("E", "B", [n |-> M!Typed(StrType)]),
                                  M!Or(<<M!Of("E", "A", M!NoFields), M!Of("E", "B", M!NoFields)>>),
                                  M!Or(<<M!Of("E", "A", M!NoFields), M!Of("E", "B", [n |-> M!Bind])>>)}
           [] t.kind = "Result" -> {M!Of("Result", "Ok", M!NoFields), M!Of("Result", "Err", M!NoFields),
                                    M!Of("Result", "Ok", [value |-> M!Lit(Zero)]),
                                    M!Of("Result", "Ok", [value |-> M!Lit(M!Data("Bool", "true"))]),
                                    M!Of("Result", "Err", [error |-> M!Of("Role", "Admin", M!NoFields)])})

Arms(t) == {M!Arm(p, g) : p \in ArmPatterns(t), g \in BOOLEAN}
MatchQuestions ==
    UNION {{[about |-> "match", type |-> t, arms |-> arms] :
              arms \in {<<a, b>> : a, b \in Arms(t)} \cup {<<a, b, c>> : a, b \in Arms(t), c \in {M!Arm(p, FALSE) : p \in ArmPatterns(t)}}} :
           t \in MatchedTypes}

AnswerMatch ==
    /\ Asked("match") /\ answer = None
    /\ LET ok == M!Accepted(question.type, question.arms)
       IN answer' = [accepted |-> ok,
                     arm |-> IF ok THEN [v \in Flow[question.type] |-> M!ArmOf(question.arms, v)] ELSE <<>>]
    /\ UNCHANGED question

\* Some counted pattern of the variant of v constrains a field of it.
FieldConstrained(v) ==
    /\ v.is = "Variant"
    /\ \E p \in M!Counted(question.arms) :
         p.pat = "Variant" /\ p.variant = v.variant /\ \E f \in DOMAIN p.at : p.at[f] # M!Bind

\* v got by subtyping, under a key some type leaves optional, what that type does not say.
OptionalWidened(v) ==
    /\ v.is = "Struct"
    /\ \E p \in M!Counted(question.arms) :
         /\ p.pat = "Type" /\ p.type.kind = "Struct"
         /\ \E f \in DOMAIN p.type.fields \cap DOMAIN v.at :
              p.type.fields[f].optional /\ ~M!HasShape(v.at[f], p.type.fields[f].type)

(* A match the checker accepts has an arm, whatever its guards say, for     *)
(* every value its scrutinee can have.  It has none (the error the          *)
(* interpreter calls impossible) only when a nested pattern refuses a field *)
(* of a variant taken for covered, or when a value carries under an         *)
(* optional key something of another type.                                  *)
MatchAnswers ==
    Answered("match") /\ answer.accepted =>
        \A v \in DOMAIN answer.arm :
            answer.arm[v] = 0 => FieldConstrained(v) \/ OptionalWidened(v)

SameRuntimeTag(a, b) ==
    \/ a.kind = "Result" /\ b.kind = "Result"
    \/ {a.kind, b.kind} \subseteq {"Map", "Struct"} /\ "Map" \in {a.kind, b.kind}

(* In a match on a union that the checker accepts no value has the shape of *)
(* two members, so the arm that runs does not depend on the order of the    *)
(* arms; but for two Results, or a Map beside a struct, that the checker    *)
(* takes for distinguishable and that are one kind of value at run time.    *)
MatchUnambiguous ==
    (Answered("match") /\ answer.accepted /\ question.type.kind = "Union") =>
        LET ms == question.type.members
        IN \A v \in DOMAIN answer.arm : \A i, j \in DOMAIN ms :
              (i < j /\ M!HasShape(v, ms[i]) /\ M!HasShape(v, ms[j])) => SameRuntimeTag(ms[i], ms[j])

(* What the checker says of a match is what the interpreter does with it:   *)
(* every value has an arm, and only one member of a union is its type.      *)
MatchSound == MatchAnswers /\ MatchUnambiguous

(* Routes -------------------------------------------------------------------*)
Segments == {"a", "b", Param}
RoutePatterns ==
    {<<x>> : x \in Segments \cup {CatchAll}}
    \cup {<<x, y>> : x \in Segments, y \in Segments \cup {CatchAll}}
    \cup {<<x, y, CatchAll>> : x \in {"a", Param}, y \in Segments}

\* The constant Paths.
ShortPaths == UNION {[1..n -> Texts] : n \in 1..3}

RouteQuestions ==
    {[about |-> "route", services |-> {"a"},
      routes |-> <<[pattern |-> p, rpc |-> "first"], [pattern |-> q, rpc |-> "second"],
                   [pattern |-> r, rpc |-> "third"]>>] : p, q, r \in RoutePatterns}

(* Columns -------------------------------------------------------------------*)
DecimalType   == M!Scalar("Decimal")
TimestampType == M!Scalar("Timestamp")
StoredTypes ==
    LET plain == {IntType, Int64Type, FloatType, StrType, UuidType, DecimalType, TimestampType, BoolType,
                  E, Role, ResultInt, M!ListOf(FloatType), M!MapOf(IntType), X(FloatType), XY(IntType, M!Maybe(StrType)),
                  M!Union(<<IntType, StrType>>), M!Union(<<StrType, UuidType>>), M!Union(<<UuidType, StrType>>),
                  M!Union(<<IntType, FloatType>>), M!Union(<<Role, StrType>>), M!Union(<<E, Role>>),
                  M!Union(<<X(IntType), X(StrType)>>), M!Union(<<M!MapOf(IntType), X(IntType)>>),
                  M!Union(<<X(IntType), E>>), M!Union(<<BoolType, M!ListOf(IntType)>>)}
    IN plain \cup {M!Optional(t) : t \in plain} \cup {M!ListOf(M!Optional(IntType))}

ColumnQuestions ==
    UNION {{[about |-> "column", field |-> [type |-> t, optional |-> o], slot |-> v] :
              v \in Exact(t) \cup (IF o THEN {M!Absent} ELSE {})} : t \in StoredTypes, o \in BOOLEAN}

AnswerColumn ==
    /\ Asked("column") /\ answer = None
    /\ answer' = M!decode_column_cell(question.field, M!write_param(question.field, question.slot))
    /\ UNCHANGED question

\* The values without parts a value is made of.
RECURSIVE Parts(_)
Parts(v) ==
    CASE v.is = "List" -> UNION {Parts(x) : x \in ToSet(v.items)}
      [] v.is \in {"Struct", "Variant"} -> UNION {Parts(v.at[f]) : f \in DOMAIN v.at}
      [] OTHER -> {v}

HasNaN(v) == \E x \in Parts(v) : M!IsNaN(x)

\* The JSON a value of type t can be written as.
FormOf(t) ==
    CASE t.kind \in {"Int", "Float"} -> "number"
      [] t.kind \in {"String"} \cup DOMAIN M!Canonical -> "text"
      [] t.kind = "Enum" /\ M!Simple(t.name) -> "text"
      [] t.kind \in {"Result", "Map", "Struct"} \/ (t.kind = "Enum" /\ ~M!Simple(t.name)) -> "object"
      [] t.kind \in {"Bool", "List"} -> t.kind

ToldApart(a, b) ==
    \/ FormOf(a) # FormOf(b)
    \/ /\ a.kind = "Struct" /\ b.kind = "Struct"
       /\ \E f \in DOMAIN a.fields \cap DOMAIN b.fields :
            /\ ~a.fields[f].optional /\ ~b.fields[f].optional
            /\ FormOf(a.fields[f].type) # FormOf(b.fields[f].type)

AmbiguousInJson(t) ==
    LET u == M!Effective(t)
    IN u.kind = "Union" /\ \E i, j \in DOMAIN u.members : i < j /\ ~ToldApart(u.members[i], u.members[j])

(* What a field held when its row was written is what it holds when the row *)
(* is read, absence and null told apart when the field has both; but for a  *)
(* NaN, that no column keeps, and for a union whose members have the same   *)
(* JSON, that gives the first member that fits.                             *)
StoredIsReadBack ==
    Answered("column") =>
        \/ answer = question.slot
        \/ HasNaN(question.slot)
        \/ AmbiguousInJson(question.field.type)

(* Replies -------------------------------------------------------------------*)
Account  == K!Named([x |-> M!Required(IntType), s |-> M!Required(StrType)], {"s"})
Profile  == K!Named([x |-> M!Required(IntType), s |-> M!Maybe(StrType)], {"s"})
Wallet   == K!Named([x |-> M!Required(Int64Type), s |-> M!Required(Int64Type)], {"s"})
Several  == {IntType, StrType, BoolType, FloatType, UuidType, Role, E, M!ListOf(IntType), M!ListOf(BoolType),
             X(IntType), M!MapOf(StrType)}
Int64s   == {Int64Type, M!ListOf(Int64Type), M!MapOf(Int64Type), X(Int64Type), M!Struct([y |-> M!Maybe(Int64Type)]),
             XY(StrType, M!Maybe(M!Optional(Int64Type))), M!Enum("Wide"), M!ResultOf(Int64Type, Role)}
ReplyTypes ==
    LET plain == Several \cup Int64s \cup {DecimalType, TimestampType, ResultInt, M!ResultOf(IntType, X(Int64Type)),
                   M!ResultOf(Account, Role), Account, Profile, Wallet, X(Account), M!MapOf(Account)}
    IN plain \cup {M!Optional(t) : t \in plain} \cup {M!ListOf(t) : t \in plain}
         \cup {M!Union(<<a, b>>) : a \in Int64s, b \in Several} \cup {M!Union(<<b, a>>) : a \in Int64s, b \in Several}
         \cup {M!Union(<<Account, StrType>>), M!Union(<<Profile, E>>), M!Union(<<IntType, FloatType>>)}

ReplyQuestions == UNION {{[about |-> "reply", type |-> t, value |-> v] : v \in Exact(t)} : t \in ReplyTypes}

\* What the server sends, what the client makes of it, what the server reads when the
\* client sends that back as an argument, and which of the schemas admit what was sent.
AnswerReply ==
    /\ Asked("reply") /\ answer = None
    /\ LET Stringified(t, got) == IF got = K!Throws THEN got ELSE K!stringify(K!contains_int64(t), got)
           Reads(t, back) == IF back = K!Throws THEN K!Fail ELSE K!json_to_typed_value(back, t)
           Admits(s, t, sent) == IF s = "zod" THEN K!zod(t, sent) ELSE K!openapi(t, sent)
           Answers(t, sent, got) == [got   |-> got,
                                     back  |-> Reads(t, Stringified(t, got)),
                                     admit |-> {s \in {"zod", "openapi"} : Admits(s, t, sent)}]
           Received(t, sent) == Answers(t, sent, K!received(t, sent))
       IN answer' = Received(question.type, K!strip_hidden_json(K!value_to_json(question.value), question.type))
    /\ UNCHANGED question

\* The value as the caller of the client should see it.
RECURSIVE Seen(_)
Seen(v) ==
    CASE v.is = "Int64" -> K!Big(v.data)
      [] v.is = "List" -> K!JArray([i \in DOMAIN v.items |-> Seen(v.items[i])])
      [] v.is = "Struct" -> K!JObject([f \in DOMAIN v.at |-> Seen(v.at[f])])
      [] v.is = "Variant" /\ ~K!Simple(v.enum) ->
           K!JObject([f \in DOMAIN v.at \cup {"type"} |-> IF f = "type" THEN K!JString(v.variant) ELSE Seen(v.at[f])])
      [] OTHER -> K!value_to_json(v)

\* Some part of the type has a required field the server leaves out.
RECURSIVE Withholds(_)
Withholds(t) ==
    CASE t.kind \in {"Optional", "List", "Map"} -> Withholds(t.of)
      [] t.kind = "Struct" ->
           \E f \in DOMAIN t.fields : (f \in K!Hidden(t) /\ ~t.fields[f].optional) \/ Withholds(t.fields[f].type)
      [] t.kind = "Union" -> \E m \in ToSet(t.members) : Withholds(m)
      [] OTHER -> FALSE

\* Reviving as an m makes something of values of n, that JSON tells from those of m:
\* BigInt(true) is 1n, Object.entries(5) is empty.
Coerces(m, n) ==
    \/ m.kind = "Int64"
    \/ m.kind = "Map" /\ K!contains_int64(m)
    \/ /\ m.kind = "Struct" /\ K!contains_int64(m)
       /\ \/ \A f \in DOMAIN m.fields : m.fields[f].optional
          \/ n.kind = "Struct" /\ \E f \in DOMAIN m.fields \cap DOMAIN n.fields : K!contains_int64(m.fields[f].type)

\* v belongs to a member of the union t after one that coerces it, or has the same JSON.
TakenForEarlier(t, v) ==
    /\ t.kind = "Union"
    /\ \E i, j \in DOMAIN t.members :
          /\ i < j /\ v \in Exact(t.members[j])
          /\ Coerces(t.members[i], t.members[j]) \/ ~ToldApart(t.members[i], t.members[j])

(* The generated client gives its caller the value the rpc returned, Int64  *)
(* as bigint and hidden fields left out, and sends it back as that value;   *)
(* but for a NaN (null in JSON), for a type with a required hidden field,   *)
(* that it refuses, and for a union in which an earlier member has the same *)
(* JSON or an Int64 that BigInt makes of something else.                    *)
ClientReads ==
    Answered("reply") =>
        LET t == question.type
            v == question.value
            whole == Seen(v)
            seen == K!strip_hidden_json(whole, t)
        IN \/ answer.got = seen /\ (answer.back = v \/ seen # whole \/ HasNaN(v) \/ AmbiguousInJson(t))
           \/ answer.got = K!Throws /\ (HasNaN(v) \/ Withholds(t))
           \/ TakenForEarlier(t, v)

(* schemas.ts admits every reply but one with a NaN, and openapi.json those *)
(* that hold no Int64 either (it says integer, the wire has a string).      *)
SchemasAdmit ==
    Answered("reply") =>
        \/ HasNaN(question.value)
        \/ /\ "zod" \in answer.admit
           /\ "openapi" \in answer.admit \/ \E x \in Parts(question.value) : x.is = "Int64"

(* LinkValidationError is for a payload that does not match the contract    *)
(* (ts_emit.rs), and neither the contract nor the revivers have the hidden  *)
(* fields (GRAMMAR.md 3.232): what the schema admits the client accepts.    *)
ContractAccepted ==
    Answered("reply") /\ "zod" \in answer.admit => answer.got # K!Throws

(* Rate limits ---------------------------------------------------------------*)
RateQuestions ==
    LET of(count, window, d) ==
            [about |-> "rate", spec |-> [count |-> count, window |-> window], ahead |-> d,
             skew |-> [i \in Instances |-> IF i = "b" THEN d ELSE 0]]
    IN {of(1, 2, 0), of(2, 2, 2), of(1, 6, 2)}

\* A request comes with the last one, or two units of time after it.
AnswerRate ==
    /\ Asked("rate") /\ Len(Log) < MaxRequests
    /\ LET last == IF Log = <<>> THEN 0 ELSE Log[Len(Log)].at
       IN \E gap \in IF Log = <<>> THEN {0} ELSE {0, 2}, i \in Instances :
             \/ \E late \in 0..MaxLate :
                   Request([at |-> last + gap, on |-> i, up |-> TRUE, late |-> late, sweep |-> FALSE])
             \/ \E sweep \in BOOLEAN :
                   Request([at |-> last + gap, on |-> i, up |-> FALSE, late |-> 0, sweep |-> sweep])

(* Failed logins -------------------------------------------------------------*)
AnswerLogin ==
    /\ Asked("login") /\ Len(Done) < MaxCalls
    /\ \E at \in 0..MaxTime :
          \/ Call([op |-> "record", at |-> at, window |-> 0])
          \/ \E window \in {1, 2} : Call([op |-> "count", at |-> at, window |-> window])
          \/ at = 0 /\ Call([op |-> "reset", at |-> at, window |-> 0])

(* Imports -------------------------------------------------------------------*)
\* Up to two imports in a file, those of h for what it does alone; one file may declare
\* nothing, or not be there.
ImportQuestions ==
    LET lists == UNION {[1..n -> {[from |-> f, names |-> IF f = "h" THEN {} ELSE Names] : f \in Files}] : n \in 0..2}
        Program3(at, without, missing) ==
            [about |-> "import", entry |-> "f",
             files |-> [f \in Files |-> [readable |-> f # missing, imports |-> at[f],
                                        declares |-> IF f = without THEN {} ELSE Names]]]
    IN {Program3(at, without, "none") : at \in [Files -> lists], without \in {"none", "f", "g"}}
       \cup {Program3(at, "none", missing) : at \in {l \in [Files -> lists] : l["h"] = <<>>}, missing \in Files}

(* Schedules ------------------------------------------------------------------*)
EachNth(n) == <<[range |-> <<>>, step |-> <<n>>]>>
Only(v) == <<[range |-> <<v>>, step |-> <<>>]>>
FromTo(lo, hi) == <<[range |-> <<lo, hi>>, step |-> <<>>]>>

Times == {[minute |-> Only(0), hour |-> Every], [minute |-> Only(1), hour |-> EachNth(1)]}
Days ==
    [day_of_month : {Every, Only(29), Only(31), EachNth(15), FromTo(1, 31)},
     month : {Every, Only(2), EachNth(6)}, day_of_week : {Every, Only(7), FromTo(1, 5)}]
        \cup [day_of_month : {Only(0), FromTo(2, 1), EachNth(0), Only(1) \o FromTo(30, 31)},
              month : {Only(2), Only(12) \o Only(4)}, day_of_week : {Only(0), Only(8)}]

\* The last day of a century, a leap day, the last one before 2100, an ordinary day.
Nows == {[year |-> y.on[1], tick |-> DayOf(y.on[1], y.on[2], y.on[3]) * MinutesPerHour * HoursPerDay * TicksPerMinute + y.at] :
           y \in {[on |-> <<1999, 12, 31>>, at |-> 7], [on |-> <<2024, 2, 29>>, at |-> 6],
                  [on |-> <<2096, 2, 29>>, at |-> 7], [on |-> <<2027, 3, 1>>, at |-> 0]}}

ScheduleQuestions == {[about |-> "schedule", fields |-> t @@ d, now |-> now] : t \in Times, d \in Days, now \in Nows}

(* Predicates pushed to the database ------------------------------------------*)
One(letter) == P!Text(<<letter>>)
NickList(s) == P!Call("contains", P!Const(P!List(s)), P!Field("nick"))
Name(method, part) == P!Call(method, P!Field("name"), P!Const(P!Text(part)))

Leaves(id) ==
    {P!Bin("==", P!Field("name"), P!Const(One("a"))), P!Bin("!=", P!Field("nick"), P!Const(One("a"))),
     P!Bin("==", P!Field("nick"), P!Const(P!Null)), P!Bin("!=", P!Const(P!Null), P!Field("nick")),
     P!Bin("<", P!Const(P!Num(0)), P!Field("n")), P!Bin("<=", P!Field("n"), P!Const(P!Num(0))),
     P!Bin(">", P!Field("m"), P!Field("n")), P!Bin("==", P!Field("m"), P!Field("n")),
     P!Bin(">=", P!Field("n"), P!Computed(P!Num(1))),
     P!Field("flag"), P!Not(P!Field("flag")), P!Not(P!Bin("<", P!Field("n"), P!Const(P!Num(1)))),
     P!Bin("==", P!Field("secret"), P!Const(One("a"))), P!Call("contains", P!Field("tags"), P!Const(One("a"))),
     Name("contains", <<"a">>), Name("startsWith", <<"%">>), P!Not(Name("endsWith", <<"A">>)),
     P!Bin("==", Name("startsWith", <<"a">>), P!Const(P!Bool(FALSE))), Name("contains", <<>>),
     NickList(<<>>), NickList(<<One("a"), One("%")>>), P!Not(NickList(<<One("%")>>)), P!Not(NickList(<<>>)),
     NickList(<<P!Null, One("a")>>), P!Bin("!=", NickList(<<P!Null>>), P!Const(P!Bool(TRUE))),
     P!Bin("==", P!Field("id"), P!Const([is |-> id, data |-> 1])),
     P!Call("contains", P!Const(P!List(<<[is |-> id, data |-> 2]>>)), P!Field("id"))}

Some(id) == {P!Bin("==", P!Field("name"), P!Const(One("a"))), P!Field("flag"), NickList(<<One("a")>>),
             P!Bin(">=", P!Field("n"), P!Computed(P!Num(1))), P!Bin("!=", P!Field("nick"), P!Const(One("a")))}
Logic == {"&&", "||"}
Both(left, right) == {P!Bin(op, l, r) : op \in Logic, l \in left, r \in right}

\* Where the id is a text, with the leaves about it only in the simpler predicates.
Predicates(id) ==
    IF id = "Uuid" THEN Leaves(id) \cup Both(Leaves(id), Some(id))
    ELSE Leaves(id) \cup Both(Leaves(id), Leaves(id))
            \cup Both(Both(Some(id), Some(id)), Some(id)) \cup Both(Some(id), Both(Some(id), Some(id)))

Collections == [soft_delete : BOOLEAN, tenant : BOOLEAN, backend : {"sqlite", "postgres"}, id : {"Int", "Uuid"}]

Row(id, k, name, nick, n, flag, live, mine) ==
    [id |-> [is |-> id, data |-> k], name |-> P!Text(name), nick |-> nick, n |-> P!Num(n), m |-> P!Num(1),
     flag |-> P!Bool(flag), secret |-> One("a"), tags |-> P!List(<<One("a")>>), live |-> live, mine |-> mine]

\* A table with one row of every kind; a row is one number, digit by digit.
AllRows == [id \in {"Int", "Uuid"} |->
    [k \in 1..96 |->
       Row(id, k, <<<<"a">>, <<"A">>, <<"%", "a">>>>[(k % 3) + 1], IF (k \div 3) % 2 = 0 THEN P!Null ELSE One("a"),
           (k \div 6) % 2, (k \div 12) % 2 = 0, (k \div 24) % 2 = 0, (k \div 48) % 2 = 0)]]

AskPushdown ==
    \E coll \in Collections : \E e \in Predicates(coll.id) :
        question = [about |-> "pushdown", pred |-> e, coll |-> coll]

AnswerPushdown ==
    /\ Asked("pushdown") /\ answer = None
    /\ answer' = P!Found(question.pred, question.coll, AllRows[question.coll.id])
    /\ UNCHANGED question

RECURSIVE Atoms(_)
Atoms(clause) == UNION {IF token.sql = "atom" THEN {token.atom}
                        ELSE IF token.sql = "group" THEN Atoms(token.clause) ELSE {} : token \in ToSet(clause)}

\* SQL says "unknown" where the interpreter finds null different from a value, or equal to null.
NullMet(clause, row) ==
    \E a \in Atoms(clause) :
        \/ a.is = "cmp" /\ a.op = "!=" /\ row[a.field] = P!Null
        \/ a.is = "in" /\ row[a.field] = P!Null /\ (a.negated \/ P!Null \in a.values)
        \/ a.is = "in" /\ a.negated /\ P!Null \in a.values

CaseIgnored(clause, row) ==
    \E a \in Atoms(clause) : a.is = "like" /\ P!SqlAtom("sqlite", a, row) # P!SqlAtom("postgres", a, row)

Wanted(e, coll, table) == {id \in DOMAIN table : P!Visible(coll, table[id]) /\ P!Holds(e, table[id])}

\* Rows of the table about which the two ways of selecting may differ.
Doubtful(e, coll, table) ==
    LET clause == P!condition_sql(e, coll)
    IN {id \in DOMAIN table : \/ NullMet(clause, table[id])
                              \/ coll.backend = "sqlite" /\ CaseIgnored(clause, table[id])}

(* A predicate selects the same rows whether the database evaluates it or   *)
(* the interpreter does, row by row: of the rows that are not deleted and   *)
(* belong to the tenant, those it holds for.  They differ on a null only by *)
(* a row that the database misses, and on text only where the LIKE of       *)
(* SQLite ignores the case.                                                 *)
PushdownAgrees ==
    Answered("pushdown") =>
        LET table  == AllRows[question.coll.id]
            clause == P!condition_sql(question.pred, question.coll)
            wanted == Wanted(question.pred, question.coll, table)
        IN /\ \A id \in answer : P!Visible(question.coll, table[id])
           /\ \A id \in DOMAIN table :
                 \/ id \in answer <=> id \in wanted
                 \/ id \in wanted /\ NullMet(clause, table[id])
                 \/ question.coll.backend = "sqlite" /\ CaseIgnored(clause, table[id])

(* Writes by predicate ----------------------------------------------------------*)
Writers == {P!Field("flag"), P!Bin("!=", P!Field("nick"), P!Const(One("a"))), Name("startsWith", <<"a">>),
            P!Bin("||", P!Field("flag"), P!Bin("==", P!Field("n"), P!Const(P!Num(1)))),
            P!Bin("<", P!Field("n"), P!Computed(P!Num(1))), P!Bin("==", P!Field("secret"), P!Const(One("a")))}
Patches == {<<>>, [n |-> P!Num(5)], [name |-> One("b")], [name |-> One("b"), tags |-> P!List(<<>>)]}
AskWrite ==
    \E op \in {"delete", "update"}, e \in Writers, nick \in {P!Null, One("a")}, n \in {0, 1}, flag, live, mine \in BOOLEAN,
       coll \in [soft_delete : BOOLEAN, tenant : BOOLEAN, backend : {"sqlite", "postgres"}, id : {"Int", "Uuid", "String"}] :
       \E patch \in IF op = "delete" THEN {<<>>} ELSE Patches :
          question = [about |-> "write", op |-> op, pred |-> e, patch |-> patch, coll |-> coll,
                      table |-> <<Row(coll.id, 1, <<"a">>, nick, 0, TRUE, TRUE, TRUE),
                                  Row(coll.id, 2, <<"A">>, P!Null, n, flag, live, mine)>>]

AnswerWrite ==
    /\ Asked("write") /\ answer = None
    /\ answer' = IF question.op = "delete" THEN P!deleteWhere(question.pred, question.coll, question.table)
                 ELSE P!updateWhere(question.pred, question.patch, question.coll, question.table)
    /\ UNCHANGED question

(* deleteWhere and updateWhere change only rows of the tenant, not deleted, *)
(* that the predicate holds for, answer how many they changed, and miss     *)
(* none but a row whose id deleteWhere (a number only) or the row-by-row    *)
(* update (not a text) does not take, one whose patch repeats a @unique     *)
(* value, and the rows the two ways of selecting disagree about.  Every     *)
(* change reaches the streams, except that the single UPDATE announces      *)
(* nothing; a failed UPDATE changes nothing.                                *)
WhereWritesExact ==
    Answered("write") =>
        LET before  == question.table
            changed == {id \in DOMAIN before : id \notin DOMAIN answer.table \/ answer.table[id] # before[id]}
            wanted  == Wanted(question.pred, question.coll, before)
            doubt   == Doubtful(question.pred, question.coll, before)
            skipped == question.coll.id = "String" \/ (question.op = "delete" /\ question.coll.id = "Uuid")
            pushed  == question.op = "update" /\ P!condition_sql(question.pred, question.coll) # <<>>
            empty   == question.op = "update" /\ question.patch = <<>>
            clash   == "name" \in DOMAIN question.patch
        IN IF answer.failed THEN changed = {} /\ clash /\ Cardinality(wanted \cup doubt) > 1
           ELSE /\ changed \subseteq wanted \cup doubt
                /\ empty \/ answer.count = Cardinality(changed)
                /\ empty \/ skipped \/ clash \/ wanted \subseteq changed \cup doubt
                /\ changed \subseteq answer.published \/ (pushed /\ answer.published = {})

(* A predicate selects, counts, deletes and updates the same rows whether   *)
(* the database evaluates it or the interpreter does.                       *)
PredicatesAgree == PushdownAgrees /\ WhereWritesExact

(* Programs ---------------------------------------------------------------------*)
Opt(t)  == M!Optional(t)
Loose   == M!Struct([x |-> M!Required(IntType), y |-> M!Maybe(IntType)])
Flag    == M!Struct([isSome |-> M!Required(IntType)])
IntToOpt == T!Fn(IntType, Opt(IntType))
Params  == [i |-> IntType, o |-> Opt(IntType), s |-> StrType, r |-> Loose, d |-> DecimalType,
            l |-> M!ListOf(IntType), f |-> IntToOpt, p |-> Opt(Flag)]
Scope   == [x \in DOMAIN Params |-> T!Binding(Params[x], x = "o")]

Num(n)  == M!Data("Int", n)
Word    == M!Data("String", "w")
Twice   == T!Block(<<>>, T!Bin("+", T!Var("n"), T!Var("n")))

\* The arguments of a call.  The last r comes by subtyping and says y with another type.
Calls ==
    {[i |-> Num(i), o |-> o, s |-> Word, d |-> M!Data("Decimal", -1), p |-> k.p, r |-> k.r, l |-> k.l,
      f |-> [is |-> "Closure", param |-> "n", body |-> Twice, env |-> M!NoFields]] :
       i \in {0, 1, MaxInt}, o \in {M!Null, Num(1)},
       k \in {[r |-> M!Record([x |-> Num(1)]), l |-> M!Items(<<>>), p |-> M!Null],
              [r |-> M!Record([x |-> Num(1), y |-> Num(2)]), l |-> M!Items(<<Num(1), Num(2)>>), p |-> M!Record([isSome |-> Num(0)])],
              [r |-> M!Record([x |-> Num(1), y |-> Word]), l |-> M!Items(<<Num(1)>>), p |-> M!Null]}}

Lit(n)  == T!Const(Num(n))
Just(e) == T!Block(<<>>, e)
Leaf   == {T!Var(x) : x \in DOMAIN Params} \cup {Lit(1), T!Const(Word), T!Const(M!Data("Bool", TRUE)), T!Const(M!Null)}

\* One operation on what the names stand for.
Simple ==
    LET ops == {"+", "%", "/", "==", "<", "??", "&&"}
    IN Leaf \cup {T!Bin(op, a, b) : op \in ops, a, b \in Leaf} \cup {T!FieldOf(a, x) : a \in Leaf, x \in {"x", "y"}}
         \cup {T!Method(a, "isSome", <<>>) : a \in Leaf} \cup {T!Not(a) : a \in Leaf} \cup {T!Neg(a) : a \in Leaf}
         \cup {T!Index(a, b) : a, b \in Leaf} \cup {T!ListLit(<<a, b>>) : a, b \in Leaf}
         \cup {T!Call(a, b) : a, b \in Leaf} \cup {T!StructLit([x |-> a, y |-> b]) : a, b \in Leaf}
Plain == {e \in Simple : T!Synth(e, Scope) # T!Ill}
Held  == {e \in Leaf : e.e = "Var" /\ e.name # "f"} \cup {Lit(1), T!Const(M!Null), T!StructLit([x |-> Lit(1), y |-> T!Var("s")])}

\* What may be done with a variable of any type.
A == T!Var("a")
Ends == {A, T!Bin("+", A, T!Var("i")), T!Bin("??", A, T!Var("i")), T!Bin("??", T!FieldOf(A, "y"), Lit(1)), T!FieldOf(A, "x"),
         T!Index(A, T!Var("i")), T!Method(A, "isSome", <<>>), T!Neg(A), T!Bin("==", A, T!Var("o")), T!Bin("<", A, T!Var("i"))}
Expected == {IntType, Opt(IntType), BoolType, StrType, DecimalType, Loose}
Lists    == {M!ListOf(IntType), M!ListOf(Opt(IntType)), M!ListOf(StrType), M!MapOf(M!ListOf(IntType)), Int64Type, M!Scalar("Timestamp")}
Cond == T!Bin("==", T!Var("i"), T!Var("o"))

Expressions ==
    {Just(T!Bin(op, e, b)) : op \in {"+", "??", "==", "&&"}, e \in Plain, b \in {T!Var("i"), T!Var("o"), T!Const(Word), T!Not(Cond)}}
    \cup {Just(T!If(Cond, Just(a), Just(b))) : a, b \in Held}

\* A variable written, hidden or captured in an inner block, then used.
Scopes ==
    {T!Block(<<T!LetMut("a", t, v), inner>>, e) :
       t \in {T!Inferred, Opt(IntType), Loose}, v \in Held, e \in Ends,
       inner \in {T!Do(T!If(Cond, T!Block(<<T!Assign("a", w)>>, T!NoExpr), T!Block(<<>>, T!NoExpr))) : w \in Held}
            \cup {T!Do(T!If(Cond, T!Block(<<T!Let("a", T!Inferred, w)>>, T!NoExpr), T!Block(<<>>, T!NoExpr))) : w \in Held}
            \cup {T!Do(T!Call(T!Closure("n", IntType, T!Block(<<T!Assign("a", w)>>, A)), T!Var("i"))) : w \in Held}
            \cup {T!For("a", T!Var("l"), T!Block(<<T!Assign("o", A)>>, T!NoExpr)),
                  T!For("n", T!Range(Lit(0), T!Var("i")), T!Block(<<T!Assign("a", T!Bin("+", A, T!Var("n")))>>, T!NoExpr)),
                  T!While(T!Bin("<", A, T!Var("i")), T!Block(<<T!Assign("a", T!Bin("+", A, Lit(1)))>>, T!NoExpr))}}

\* Functions as values, and blocks that return.
Functions ==
    {T!Block(<<T!Let("a", t, T!Closure("n", u, T!Block(ss, b)))>>, T!Call(A, x)) :
       t \in {T!Inferred, IntToOpt, T!Fn(Loose, IntType)}, u \in {T!Inferred, IntType, Opt(IntType), Loose},
       ss \in {<<>>, <<T!Return(T!Var("i"))>>}, x \in Held,
       b \in {T!Var("n"), T!Bin("+", T!Var("n"), Lit(1)), T!Bin("??", T!Var("n"), Lit(1)), T!FieldOf(T!Var("n"), "x"), T!Const(M!Null)}}
    \cup {T!Block(<<T!Let("a", t, T!If(Cond, T!Block(<<T!Return(v)>>, w), Just(w))), T!Return(e)>>, w) :
            t \in {T!Inferred, IntType, Opt(IntType)}, v, w \in Held, e \in Ends}

\* Calls of built-in methods, and what is done with what they give.
Grouped  == T!Method(T!Var("l"), "groupBy", <<T!Closure("n", T!Inferred, Just(T!Var("s")))>>)
Zipped   == T!Method(T!Var("l"), "zip", <<T!ListLit(<<T!Var("o"), T!Const(M!Null)>>)>>)
Receivers == Leaf \cup {Grouped, Zipped, T!ListLit(<<T!Var("s"), T!Const(Word)>>), T!ListLit(<<T!Var("o"), Lit(1)>>),
                         T!ListLit(<<T!Var("l"), T!Var("l")>>), T!ListLit(<<T!Var("r")>>), T!Const(M!Data("Int64", MaxInt)),
                         T!Const(M!Data("Timestamp", -MaxInt))}
Callback(t, b) == T!Closure("n", t, Just(b))
Arguments == Leaf \cup {Zipped, T!Const(M!Data("Timestamp", MaxInt)), T!Const(M!Data("Int64", 1))}
    \cup {Callback(t, b) : t \in {T!Inferred, IntType, Opt(IntType)},
             b \in {T!Var("n"), T!Var("s"), T!Var("o"), T!Const(M!Null), T!Var("l"), T!Bin("+", T!Var("n"), Lit(1)),
                   T!Bin("==", T!Var("n"), T!Var("o")), T!FieldOf(T!Var("n"), "y"), T!If(Cond, Just(T!Var("n")), Just(T!Const(M!Null)))}}
    \cup {T!Closure("n", IntType, T!Block(<<T!Return(T!Var("o"))>>, T!Var("n")))}
Reducers  == {T!Reducer("a", "n", Just(b)) : b \in {A, T!Bin("+", A, T!Var("n")), T!Bin("??", A, T!Var("n")), T!Const(M!Null)}}
ArgLists  == {<<>>} \cup {<<a>> : a \in Arguments}
    \cup {<<a, b>> : a \in {Lit(1), T!Var("o"), T!Var("s"), T!Var("i")}, b \in {Lit(1), T!Var("i"), T!Var("o"), T!Var("s"), T!Var("l")} \cup Reducers}
MethodNames == {"isNone", "join", "reverse", "take", "slice", "length", "filter", "sum", "contains", "indexOf", "unique", "map", "flatMap",
    "sortBy", "sortByDesc", "groupBy", "zip", "reduce", "get", "set", "has", "remove", "keys", "values", "entries", "startsWith", "endsWith",
    "padStart", "padEnd", "truncate", "substring", "replace", "split", "repeat", "charAt", "toInt64", "toInt", "toDecimal",
    "addMillis", "addDays", "toMillis", "diffMillis"}
Typed(es) == {e \in es : T!Synth(e, Scope) # T!Ill}
MethodCalls == Typed({T!Method(e, m, as) : e \in Receivers, m \in MethodNames, as \in ArgLists})
Methods ==
    {Just(e) : e \in MethodCalls \cup Typed({T!TupleAt(T!Index(e, T!Var("i")), k) : e \in MethodCalls, k \in {1, 2}}
                        \cup {T!Bin(op, e, b) : op \in {"+", "??", "=="}, e \in MethodCalls, b \in {T!Var("i"), T!Var("o")}}
                        \cup {T!Method(e, "get", <<T!Var("s")>>) : e \in MethodCalls} \cup {T!Method(e, "sum", <<>>) : e \in MethodCalls}
                        \cup {T!Method(T!Index(e, Lit(0)), "isSome", <<>>) : e \in MethodCalls})}
    \cup {T!Block(<<T!LetMut("a", Opt(IntType), T!Var("i")), T!Let("c", T!Inferred, e)>>, w) :
             e \in Typed({T!Method(T!Var("l"), m, <<T!Closure("n", T!Inferred, T!Block(<<T!Assign("o", T!Const(M!Null))>>, b))>>) :
                           m \in {"map", "filter", "sortBy"}, b \in {T!Var("n"), T!Var("o"), Cond}}),
             w \in {A, T!Var("o"), T!Bin("??", T!Var("o"), T!Var("i"))}}

\* The bodies that the checker accepts.
ProgramQuestions ==
    {q \in [about : {"program"}, body : Expressions \cup Scopes \cup Functions \cup Methods, expected : Expected \cup Lists] :
        T!Check(q.body, q.expected, Scope)}

AnswerProgram ==
    /\ Asked("program") /\ answer = None
    /\ answer' = [args \in Calls |-> T!Called(question.body, args)]
    /\ UNCHANGED question

(* A body the checker accepts never meets a value of a kind it did not      *)
(* expect and ends with one of its declared type, or with an error that     *)
(* any program may meet.  Two holes: a record that came by subtyping with   *)
(* something else under an optional key, and isSome() on an optional record *)
(* with a field of that name, which is called instead.                      *)
AcceptedRuns ==
    Answered("program") =>
        \A args \in DOMAIN answer :
            \/ answer[args].end \in {"fails", "shadowed"}
            \/ answer[args].end = "ok" /\ M!HasShape(answer[args].v, question.expected)
            \/ ~M!HasShape(args.r, Loose)

(* Methods ----------------------------------------------------------------------*)
Words(n) == LET w[k \in 0..n] == IF k = 0 THEN {""} ELSE w[k - 1] \cup {x \o c : x \in w[k - 1], c \in {"a", "b"}} IN w[n]
Text(s)  == M!Data("String", s)
OnText(m, s, args) == T!call_method(m, Text(s), args)
Lengths == -1..5

MethodQuestions ==
    [about : {"text"}, s : Words(3), n : Words(2)]
    \cup [about : {"list"}, keys : BoundedSeq({M!Null, Num(0), Num(1)}, 4), desc : BOOLEAN]

\* The items are the places of their keys.
Places(q) == [i \in DOMAIN q.keys |-> Num(i)]

AnswerMethod ==
    /\ question.about \in {"text", "list"} /\ answer = None
    /\ answer' =
         LET q == question
         IN IF q.about = "text"
            THEN [found |-> [m \in {"contains", "startsWith", "endsWith", "indexOf", "split"} |-> OnText(m, q.s, <<Text(q.n)>>).v],
                  replaced |-> [r \in Words(2) |-> OnText("replace", q.s, <<Text(q.n), Text(r)>>).v.data],
                  sized |-> [m \in {"padStart", "padEnd", "truncate"} |-> [k \in Lengths |-> OnText(m, q.s, <<Num(k), Text(q.n)>>)]],
                  cut |-> [a, b \in Lengths |-> OnText("substring", q.s, <<Num(a), Num(b)>>)]]
            ELSE [sorted |-> T!AfterCallbacks(IF q.desc THEN "sortByDesc" ELSE "sortBy", Places(q), q.keys).v.items,
                  groups |-> T!AfterCallbacks("groupBy", Places(q), [i \in DOMAIN q.keys |-> Text(ToString(q.keys[i]))]).v.at,
                  unique |-> T!call_method("unique", M!Items(q.keys), <<>>).v.items,
                  found |-> [k \in {M!Null, Num(0), Num(1)} |-> T!call_method("indexOf", M!Items(q.keys), <<k>>).v.data],
                  cut |-> [a, b \in Lengths |-> T!call_method("slice", M!Items(q.keys), <<Num(a), Num(b)>>)]]
    /\ UNCHANGED question

\* Where n is found in s: what stands before it.
Before(n, s) == {p \in Words(3) : \E r \in Words(3) : s = p \o n \o r}
SameCut(cut, s) ==
    \A a, b \in Lengths :
        IF 0 <= a /\ a <= b /\ b <= Len(s) THEN cut[a, b].end = "ok" ELSE cut[a, b].end = "fails"

TextKept(q, a) ==
    LET before == Before(q.n, q.s)
        pieces == a.found["split"].items
        sized(m, k) == a.sized[m][k].v.data
    IN /\ a.found["contains"].data = (before # {})
       /\ a.found["startsWith"].data = ("" \in before)
       /\ a.found["endsWith"].data = (\E p \in before : p \o q.n = q.s)
       /\ a.found["indexOf"].data = IF before = {} THEN -1 ELSE Min({Len(p) : p \in before})
       /\ q.n # "" => \A i \in DOMAIN pieces : Before(q.n, pieces[i].data) = {}
       /\ a.replaced[q.n] = q.s
       /\ \A r \in Words(2) : Len(a.replaced[r]) = Len(q.s) + (Len(pieces) - 1) * (Len(r) - Len(q.n))
       /\ SameCut(a.cut, q.s)
       /\ \A i \in 0..Len(q.s) : a.cut[0, i].v.data \o a.cut[i, Len(q.s)].v.data = q.s
       /\ \A k \in Lengths, m \in {"padStart", "padEnd"} :
             IF k < 0 \/ k > MaxPad \/ (q.n = "" /\ k > Len(q.s)) THEN a.sized[m][k].end = "fails"
             ELSE Len(sized(m, k)) = Max({k, Len(q.s)})
       /\ \A k \in Lengths :
             IF k < 0 THEN a.sized["truncate"][k].end = "fails"
             ELSE IF Len(q.s) <= k THEN sized("truncate", k) = q.s
             ELSE \/ Len(sized("truncate", k)) = k
                  \/ Len(q.n) > k /\ sized("truncate", k) = q.n   \* a suffix longer than the limit

\* Whether the item i belongs before j.
Sooner(q, i, j) ==
    LET x == q.keys[i]
        y == q.keys[j]
    IN IF x = y THEN i < j
       ELSE y = M!Null \/ (x # M!Null /\ (IF q.desc THEN x.data > y.data ELSE x.data < y.data))

ListKept(q, a) ==
    /\ {a.sorted[i].data : i \in DOMAIN a.sorted} = DOMAIN q.keys /\ Len(a.sorted) = Len(q.keys)
    /\ \A i, j \in DOMAIN a.sorted : i < j => Sooner(q, a.sorted[i].data, a.sorted[j].data)
    /\ \A i \in DOMAIN q.keys : \E j \in DOMAIN a.groups[ToString(q.keys[i])].items : a.groups[ToString(q.keys[i])].items[j].data = i
    /\ Len(q.keys) = FoldSet(LAMBDA k, n : n + Len(a.groups[k].items), 0, DOMAIN a.groups)
    /\ \A k \in DOMAIN a.groups : LET g == a.groups[k].items IN \A i, j \in DOMAIN g : i < j => g[i].data < g[j].data
    /\ ToSet(a.unique) = ToSet(q.keys) /\ IsInjective(a.unique)
    /\ \A i, j \in DOMAIN a.unique : i < j => a.found[a.unique[i]] < a.found[a.unique[j]]
    /\ \A k \in DOMAIN a.found :
          IF k \in ToSet(q.keys) THEN q.keys[a.found[k] + 1] = k /\ \A i \in 1..a.found[k] : q.keys[i] # k ELSE a.found[k] = -1
    /\ SameCut(a.cut, q.keys)
    /\ \A i \in 0..Len(q.keys) : a.cut[0, i].v.items \o a.cut[i, Len(q.keys)].v.items = q.keys

(* The methods of strings and lists agree with each other: what is found is *)
(* there and is the first, a split string joins back, the two halves of a   *)
(* cut make the whole, padding and truncation give the length asked for,    *)
(* sorting is stable with nulls last both ways, groups part the list.       *)
MethodsAgree ==
    /\ Answered("text") => TextKept(question, answer)
    /\ Answered("list") => ListKept(question, answer)

(* Formatting ----------------------------------------------------------------*)
Html == <<"html", D!Tick, "a", "$", "{", "a", "{", "}", "}", D!Tick>>
Lexemes == {<<"a">>, <<"db">>, <<"rpc">>, <<"type">>, <<"true">>, <<"transaction">>, <<"0", "1">>, <<"1", ".", "2">>,
          <<"2", ".", "0">>, <<"\"", "\\", "\\", "\\", "\"", "\"">>, Html}
Marks == D!Spelled(D!Singles) \cup D!Doubles
LineNote  == <<" ", "/", "/", "a", " ", "\n">>
BlockNote == <<"/", "*", "a", "\n", "/", "/", "*", "/">>
DocNote   == <<"\n", "/", "/", "/", " ", "a", " ", "\n">>
Gaps  == {<<" ">>, LineNote, <<"\n">> \o LineNote, BlockNote, DocNote, DocNote \o LineNote}
PragmaLine(v) == <<"#linkc", " ", ">", "=", " ", "\"", v, "\"", "\n">>

Pairs == {x \o y : x, y \in Lexemes \cup Marks}
Apart == {x \o gap \o y : x, y \in Lexemes \cup Marks, gap \in Gaps}
Access ==
    {x \o <<" ">> \o y \o <<" ">> \o z :
        x \in Lexemes, y \in D!Spelled({".", "?", ")", "!", "-"}), z \in Lexemes \cup Marks}
Nested == {u \o v \o w \o x \o y : u, y \in Gaps, v, w, x \in D!Spelled({"{", "}", ";", "type"})}
Pragmas == {lead \o PragmaLine(v) \o w : lead \in {<<>>, LineNote, BlockNote}, v \in {"0.1.0", "9.9.9", "a"}, w \in Lexemes}

AskFormat ==
    \/ \E text \in Pairs   : question = [about |-> "format", text |-> text]
    \/ \E text \in Apart   : question = [about |-> "format", text |-> text]
    \/ \E text \in Access  : question = [about |-> "format", text |-> text]
    \/ \E text \in Nested  : question = [about |-> "format", text |-> text]
    \/ \E text \in Pragmas : question = [about |-> "format", text |-> text]

\* What of a source its reader and the parser see, in order.
Noted(notes) == [k \in DOMAIN notes |-> notes[k].of]
Told(text, tokens) ==
    [n \in DOMAIN tokens |->
        [is |-> tokens[n].is, of |-> tokens[n].of, doc |-> [l \in DOMAIN tokens[n].doc |-> D!TrimEnd(tokens[n].doc[l])],
         notes |-> Noted(D!Comments(D!Gap(text, tokens, n)))]]
Content(text) == Told(text, D!tokenize(text))

Compared(text, once) ==
    [fails |-> once = D!Fail, kept |-> Content(once) = Content(text), fixed |-> D!format_source(once) = once]

AnswerFormat ==
    /\ Asked("format") /\ answer = None
    /\ answer' = Compared(question.text, D!format_source(question.text))
    /\ UNCHANGED question

\* Tokens side by side that are printed without a space between them and read as others then.
RunTogether(a, b) ==
    LET word(t) == t.is = "Ident" \/ D!Is(t, D!Spelled({"true", "false", "null", "transaction"}))
    IN \/ D!Is(a, {<<"?">>}) /\ D!Is(b, {<<"?">>})
       \/ D!Is(a, {<<".">>}) /\ D!Is(b, D!Dots)
       \/ D!Is(a, {<<"!">>}) /\ D!Is(b, {<<"=">>, <<"=", "=">>, <<"=", ">">>})
       \/ word(a) /\ (b.is = "Html" \/ D!Is(b, {<<"transaction">>}))
       \/ D!Is(a, {<<"transaction">>}) /\ (b.is \in {"Ident", "Int", "Float", "Keyword"})

RereadAmong(tokens, Near(_)) ==
    LET Number(t) == t.is \in {"Int", "Float"}
    IN \/ \E n \in DOMAIN tokens : tokens[n].is = "Float" /\ "." \notin ToSet(tokens[n].of)
       \/ \E n \in 2..Len(tokens) : RunTogether(tokens[n - 1], tokens[n]) /\ Near(n)
       \/ \E n \in 3..Len(tokens) :
             /\ tokens[n - 2].is = "Int" /\ D!Is(tokens[n - 1], {<<".">>}) /\ Number(tokens[n])
             /\ \A m \in {n - 1, n} : Near(m)

RereadOf(text, tokens) == RereadAmong(tokens, LAMBDA n : D!Comments(D!Gap(text, tokens, n)) = <<>>)
Reread(text) == RereadOf(text, D!tokenize(text))

(* Formatting a source changes none of its tokens, doc lines and comments,   *)
(* leaves each comment before the token it was before, and formatting the    *)
(* result changes nothing; but for a float with an integral value, that is   *)
(* printed as an integer, for a tuple access in a tuple access and a second  *)
(* `?` of a type, printed with the first as one token, and for tokens that   *)
(* no program has side by side.  A version pragma is no token and is lost.   *)
FormatKeepsProgram ==
    Answered("format") =>
        \/ answer.fails
        \/ (answer.kept /\ answer.fixed)
        \/ Reread(question.text)

(* Parsing ----------------------------------------------------------------------*)
ParseQuestions == {[about |-> "parse", tree |-> t] : t \in S!Trees} \cup {[about |-> "broken", parts |-> b] : b \in S!Broken}

Written ==
    IF question.about = "parse" THEN S!Source(question.tree)
    ELSE S!Spaced(question.parts.before) \o S!Source(question.parts.item)

\* What the parser makes of the text as it is written, and as it is formatted.
AnswerParse ==
    /\ question.about \in {"parse", "broken"} /\ answer = None
    /\ \E text \in {Written} : \E formatted \in {S!format_source(text)} :
          answer' = [format \in BOOLEAN |-> S!parse_program(S!tokenize(IF format THEN formatted ELSE text))]
    /\ UNCHANGED question

\* Where a keyword may be the name of a field.
FieldMayFollow(tokens) == Last(tokens) \in {<<"{">>, <<",">>, <<".">>}

\* The item behind a broken one is read whole.
NextIsRead == answer[FALSE].items # <<>> /\ Last(answer[FALSE].items) = question.parts.item

(* A tree of the grammar, written with parentheses only where precedence    *)
(* and the places without struct literals demand them, is parsed as that    *)
(* tree, and as the same tree after it was formatted, but for what          *)
(* formatting reads as other tokens.  Behind an item that breaks off        *)
(* anywhere, the parser finds the next one and reads it whole, but for      *)
(* where its keyword can be taken for the name of a field, for ai blocks,   *)
(* that synchronize runs past, and for the limit on errors, where nothing   *)
(* more is read.                                                            *)
ParsesBack ==
    /\ Answered("parse") =>
         LET read == [items |-> <<question.tree>>, errors |-> 0]
         IN answer[FALSE] = read /\ (answer[TRUE] = read \/ Reread(S!Source(question.tree)))
    /\ Answered("broken") =>
         \/ NextIsRead
         \/ FieldMayFollow(question.parts.before)
         \/ question.parts.item.is = "Ai"
         \/ answer[FALSE].errors = MaxErrors

----------------------------------------------------------------------------
Init ==
    /\ answer = None
    /\ \/ question \in MatchQuestions
       \/ question \in RouteQuestions /\ AskRoute
       \/ question \in ColumnQuestions
       \/ question \in ReplyQuestions
       \/ question \in RateQuestions
       \/ question = [about |-> "login"]
       \/ question \in ImportQuestions /\ AskImport
       \/ question \in ScheduleQuestions /\ AskSchedule
       \/ AskPushdown
       \/ AskWrite
       \/ AskNumber
       \/ question \in ProgramQuestions
       \/ question \in MethodQuestions
       \/ AskFormat
       \/ question \in ParseQuestions

Next ==
    \/ AnswerMatch
    \/ AnswerRoute
    \/ AnswerColumn
    \/ AnswerReply
    \/ AnswerRate
    \/ AnswerLogin
    \/ load_program_full
    \/ AnswerSchedule
    \/ AnswerPushdown
    \/ AnswerWrite
    \/ AnswerNumber
    \/ AnswerProgram
    \/ AnswerMethod
    \/ AnswerFormat
    \/ AnswerParse

Spec == Init /\ [][Next]_<<question, answer>>
=============================================================================
