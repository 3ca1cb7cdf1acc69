------------------------------- MODULE Client -------------------------------
(***************************************************************************)
(* What a reply goes through between the body of an rpc and the caller of    *)
(* the generated client: the server's JSON without the hidden fields         *)
(* (runtime/mod.rs), the reviver and the validator of validators.ts          *)
(* (codegen/validators_emit.rs) around client.ts (codegen/ts_emit.rs), and   *)
(* what schemas.ts and openapi.json say of the same JSON.  Generics, Patch,  *)
(* tuples, vectors, maps keyed by Int and field validators are left out.     *)
(*                                                                           *)
(* A value of the client is JSON as JSON.parse gives it, or one of the       *)
(* three below.  A struct type with a name may have hidden fields.           *)
(***************************************************************************)
EXTENDS Columns

Big(n)    == [json |-> "bigint", of |-> n]
Undefined == [json |-> "undefined"]
Throws    == [json |-> "throws"]

Named(fs, h) == [kind |-> "Struct", fields |-> fs, hidden |-> h]
Hidden(t)    == IF "hidden" \in DOMAIN t THEN t.hidden ELSE {}

Least(S) == CHOOSE i \in S : \A k \in S : i <= k

(* The server --------------------------------------------------------------*)
\* A union takes its first struct whose required fields, the hidden ones apart, are there.
RECURSIVE strip_hidden_json(_, _)
strip_hidden_json(j, t) ==
    CASE t.kind = "Optional" -> strip_hidden_json(j, t.of)
      [] t.kind # "Optional" /\ j.json = "array" ->
           JArray([i \in DOMAIN j.items |-> strip_hidden_json(j.items[i], IF t.kind = "List" THEN t.of ELSE t)])
      [] t.kind = "Struct" /\ j.json = "object" ->
           JObject([f \in DOMAIN j.at \ Hidden(t) |->
                      IF f \in DOMAIN t.fields THEN strip_hidden_json(j.at[f], t.fields[f].type) ELSE j.at[f]])
      [] t.kind = "Map" /\ j.json = "object" ->
           JObject([f \in DOMAIN j.at |-> strip_hidden_json(j.at[f], t.of)])
      [] t.kind = "Union" /\ j.json = "object" ->
           LET fits == {i \in DOMAIN t.members :
                          LET m == t.members[i]
                          IN /\ m.kind = "Struct"
                             /\ {f \in DOMAIN m.fields \ Hidden(m) : ~m.fields[f].optional} \subseteq DOMAIN j.at}
           IN IF fits = {} THEN j ELSE strip_hidden_json(j, t.members[Least(fits)])
      [] OTHER -> j

(* JavaScript --------------------------------------------------------------*)
IsInteger(x) == x.json = "number" /\ x.of \in {"0", "1"}
At(x, f) == IF x.json = "object" /\ f \in DOMAIN x.at THEN x.at[f] ELSE Undefined
Nothing(x) == x \in {JNull, Undefined}

TextToBig(s) == IF s \in Canonical.Int64 THEN Big(s) ELSE IF s = "" THEN Big("0") ELSE Throws

\* BigInt(x): a list of one element is read as that element's text, an empty one as 0.
RECURSIVE BigInt(_)
BigInt(x) ==
    CASE x.json = "string" -> TextToBig(x.of)
      [] x.json = "number" -> IF IsInteger(x) THEN Big(x.of) ELSE Throws
      [] x.json = "bool" -> Big(IF x.of = "true" THEN "1" ELSE "0")
      [] x.json = "array" ->
           IF x.items = <<>> THEN Big("0")
           ELSE IF Len(x.items) > 1 \/ x.items[1].json = "bool" THEN Throws
           ELSE IF x.items[1] = JNull THEN Big("0") ELSE BigInt(x.items[1])
      [] OTHER -> Throws

\* Object.entries(x), and the keys of { ...x }.  No text here has two digits: one
\* entry is all BigInt can tell.
Entries(x) ==
    CASE x.json = "object" -> x.at
      [] x.json = "array" -> [f \in {<<"0", "1">>[i] : i \in DOMAIN x.items} |-> x.items[IF f = "0" THEN 1 ELSE 2]]
      [] x.json = "string" -> IF x.of = "" THEN NoFields ELSE [f \in {"0"} |-> x]
      [] OTHER -> NoFields

(* validators.ts -----------------------------------------------------------*)
\* is<Type>: whether the revived x is a t.  The fields are all those of the type.
RECURSIVE is_check(_, _)
FieldsCheck(fields, x) ==
    /\ x.json = "object"
    /\ \A f \in DOMAIN fields :
          \/ fields[f].optional /\ At(x, f) = Undefined
          \/ is_check(fields[f].type, At(x, f))

VariantCheck(t, x) ==
    IF t.kind = "Enum" /\ Simple(t.name)
    THEN x.json = "string" /\ x.of \in DOMAIN Decl[t.name]
    ELSE \E v \in DOMAIN VariantFields(t) :
            /\ At(x, "type") = JString(v)
            /\ FieldsCheck([f \in DOMAIN VariantFields(t)[v] |-> Required(VariantFields(t)[v][f])], x)

is_check(t, x) ==
    CASE t.kind = "Int" -> IsInteger(x)
      [] t.kind = "Int64" -> x.json = "bigint"
      [] t.kind = "Float" -> x.json = "number"
      [] t.kind \in {"Decimal", "Timestamp", "Uuid"} -> IF x.json = "string" THEN x.of \in Canonical[t.kind] ELSE FALSE
      [] t.kind = "String" -> x.json = "string"
      [] t.kind = "Bool" -> x.json = "bool"
      [] t.kind = "Optional" -> x = JNull \/ is_check(t.of, x)
      [] t.kind = "List" -> x.json = "array" /\ \A i \in DOMAIN x.items : is_check(t.of, x.items[i])
      [] t.kind = "Map" -> x.json = "object" /\ \A f \in DOMAIN x.at : is_check(t.of, x.at[f])
      [] t.kind = "Struct" -> FieldsCheck(t.fields, x)
      [] t.kind \in {"Enum", "Result"} -> VariantCheck(t, x)
      [] t.kind = "Union" -> \E m \in RangeOf(t.members) : is_check(m, x)

RECURSIVE contains_int64(_)
contains_int64(t) ==
    CASE t.kind = "Int64" -> TRUE
      [] t.kind \in {"Optional", "List", "Map"} -> contains_int64(t.of)
      [] t.kind = "Struct" -> \E f \in DOMAIN t.fields : contains_int64(t.fields[f].type)
      [] t.kind \in {"Enum", "Result"} ->
           \E fs \in RangeOf(VariantFields(t)) : \E f \in DOMAIN fs : contains_int64(fs[f])
      [] t.kind = "Union" -> \E m \in RangeOf(t.members) : contains_int64(m)
      [] OTHER -> FALSE

\* { ...x, f: revived, ... }
RECURSIVE revive(_, _)
FieldsRevive(fields, x) ==
    LET told == [f \in {g \in DOMAIN fields : contains_int64(fields[g].type)} |->
                    IF fields[f].optional /\ At(x, f) = Undefined THEN Undefined
                    ELSE revive(fields[f].type, At(x, f))]
        rest == [f \in DOMAIN Entries(x) \ DOMAIN told |-> Entries(x)[f]]
        kept == {f \in DOMAIN told : told[f] # Undefined}
    IN IF Throws \in RangeOf(told) \/ (Nothing(x) /\ told # NoFields) THEN Throws
       ELSE JObject([f \in DOMAIN rest \cup kept |-> IF f \in kept THEN told[f] ELSE rest[f]])

EnumRevive(t, x) ==
    LET named == {v \in DOMAIN VariantFields(t) : At(x, "type") = JString(v)}
    IN IF Nothing(x) THEN Throws
       ELSE IF named = {} THEN x
       ELSE LET fs == VariantFields(t)[CHOOSE v \in named : TRUE]
            IN FieldsRevive([f \in DOMAIN fs |-> Required(fs[f])], x)

ResultRevive(t, x) ==
    LET ok   == At(x, "type") = JString("Ok")
        part == IF ok THEN t.ok ELSE t.err
        key  == IF ok THEN "value" ELSE "error"
        told == revive(part, At(x, key))
    IN IF Nothing(x) THEN Throws
       ELSE IF ~contains_int64(part) THEN x
       ELSE IF told = Throws THEN Throws
       ELSE JObject([f \in {"type", key} |-> IF f = key THEN told ELSE JString(IF ok THEN "Ok" ELSE "Err")])

\* Mutant: a member of a union is looked for before it is revived.
IsMemberUnrevived(m, x, revived) == is_check(m, x)

\* One member of a union: a candidate that throws is not it.
IsMember(m, x, revived) == revived # Throws /\ is_check(m, revived)

UnionRevive(ms, x) ==
    LET fits == {i \in DOMAIN ms : IsMember(ms[i], x, revive(ms[i], x))}
    IN IF fits = {} THEN x ELSE revive(ms[Least(fits)], x)

revive(t, x) ==
    CASE ~contains_int64(t) -> x
      [] contains_int64(t) /\ t.kind = "Int64" -> BigInt(x)
      [] contains_int64(t) /\ t.kind = "Optional" -> IF x = JNull THEN x ELSE revive(t.of, x)
      [] contains_int64(t) /\ t.kind = "List" ->
           IF x.json # "array" THEN Throws
           ELSE LET items == [i \in DOMAIN x.items |-> revive(t.of, x.items[i])]
                IN IF Throws \in RangeOf(items) THEN Throws ELSE JArray(items)
      [] contains_int64(t) /\ t.kind = "Map" ->
           LET at == [f \in DOMAIN Entries(x) |-> revive(t.of, Entries(x)[f])]
           IN IF Nothing(x) \/ Throws \in RangeOf(at) THEN Throws ELSE JObject(at)
      [] contains_int64(t) /\ t.kind = "Struct" -> FieldsRevive(t.fields, x)
      [] contains_int64(t) /\ t.kind = "Enum" -> EnumRevive(t, x)
      [] contains_int64(t) /\ t.kind = "Result" -> ResultRevive(t, x)
      [] contains_int64(t) /\ t.kind = "Union" -> UnionRevive(t.members, x)

(* client.ts ---------------------------------------------------------------*)
\* What the method of the client returns for a JSON body; Throws is any exception.
received(t, json) ==
    LET revived == revive(t, json)
    IN IF revived = Throws THEN Throws
       ELSE IF is_check(t, revived) THEN revived ELSE Throws

\* The body of a request: __int64SafeStringify when the type of an argument needs
\* it, else JSON.stringify, which throws at a bigint and writes 1.0 as 1.
RECURSIVE stringify(_, _)
stringify(safe, x) ==
    CASE x.json = "bigint" -> IF safe THEN JString(x.of) ELSE Throws
      [] x.json = "number" -> JNumber(x.of, IsInteger(x))
      [] x.json = "array" ->
           LET items == [i \in DOMAIN x.items |-> stringify(safe, x.items[i])]
           IN IF Throws \in RangeOf(items) THEN Throws ELSE JArray(items)
      [] x.json = "object" ->
           LET at == [f \in DOMAIN x.at |-> stringify(safe, x.at[f])]
           IN IF Throws \in RangeOf(at) THEN Throws ELSE JObject(at)
      [] OTHER -> x

(* schemas.ts and openapi.json: whether they admit a JSON ------------------*)
\* Mutant: the hidden fields are asked for.
AllFields(t) == DOMAIN t.fields

VisibleFields(t) == DOMAIN t.fields \ Hidden(t)

RECURSIVE zod(_, _)
ZodFields(fields, ask, j) ==
    /\ j.json = "object"
    /\ \A f \in ask : IF f \in DOMAIN j.at THEN zod(fields[f].type, j.at[f]) ELSE fields[f].optional

ZodVariant(t, j) ==
    IF t.kind = "Enum" /\ Simple(t.name)
    THEN j.json = "string" /\ j.of \in DOMAIN Decl[t.name]
    ELSE \E v \in DOMAIN VariantFields(t) :
            LET fs == VariantFields(t)[v]
            IN /\ At(j, "type") = JString(v)
               /\ ZodFields([f \in DOMAIN fs |-> Required(fs[f])], DOMAIN fs, j)

zod(t, j) ==
    CASE t.kind = "Int" -> IsInteger(j)
      [] t.kind = "Int64" -> IsInteger(j) \/ j.json \in {"string", "bigint"}
      [] t.kind = "Float" -> j.json = "number"
      [] t.kind \in {"Decimal", "Timestamp", "Uuid"} -> IF j.json = "string" THEN j.of \in Canonical[t.kind] ELSE FALSE
      [] t.kind = "String" -> j.json = "string"
      [] t.kind = "Bool" -> j.json = "bool"
      [] t.kind = "Optional" -> j = JNull \/ zod(t.of, j)
      [] t.kind = "List" -> j.json = "array" /\ \A i \in DOMAIN j.items : zod(t.of, j.items[i])
      [] t.kind = "Map" -> j.json = "object" /\ \A f \in DOMAIN j.at : zod(t.of, j.at[f])
      [] t.kind = "Struct" -> ZodFields(t.fields, VisibleFields(t), j)
      [] t.kind \in {"Enum", "Result"} -> ZodVariant(t, j)
      [] t.kind = "Union" -> \E m \in RangeOf(t.members) : zod(m, j)

\* The formats of OpenAPI's strings are annotations: any string is admitted.
RECURSIVE openapi(_, _)
OpenApiFields(fields, ask, j) ==
    /\ j.json = "object"
    /\ \A f \in ask : IF f \in DOMAIN j.at THEN openapi(fields[f].type, j.at[f]) ELSE fields[f].optional

OpenApiVariant(t, j) ==
    IF t.kind = "Enum" /\ Simple(t.name)
    THEN j.json = "string" /\ j.of \in DOMAIN Decl[t.name]
    ELSE 1 = Cardinality({v \in DOMAIN VariantFields(t) :
                LET fs == VariantFields(t)[v]
                IN /\ At(j, "type") = JString(v)
                   /\ OpenApiFields([f \in DOMAIN fs |-> Required(fs[f])], DOMAIN fs, j)})

openapi(t, j) ==
    CASE t.kind \in {"Int", "Int64"} -> IsInteger(j)
      [] t.kind = "Float" -> j.json = "number"
      [] t.kind \in {"String", "Decimal", "Timestamp", "Uuid"} -> j.json = "string"
      [] t.kind = "Bool" -> j.json = "bool"
      [] t.kind = "Optional" -> j = JNull \/ openapi(t.of, j)
      [] t.kind = "List" -> j.json = "array" /\ \A i \in DOMAIN j.items : openapi(t.of, j.items[i])
      [] t.kind = "Map" -> j.json = "object" /\ \A f \in DOMAIN j.at : openapi(t.of, j.at[f])
      [] t.kind = "Struct" -> OpenApiFields(t.fields, VisibleFields(t), j)
      [] t.kind \in {"Enum", "Result"} -> OpenApiVariant(t, j)
      [] t.kind = "Union" -> \E m \in RangeOf(t.members) : openapi(m, j)
=============================================================================
