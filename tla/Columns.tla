------------------------------ MODULE Columns ------------------------------
(***************************************************************************)
(* How a field of a collection is stored and read back: the plan of its     *)
(* column and the two conversions of runtime/db.rs, over the JSON encoding  *)
(* of runtime/mod.rs.  Validators, encryption and error texts are left out. *)
(***************************************************************************)
EXTENDS Matching

(* The texts that parse as something else than a plain string.             *)
Canonical == [Int64 |-> {"0", "1"}, Decimal |-> {"1.0000"},
              Timestamp |-> {"1970-01-01T00:00:00.000Z"},
              Uuid |-> {"00000000-0000-4000-8000-000000000000"}]

IsNaN(v) == v.is = "Float" /\ v.data = "NaN"
Absent == [is |-> "Absent"]
Fail   == [is |-> "Fail"]

Simple(e) == e \in DOMAIN Decl /\ \A v \in DOMAIN Decl[e] : DOMAIN Decl[e][v] = {}

(* JSON --------------------------------------------------------------------*)
JNull        == [json |-> "null"]
JNumber(n, whole) == [json |-> "number", of |-> n, whole |-> whole]
JString(t)   == [json |-> "string", of |-> t]
JBool(b)     == [json |-> "bool", of |-> b]
JArray(s)    == [json |-> "array", items |-> s]
JObject(f)   == [json |-> "object", at |-> f]

RECURSIVE value_to_json(_)
value_to_json(v) ==
    CASE v.is = "Null" -> JNull
      [] v.is = "Int" -> JNumber(v.data, TRUE)
      [] v.is = "Float" -> IF IsNaN(v) THEN JNull ELSE JNumber(v.data, FALSE)
      [] v.is \in {"Int64", "Decimal", "Timestamp", "String", "Uuid"} -> JString(v.data)
      [] v.is = "Bool" -> JBool(v.data)
      [] v.is = "List" -> JArray([i \in DOMAIN v.items |-> value_to_json(v.items[i])])
      [] v.is = "Struct" -> JObject([f \in DOMAIN v.at |-> value_to_json(v.at[f])])
      [] v.is = "Variant" ->
           IF Simple(v.enum) THEN JString(v.variant)
           ELSE JObject([f \in DOMAIN v.at \cup {"type"} |->
                           IF f = "type" THEN JString(v.variant)
                           ELSE value_to_json(v.at[f])])

RECURSIVE json_to_typed_value(_, _)

\* struct_from_json: only declared fields are copied, a missing optional one is skipped.
StructFromJson(j, fields) ==
    IF j.json # "object" \/ \E f \in DOMAIN fields : ~fields[f].optional /\ f \notin DOMAIN j.at
    THEN Fail
    ELSE LET at == [f \in DOMAIN fields \cap DOMAIN j.at |-> json_to_typed_value(j.at[f], fields[f].type)]
         IN IF \E f \in DOMAIN at : at[f] = Fail THEN Fail ELSE Record(at)

VariantFromJson(j, t) ==
    IF t.kind = "Enum" /\ Simple(t.name)
    THEN IF j.json = "string" /\ j.of \in DOMAIN Decl[t.name]
         THEN Variant(t.name, j.of, NoFields) ELSE Fail
    ELSE IF j.json # "object" THEN Fail
    ELSE IF "type" \notin DOMAIN j.at THEN Fail
    ELSE IF j.at["type"].json # "string" THEN Fail
    ELSE IF j.at["type"].of \notin DOMAIN VariantFields(t) THEN Fail
    ELSE LET name == j.at["type"].of
             fields == VariantFields(t)[name]
             at == [f \in DOMAIN fields \cap DOMAIN j.at |-> json_to_typed_value(j.at[f], fields[f])]
         IN IF DOMAIN at # DOMAIN fields \/ \E f \in DOMAIN at : at[f] = Fail THEN Fail
            ELSE Variant(EnumName(t), name, at)

json_to_typed_value(j, t) ==
    CASE t.kind = "Int" -> IF j.json = "number" /\ j.whole THEN Data("Int", j.of) ELSE Fail
      [] t.kind = "Float" -> IF j.json = "number" THEN Data("Float", j.of) ELSE Fail
      [] t.kind \in DOMAIN Canonical ->
           IF j.json = "string" THEN IF j.of \in Canonical[t.kind] THEN Data(t.kind, j.of) ELSE Fail
           ELSE Fail
      [] t.kind = "String" -> IF j.json = "string" THEN Data("String", j.of) ELSE Fail
      [] t.kind = "Bool" -> IF j.json = "bool" THEN Data("Bool", j.of) ELSE Fail
      [] t.kind = "Optional" -> IF j = JNull THEN Null ELSE json_to_typed_value(j, t.of)
      [] t.kind = "List" ->
           IF j.json # "array" THEN Fail
           ELSE LET items == [i \in DOMAIN j.items |-> json_to_typed_value(j.items[i], t.of)]
                IN IF Fail \in RangeOf(items) THEN Fail ELSE Items(items)
      [] t.kind = "Map" ->
           IF j.json # "object" THEN Fail
           ELSE LET at == [f \in DOMAIN j.at |-> json_to_typed_value(j.at[f], t.of)]
                IN IF \E f \in DOMAIN at : at[f] = Fail THEN Fail ELSE Record(at)
      [] t.kind = "Struct" -> StructFromJson(j, t.fields)
      [] t.kind \in {"Enum", "Result"} -> VariantFromJson(j, t)
      [] t.kind = "Union" ->
           LET fits == {i \in DOMAIN t.members : json_to_typed_value(j, t.members[i]) # Fail}
           IN IF fits = {} THEN Fail
              ELSE json_to_typed_value(j, t.members[CHOOSE i \in fits : \A k \in fits : i <= k])

(* Columns: a field is [type, optional] ------------------------------------*)
Native == {"Int", "Int64", "Decimal", "Timestamp", "Float", "String", "Uuid", "Bool"}

Effective(t) == IF t.kind = "Optional" THEN t.of ELSE t

native_sql_type(t) == t.kind \in Native \/ (t.kind = "Enum" /\ Simple(t.name))

\* Mutant: the three states are forgotten.
IsJsonByType(field) == ~native_sql_type(Effective(field.type))

\* for_field: x?: T? has three states, so it is stored as JSON whatever T is.
IsJson(field) ==
    \/ field.optional /\ field.type.kind = "Optional"
    \/ ~native_sql_type(Effective(field.type))

NullCell == [cell |-> "null"]
Cell(k, x) == [cell |-> k, of |-> x]

\* SQLite stores a NaN as NULL.
write_param(field, slot) ==
    CASE slot = Absent -> NullCell
      [] slot # Absent /\ IsJson(field) -> Cell("json", value_to_json(slot))
      [] slot # Absent /\ ~IsJson(field) ->
           IF slot = Null \/ IsNaN(slot) THEN NullCell
           ELSE IF slot.is = "Variant" THEN Cell("native", slot.variant)
           ELSE Cell("native", slot.data)

decode_column_cell(field, cell) ==
    LET t == Effective(field.type)
    IN CASE cell = NullCell ->
              IF field.optional THEN Absent
              ELSE IF ~IsJson(field) /\ field.type.kind = "Optional" THEN Null
              ELSE Fail
         [] cell # NullCell /\ IsJson(field) -> json_to_typed_value(cell.of, field.type)
         [] cell # NullCell /\ ~IsJson(field) ->
              IF t.kind = "Enum" THEN Variant(t.name, cell.of, NoFields)
              ELSE Data(t.kind, cell.of)
=============================================================================
