------------------------------ MODULE Matching ------------------------------
(***************************************************************************)
(* match: what the checker accepts (compiler/src/checker.rs, types.rs) and  *)
(* what the interpreter then does (compiler/src/runtime/mod.rs).            *)
(*                                                                          *)
(* Types, values and patterns are records tagged by kind.  A named type is  *)
(* its resolved form; an enum is its name and its declaration is Decl.      *)
(* Dynamic, Patch and the marker types are left out: no match tells their   *)
(* values apart.  A function has one parameter.  What a scalar holds is     *)
(* named by a string.                                                       *)
(***************************************************************************)
EXTENDS Naturals, Sequences, FiniteSets

RangeOf(s) == {s[i] : i \in DOMAIN s}

(* Types, values, patterns -------------------------------------------------*)
Scalar(k)   == [kind |-> k]
Optional(t) == [kind |-> "Optional", of |-> t]
ListOf(t)   == [kind |-> "List", of |-> t]
MapOf(t)    == [kind |-> "Map", of |-> t]
ResultOf(a, b) == [kind |-> "Result", ok |-> a, err |-> b]
Struct(fs)  == [kind |-> "Struct", fields |-> fs]
Enum(n)     == [kind |-> "Enum", name |-> n]
Union(ms)   == [kind |-> "Union", members |-> ms]
Required(t) == [type |-> t, optional |-> FALSE]
Maybe(t)    == [type |-> t, optional |-> TRUE]

Null == [is |-> "Null"]
Data(k, x) == [is |-> k, data |-> x]
Record(f)  == [is |-> "Struct", at |-> f]
Items(s)   == [is |-> "List", items |-> s]
Variant(e, v, f) == [is |-> "Variant", enum |-> e, variant |-> v, at |-> f]

Bind       == [pat |-> "Bind"]
Lit(v)     == [pat |-> "Lit", value |-> v]
Of(e, v, f) == [pat |-> "Variant", enum |-> e, variant |-> v, at |-> f]
Typed(t)   == [pat |-> "Type", type |-> t]
Or(ps)     == [pat |-> "Or", subs |-> ps]
Arm(p, g)  == [pattern |-> p, guarded |-> g]

(* The enums of the checked program: name -> variant -> field -> type.     *)
NoFields == [f \in {} |-> Null]
Decl == [E |-> [A |-> NoFields, B |-> [n |-> Scalar("Int")]],
         Role |-> [Admin |-> NoFields, Guest |-> NoFields],
         Wide |-> [A |-> NoFields, B |-> [n |-> Scalar("Int64")]]]

EnumName(t) == IF t.kind = "Result" THEN "Result" ELSE t.name
VariantFields(t) ==
    IF t.kind = "Result" THEN [Ok |-> [value |-> t.ok], Err |-> [error |-> t.err]]
    ELSE Decl[t.name]

(* Subtyping, in the order of the arms of is_subtype ----------------------*)
RECURSIVE Subtype(_, _)
Subtype(a, b) ==
    \/ a = b
    \/ CASE a.kind = "Optional" /\ b.kind = "Optional" -> Subtype(a.of, b.of)
         [] a.kind # "Optional" /\ b.kind = "Optional" -> a.kind = "Null" \/ Subtype(a, b.of)
         [] a.kind = b.kind /\ a.kind \in {"List", "Map"} -> Subtype(a.of, b.of)
         [] a.kind = "Function" /\ b.kind = "Function" -> Subtype(b.param, a.param) /\ Subtype(a.ret, b.ret)
         [] a.kind = "Tuple" /\ b.kind = "Tuple" ->
              Len(a.parts) = Len(b.parts) /\ \A i \in DOMAIN a.parts : Subtype(a.parts[i], b.parts[i])
         [] a.kind = "Result" /\ b.kind = "Result" -> Subtype(a.ok, b.ok) /\ Subtype(a.err, b.err)
         [] a.kind = "Struct" /\ b.kind = "Struct" ->
              \A f \in DOMAIN b.fields :
                  IF f \in DOMAIN a.fields
                  THEN /\ b.fields[f].optional \/ ~a.fields[f].optional
                       /\ Subtype(a.fields[f].type, b.fields[f].type)
                  ELSE b.fields[f].optional
         [] a.kind = "Union" /\ b.kind # "Optional" -> \A m \in RangeOf(a.members) : Subtype(m, b)
         [] a.kind # "Union" /\ b.kind = "Union" -> \E m \in RangeOf(b.members) : Subtype(a, m)
         [] OTHER -> FALSE

Equivalent(a, b) == Subtype(a, b) /\ Subtype(b, a)

(* Members of a union that a match may have to tell apart -----------------*)
TagConflict(a, b) ==
    /\ ~(a.kind = "List" /\ b.kind = "List")
    /\ a.kind # "Optional" /\ b.kind # "Optional"
    /\ ~(a.kind = "Struct" /\ b.kind = "Struct")
    /\ a # b

Distinguishable(a, b) ==
    IF a.kind = "Struct" /\ b.kind = "Struct"
    THEN \E f \in DOMAIN a.fields \cap DOMAIN b.fields :
            /\ ~a.fields[f].optional /\ ~b.fields[f].optional
            /\ TagConflict(a.fields[f].type, b.fields[f].type)
    ELSE TagConflict(a, b)

AllDistinguishable(ms) ==
    \A i, j \in DOMAIN ms : i < j => Distinguishable(ms[i], ms[j])

(* Which patterns the checker admits against a type, and what an unguarded *)
(* arm with that pattern covers.                                           *)
LiteralFits(v, t) ==
    \/ v.is = "Int" /\ t.kind \in {"Int", "Int64"}
    \/ v.is = "String" /\ t.kind = "String"
    \/ v.is = "Bool" /\ t.kind = "Bool"
    \/ v = Null /\ t.kind = "Optional"

RECURSIVE Binds(_)
Binds(p) ==
    CASE p.pat \in {"Bind", "Type"} -> TRUE
      [] p.pat = "Lit" -> FALSE
      [] p.pat = "Variant" -> \E f \in DOMAIN p.at : Binds(p.at[f])
      [] p.pat = "Or" -> \E s \in RangeOf(p.subs) : Binds(s)

\* variant_field_types looks the enum of the pattern up, whatever the type is.
PatternFields(p, t) ==
    IF t.kind = "Result" THEN VariantFields(t)
    ELSE IF p.enum \in DOMAIN Decl THEN Decl[p.enum] ELSE NoFields

\* bind_pattern: a nested pattern only has to be well formed, it covers nothing.
RECURSIVE WellFormed(_, _)
WellFormed(p, t) ==
    CASE p.pat \in {"Bind", "Type"} -> TRUE
      [] p.pat = "Lit" -> LiteralFits(p.value, t)
      [] p.pat = "Variant" ->
           LET fields == PatternFields(p, t)
           IN /\ p.variant \in DOMAIN fields
              /\ \A f \in DOMAIN p.at :
                    f \in DOMAIN fields[p.variant] /\ WellFormed(p.at[f], fields[p.variant][f])
      [] p.pat = "Or" -> \A s \in RangeOf(p.subs) : ~Binds(s) /\ WellFormed(s, t)

RECURSIVE Coverable(_, _)
Coverable(p, t) ==
    CASE p.pat = "Bind" -> TRUE
      [] p.pat = "Or" -> \A s \in RangeOf(p.subs) : Coverable(s, t)
      [] p.pat = "Variant" -> t.kind \in {"Enum", "Result"} /\ p.enum = EnumName(t)
      [] p.pat = "Lit" -> /\ t.kind \in {"Int", "Int64", "String", "Bool", "Optional"}
                          /\ LiteralFits(p.value, t)
      [] p.pat = "Type" -> \/ t.kind = "Union" /\ \E m \in RangeOf(t.members) : Equivalent(p.type, m)
                           \/ t.kind = "Optional" /\ Equivalent(p.type, t.of)

\* The leaves of the patterns of the arms that count.
RECURSIVE Leaves(_)
Leaves(p) == IF p.pat = "Or" THEN UNION {Leaves(s) : s \in RangeOf(p.subs)} ELSE {p}

\* Mutant: an arm with a guard counts as well.
CountedWithGuards(arms) == UNION {Leaves(a.pattern) : a \in RangeOf(arms)}

Counted(arms) == UNION {Leaves(a.pattern) : a \in {x \in RangeOf(arms) : ~x.guarded}}

Covers(leaves, t) ==
    \/ Bind \in leaves
    \/ /\ t.kind \in {"Enum", "Result"}
       /\ \A v \in DOMAIN VariantFields(t) : \E p \in leaves : p.pat = "Variant" /\ p.variant = v
    \/ t.kind = "Bool" /\ \A b \in {"true", "false"} : Lit(Data("Bool", b)) \in leaves
    \/ /\ t.kind = "Union"
       /\ \A m \in RangeOf(t.members) : \E p \in leaves : p.pat = "Type" /\ Equivalent(p.type, m)
    \/ /\ t.kind = "Optional"
       /\ Lit(Null) \in leaves
       /\ \E p \in leaves : p.pat = "Type" /\ Equivalent(p.type, t.of)

Matchable == {"Enum", "Result", "Int", "Int64", "String", "Bool", "Union", "Optional"}

\* check_match, without the types of the bodies.
Accepted(t, arms) ==
    /\ t.kind \in Matchable
    /\ t.kind = "Union" => AllDistinguishable(t.members)
    /\ \A a \in RangeOf(arms) : ~a.guarded => Coverable(a.pattern, t)
    /\ \A a \in RangeOf(arms) : WellFormed(a.pattern, t)
    /\ Covers(Counted(arms), t)

(* What the interpreter does ----------------------------------------------*)
RECURSIVE HasShape(_, _)
HasShape(v, t) ==
    CASE t.kind \in {"Int", "Int64", "Float", "Decimal", "String", "Bool", "Timestamp", "Null"} -> v.is = t.kind
      [] t.kind = "Void" -> v = Null
      [] t.kind = "Function" -> FALSE
      [] t.kind = "Optional" -> v = Null \/ HasShape(v, t.of)
      [] t.kind = "List" -> v.is = "List" /\ \A x \in RangeOf(v.items) : HasShape(x, t.of)
      [] t.kind = "Map" -> v.is = "Struct" /\ \A f \in DOMAIN v.at : HasShape(v.at[f], t.of)
      [] t.kind = "Tuple" -> v.is = "Tuple" /\ Len(v.items) = Len(t.parts)
                             /\ \A i \in DOMAIN t.parts : HasShape(v.items[i], t.parts[i])
      [] t.kind \in {"Enum", "Result"} -> v.is = "Variant" /\ v.enum = EnumName(t)
      [] t.kind = "Struct" ->
           /\ v.is = "Struct"
           /\ \A f \in DOMAIN t.fields :
                IF f \in DOMAIN v.at THEN HasShape(v.at[f], t.fields[f].type)
                ELSE t.fields[f].optional
      [] t.kind = "Union" -> \E m \in RangeOf(t.members) : HasShape(v, m)

RECURSIVE Matches(_, _)
Matches(p, v) ==
    CASE p.pat = "Bind" -> TRUE
      [] p.pat = "Lit" -> p.value.is = v.is /\ p.value = v
      [] p.pat = "Variant" ->
           /\ v.is = "Variant" /\ v.variant = p.variant
           /\ \A f \in DOMAIN p.at : f \in DOMAIN v.at /\ Matches(p.at[f], v.at[f])
      [] p.pat = "Type" -> HasShape(v, p.type)
      [] p.pat = "Or" -> \E s \in RangeOf(p.subs) : Matches(s, v)

\* The arm that runs when every guard is false; 0 is the error "no arm matched".
ArmOf(arms, v) ==
    LET hits == {i \in DOMAIN arms : ~arms[i].guarded /\ Matches(arms[i].pattern, v)}
    IN IF hits = {} THEN 0 ELSE CHOOSE i \in hits : \A j \in hits : i <= j
=============================================================================
