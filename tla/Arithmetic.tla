----------------------------- MODULE Arithmetic -----------------------------
(***************************************************************************)
(* The numbers of the interpreter (compiler/src/runtime/mod.rs): 64-bit     *)
(* integers with checked operations, and Decimal, a 128-bit integer scaled  *)
(* by DECIMAL_SCALE.  Both widths and the scale are parameters; None is the *)
(* runtime error, which is also what a division by zero gives.              *)
(***************************************************************************)
EXTENDS Integers

CONSTANTS
    None,      \* an operation that ends in an error
    MaxInt,    \* i64::MAX
    MaxWide,   \* i128::MAX
    Scale      \* DECIMAL_SCALE

Within(max, n) == IF -max - 1 <= n /\ n <= max THEN n ELSE None

Magnitude(n) == IF n < 0 THEN -n ELSE n
Sign(n)      == IF n < 0 THEN -1 ELSE 1

\* Division rounds towards zero, and what it leaves has the sign of the dividend.
Quotient(a, b)  == Sign(a) * Sign(b) * (Magnitude(a) \div Magnitude(b))
Remainder(a, b) == Sign(a) * (Magnitude(a) % Magnitude(b))

\* checked_add and its like, at width max.  MIN % -1 is an error too.
checked(op, max, a, b) ==
    CASE op = "+" -> Within(max, a + b)
      [] op = "-" -> Within(max, a - b)
      [] op = "*" -> Within(max, a * b)
      [] op \in {"/", "%"} ->
            IF b = 0 \/ (b = -1 /\ a = -max - 1) THEN None
            ELSE IF op = "/" THEN Within(max, Quotient(a, b)) ELSE Remainder(a, b)

\* Mutant: the sign of the divisor is not looked at.
RoundPositive(numerator, denominator) ==
    IF denominator = 0 \/ checked("/", MaxWide, numerator, denominator) = None THEN None
    ELSE LET q == Quotient(numerator, denominator)
             double == checked("*", MaxWide, Magnitude(Remainder(numerator, denominator)), 2)
         IN IF Remainder(numerator, denominator) = 0 THEN q
            ELSE IF double = None THEN None
            ELSE IF double < Magnitude(denominator) THEN q
            ELSE q + Sign(numerator)

\* To the nearest, a tie away from zero.  |denominator| may not fit, nor twice the rest.
div_round(numerator, denominator) ==
    IF denominator = 0 \/ checked("/", MaxWide, numerator, denominator) = None THEN None
    ELSE LET q == Quotient(numerator, denominator)
             rest == Remainder(numerator, denominator)
             double == checked("*", MaxWide, Magnitude(rest), 2)
         IN IF rest = 0 THEN q
            ELSE IF double = None \/ Within(MaxWide, Magnitude(denominator)) = None THEN None
            ELSE IF double < Magnitude(denominator) THEN q
            ELSE Within(MaxWide, q + Sign(numerator) * Sign(denominator))

\* decimal_add, _sub, _mul and _div, on scaled numbers.
decimal(op, a, b) ==
    CASE op \in {"+", "-"} -> checked(op, MaxWide, a, b)
      [] op = "*" -> LET raw == checked("*", MaxWide, a, b)
                     IN IF raw = None THEN None ELSE div_round(raw, Scale)
      [] op = "/" -> LET scaled == checked("*", MaxWide, a, Scale)
                     IN IF b = 0 \/ scaled = None THEN None ELSE div_round(scaled, b)
=============================================================================
