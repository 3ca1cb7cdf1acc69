------------------------------- MODULE Numbers -------------------------------
(***************************************************************************)
(* The operations on numbers (Arithmetic): each question has an operation   *)
(* and its left operand, and is answered for every right operand.           *)
(***************************************************************************)
EXTENDS Questions, Integers

CONSTANTS MaxInt, MaxWide, Scale   \* i64::MAX, i128::MAX, DECIMAL_SCALE

ASSUME NumbersAssumption ==
    /\ MaxInt \in Nat \ {0} /\ MaxWide \in Nat \ {0}
    /\ Scale \in Nat \ {0} /\ 2 * Scale <= MaxWide
    /\ None \notin Int

Arith == INSTANCE Arithmetic

Width(max) == -max - 1..max

AskNumber ==
    \/ \E op \in {"+", "-", "*", "/", "%"}, a \in Width(MaxInt) :
          question = [about |-> "number", kind |-> "Int", op |-> op, a |-> a]
    \/ \E op \in {"+", "-", "*", "/"}, a \in Width(MaxWide) :
          question = [about |-> "number", kind |-> "Decimal", op |-> op, a |-> a]

AnswerNumber ==
    /\ Asked("number") /\ answer = None
    /\ answer' = IF question.kind = "Int"
                 THEN [b \in Width(MaxInt) |-> Arith!checked(question.op, MaxInt, question.a, b)]
                 ELSE [b \in Width(MaxWide) |-> Arith!decimal(question.op, question.a, b)]
    /\ UNCHANGED question

NumberSpec == AskNumber /\ answer = None /\ [][AnswerNumber]_<<question, answer>>
----------------------------------------------------------------------------
Abs(n) == IF n < 0 THEN -n ELSE n
Fits(max, n) == -max - 1 <= n /\ n <= max

\* r is n / d to the nearest, a tie further from zero.
Nearest(r, n, d) ==
    LET off == 2 * Abs(r * d - n)
    IN off < Abs(d) \/ (off = Abs(d) /\ Abs(r * d) > Abs(n))

\* r is a / b towards zero.
Truncated(r, a, b) ==
    Abs(r * b) <= Abs(a) /\ Abs(a - r * b) < Abs(b) /\ (r = 0 \/ (r < 0) = ((a < 0) # (b < 0)))

\* r is what the division leaves, with the sign of a.
Left(r, a, b) ==
    Abs(r) < Abs(b) /\ (r = 0 \/ (r < 0) = (a < 0)) /\ \E q \in Width(MaxInt) : q * b + r = a

ExactOrError(max, r, exact) == IF Fits(max, exact) THEN r = exact ELSE r = None

Sum(op, a, b) == IF op = "+" THEN a + b ELSE a - b

IntExact(op, a, b, r) ==
    CASE op \in {"+", "-"} -> ExactOrError(MaxInt, r, Sum(op, a, b))
      [] op = "*" -> ExactOrError(MaxInt, r, a * b)
      [] op \in {"/", "%"} ->
            IF b = 0 \/ (b = -1 /\ a = -MaxInt - 1) THEN r = None
            ELSE IF op = "/" THEN Truncated(r, a, b) ELSE Left(r, a, b)

\* Why a quotient is an error: besides b = 0 and a result that does not fit, a b
\* without an absolute value, or twice the rest, or a times the scale, that does not fit.
NoQuotient(a, b) ==
    \/ b = 0 \/ b = -MaxWide - 1 \/ ~Fits(MaxWide, a * Scale)
    \/ 2 * (Abs(a * Scale) % Abs(b)) > MaxWide
    \/ ~\E q \in Width(MaxWide) : Nearest(q, a * Scale, b)

DecimalExact(op, a, b, r) ==
    CASE op \in {"+", "-"} -> ExactOrError(MaxWide, r, Sum(op, a, b))
      [] op = "*" -> IF Fits(MaxWide, a * b) THEN Nearest(r, a * b, Scale) ELSE r = None
      [] op = "/" -> IF r # None THEN b # 0 /\ Nearest(r, a * Scale, b) ELSE NoQuotient(a, b)

(* Integer and Decimal operations give the exact value, Decimal products    *)
(* and quotients the nearest one with ties away from zero; they end in an   *)
(* error when something on the way does not fit, and never wrap or panic.   *)
NumbersExact ==
    Answered("number") =>
        \A b \in DOMAIN answer :
            IF question.kind = "Int" THEN IntExact(question.op, question.a, b, answer[b])
            ELSE DecimalExact(question.op, question.a, b, answer[b])
=============================================================================
