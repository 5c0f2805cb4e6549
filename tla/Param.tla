------------------------------- MODULE Param -------------------------------
(***************************************************************************)
(* Base/Param.h: a fixed-point value between limits, in an int32_t, and       *)
(* EventParam, which tells its listeners when it is assigned.  A value here is *)
(* the scaled integer _value; GetValue() of d is d / Decimal, float rounding    *)
(* left out.                                                                *)
(***************************************************************************)
EXTENDS Integers

CONSTANTS
    Limit,          \* MAX, 1 << 30; MIN is -Limit and ValueType holds -2 * Limit .. 2 * Limit - 1
    Decimal,        \* 10000
    Params          \* Params that are assigned or operands, as _value

VARIABLES
    value,          \* EventParam::_param
    heard,          \* the newParam of the last OnChange
    tame            \* history: have value and the operands since been inside the limits?

vars == <<value, heard, tame>>

Init == value = 0 /\ heard = 0 /\ tame = TRUE

MutClamp(x) == IF x < -Limit THEN -Limit ELSE x
Clamp(x)    == IF x > Limit THEN Limit ELSE IF x < -Limit THEN -Limit ELSE x

\* _value + delta._value is an int, widened to int64_t afterwards: when it overflows
\* the build may wrap it, or have added 64-bit values.
Wrapped(x) == ((x + 2 * Limit) % (4 * Limit)) - 2 * Limit
Ints(x)    == {x, Wrapped(x)}

\* static_cast to an integer.
Trunc(x, y) ==
    LET abs(z) == IF z < 0 THEN -z ELSE z
    IN  (abs(x) \div abs(y)) * (IF (x < 0) = (y < 0) THEN 1 ELSE -1)

Inside(x)  == x \in -Limit .. Limit
Overflow(x) == x \notin -2 * Limit .. 2 * Limit - 1

\* OnChange's listeners, in the order in which they subscribed.
Tell(p) == heard' = p

\* EventParam::operator=: LimitCheck's listeners only get a const Param.
Assign(p) == value' = p /\ Tell(p) /\ tame' = Inside(p)

Plus(d) ==
    /\ \E x \in Ints(value + d) : value' = Clamp(x)
    /\ tame' = (tame /\ Inside(d) /\ ~Overflow(value + d))
    /\ UNCHANGED heard

Minus(d) ==
    /\ \E x \in Ints(value - d) : value' = Clamp(x)
    /\ tame' = (tame /\ Inside(d) /\ ~Overflow(value - d))
    /\ UNCHANGED heard

\* Both operators divide by Decimal once more than the scale of the operands calls for.
Times(d) == value' = Clamp(Trunc(value * d, Decimal * Decimal)) /\ UNCHANGED <<heard, tame>>

Over(d) ==
    /\ value' = Clamp(IF d = 0 THEN Trunc(value, Decimal) ELSE Trunc(value, d))
    /\ UNCHANGED <<heard, tame>>

Operate(d) == Plus(d) \/ Minus(d) \/ Times(d) \/ Over(d)

\* EventParam forwards the arithmetic to its Param, and tells nobody.
Next == \E d \in Params : Assign(d) \/ Operate(d)

Spec == Init /\ [][Next]_vars

-----------------------------------------------------------------------------
\* In any sequence of operations a value that was assigned inside the limits stays
\* inside, and adding never lowers it nor subtracting raises it, at the limits too.  One
\* sum is excepted (tame' is FALSE behind it): MAX + MAX, the only one of two values inside
\* the limits that does not fit into an int32_t.
Saturates == [][tame' =>
    /\ Inside(value')
    /\ \A d \in Params : d >= 0 =>
          (Plus(d) => value' >= value) /\ (Minus(d) => value' <= value)]_vars
=============================================================================
