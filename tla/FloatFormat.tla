---------------------------- MODULE FloatFormat ----------------------------
(***************************************************************************)
(* DoubleToBuffer and FloatToBuffer of src/strings/numbers.cc (and        *)
(* SimpleDtoa / SimpleFtoa, which call them): snprintf "%.*g" with DIG    *)
(* significant digits, parse the text back, and print again with DIG + 2  *)
(* when it does not give the value back.                                   *)
(*                                                                         *)
(* A binary floating-point format with Bits significant bits is a value   *)
(* m * 2^(b - Bits + 1), 2^(Bits-1) <= m < 2^Bits, in binade b.  IEEE       *)
(* float (24 bits) and double (53) are beyond TLC's integers, so each is  *)
(* a constant: what the code depends on is the relation between DIG and   *)
(* the bits, which the model keeps.  DIG is the C standard's FLT_DIG /    *)
(* DBL_DIG, the largest D with 10^D <= 2^(Bits-1).  glibc's snprintf and  *)
(* strtod round correctly, half to even, and so does the model.  Positive *)
(* normal values of a few binades; the sign is printed apart and changes  *)
(* nothing.                                                                *)
(***************************************************************************)
EXTENDS Integers

CONSTANTS
    DoubleBits,   \* significant bits of double (53)
    FloatBits,    \* significant bits of float (24)
    Binades,      \* binades b of the values printed (2^b <= value < 2^(b+1))
    NotRun

ASSUME \A p \in {DoubleBits, FloatBits} : p \in Nat /\ p >= 2
ASSUME \A b \in Binades : b \in 0..DoubleBits - 2 /\ b \in 0..FloatBits - 2

VARIABLES
    fn,      \* the function called
    m, b,    \* its argument: m * 2^(b - bits + 1)
    buffer   \* the decimal it leaves in buffer: value d * 10^k

vars == <<fn, m, b, buffer>>

Dig(p) == CHOOSE d \in 0..p : 10^d <= 2^(p - 1) /\ 2^(p - 1) < 10^(d + 1)

(* num / den rounded to the nearest integer, ties to even.                 *)
RoundHalfEven(num, den) ==
    LET q == num \div den
        r == num % den
    IN CASE 2 * r > den -> q + 1
         [] 2 * r < den -> q
         [] OTHER       -> q + (q % 2)

(* The ratio a * 10^k / 2^s as a numerator and denominator, k and s of    *)
(* either sign.                                                            *)
Ratio(a, k, s) ==
    [num |-> a * 10^(IF k > 0 THEN k ELSE 0) * 2^(IF s < 0 THEN -s ELSE 0),
     den |-> 10^(IF k < 0 THEN -k ELSE 0) * 2^(IF s > 0 THEN s ELSE 0)]

(***************************************************************************)
(* snprintf(buffer, size, "%.*g", prec, value) for value m * 2^(e), e =    *)
(* b - p + 1: the value rounded to prec significant digits, as d * 10^k.  *)
(* X is the decimal exponent of the value; a carry to 10^prec moves it.   *)
(***************************************************************************)
PrintG(p, mm, bb, prec) ==
    LET s == p - 1 - bb
        X == CHOOSE x \in 0..bb : 10^x * 2^s <= mm /\ mm < 10^(x + 1) * 2^s
        r == Ratio(mm, prec - 1 - X, s)
        d == RoundHalfEven(r.num, r.den)
    IN IF d = 10^prec THEN [d |-> 10^(prec - 1), k |-> X - prec + 2]
       ELSE [d |-> d, k |-> X - prec + 1]

(***************************************************************************)
(* strtod / strtof of the printed text: the value of the format nearest   *)
(* to d * 10^k, as [m, b]; rounding up to 2^Bits moves to the next       *)
(* binade.                                                                 *)
(***************************************************************************)
ParseBack(p, dec) ==
    LET B  == CHOOSE x \in 0..p : LET lo == Ratio(dec.d, dec.k, x)
                                          hi == Ratio(dec.d, dec.k, x + 1)
                                      IN lo.num >= lo.den /\ hi.num < hi.den
        r  == Ratio(dec.d, dec.k, B - p + 1)
        mm == RoundHalfEven(r.num, r.den)
    IN IF mm = 2^p THEN [m |-> 2^(p - 1), b |-> B + 1] ELSE [m |-> mm, b |-> B]

(* Mutant of ToBuffer: the second try with DIG + 1 digits.                 *)
ToBufferRetryDig1(p, mm, bb) ==
    LET first == PrintG(p, mm, bb, Dig(p)) IN
    IF ParseBack(p, first) # [m |-> mm, b |-> bb]
    THEN PrintG(p, mm, bb, Dig(p) + 1) ELSE first

(***************************************************************************)
(* The body both functions share: print with DIG digits; if strtod (for   *)
(* FloatToBuffer: safe_strtof, which accepts every "%g" text) does not    *)
(* give the value back, print again with DIG + 2.                          *)
(***************************************************************************)
ToBuffer(p, mm, bb) ==
    LET first == PrintG(p, mm, bb, Dig(p)) IN
    IF ParseBack(p, first) # [m |-> mm, b |-> bb]
    THEN PrintG(p, mm, bb, Dig(p) + 2) ELSE first

(* DoubleToBuffer(value, buffer), with DBL_DIG.                            *)
DoubleToBuffer(mm, bb) == ToBuffer(DoubleBits, mm, bb)

(* FloatToBuffer(value, buffer), with FLT_DIG.                             *)
FloatToBuffer(mm, bb) == ToBuffer(FloatBits, mm, bb)

Bits(f) == IF f = "SimpleDtoa" THEN DoubleBits ELSE FloatBits

Init ==
    /\ fn \in {"SimpleDtoa", "SimpleFtoa"}
    /\ b \in Binades
    /\ m \in 2^(Bits(fn) - 1)..2^Bits(fn) - 1
    /\ buffer = NotRun

(* SimpleDtoa(value): DoubleToBuffer into a local buffer.                  *)
SimpleDtoa ==
    /\ fn = "SimpleDtoa" /\ buffer = NotRun
    /\ buffer' = DoubleToBuffer(m, b)
    /\ UNCHANGED <<fn, m, b>>

(* SimpleFtoa(value): FloatToBuffer into a local buffer.                   *)
SimpleFtoa ==
    /\ fn = "SimpleFtoa" /\ buffer = NotRun
    /\ buffer' = FloatToBuffer(m, b)
    /\ UNCHANGED <<fn, m, b>>

Next == SimpleDtoa \/ SimpleFtoa

Spec == Init /\ [][Next]_vars

-----------------------------------------------------------------------------
TypeOK ==
    /\ fn \in {"SimpleDtoa", "SimpleFtoa"}
    /\ buffer = NotRun \/ buffer \in [d : Nat, k : Int]

(* The comment above SimpleDtoa: the value is printed "without losing     *)
(* precision": strtod of what DoubleToBuffer wrote gives the value back.  *)
DoubleRoundTrips ==
    fn = "SimpleDtoa" /\ buffer # NotRun =>
        ParseBack(DoubleBits, buffer) = [m |-> m, b |-> b]

(* The same promise for FloatToBuffer and strtof.                          *)
FloatRoundTrips ==
    fn = "SimpleFtoa" /\ buffer # NotRun =>
        ParseBack(FloatBits, buffer) = [m |-> m, b |-> b]

=============================================================================
