------------------------------ MODULE SafeParse ------------------------------
(***************************************************************************)
(* The overflow-checked integer parser of src/strings/numbers.cc:         *)
(* safe_parse_sign_and_base, safe_parse_positive_int,                     *)
(* safe_parse_negative_int, safe_int_internal / safe_uint_internal and    *)
(* their entry points safe_strto32_base / safe_strto64_base.              *)
(*                                                                         *)
(* The templates are generic in IntType; the model instantiates them with *)
(* a W-bit type so that every boundary is reachable from short strings.   *)
(* A string is a sequence of one-character strings; [start, end) are C    *)
(* pointer positions into it.  Integers are unbounded here: a product     *)
(* outside the type's range is reported as undefined behaviour (ub).      *)
(***************************************************************************)
EXTENDS Integers, Sequences, SequencesExt, TLC

CONSTANTS
    W,          \* bit width of IntType
    Inputs,     \* the strings parsed
    Bases,      \* the base arguments passed
    NotRun      \* result before the call

ASSUME W \in Nat /\ W >= 7   \* vmax >= 36, as for int32 and int64

Vmax  == 2^(W - 1) - 1        \* numeric_limits<IntType>::max(), signed
Vmin  == -(2^(W - 1))         \* numeric_limits<IntType>::min(), signed
UVmax == 2^W - 1              \* numeric_limits<IntType>::max(), unsigned

(* kAsciiToInt: digit value of a character, 36 for a non-digit.          *)
Letters == <<"a","b","c","d","e","f","g","h","i","j","k","l","m",
             "n","o","p","q","r","s","t","u","v","w","x","y","z">>
UpperLetters == <<"A","B","C","D","E","F","G","H","I","J","K","L","M",
                  "N","O","P","Q","R","S","T","U","V","W","X","Y","Z">>
DecDigits == <<"0","1","2","3","4","5","6","7","8","9">>
kAsciiToInt(ch) ==
    IF \E i \in 1..10 : DecDigits[i] = ch
    THEN CHOOSE d \in 0..9 : DecDigits[d + 1] = ch
    ELSE IF \E i \in 1..26 : Letters[i] = ch \/ UpperLetters[i] = ch
    THEN CHOOSE d \in 10..35 : Letters[d - 9] = ch \/ UpperLetters[d - 9] = ch
    ELSE 36

(* ascii_isspace                                                           *)
IsSpace(ch) == ch \in {" ", "\t", "\n", "\f", "\r"}

(* C++ '/' and '%' on a negative dividend: implementation defined before  *)
(* C++11 (the comment at line 337), so the build may round either way.    *)
DivConventions == {"trunc", "floor"}
CDiv(a, b, conv) ==
    IF conv = "floor" \/ a >= 0 THEN a \div b ELSE -((-a) \div b)
CMod(a, b, conv) == a - CDiv(a, b, conv) * b

Fail == [ok |-> FALSE, val |-> 0, ub |-> FALSE]

-----------------------------------------------------------------------------
RECURSIVE SkipSpaceFwd(_, _, _), SkipSpaceBack(_, _, _)
SkipSpaceFwd(s, st, e) ==
    IF st < e /\ IsSpace(s[st]) THEN SkipSpaceFwd(s, st + 1, e) ELSE st
SkipSpaceBack(s, st, e) ==
    IF st < e /\ IsSpace(s[e - 1]) THEN SkipSpaceBack(s, st, e - 1) ELSE e

(* Mutant of safe_parse_sign_and_base: a lone sign is not rejected.       *)
SignAndBaseNoEmptyCheck(s, base) ==
    LET st  == SkipSpaceFwd(s, 1, Len(s) + 1)
        e   == SkipSpaceBack(s, st, Len(s) + 1)
        neg == st < e /\ s[st] = "-"
        signed == st < e /\ s[st] \in {"-", "+"}
        p   == IF signed THEN st + 1 ELSE st
        HexPrefix == e - p >= 2 /\ s[p] = "0" /\ s[p + 1] \in {"x", "X"}
        Out(from, b) == [ok |-> TRUE, start |-> from, end |-> e, base |-> b, neg |-> neg]
    IN CASE st >= e                 -> [ok |-> FALSE]
         [] base = 0 /\ p >= e      -> Out(p, 10)
         [] base = 0 /\ HexPrefix   -> Out(p + 2, 16)
         [] base = 0 /\ s[p] = "0"  -> Out(p + 1, 8)
         [] base = 0                -> Out(p, 10)
         [] base = 16               -> Out(IF HexPrefix THEN p + 2 ELSE p, 16)
         [] base \in 2..36          -> Out(p, base)
         [] OTHER                   -> [ok |-> FALSE]

(* safe_parse_sign_and_base: trim, sign, base prefix, base validation.    *)
safe_parse_sign_and_base(s, base) ==
    LET st  == SkipSpaceFwd(s, 1, Len(s) + 1)
        e   == SkipSpaceBack(s, st, Len(s) + 1)
        neg == st < e /\ s[st] = "-"
        signed == st < e /\ s[st] \in {"-", "+"}
        p   == IF signed THEN st + 1 ELSE st
        HexPrefix == e - p >= 2 /\ s[p] = "0" /\ s[p + 1] \in {"x", "X"}
        Out(from, b) == [ok |-> TRUE, start |-> from, end |-> e, base |-> b, neg |-> neg]
    IN CASE st >= e                 -> [ok |-> FALSE]
         [] signed /\ p >= e        -> [ok |-> FALSE]
         [] base = 0 /\ HexPrefix   -> Out(p + 2, 16)
         [] base = 0 /\ s[p] = "0"  -> Out(p + 1, 8)
         [] base = 0                -> Out(p, 10)
         [] base = 16               -> Out(IF HexPrefix THEN p + 2 ELSE p, 16)
         [] base \in 2..36          -> Out(p, base)
         [] OTHER                   -> [ok |-> FALSE]

(* safe_parse_positive_int: one call of the loop body per character.      *)
RECURSIVE PositiveLoop(_, _, _, _, _, _)
PositiveLoop(s, i, e, base, vmax, value) ==
    IF i >= e THEN [ok |-> TRUE, val |-> value, ub |-> FALSE]
    ELSE LET digit == kAsciiToInt(s[i])
             v     == value * base
         IN CASE value > vmax \div base -> Fail
              [] v > vmax               -> [Fail EXCEPT !.ub = TRUE]
              [] digit >= base          -> Fail
              [] v > vmax - digit       -> Fail
              [] OTHER -> PositiveLoop(s, i + 1, e, base, vmax, v + digit)

safe_parse_positive_int(s, st, e, base, vmax) == PositiveLoop(s, st, e, base, vmax, 0)

(* safe_parse_negative_int, vmin_over_base rounded towards zero whichever *)
(* way the build divides.                                                  *)
RECURSIVE NegativeLoop(_, _, _, _, _, _)
NegativeLoop(s, i, e, base, vmin_over_base, value) ==
    IF i >= e THEN [ok |-> TRUE, val |-> value, ub |-> FALSE]
    ELSE LET digit == kAsciiToInt(s[i])
             v     == value * base
         IN CASE value < vmin_over_base -> Fail
              [] v < Vmin               -> [Fail EXCEPT !.ub = TRUE]
              [] digit >= base          -> Fail
              [] v < Vmin + digit       -> Fail
              [] OTHER -> NegativeLoop(s, i + 1, e, base, vmin_over_base, v - digit)

(* Mutant of safe_parse_negative_int: vmin / base taken as the build     *)
(* rounds it, without the correction towards zero.                         *)
NegativeNoRoundingFix(s, st, e, base, conv) ==
    NegativeLoop(s, st, e, base, CDiv(Vmin, base, conv), 0)

safe_parse_negative_int(s, st, e, base, conv) ==
    LET q == CDiv(Vmin, base, conv)
        vmin_over_base == IF CMod(Vmin, base, conv) > 0 THEN q + 1 ELSE q
    IN NegativeLoop(s, st, e, base, vmin_over_base, 0)

(* safe_int_internal<IntType>, entered by safe_strto32_base and           *)
(* safe_strto64_base.                                                      *)
safe_int_internal(s, base, conv) ==
    LET p == safe_parse_sign_and_base(s, base) IN
    CASE ~p.ok  -> Fail
      [] ~p.neg -> safe_parse_positive_int(s, p.start, p.end, p.base, Vmax)
      [] OTHER  -> safe_parse_negative_int(s, p.start, p.end, p.base, conv)

(* safe_uint_internal<IntType> for an unsigned IntType.                    *)
safe_uint_internal(s, base) ==
    LET p == safe_parse_sign_and_base(s, base) IN
    IF ~p.ok \/ p.neg THEN Fail
    ELSE safe_parse_positive_int(s, p.start, p.end, p.base, UVmax)

-----------------------------------------------------------------------------
(* One call per behaviour: the string, the base, the signedness of        *)
(* IntType and the division convention of the build are chosen, then the *)
(* parser runs.                                                            *)
VARIABLES str, base, signed, conv, result
vars == <<str, base, signed, conv, result>>

Init ==
    /\ str \in Inputs
    /\ base \in Bases
    /\ signed \in BOOLEAN
    /\ conv \in DivConventions
    /\ result = NotRun

Parse ==
    /\ result = NotRun
    /\ result' = IF signed THEN safe_int_internal(str, base, conv)
                 ELSE safe_uint_internal(str, base)
    /\ UNCHANGED <<str, base, signed, conv>>

Spec == Init /\ [][Parse]_vars


-----------------------------------------------------------------------------
(***************************************************************************)
(* Reference: the POSIX strtol subject sequence (optional sign, "0x" for  *)
(* base 16, a leading "0" selecting octal for base 0, then at least one    *)
(* digit of the base), surrounded by white space, whose value lies in the *)
(* range of IntType.  The value is the plain positional sum.               *)
(***************************************************************************)
DigitChar(d) == IF d < 10 THEN DecDigits[d + 1] ELSE Letters[d - 9]
RECURSIVE Repr(_, _)
Repr(n, b) == IF n < b THEN <<DigitChar(n)>>
              ELSE Repr(n \div b, b) \o <<DigitChar(n % b)>>

(* Saturated at UVmax + 1: every larger value is out of range alike.     *)
PositionalValue(ds, b) ==
    FoldLeft(LAMBDA acc, ch : LET v == acc * b + kAsciiToInt(ch) IN
                              IF v > UVmax + 1 THEN UVmax + 1 ELSE v, 0, ds)

Trimmed(s) ==
    LET body == {i \in 1..Len(s) : ~IsSpace(s[i])} IN
    IF body = {} THEN <<>>
    ELSE SubSeq(s, CHOOSE i \in body : \A j \in body : i <= j,
                   CHOOSE i \in body : \A j \in body : i >= j)

StartsHex(b) == Len(b) >= 2 /\ b[1] = "0" /\ b[2] \in {"x", "X"}

Subject(s, radix) ==
    LET t    == Trimmed(s)
        sgn  == Len(t) >= 1 /\ t[1] \in {"-", "+"}
        neg  == sgn /\ t[1] = "-"
        b    == IF sgn THEN Tail(t) ELSE t
        Sub(eb, ds) == [valid |-> TRUE, neg |-> neg, base |-> eb, digits |-> ds,
                        hex |-> radix \in {0, 16} /\ StartsHex(b)]
    IN CASE t = <<>>                               -> [valid |-> FALSE]
         [] radix \in {0, 16} /\ StartsHex(b)      -> Sub(16, SubSeq(b, 3, Len(b)))
         [] radix = 0 /\ b # <<>> /\ b[1] = "0"     -> Sub(8, b)
         [] radix = 0                               -> Sub(10, b)
         [] radix \in 2..36                         -> Sub(radix, b)
         [] OTHER                                  -> [valid |-> FALSE]

Reference(s, radix, isSigned) ==
    LET sub == Subject(s, radix)
        mag == PositionalValue(sub.digits, sub.base)
        val == IF sub.neg THEN -mag ELSE mag
        lo  == IF isSigned THEN Vmin ELSE 0
        hi  == IF isSigned THEN Vmax ELSE UVmax
    IN IF /\ sub.valid
          /\ sub.digits # <<>>
          /\ \A i \in 1..Len(sub.digits) : kAsciiToInt(sub.digits[i]) < sub.base
          /\ ~(sub.neg /\ ~isSigned)
          /\ lo <= val /\ val <= hi
       THEN [ok |-> TRUE, val |-> val]
       ELSE [ok |-> FALSE, val |-> 0]

(* A "0x" prefix with no digit after it.                                   *)
HexPrefixOnly(s, radix) ==
    LET sub == Subject(s, radix) IN sub.valid /\ sub.hex /\ sub.digits = <<>>

Agrees == result.ok = Reference(str, base, signed).ok
          /\ (result.ok => result.val = Reference(str, base, signed).val)

(* The digit loops of safe_parse_positive_int and safe_parse_negative_int *)
(* never multiply or add past the range of IntType (signed overflow is    *)
(* undefined), whichever way the build rounds vmin / base.                 *)
NoSignedOverflow == result # NotRun => ~result.ub

(* safe_int_internal / safe_uint_internal accept exactly the in-range     *)
(* strtol subject sequences and return their value, including vmin and   *)
(* vmax themselves, for both rounding conventions (inputs that are only a *)
(* "0x" prefix are left to ParseMatchesStrtol).                            *)
ParseMatchesReference ==
    result # NotRun /\ ~HexPrefixOnly(str, base) => Agrees

(* The comment above safe_int_internal: the input format is that of POSIX *)
(* strtol, so every accepted string is a subject sequence.                 *)
ParseMatchesStrtol == result # NotRun => Agrees

=============================================================================
