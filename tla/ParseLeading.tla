---------------------------- MODULE ParseLeading ----------------------------
(***************************************************************************)
(* The ParseLeading*Value integer parsers of src/strings/numbers.cc.  Each *)
(* hands str.data() of its StringPiece to libc's strtol / strtoul /        *)
(* strto64 / strtou64, clamps, and returns deflt when nothing was parsed.  *)
(*                                                                         *)
(* libc reads up to a NUL, not to the end of the piece: the model gives    *)
(* each piece the characters that follow it in memory (tail).  int32 has   *)
(* N32 bits and int64 N64 (32 and 64 in the code); long has the width of   *)
(* either, so both builds of the 32-bit parsers are modelled.             *)
(***************************************************************************)
EXTENDS Integers, Sequences

CONSTANTS
    N32, N64,   \* widths of int32 and int64
    Pieces,     \* the StringPiece's characters
    Tails,      \* characters after the piece, up to a NUL
    Deflt,      \* the deflt argument
    NotRun

ASSUME N32 \in Nat /\ N64 \in Nat /\ N64 >= N32 + 2

Fns == {"Int32", "UInt32", "Dec32", "UDec32",
        "UInt64", "Int64", "Hex64", "Dec64", "UDec64"}

LongWidths == {N32, N64}

SMax(w) == 2^(w - 1) - 1
SMin(w) == -(2^(w - 1))
UMax(w) == 2^w - 1

(* Digit values; 99 for a character that is no digit in any base.          *)
HexDigits == <<"0", "1", "2", "3", "4", "5", "6", "7", "8", "9", "a", "b", "c", "d", "e", "f">>
DigitOf(ch, b) ==
    LET v == IF \E i \in 1..16 : HexDigits[i] = ch
             THEN CHOOSE i \in 0..15 : HexDigits[i + 1] = ch ELSE 99
    IN IF v < b THEN v ELSE 99

(* Length of the run of base-b digits of s from position i.               *)
RECURSIVE RunLen(_, _, _)
RunLen(s, i, b) == IF i <= Len(s) /\ DigitOf(s[i], b) < 99 THEN 1 + RunLen(s, i + 1, b) ELSE 0

(* Value of that run, saturated at cap + 1.                                *)
RECURSIVE RunVal(_, _, _, _, _)
RunVal(s, i, n, b, cap) ==
    IF n = 0 THEN 0
    ELSE LET hi == RunVal(s, i, n - 1, b, cap)
             v == hi * b + DigitOf(s[i + n - 1], b)
         IN IF v > cap THEN cap + 1 ELSE v

RECURSIVE SkipSpace(_, _)
SkipSpace(s, i) == IF i <= Len(s) /\ s[i] = " " THEN SkipSpace(s, i + 1) ELSE i

(***************************************************************************)
(* strtol-family scan of s in base b: leading space, a sign, the 0x / 0    *)
(* prefix when b is 0 or 16 ("0x" not followed by a hex digit reads as    *)
(* the number 0), the digit run.  Returns whether a number was read, its  *)
(* sign and its magnitude (saturated at cap + 1).                          *)
(***************************************************************************)
Scan(s, b, cap) ==
    LET i0  == SkipSpace(s, 1)
        neg == i0 <= Len(s) /\ s[i0] = "-"
        i1  == IF i0 <= Len(s) /\ s[i0] \in {"-", "+"} THEN i0 + 1 ELSE i0
        hex == b \in {0, 16} /\ i1 + 2 <= Len(s) /\ s[i1] = "0"
               /\ s[i1 + 1] \in {"x", "X"} /\ DigitOf(s[i1 + 2], 16) < 99
        base == CASE hex -> 16
                  [] b = 0 /\ i1 <= Len(s) /\ s[i1] = "0" -> 8
                  [] b = 0 -> 10
                  [] OTHER -> b
        i2  == IF hex THEN i1 + 2 ELSE i1
        n   == RunLen(s, i2, base)
    IN [read |-> n > 0, neg |-> neg, mag |-> RunVal(s, i2, n, base, cap)]

(* strtol / strto64 for a w-bit long: saturates at LONG_MIN / LONG_MAX.   *)
Strtol(s, b, w) ==
    LET r == Scan(s, b, 2^w) IN
    [read |-> r.read,
     val  |-> IF r.neg THEN (IF r.mag > -SMin(w) THEN SMin(w) ELSE -r.mag)
              ELSE (IF r.mag > SMax(w) THEN SMax(w) ELSE r.mag)]

(* strtoul / strtou64 for a w-bit unsigned long: ULONG_MAX on overflow,   *)
(* a '-' negates modulo 2^w.                                               *)
Strtoul(s, b, w) ==
    LET r == Scan(s, b, 2^w) IN
    [read |-> r.read,
     val  |-> CASE r.mag > UMax(w) -> UMax(w)
                [] r.neg -> (2^w - r.mag) % 2^w
                [] OTHER -> r.mag]

OrDeflt(r) == IF r.read THEN r.val ELSE Deflt

(* Clamp a long to int32 ("Needed for lp64; no-op on 32 bits").            *)
ClampInt32(v) == IF v > SMax(N32) THEN SMax(N32) ELSE IF v < SMin(N32) THEN SMin(N32) ELSE v

(* ParseLeadingInt32Value / ParseLeadingDec32Value: strtol, clamped.      *)
LeadingInt32(s, b, w) ==
    LET r == Strtol(s, b, w) IN OrDeflt([r EXCEPT !.val = ClampInt32(r.val)])

(***************************************************************************)
(* ParseLeadingUInt32Value / ParseLeadingUDec32Value: with a 32-bit long, *)
(* strtoul; with a 64-bit long, strto64, pegged to UINT32_MAX outside     *)
(* [-UINT32_MAX, UINT32_MAX], then truncated to 32 bits.                  *)
(***************************************************************************)
(* Mutant of LeadingUInt32: -UINT32_MAX itself pegged to UINT32_MAX.     *)
LeadingUInt32PegInclusive(s, b, w) ==
    IF w = N32 THEN OrDeflt(Strtoul(s, b, N32))
    ELSE LET r == Strtol(s, b, N64)
             v == IF r.val > UMax(N32) \/ r.val <= -UMax(N32) THEN UMax(N32) ELSE r.val
         IN OrDeflt([r EXCEPT !.val = v % 2^N32])

LeadingUInt32(s, b, w) ==
    IF w = N32 THEN OrDeflt(Strtoul(s, b, N32))
    ELSE LET r == Strtol(s, b, N64)
             v == IF r.val > UMax(N32) \/ r.val < -UMax(N32) THEN UMax(N32) ELSE r.val
         IN OrDeflt([r EXCEPT !.val = v % 2^N32])

(* One call of fn on a piece followed in memory by tail, long w bits wide. *)
(* The 64-bit parsers do not depend on long.                               *)
ParseLeading(fn, piece, tail, w) ==
    LET s == piece \o tail IN
    CASE fn = "Int32"  -> IF piece = <<>> THEN Deflt ELSE LeadingInt32(s, 0, w)
      [] fn = "UInt32" -> IF piece = <<>> THEN Deflt ELSE LeadingUInt32(s, 0, w)
      [] fn = "Dec32"  -> LeadingInt32(s, 10, w)
      [] fn = "UDec32" -> LeadingUInt32(s, 10, w)
      [] fn = "UInt64" -> OrDeflt(Strtoul(s, 0, N64))
      [] fn = "Int64"  -> OrDeflt(Strtol(s, 0, N64))
      [] fn = "Hex64"  -> OrDeflt(Strtoul(s, 16, N64))
      [] fn = "Dec64"  -> OrDeflt(Strtol(s, 10, N64))
      [] fn = "UDec64" -> OrDeflt(Strtoul(s, 10, N64))

-----------------------------------------------------------------------------
(* One call per behaviour, compiled for both widths of long.               *)
VARIABLES fn, piece, tail, out
vars == <<fn, piece, tail, out>>

Init ==
    /\ fn \in Fns
    /\ piece \in Pieces
    /\ tail \in Tails
    /\ out = NotRun

Parse ==
    /\ out = NotRun
    /\ out' = [w \in LongWidths |-> ParseLeading(fn, piece, tail, w)]
    /\ UNCHANGED <<fn, piece, tail>>

Spec == Init /\ [][Parse]_vars

-----------------------------------------------------------------------------
(* The comments of the 32-bit parsers: clamping a 64-bit strtol is "a     *)
(* no-op on 32 bits", and strto64 with the limits "handled by hand"       *)
(* reproduces what strtoul does when long is 32 bits ("-2" wraps to       *)
(* UINT_MAX-1, overflow pegs to UINT_MAX): every call returns the same    *)
(* value whichever width long has.                                         *)
LongWidthsAgree == out # NotRun => out[N32] = out[N64]

(* A StringPiece is not NUL-terminated: a parser reads only the piece,   *)
(* so what follows it in memory never changes the result.                  *)
ReadsOnlyThePiece ==
    out # NotRun => \A w \in LongWidths : out[w] = ParseLeading(fn, piece, <<>>, w)

=============================================================================
