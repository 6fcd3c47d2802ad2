---------------------------- MODULE AutoDigitCmp ----------------------------
(***************************************************************************)
(* AutoDigitStrCmp of src/strings/numbers.cc: compares two strings         *)
(* character by character, except that maximal runs of decimal digits are *)
(* compared as numbers (leading zeros skipped, then run length, then digit *)
(* by digit); in strict mode a tie between equal numbers is broken by the  *)
(* count of leading zeros.  AutoDigitLessThan and StrictAutoDigitLessThan  *)
(* are the comparators built on it, so it must be a strict weak order.    *)
(*                                                                         *)
(* A string is a sequence of one-character strings, indices are 1-based   *)
(* (aindex + 1 of the code).  Characters compare by their ASCII code.     *)
(***************************************************************************)
EXTENDS Integers, Sequences, TLC

CONSTANTS
    Strings,    \* the strings compared
    NotRun      \* outcome before the comparisons are made

Digits == {"0", "1", "2", "3", "4", "5", "6", "7", "8", "9"}

(* The ASCII code of the characters the strings are made of.              *)
Ord == (" " :> 32) @@ ("!" :> 33) @@ ("0" :> 48) @@ ("1" :> 49) @@ ("2" :> 50)
       @@ ("9" :> 57) @@ ("A" :> 65) @@ ("a" :> 97) @@ ("b" :> 98)

isdigit(ch) == ch \in Digits

(* The index of the first character at or after i that is not a '0'    *)
(* (not a digit): the while loops that skip zeroes and count digits.     *)
RECURSIVE SkipZeros(_, _), SkipDigits(_, _)
SkipZeros(s, i) == IF i <= Len(s) /\ s[i] = "0" THEN SkipZeros(s, i + 1) ELSE i
SkipDigits(s, i) == IF i <= Len(s) /\ isdigit(s[i]) THEN SkipDigits(s, i + 1) ELSE i

(* Sign of x - y.                                                          *)
Sgn(x, y) == IF x < y THEN -1 ELSE IF x > y THEN 1 ELSE 0

(* Mutant of CompareRuns: the run length counts the leading zeros.        *)
CompareRunsWithZeros(a, b, i, j, strict) ==
    LET aend == SkipDigits(a, i)
        bend == SkipDigits(b, j)
        alen == aend - i
        blen == bend - j
        diff == {k \in 0..alen - 1 : a[i + k] # b[j + k]}
        k    == CHOOSE k \in diff : \A m \in diff : k <= m
    IN [c |-> CASE alen # blen -> Sgn(alen, blen)
                [] diff # {}   -> Sgn(Ord[a[i + k]], Ord[b[j + k]])
                [] OTHER       -> 0,
        i |-> aend, j |-> bend]

(* Mutant of CompareRuns: the strict tie-break only in one direction.    *)
CompareRunsOneSidedZeros(a, b, i, j, strict) ==
    LET astart == SkipZeros(a, i)
        bstart == SkipZeros(b, j)
        aend == SkipDigits(a, astart)
        bend == SkipDigits(b, bstart)
        alen == aend - astart
        blen == bend - bstart
        diff == {k \in 0..alen - 1 : a[astart + k] # b[bstart + k]}
        k    == CHOOSE k \in diff : \A m \in diff : k <= m
    IN [c |-> CASE alen # blen                             -> Sgn(alen, blen)
                [] diff # {}                               -> Sgn(Ord[a[astart + k]], Ord[b[bstart + k]])
                [] strict /\ astart - i > bstart - j       -> -1
                [] OTHER                                   -> 0,
        i |-> aend, j |-> bend]

(***************************************************************************)
(* The digit-run block of the loop, entered with a[i] and b[j] digits:    *)
(* skip and count leading zeros, compare run lengths, then the digits,    *)
(* then (strict) the zero counts.  c = 0 means "equal: continue scanning" *)
(* from the returned indices.                                              *)
(***************************************************************************)
CompareRuns(a, b, i, j, strict) ==
    LET astart == SkipZeros(a, i)
        bstart == SkipZeros(b, j)
        azeroes == astart - i
        bzeroes == bstart - j
        aend == SkipDigits(a, astart)
        bend == SkipDigits(b, bstart)
        alen == aend - astart
        blen == bend - bstart
        diff == {k \in 0..alen - 1 : a[astart + k] # b[bstart + k]}
        k    == CHOOSE k \in diff : \A m \in diff : k <= m
    IN [c |-> CASE alen # blen                    -> Sgn(alen, blen)
                [] diff # {}                      -> Sgn(Ord[a[astart + k]], Ord[b[bstart + k]])
                [] strict /\ azeroes # bzeroes    -> Sgn(bzeroes, azeroes)
                [] OTHER                          -> 0,
        i |-> aend, j |-> bend]

(* The while loop and the prefix tests after it.                           *)
RECURSIVE CmpFrom(_, _, _, _, _)
CmpFrom(a, b, i, j, strict) ==
    IF i <= Len(a) /\ j <= Len(b)
    THEN IF isdigit(a[i]) /\ isdigit(b[j])
         THEN LET r == CompareRuns(a, b, i, j, strict) IN
              IF r.c # 0 THEN r.c ELSE CmpFrom(a, b, r.i, r.j, strict)
         ELSE IF a[i] # b[j] THEN Sgn(Ord[a[i]], Ord[b[j]])
         ELSE CmpFrom(a, b, i + 1, j + 1, strict)
    ELSE CASE i <= Len(a) -> 1
           [] j <= Len(b) -> -1
           [] OTHER       -> 0

AutoDigitStrCmp(a, b, strict) == CmpFrom(a, b, 1, 1, strict)

(* AutoDigitLessThan (strict = FALSE) and StrictAutoDigitLessThan.         *)
AutoDigitLess(a, b, strict) == AutoDigitStrCmp(a, b, strict) < 0

-----------------------------------------------------------------------------
(* Three strings and a mode are chosen; one step makes every comparison   *)
(* among them, as a sort would.                                            *)
VARIABLES x, y, z, strict, cmp
vars == <<x, y, z, strict, cmp>>

Init ==
    /\ x \in Strings /\ y \in Strings /\ z \in Strings
    /\ strict \in BOOLEAN
    /\ cmp = NotRun

Compare ==
    /\ cmp = NotRun
    /\ cmp' = [p \in {<<x, y>>, <<y, x>>, <<y, z>>, <<x, z>>, <<x, x>>} |->
                 AutoDigitStrCmp(p[1], p[2], strict)]
    /\ UNCHANGED <<x, y, z, strict>>

Spec == Init /\ [][Compare]_vars

-----------------------------------------------------------------------------
(* Canonical form: every digit run written as its number in decimal.      *)
RECURSIVE Canonical(_)
Canonical(s) ==
    IF s = <<>> THEN <<>>
    ELSE IF ~isdigit(s[1]) THEN <<s[1]>> \o Canonical(Tail(s))
    ELSE LET e   == SkipDigits(s, 1)
             nz  == SkipZeros(s, 1)
             run == IF nz = e THEN <<"0">> ELSE SubSeq(s, nz, e - 1)
         IN run \o Canonical(SubSeq(s, e, Len(s)))

Cmp(a, b) == cmp[<<a, b>>]

(* AutoDigitLessThan and StrictAutoDigitLessThan are used as sort and map *)
(* comparators: AutoDigitStrCmp must be antisymmetric and its <= must be  *)
(* transitive, i.e. a total preorder, over runs of digits, leading zeros *)
(* and the characters between them, in both modes.                        *)
ComparatorIsStrictWeakOrder ==
    cmp # NotRun =>
        /\ Cmp(x, x) = 0
        /\ Cmp(x, y) = -Cmp(y, x)
        /\ Cmp(x, y) <= 0 /\ Cmp(y, z) <= 0 => Cmp(x, z) <= 0

(* The comment above AutoDigitStrCmp: non-strict, strings that write the  *)
(* same numbers ("01" and "1") are equal; strict, only identical strings  *)
(* are.                                                                    *)
EqualityMeansSameNumbers ==
    cmp # NotRun =>
        (Cmp(x, y) = 0 <=> IF strict THEN x = y ELSE Canonical(x) = Canonical(y))

=============================================================================
