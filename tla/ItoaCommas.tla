----------------------------- MODULE ItoaCommas -----------------------------
(***************************************************************************)
(* The four SimpleItoaWithCommas overloads of src/strings/numbers.cc       *)
(* (int32, uint32, int64, uint64).  Each writes the decimal digits of the  *)
(* magnitude right to left into a fixed local buffer, a comma before every *)
(* third digit, by a loop unrolled three times with an early break after  *)
(* each of the first two digits; then the sign.                           *)
(*                                                                         *)
(* The magnitude is a sequence of decimal digits, most significant first  *)
(* (64-bit values are beyond TLC's integers): n % 10 is its last digit,   *)
(* n /= 10 drops it, n == 0 is the empty sequence.  For a negative int the *)
(* code negates the value as unsigned, "0 - n", which yields the magnitude *)
(* |i| for every i, the most negative included: the model starts from it. *)
(***************************************************************************)
EXTENDS Integers, Sequences, SequencesExt

CONSTANTS
    Magnitudes, \* [overload -> [negative -> digit sequences of its values]]
    NotRun

Overloads == {"int32", "uint32", "int64", "uint64"}
SignedOverloads == {"int32", "int64"}

(* Mutant of CommaDigits: the second "if (n == 0) break" is missing.      *)
RECURSIVE CommaLoopNoSecondBreak(_, _)
CommaLoopNoSecondBreak(n, out) ==
    IF n = <<>> THEN out
    ELSE LET o1 == <<Last(n)>> \o out
             n1 == Front(n)
         IN IF n1 = <<>> THEN o1
            ELSE LET o2 == <<Last(n1)>> \o o1
                     n2 == Front(n1)
                     d3 == IF n2 = <<>> THEN "0" ELSE Last(n2)
                 IN CommaLoopNoSecondBreak(IF n2 = <<>> THEN <<>> ELSE Front(n2),
                                           <<d3, ",">> \o o2)

CommaDigitsNoSecondBreak(n) ==
    IF n = <<>> THEN <<"0">>
    ELSE CommaLoopNoSecondBreak(Front(n), <<Last(n)>>)

(* One pass of "while (n)": digit, break if n == 0, digit, break if       *)
(* n == 0, comma and digit.  out is the text written so far, from p on.   *)
RECURSIVE CommaLoop(_, _)
CommaLoop(n, out) ==
    IF n = <<>> THEN out
    ELSE LET o1 == <<Last(n)>> \o out
             n1 == Front(n)
         IN IF n1 = <<>> THEN o1
            ELSE LET o2 == <<Last(n1)>> \o o1
                     n2 == Front(n1)
                 IN IF n2 = <<>> THEN o2
                    ELSE CommaLoop(Front(n2), <<Last(n2), ",">> \o o2)

(* The first digit is written before the loop ("this case deals with the *)
(* number 0"), then the loop runs on n / 10.                               *)
CommaDigits(n) ==
    IF n = <<>> THEN <<"0">>
    ELSE CommaLoop(Front(n), <<Last(n)>>)

(* The text from p to the end of local[size], and whether p stayed inside *)
(* the buffer.                                                             *)
Emit(negative, n, size) ==
    LET text == IF negative THEN <<"-">> \o CommaDigits(n) ELSE CommaDigits(n)
    IN [text |-> text, inside |-> Len(text) <= size]

(* Mutant of SimpleItoaWithCommas(int32): the buffer sized for "10 digits *)
(* and 3 commas", as for uint32, forgetting the sign.                      *)
ItoaCommasInt32NoSign(negative, n) == Emit(negative, n, 13)

SimpleItoaWithCommas_int32(negative, n)  == Emit(negative, n, 14)
SimpleItoaWithCommas_uint32(negative, n) == Emit(FALSE, n, 13)
SimpleItoaWithCommas_int64(negative, n)  == Emit(negative, n, 26)
SimpleItoaWithCommas_uint64(negative, n) == Emit(FALSE, n, 26)

SimpleItoaWithCommas(o, negative, n) ==
    CASE o = "int32"  -> SimpleItoaWithCommas_int32(negative, n)
      [] o = "uint32" -> SimpleItoaWithCommas_uint32(negative, n)
      [] o = "int64"  -> SimpleItoaWithCommas_int64(negative, n)
      [] o = "uint64" -> SimpleItoaWithCommas_uint64(negative, n)

-----------------------------------------------------------------------------
(* One call per behaviour: the overload, the sign and magnitude of the    *)
(* argument are chosen, then the function runs.                           *)
VARIABLES overload, negative, mag, out
vars == <<overload, negative, mag, out>>

Init ==
    /\ overload \in Overloads
    /\ negative \in IF overload \in SignedOverloads THEN BOOLEAN ELSE {FALSE}
    /\ mag \in Magnitudes[overload][negative]
    /\ ~(negative /\ mag = <<>>)
    /\ out = NotRun

Format ==
    /\ out = NotRun
    /\ out' = SimpleItoaWithCommas(overload, negative, mag)
    /\ UNCHANGED <<overload, negative, mag>>

Spec == Init /\ [][Format]_vars

-----------------------------------------------------------------------------
(* Reference: the digits grouped by three from the right.                  *)
RECURSIVE Grouped(_)
Grouped(ds) ==
    IF Len(ds) <= 3 THEN ds
    ELSE Grouped(SubSeq(ds, 1, Len(ds) - 3)) \o <<",">> \o SubSeq(ds, Len(ds) - 2, Len(ds))

Expected == (IF negative THEN <<"-">> ELSE <<>>)
            \o (IF mag = <<>> THEN <<"0">> ELSE Grouped(mag))

(* The unrolled loop of every overload writes the value with a comma      *)
(* between each group of three digits, no leading comma or zero, "0" for  *)
(* zero and the sign of a negative value.                                  *)
CommasMatchReference == out # NotRun => out.text = Expected

(* The comments of the overloads ("10 digits, 3 commas, and sign are good *)
(* for 32-bit"; "Longest is -2,147,483,648"): p never moves below local,  *)
(* for every value of the argument's type, its minimum included.          *)
BufferFits == out # NotRun => out.inside

=============================================================================
