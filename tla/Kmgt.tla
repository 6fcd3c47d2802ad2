-------------------------------- MODULE Kmgt --------------------------------
(***************************************************************************)
(* ItoaKMGT and atoi_kmgt of src/strings/numbers.cc, which the comment    *)
(* above ItoaKMGT calls each other's opposite.                             *)
(*                                                                         *)
(* The word width W (64 in the code) and the unit shift S (10: K = 2^10,  *)
(* M = 2^20, G = 2^30, T = 2^40) are constants, so that every unit is     *)
(* reachable with integers TLC holds.  A string is abstracted to what the *)
(* two functions look at: the sign, the number printed by "%lld", and the  *)
(* characters that follow it.                                              *)
(***************************************************************************)
EXTENDS Integers, Sequences

CONSTANTS
    W,        \* bits of int64 / uint64
    S,        \* unit shift (10)
    NotRun

ASSUME W \in Nat /\ S \in Nat /\ 4 * S < W - 1

Mod    == 2^W
IntMin == -(2^(W - 1))
IntMax == 2^(W - 1) - 1
UMax   == 2^W - 1

Units == <<"K", "M", "G", "T">>

(* Two's complement reading of a W-bit unsigned value.                     *)
AsSigned(v) == IF v > IntMax THEN v - Mod ELSE v

(***************************************************************************)
(* ItoaKMGT(i): the magnitude (INT64_MIN bumped by one first), the largest *)
(* unit of which it holds more than one, and StringPrintf with the format *)
(* "%s%" PRId64 "d%s", that is "%s%lldd%s": sign, number, a literal 'd',  *)
(* suffix.                                                                 *)
(***************************************************************************)
ItoaKMGT(i) ==
    LET neg == i < 0
        m   == CASE i = IntMin -> -(i + 1)
                 [] neg        -> -i
                 [] OTHER      -> i
        big == {k \in 1..4 : m \div 2^(k * S) > 1}
        k   == IF big = {} THEN 0 ELSE CHOOSE k \in big : \A j \in big : j <= k
        val == IF k = 0 THEN m ELSE m \div 2^(k * S)
    IN [neg |-> neg, num |-> val,
        rest |-> <<"d">> \o (IF k = 0 THEN <<>> ELSE <<Units[k]>>)]

(* strtou64(s, &endptr, 10) on "[-]digits...": the value saturated at      *)
(* UINT64_MAX, a leading '-' negating it modulo 2^64.                      *)
Strtou64(t) ==
    LET n == IF t.num > UMax THEN UMax ELSE t.num IN
    IF t.neg /\ t.num <= UMax THEN (Mod - n) % Mod ELSE n

(***************************************************************************)
(* atoi_kmgt(s): the number, then the character at endptr, upper-cased,   *)
(* picks the scale; any other character is LOG(FATAL).  n * scale wraps   *)
(* modulo 2^64.                                                            *)
(***************************************************************************)
atoi_kmgt(t) ==
    LET c == IF t.rest = <<>> THEN "NUL" ELSE Head(t.rest)
        upper == CASE c \in {"k", "K"} -> "K" [] c \in {"m", "M"} -> "M"
                   [] c \in {"g", "G"} -> "G" [] c \in {"t", "T"} -> "T"
                   [] OTHER -> c
        unit == {k \in 1..4 : Units[k] = upper}
    IN CASE c = "NUL"   -> [fatal |-> FALSE, val |-> Strtou64(t)]
         [] unit # {}   -> [fatal |-> FALSE,
                            val |-> (Strtou64(t) * 2^((CHOOSE k \in unit : TRUE) * S)) % Mod]
         [] OTHER       -> [fatal |-> TRUE, val |-> 0]

-----------------------------------------------------------------------------
(* A value is formatted, then the text read back.                          *)
VARIABLES i, text, back
vars == <<i, text, back>>

Init ==
    /\ i \in IntMin..IntMax
    /\ text = NotRun
    /\ back = NotRun

Format ==
    /\ text = NotRun
    /\ text' = ItoaKMGT(i)
    /\ UNCHANGED <<i, back>>

Parse ==
    /\ text # NotRun /\ back = NotRun
    /\ back' = atoi_kmgt(text)
    /\ UNCHANGED <<i, text>>

Spec == Init /\ [][Format \/ Parse]_vars

-----------------------------------------------------------------------------
(* "Opposite of atoi_kmgt()": reading back what ItoaKMGT printed does not *)
(* abort, and gives i truncated towards zero to the unit printed (one     *)
(* more lost for INT64_MIN, as the comment there allows).                  *)
RoundTripInverse ==
    back # NotRun =>
        LET r    == AsSigned(back.val)
            unit == IF Len(text.rest) > 1 /\ text.rest[2] \in {"K", "M", "G", "T"}
                    THEN 2^((CHOOSE k \in 1..4 : Units[k] = text.rest[2]) * S) ELSE 1
            slack == IF i = IntMin THEN 1 ELSE 0
        IN /\ ~back.fatal
           /\ (i >= 0 => 0 <= r /\ r <= i /\ i - r < unit)
           /\ (i < 0 => i <= r /\ r <= 0 /\ r - i < unit + slack)

=============================================================================
