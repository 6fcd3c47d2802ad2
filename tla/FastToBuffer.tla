---------------------------- MODULE FastToBuffer ----------------------------
(***************************************************************************)
(* FastUInt32ToBufferLeft of src/strings/numbers.cc: writes the decimal   *)
(* digits of u left-aligned, two at a time from the two_ASCII_digits      *)
(* table, threading the cases together with goto.  Each label is an       *)
(* action, pc is the label reached, buf the characters written so far.    *)
(* '0' + d for a d above 9 is not a digit: it is written as "?".          *)
(***************************************************************************)
EXTENDS Integers, Sequences

CONSTANTS Inputs   \* values of u the function is called with

DecDigit == <<"0", "1", "2", "3", "4", "5", "6", "7", "8", "9">>

(* '0' + d                                                                 *)
CharOf(d) == IF d \in 0..9 THEN DecDigit[d + 1] ELSE "?"

(* two_ASCII_digits[100][2]                                                *)
two_ASCII_digits == [d \in 0..99 |-> <<DecDigit[d \div 10 + 1], DecDigit[(d % 10) + 1]>>]

VARIABLES
    u0,      \* the argument
    u,       \* the local copy the code decrements
    digits,  \* int digits
    buf,     \* characters written from buffer's start
    pc,      \* label reached
    oob      \* two_ASCII_digits was indexed outside 0..99

vars == <<u0, u, digits, buf, pc, oob>>

(* ASCII_digits = two_ASCII_digits[d]; buffer[0..1] = ...; buffer += 2     *)
EmitTwo(d) ==
    IF d \in 0..99 THEN /\ buf' = buf \o two_ASCII_digits[d] /\ UNCHANGED oob
    ELSE /\ buf' = buf \o <<"?", "?">> /\ oob' = TRUE

(* *buffer++ = '0' + d                                                     *)
EmitOne(d) == buf' = Append(buf, CharOf(d)) /\ UNCHANGED oob

Init ==
    /\ u0 \in Inputs
    /\ u = u0
    /\ digits = 0      \* uninitialised, but never read before a store
    /\ buf = <<>>
    /\ pc = "entry"
    /\ oob = FALSE

(* The huge-number case: u >= 1,000,000,000.                               *)
EntryHuge ==
    /\ pc = "entry" /\ u >= 1000000000
    /\ digits' = u \div 100000000
    /\ EmitTwo(u \div 100000000)
    /\ pc' = "sublt100_000_000"
    /\ UNCHANGED <<u0, u>>

(* Mutants of EntrySmall: ">" for ">=" in the 10,000 case; the 1,000,000  *)
(* case jumps to the 10,000 label.                                         *)
EntrySmallOffByOne ==
    /\ pc = "entry" /\ u < 1000000000
    /\ CASE u < 100 ->
              /\ digits' = u
              /\ IF u >= 10 THEN pc' = "lt100" /\ UNCHANGED <<buf, oob>>
                 ELSE EmitOne(u) /\ pc' = "done"
         [] u < 10000 ->
              IF u > 1000 THEN pc' = "lt10_000" /\ UNCHANGED <<digits, buf, oob>>
              ELSE digits' = u \div 100 /\ EmitOne(u \div 100) /\ pc' = "sublt100"
         [] u < 1000000 ->
              IF u >= 100000 THEN pc' = "lt1_000_000" /\ UNCHANGED <<digits, buf, oob>>
              ELSE digits' = u \div 10000 /\ EmitOne(u \div 10000) /\ pc' = "sublt10_000"
         [] u < 100000000 ->
              IF u >= 10000000 THEN pc' = "lt100_000_000" /\ UNCHANGED <<digits, buf, oob>>
              ELSE digits' = u \div 1000000 /\ EmitOne(u \div 1000000) /\ pc' = "sublt1_000_000"
         [] OTHER ->
              digits' = u \div 100000000 /\ EmitOne(u \div 100000000) /\ pc' = "sublt100_000_000"
    /\ UNCHANGED <<u0, u>>

EntrySmallWrongLabel ==
    /\ pc = "entry" /\ u < 1000000000
    /\ CASE u < 100 ->
              /\ digits' = u
              /\ IF u >= 10 THEN pc' = "lt100" /\ UNCHANGED <<buf, oob>>
                 ELSE EmitOne(u) /\ pc' = "done"
         [] u < 10000 ->
              IF u >= 1000 THEN pc' = "lt10_000" /\ UNCHANGED <<digits, buf, oob>>
              ELSE digits' = u \div 100 /\ EmitOne(u \div 100) /\ pc' = "sublt100"
         [] u < 1000000 ->
              IF u >= 100000 THEN pc' = "lt10_000" /\ UNCHANGED <<digits, buf, oob>>
              ELSE digits' = u \div 10000 /\ EmitOne(u \div 10000) /\ pc' = "sublt10_000"
         [] u < 100000000 ->
              IF u >= 10000000 THEN pc' = "lt100_000_000" /\ UNCHANGED <<digits, buf, oob>>
              ELSE digits' = u \div 1000000 /\ EmitOne(u \div 1000000) /\ pc' = "sublt1_000_000"
         [] OTHER ->
              digits' = u \div 100000000 /\ EmitOne(u \div 100000000) /\ pc' = "sublt100_000_000"
    /\ UNCHANGED <<u0, u>>

(* The cascade below 1,000,000,000: an even number of digits enters the   *)
(* two-digit labels directly, an odd one writes its first digit alone.    *)
EntrySmall ==
    /\ pc = "entry" /\ u < 1000000000
    /\ CASE u < 100 ->
              /\ digits' = u
              /\ IF u >= 10 THEN pc' = "lt100" /\ UNCHANGED <<buf, oob>>
                 ELSE EmitOne(u) /\ pc' = "done"
         [] u < 10000 ->
              IF u >= 1000 THEN pc' = "lt10_000" /\ UNCHANGED <<digits, buf, oob>>
              ELSE digits' = u \div 100 /\ EmitOne(u \div 100) /\ pc' = "sublt100"
         [] u < 1000000 ->
              IF u >= 100000 THEN pc' = "lt1_000_000" /\ UNCHANGED <<digits, buf, oob>>
              ELSE digits' = u \div 10000 /\ EmitOne(u \div 10000) /\ pc' = "sublt10_000"
         [] u < 100000000 ->
              IF u >= 10000000 THEN pc' = "lt100_000_000" /\ UNCHANGED <<digits, buf, oob>>
              ELSE digits' = u \div 1000000 /\ EmitOne(u \div 1000000) /\ pc' = "sublt1_000_000"
         [] OTHER ->
              digits' = u \div 100000000 /\ EmitOne(u \div 100000000) /\ pc' = "sublt100_000_000"
    /\ UNCHANGED <<u0, u>>

(* sublt<k>: u -= digits * k                                               *)
Sub(label, k, next) ==
    /\ pc = label
    /\ u' = u - digits * k
    /\ pc' = next
    /\ UNCHANGED <<u0, digits, buf, oob>>

(* lt<100k>: digits = u / k, two digits written                            *)
Lt(label, k, next) ==
    /\ pc = label
    /\ digits' = u \div k
    /\ EmitTwo(u \div k)
    /\ pc' = next
    /\ UNCHANGED <<u0, u>>

(* done: *buffer = 0; return buffer                                        *)
Done ==
    /\ pc = "done"
    /\ pc' = "returned"
    /\ UNCHANGED <<u0, u, digits, buf, oob>>

Next ==
    \/ EntryHuge \/ EntrySmall
    \/ Sub("sublt100_000_000", 100000000, "lt100_000_000")
    \/ Lt("lt100_000_000", 1000000, "sublt1_000_000")
    \/ Sub("sublt1_000_000", 1000000, "lt1_000_000")
    \/ Lt("lt1_000_000", 10000, "sublt10_000")
    \/ Sub("sublt10_000", 10000, "lt10_000")
    \/ Lt("lt10_000", 100, "sublt100")
    \/ Sub("sublt100", 100, "lt100")
    \/ Lt("lt100", 1, "done")
    \/ Done

Spec == Init /\ [][Next]_vars

-----------------------------------------------------------------------------
(* Reference: the decimal numeral of n.                                    *)
RECURSIVE Decimal(_)
Decimal(n) == IF n < 10 THEN <<DecDigit[n + 1]>> ELSE Decimal(n \div 10) \o <<DecDigit[(n % 10) + 1]>>

(* Every path through the gotos reads two_ASCII_digits only at an index  *)
(* 0..99: whichever label a case enters, u is below 100 times the divisor *)
(* used there.                                                             *)
TableIndexInRange == ~oob

(* When the function returns, the buffer holds exactly the decimal digits *)
(* of u, without leading zeros, and the terminating NUL follows them.     *)
WritesDecimal == pc = "returned" => buf = Decimal(u0)

=============================================================================
