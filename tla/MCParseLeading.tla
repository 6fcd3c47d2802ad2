--------------------------- MODULE MCParseLeading ---------------------------
(* int32 of 4 bits and int64 of 8: every clamp and peg (UINT32_MAX,        *)
(* -UINT32_MAX, LONG_MIN/MAX of either width) is reached by numerals of at *)
(* most three digits.                                                       *)
EXTENDS ParseLeading

MCN32 == 4
MCN64 == 8

RECURSIVE Repr(_, _)
Repr(n, b) == IF n < b THEN <<HexDigits[n + 1]>> ELSE Repr(n \div b, b) \o <<HexDigits[(n % b) + 1]>>

(* 0, the edges of the 4-bit and 8-bit ranges, and one past them.          *)
Boundary == {0, 7, 8, 9, 15, 16, 17, 127, 128, 129, 255, 256}

Numerals == {Repr(n, 10) : n \in Boundary}
            \cup {<<"0", "x">> \o Repr(n, 16) : n \in Boundary}
            \cup {<<"0">> \o Repr(n, 8) : n \in Boundary}

Malformed == {<<>>, <<" ">>, <<"-">>, <<"x">>, <<"0", "x">>, <<"0", "x", "g">>,
              <<"g", "1">>, <<"0", "8">>, <<"f">>}

MCPieces == {sg \o num : sg \in {<<>>, <<"-">>, <<" ", "+">>}, num \in Numerals} \cup Malformed

(* NUL-terminated pieces, as a std::string gives.                          *)
MCTails == {<<>>}

(* A piece followed in memory by a digit.                                  *)
MCTailsDigit == {<<>>, <<"1">>}
=============================================================================
