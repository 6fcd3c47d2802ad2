----------------------------- MODULE MCSafeParse -----------------------------
(* SafeParse for an 8-bit IntType.  The strings are the boundary values of *)
(* the type written in every base the parser meets, with and without their *)
(* prefix, followed by a digit, a letter or nothing, and surrounded by     *)
(* signs and white space; plus short malformed strings.                    *)
EXTENDS SafeParse

MCW == 8

Boundary == {0, 1, 35, 36, Vmax, Vmax + 1, -Vmin + 1, UVmax, UVmax + 1}

Bodies ==
    LET Written == UNION {{Repr(n, b) : n \in Boundary} : b \in {2, 8, 10, 16, 36}}
        Prefixed == {<<"0", "x">> \o Repr(n, 16) : n \in Boundary}
                    \cup {<<"0", "X">> \o Repr(n, 16) : n \in {Vmax, Vmax + 1}}
                    \cup {<<"0">> \o Repr(n, 8) : n \in Boundary}
        Malformed == {<<>>, <<"x">>, <<"0", "x">>, <<"0", "X">>, <<"0", "x", "g">>,
                      <<"-">>, <<"1", " ", "2">>, <<"!">>, <<"1", "!">>}
        Core == Written \cup Prefixed
    IN Core \cup Malformed \cup {c \o <<"0">> : c \in Core} \cup {c \o <<"g">> : c \in Core}

MCInputs ==
    {pad \o sgn \o b \o trail : pad \in {<<>>, <<" ">>}, sgn \in {<<>>, <<"-">>, <<"+">>},
                                b \in Bodies, trail \in {<<>>, <<" ">>}}

MCBases == {0, 1, 2, 8, 10, 16, 36, 37}

=============================================================================
