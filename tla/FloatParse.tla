----------------------------- MODULE FloatParse -----------------------------
(***************************************************************************)
(* The string-to-floating-point parsers of src/strings/numbers.cc:         *)
(* safe_strtof and safe_strtod, which take a StringPiece, and              *)
(* ParseLeadingDoubleValue, which takes a NUL-terminated string.  All      *)
(* three hand the characters to libc's strtof / strtod.                     *)
(*                                                                         *)
(* strtod is modelled by what it scans: leading space, a sign, digits with *)
(* an optional '.', at least one digit, and an exponent only when digits   *)
(* follow the 'e' (and its sign).  The value is abstracted to the subject  *)
(* text strtod consumed: rounding is out of reach, and no property looks   *)
(* at it.  A number with an exponent may be out of range, in which case    *)
(* strtod sets errno to ERANGE; which ones are is left open.  strtod reads *)
(* to a NUL, not to the end of a StringPiece: each piece comes with the    *)
(* characters that follow it in memory (tail).                              *)
(***************************************************************************)
EXTENDS Integers, Sequences

CONSTANTS
    Pieces,    \* characters of the StringPiece / the C string
    Tails,     \* characters after the piece, up to a NUL
    Deflt,     \* the deflt argument of ParseLeadingDoubleValue
    ERANGE,    \* errno's range-error value
    NotRun

VARIABLES
    errno,     \* the thread's errno
    last       \* the call made: function, arguments and result

vars == <<errno, last>>

Fns == {"safe_strtof", "safe_strtod", "ParseLeadingDoubleValue"}

IsDigit(c) == c \in {"0", "1", "2", "3", "4", "5", "6", "7", "8", "9"}

(* The character at index i of s, or NUL past its end.                     *)
At(s, i) == IF i <= Len(s) THEN s[i] ELSE "NUL"

(* Index just past the run of digits / of spaces of s that starts at i.    *)
RECURSIVE DigitsEnd(_, _)
DigitsEnd(s, i) == IF IsDigit(At(s, i)) THEN DigitsEnd(s, i + 1) ELSE i

RECURSIVE SpacesEnd(_, _)
SpacesEnd(s, i) == IF At(s, i) = " " THEN SpacesEnd(s, i + 1) ELSE i

(***************************************************************************)
(* strtod(s, &endptr) on the decimal forms.  end is endptr as an index of  *)
(* s (1, the start, when nothing was read); text is the subject sequence   *)
(* that stands for the value; expo says whether it has an exponent.        *)
(***************************************************************************)
Strtod(s) ==
    LET i0   == SpacesEnd(s, 1)
        i1   == IF At(s, i0) \in {"-", "+"} THEN i0 + 1 ELSE i0
        d1   == DigitsEnd(s, i1)
        dot  == At(s, d1) = "."
        j    == IF dot THEN DigitsEnd(s, d1 + 1) ELSE d1
        mant == j - i1 > (IF dot THEN 1 ELSE 0)
        k    == IF At(s, j + 1) \in {"-", "+"} THEN j + 2 ELSE j + 1
        expo == At(s, j) \in {"e", "E"} /\ DigitsEnd(s, k) > k
        end  == IF expo THEN DigitsEnd(s, k) ELSE j
    IN IF mant THEN [read |-> TRUE, end |-> end, expo |-> expo,
                     text |-> SubSeq(s, i0, end - 1)]
       ELSE [read |-> FALSE, end |-> 1, expo |-> FALSE, text |-> <<>>]

(* errno after strtod: ERANGE for an out-of-range value, else untouched.   *)
ErrnoAfter(r, e) == IF r.expo THEN {e, ERANGE} ELSE {e}

(* Mutant of safe_strtod: trailing space skipped even when nothing was     *)
(* read.                                                                   *)
SafeStrtodSkipAlways(piece, tail) ==
    LET r == Strtod(piece \o tail)
        e == SpacesEnd(piece, r.end)
    IN [ok |-> piece # <<>> /\ e = Len(piece) + 1, val |-> r.text]

(***************************************************************************)
(* safe_strtod(str, &value): *value = strtod(str.data(), &endptr); when    *)
(* something was read, skip spaces while endptr < str.end(); succeed iff   *)
(* str is not empty and endptr == str.end().  Range errors are ignored.    *)
(***************************************************************************)
safe_strtod(piece, tail) ==
    LET r == Strtod(piece \o tail)
        e == IF r.end # 1 THEN SpacesEnd(piece, r.end) ELSE r.end
    IN [ok |-> piece # <<>> /\ e = Len(piece) + 1, val |-> r.text]

(* safe_strtof is safe_strtod with strtof, whose narrower rounding and      *)
(* range the abstraction of values does not see.                            *)
safe_strtof(piece, tail) == safe_strtod(piece, tail)

(* Mutant of ParseLeadingDoubleValue: errno not cleared before strtod.     *)
ParseLeadingDoubleNoReset(str, e0, e) ==
    LET r == Strtod(str)
        err == IF e # 0 THEN e ELSE e0
    IN IF err # 0 \/ ~r.read THEN Deflt ELSE r.text

(***************************************************************************)
(* ParseLeadingDoubleValue(str, deflt): errno = 0; value = strtod(str,     *)
(* &error); deflt on errno != 0 (over/underflow) or error == str.  e0 is   *)
(* errno on entry, e the errno strtod leaves after the reset.              *)
(***************************************************************************)
ParseLeadingDoubleValue(str, e0, e) ==
    LET r == Strtod(str) IN
    IF e # 0 \/ ~r.read THEN Deflt ELSE r.text

(* errno on entry is whatever earlier code of the thread left there.        *)
Init ==
    /\ errno \in {0, ERANGE}
    /\ last = NotRun

CallSafeStrto(fn) ==
    /\ last = NotRun
    /\ \E piece \in Pieces, tail \in Tails :
         LET r == IF fn = "safe_strtof" THEN safe_strtof(piece, tail)
                  ELSE safe_strtod(piece, tail)
         IN \E e \in ErrnoAfter(Strtod(piece \o tail), errno) :
              /\ errno' = e
              /\ last' = [fn |-> fn, piece |-> piece, tail |-> tail,
                          ok |-> r.ok, val |-> r.val, range |-> e = ERANGE]

(* The call on a C string: the piece is followed by its NUL.               *)
CallParseLeadingDouble ==
    /\ last = NotRun
    /\ \E str \in Pieces :
         \E e \in ErrnoAfter(Strtod(str), 0) :
              /\ errno' = e
              /\ last' = [fn |-> "ParseLeadingDoubleValue", piece |-> str,
                          tail |-> <<>>, ok |-> TRUE, range |-> e = ERANGE,
                          val |-> ParseLeadingDoubleValue(str, errno, e)]

Next ==
    \/ CallSafeStrto("safe_strtof")
    \/ CallSafeStrto("safe_strtod")
    \/ CallParseLeadingDouble

Spec == Init /\ [][Next]_vars

-----------------------------------------------------------------------------
TypeOK ==
    /\ errno \in {0, ERANGE}
    /\ last = NotRun \/ last.fn \in Fns

(* The piece alone is a number: strtod of it, NUL-terminated, reads       *)
(* something, and only spaces follow.                                      *)
IsNumber(p) == Strtod(p).read /\ SpacesEnd(p, Strtod(p).end) = Len(p) + 1

(* strtod read past the end of the piece into the bytes that follow it.    *)
ReadsPast(p, t) == Strtod(p \o t).end > Len(p) + 1

(* safe_strtof / safe_strtod accept exactly the pieces that hold one       *)
(* number between optional spaces, with the value of that number, except   *)
(* where the bytes after the piece in memory continue the number: there    *)
(* strtod reads past str.end(), and the piece is refused.                  *)
SafeStrtoAcceptsNumbers ==
    last # NotRun /\ last.fn # "ParseLeadingDoubleValue" =>
        /\ last.ok <=> (IsNumber(last.piece) /\ ~ReadsPast(last.piece, last.tail))
        /\ last.ok => last.val = Strtod(last.piece).text

(* ParseLeadingDoubleValue returns the number its own string starts with, *)
(* or deflt when there is none, unless its own strtod call reports a      *)
(* range error: an errno left by earlier code does not matter.            *)
ParseLeadingDoubleOwnErrno ==
    last # NotRun /\ last.fn = "ParseLeadingDoubleValue" /\ ~last.range =>
        last.val = IF Strtod(last.piece).read THEN Strtod(last.piece).text ELSE Deflt

=============================================================================
