----------------------------- MODULE MCSequential -----------------------------
(***************************************************************************)
(* The single-threaded parts of the repository checked in one run: the    *)
(* formatters SimpleItoaWithCommas (ItoaCommas) and FastUInt32ToBufferLeft *)
(* (FastToBuffer), the readers safe_strto*_base (SafeParse),              *)
(* ParseLeading*Value (ParseLeading) and AutoDigitStrCmp (AutoDigitCmp),  *)
(* safe_strtof / safe_strtod / ParseLeadingDoubleValue (FloatParse),      *)
(* SimpleDtoa / SimpleFtoa (FloatFormat),                                  *)
(* FastVarMapCounter used by one thread, and the S3 demo's main.  Each    *)
(* behaviour runs one of them, chosen by routine, on arguments from its   *)
(* own set; the variables of the others keep a fixed value.               *)
(***************************************************************************)
EXTENDS Integers, Sequences

CONSTANTS NotRun, Deflt, NUL, Null, Caller, ERANGE

VARIABLES routine,
          overload, negative, out,           \* SimpleItoaWithCommas
          mag,
          u0, u, digits, buf, pc, oob,       \* FastUInt32ToBufferLeft
          str, base, signed, conv, result,   \* safe_strto*_base
          fn, piece, tail, leadOut,          \* ParseLeading*Value
          x, y, z, strict, cmp,              \* AutoDigitStrCmp
          keyBuf, suffix_, counts, pending,  \* FastVarMapCounter
          calls, intended,
          s3pc, writeFile, prefix, get,      \* s3_demo main
          objSize, ofs, chunks, cause,
          errno, last,                       \* float parsers
          ffn, fm, fb, buffer                \* float printers

commaVars   == <<overload, negative, mag, out>>
fastVars    == <<u0, u, digits, buf, pc, oob>>
safeVars    == <<str, base, signed, conv, result>>
leadingVars == <<fn, piece, tail, leadOut>>
cmpVars     == <<x, y, z, strict, cmp>>
varzVars    == <<keyBuf, suffix_, counts, pending, calls, intended>>
s3Vars      == <<s3pc, writeFile, prefix, get, objSize, ofs, chunks, cause>>
floatVars   == <<errno, last>>
printVars   == <<ffn, fm, fb, buffer>>
vars        == <<routine, commaVars, fastVars, safeVars, leadingVars, cmpVars,
                 varzVars, s3Vars, floatVars, printVars>>

-----------------------------------------------------------------------------
(* SimpleItoaWithCommas: every overload with zero, 10...0 and 99...9 of   *)
(* every length its type holds, and the extremes of the type: max and,    *)
(* for the signed ones, the magnitude of min.                              *)
Max_int32 == <<"2", "1", "4", "7", "4", "8", "3", "6", "4", "7">>
MinMagnitude_int32 == <<"2", "1", "4", "7", "4", "8", "3", "6", "4", "8">>
Max_uint32 == <<"4", "2", "9", "4", "9", "6", "7", "2", "9", "5">>
Max_int64 == <<"9", "2", "2", "3", "3", "7", "2", "0", "3", "6", "8", "5", "4", "7", "7", "5", "8", "0", "7">>
MinMagnitude_int64 == <<"9", "2", "2", "3", "3", "7", "2", "0", "3", "6", "8", "5", "4", "7", "7", "5", "8", "0", "8">>
Max_uint64 == <<"1", "8", "4", "4", "6", "7", "4", "4", "0", "7", "3", "7", "0", "9", "5", "5", "1", "6", "1", "5">>

Ones(k, d) == [i \in 1..k |-> d]
PowerOfTen(k) == <<"1">> \o Ones(k - 1, "0")

(* Values of up to len digits.                                             *)
Shapes(len) == {<<>>} \cup {PowerOfTen(k) : k \in 1..len} \cup {Ones(k, "9") : k \in 1..len - 1}

CommaMagnitudes ==
    [o \in {"int32", "uint32", "int64", "uint64"} |->
        [neg \in BOOLEAN |->
            CASE o = "int32"  -> Shapes(10) \cup {IF neg THEN MinMagnitude_int32 ELSE Max_int32}
              [] o = "uint32" -> Shapes(10) \cup {Max_uint32}
              [] o = "int64"  -> Shapes(19) \cup {IF neg THEN MinMagnitude_int64 ELSE Max_int64}
              [] o = "uint64" -> Shapes(20) \cup {Max_uint64}]]

(* FastUInt32ToBufferLeft: u at both edges of every decimal length, in    *)
(* the middle of each, and the largest value TLC's integers hold.         *)
FastInputs ==
    {0, 2147483647, 1234567890}
    \cup {10^k - 1 : k \in 1..9} \cup {10^k : k \in 0..9} \cup {10^k + 1 : k \in 0..9}
    \cup {5 * 10^k + 7 : k \in 1..8}

Commas == INSTANCE ItoaCommas WITH Magnitudes <- CommaMagnitudes
Fast   == INSTANCE FastToBuffer WITH Inputs <- FastInputs


-----------------------------------------------------------------------------
(* safe_strto*_base for an 8-bit IntType.  The strings are the boundary  *)
(* values of the type written in every base the parser meets, with and    *)
(* without their prefix, followed by a digit, a letter or nothing, and    *)
(* surrounded by signs and white space; plus short malformed strings.     *)
SafeW == 8
SafeDefs == INSTANCE SafeParse WITH W <- SafeW, Inputs <- {}, Bases <- {}

SafeBoundary == {0, 1, 35, 36, SafeDefs!Vmax, SafeDefs!Vmax + 1, -SafeDefs!Vmin + 1,
                 SafeDefs!UVmax, SafeDefs!UVmax + 1}

SafeBodies ==
    LET R(n, b) == SafeDefs!Repr(n, b)
        Written == UNION {{R(n, b) : n \in SafeBoundary} : b \in {2, 8, 10, 16, 36}}
        Prefixed == {<<"0", "x">> \o R(n, 16) : n \in SafeBoundary}
                    \cup {<<"0", "X">> \o R(n, 16) : n \in {SafeDefs!Vmax, SafeDefs!Vmax + 1}}
                    \cup {<<"0">> \o R(n, 8) : n \in SafeBoundary}
        Malformed == {<<>>, <<"x">>, <<"0", "x">>, <<"0", "X">>, <<"0", "x", "g">>,
                      <<"-">>, <<"1", " ", "2">>, <<"!">>, <<"1", "!">>}
        Core == Written \cup Prefixed
    IN Core \cup Malformed \cup {c \o <<"0">> : c \in Core} \cup {c \o <<"g">> : c \in Core}

SafeInputs ==
    {pad \o sgn \o b \o trail : pad \in {<<>>, <<" ">>}, sgn \in {<<>>, <<"-">>, <<"+">>},
                                b \in SafeBodies, trail \in {<<>>, <<" ">>}}

SafeBases == {0, 1, 2, 8, 10, 16, 36, 37}

SP == INSTANCE SafeParse WITH W <- SafeW, Inputs <- SafeInputs, Bases <- SafeBases

-----------------------------------------------------------------------------
(* ParseLeading*Value with int32 of 4 bits and int64 of 8: every clamp and *)
(* peg (UINT32_MAX, -UINT32_MAX, LONG_MIN/MAX of either width) is reached  *)
(* by numerals of at most three digits.  Pieces are NUL-terminated, as a   *)
(* std::string gives them.                                                 *)
LeadN32 == 4
LeadN64 == 8
LeadDefs == INSTANCE ParseLeading WITH N32 <- LeadN32, N64 <- LeadN64, Pieces <- {}, Tails <- {}

RECURSIVE LeadRepr(_, _)
LeadRepr(n, b) ==
    IF n < b THEN <<LeadDefs!HexDigits[n + 1]>>
    ELSE LeadRepr(n \div b, b) \o <<LeadDefs!HexDigits[(n % b) + 1]>>

(* 0, the edges of the 4-bit and 8-bit ranges, and one past them.          *)
LeadBoundary == {0, 7, 8, 9, 15, 16, 17, 127, 128, 129, 255, 256}

LeadNumerals == {LeadRepr(n, 10) : n \in LeadBoundary}
                \cup {<<"0", "x">> \o LeadRepr(n, 16) : n \in LeadBoundary}
                \cup {<<"0">> \o LeadRepr(n, 8) : n \in LeadBoundary}

LeadPieces ==
    {sg \o num : sg \in {<<>>, <<"-">>, <<" ", "+">>}, num \in LeadNumerals}
    \cup {<<>>, <<" ">>, <<"-">>, <<"x">>, <<"0", "x">>, <<"0", "x", "g">>,
          <<"g", "1">>, <<"0", "8">>, <<"f">>}

PL == INSTANCE ParseLeading WITH N32 <- LeadN32, N64 <- LeadN64, Pieces <- LeadPieces,
                                 Tails <- {<<>>}, out <- leadOut

-----------------------------------------------------------------------------
(* AutoDigitStrCmp on every string of up to three characters over "0",    *)
(* "1" and "a", so that runs with and without leading zeros meet letters  *)
(* on either side; and a few with a character below '0' and a longer digit.*)
CmpStrings ==
    UNION {[1..n -> {"0", "1", "a"}] : n \in 0..3}
    \cup {<<"2">>, <<"9">>, <<"!">>, <<"1", "!">>, <<"0", "1", "!">>, <<"9", "a">>}

ADC == INSTANCE AutoDigitCmp WITH Strings <- CmpStrings

-----------------------------------------------------------------------------
(* FastVarMapCounter<4> with base "a", one calling thread, and suffixes   *)
(* of 0 to 2 characters, so that a shorter suffix follows a longer one.   *)
VarzN == 4
Varz == INSTANCE FastVarMapCounter
        WITH N <- VarzN, Base <- <<"a">>, Suffixes <- {<<>>, <<"b">>, <<"b", "b">>},
             Deltas <- {1, 2}, Callers <- {Caller}, MaxCalls <- 3,
             Chars <- {"a", "b"}, buf <- keyBuf

-----------------------------------------------------------------------------
(* s3_demo with a 2-byte kBufSize and objects of 0 to 5 bytes: empty,     *)
(* shorter than the buffer, exact multiples of it and in between.  Paths: *)
(* empty, without a '/', bucket/key, and with the s3: scheme WriteFile    *)
(* rejects.  Client calls may fail; reads are never short.                *)
S3 == INSTANCE S3Demo
      WITH Paths <- {<<>>, <<"b">>, <<"b", "/", "k">>, <<"s", "3", ":", "b", "/", "k">>},
           BufSize <- 2, ObjSizes <- 0..5, WriteMb <- 2, Faults <- TRUE,
           ShortReads <- FALSE, pc <- s3pc

-----------------------------------------------------------------------------
(* The float parsers on every piece of up to three characters over a     *)
(* digit, '.', 'e', '-' and a space (numbers, partial exponents, padding  *)
(* and no number at all), followed in memory by nothing, a digit, an 'e'  *)
(* or a whole exponent.                                                    *)
FloatChars == {"1", ".", "e", "-", " "}
FP == INSTANCE FloatParse
      WITH Pieces <- UNION {[1..n -> FloatChars] : n \in 0..3},
           Tails <- {<<>>, <<"1">>, <<"e">>, <<"e", "1">>}

-----------------------------------------------------------------------------
(* The float printers with an 11-bit double and a 14-bit float: DBL_DIG + *)
(* 2 digits are as many as an 11-bit value needs to read back, as 17 are  *)
(* for 53 bits; FLT_DIG + 2 are one fewer than a 14-bit value needs, as 8 *)
(* are for 24 bits.  Values of the binades from 1 to 64, across 10.       *)
FF == INSTANCE FloatFormat
      WITH DoubleBits <- 11, FloatBits <- 14, Binades <- 0..5,
           fn <- ffn, m <- fm, b <- fb

-----------------------------------------------------------------------------
Routines == {"SimpleItoaWithCommas", "FastUInt32ToBufferLeft", "safe_strto",
             "ParseLeading", "AutoDigitStrCmp", "FastVarMapCounter", "s3_demo",
             "float_parse", "float_format"}

(* The fixed values of the routines not called.                            *)
Idle(r) ==
    /\ r # "SimpleItoaWithCommas"   => overload = "int32" /\ negative = FALSE /\ mag = <<>> /\ out = NotRun
    /\ r # "FastUInt32ToBufferLeft" => u0 = 0 /\ u = 0 /\ digits = 0 /\ buf = <<>> /\ pc = "entry" /\ oob = FALSE
    /\ r # "safe_strto"             => str = <<>> /\ base = 10 /\ signed = FALSE /\ conv = "trunc" /\ result = NotRun
    /\ r # "ParseLeading"           => fn = "Int32" /\ piece = <<>> /\ tail = <<>> /\ leadOut = NotRun
    /\ r # "AutoDigitStrCmp"        => x = <<>> /\ y = <<>> /\ z = <<>> /\ strict = FALSE /\ cmp = NotRun
    /\ r # "FastVarMapCounter"      => keyBuf = [i \in 0..VarzN - 1 |-> NUL] /\ suffix_ = 0
                                       /\ counts = <<>> /\ pending = [c \in {Caller} |-> Null]
                                       /\ calls = 0 /\ intended = <<>>
    /\ r # "s3_demo"                => s3pc = "init" /\ writeFile = <<>> /\ prefix = <<>> /\ get = FALSE
                                       /\ objSize = 0 /\ ofs = 0 /\ chunks = 0 /\ cause = "none"
    /\ r # "float_parse"            => errno = 0 /\ last = NotRun
    /\ r # "float_format"           => ffn = "SimpleDtoa" /\ fm = 0 /\ fb = 0 /\ buffer = NotRun

Init ==
    /\ routine \in Routines
    /\ Idle(routine)
    /\ CASE routine = "SimpleItoaWithCommas"   -> Commas!Init
         [] routine = "FastUInt32ToBufferLeft" -> Fast!Init
         [] routine = "safe_strto"             -> SP!Init
         [] routine = "ParseLeading"           -> PL!Init
         [] routine = "AutoDigitStrCmp"        -> ADC!Init
         [] routine = "FastVarMapCounter"      -> Varz!Init
         [] routine = "s3_demo"                -> S3!Init
         [] routine = "float_parse"            -> FP!Init
         [] routine = "float_format"           -> FF!Init

(* A step of the S3 demo's thread.                                         *)
S3Step ==
    /\ S3!Next
    /\ UNCHANGED <<routine, commaVars, fastVars, safeVars, leadingVars, cmpVars, varzVars, floatVars, printVars>>

(* Only the chosen routine steps.                                          *)
Next ==
    \/ routine = "SimpleItoaWithCommas"   /\ Commas!Format
       /\ UNCHANGED <<routine, fastVars, safeVars, leadingVars, cmpVars, varzVars, s3Vars, floatVars, printVars>>
    \/ routine = "FastUInt32ToBufferLeft" /\ Fast!Next
       /\ UNCHANGED <<routine, commaVars, safeVars, leadingVars, cmpVars, varzVars, s3Vars, floatVars, printVars>>
    \/ routine = "safe_strto"             /\ SP!Parse
       /\ UNCHANGED <<routine, commaVars, fastVars, leadingVars, cmpVars, varzVars, s3Vars, floatVars, printVars>>
    \/ routine = "ParseLeading"           /\ PL!Parse
       /\ UNCHANGED <<routine, commaVars, fastVars, safeVars, cmpVars, varzVars, s3Vars, floatVars, printVars>>
    \/ routine = "AutoDigitStrCmp"        /\ ADC!Compare
       /\ UNCHANGED <<routine, commaVars, fastVars, safeVars, leadingVars, varzVars, s3Vars, floatVars, printVars>>
    \/ routine = "FastVarMapCounter"      /\ Varz!Next
       /\ UNCHANGED <<routine, commaVars, fastVars, safeVars, leadingVars, cmpVars, s3Vars, floatVars, printVars>>
    \/ routine = "s3_demo"                /\ S3Step
    \/ routine = "float_parse"            /\ FP!Next
       /\ UNCHANGED <<routine, commaVars, fastVars, safeVars, leadingVars, cmpVars, varzVars, s3Vars, printVars>>
    \/ routine = "float_format"           /\ FF!Next
       /\ UNCHANGED <<routine, commaVars, fastVars, safeVars, leadingVars, cmpVars, varzVars, s3Vars, floatVars>>

(* The S3 demo's thread keeps taking steps that fail no CHECK (S3Demo's   *)
(* fairness).                                                              *)
Spec == Init /\ [][Next]_vars /\ WF_vars(routine = "s3_demo" /\ S3Step /\ cause' = "none")

-----------------------------------------------------------------------------
(* SimpleItoaWithCommas writes the value grouped by three, sign first.    *)
CommasMatchReference == Commas!CommasMatchReference

(* SimpleItoaWithCommas never moves p below its local buffer.             *)
BufferFits == Commas!BufferFits

(* FastUInt32ToBufferLeft indexes two_ASCII_digits only within 0..99.     *)
TableIndexInRange == Fast!TableIndexInRange

(* FastUInt32ToBufferLeft returns with exactly the decimal digits of u.   *)
WritesDecimal == Fast!WritesDecimal

(* The digit loops of safe_parse_positive_int / safe_parse_negative_int  *)
(* never multiply or add past the range of IntType, whichever way the    *)
(* build rounds vmin / base.                                               *)
NoSignedOverflow == SP!NoSignedOverflow

(* safe_strto*_base accepts exactly the strtol subject sequences that fit *)
(* IntType and returns their value, vmin and vmax included.               *)
ParseMatchesReference == SP!ParseMatchesReference

(* AutoDigitStrCmp is antisymmetric and its <= transitive (a strict weak  *)
(* order, as sorting with it requires), over digit runs, leading zeros and *)
(* the characters between them, in both modes.                            *)
ComparatorIsStrictWeakOrder == ADC!ComparatorIsStrictWeakOrder

(* The comment above AutoDigitStrCmp: non-strict, strings that write the *)
(* same numbers ("01" and "1") are equal; strict, only identical ones are. *)
EqualityMeansSameNumbers == ADC!EqualityMeansSameNumbers

(* The 32-bit ParseLeading parsers' comments ("no-op on 32 bits", limits *)
(* "handled by hand"): every call returns the same value whichever width *)
(* long has.                                                               *)
LongWidthsAgree == PL!LongWidthsAgree


(* FastVarMapCounter::IncBy reuses buf_: every count lands on the key     *)
(* base + suffix its call named, whatever earlier suffixes left there.    *)
CountsByBaseAndSuffix == Varz!CountsByBaseAndSuffix

(* s3_demo's Get loop ends at the object's end or a failed CHECK.         *)
GetEnds == S3!GetEnds

(* A Get that returns normally has read exactly the object's bytes.       *)
GetReadsWholeObject == S3!GetReadsWholeObject

(* Get's CHECK_EQ(0, file->Read(ofs, mbr).obj) never fails.               *)
EofCheckHolds == S3!EofCheckHolds

(* safe_strtof / safe_strtod accept exactly a number between spaces, with *)
(* its value, but refuse it when the bytes after the StringPiece continue *)
(* the number strtod reads.                                                *)
SafeStrtoAcceptsNumbers == FP!SafeStrtoAcceptsNumbers

(* ParseLeadingDoubleValue's answer depends on its own strtod call, not   *)
(* on an errno left by earlier code.                                       *)
ParseLeadingDoubleOwnErrno == FP!ParseLeadingDoubleOwnErrno

(* strtod of what SimpleDtoa / DoubleToBuffer printed gives the value     *)
(* back ("without losing precision").                                      *)
DoubleRoundTrips == FF!DoubleRoundTrips

=============================================================================
