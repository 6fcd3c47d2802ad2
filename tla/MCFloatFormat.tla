---------------------------- MODULE MCFloatFormat ----------------------------
(***************************************************************************)
(* FloatFormat with the bits of the sequential run: an 11-bit double and a *)
(* 14-bit float, whose DIG + 2 digits are, as for IEEE double and float,  *)
(* exactly enough and one short.  Values of the binades from 1 to 64.     *)
(***************************************************************************)
EXTENDS FloatFormat

MCBinades == 0..5

=============================================================================
