------------------------------- MODULE MCKmgt -------------------------------
(* ItoaKMGT / atoi_kmgt with a 12-bit word and units of 2^2: every suffix,  *)
(* the most negative value and the wrap of n * scale are reachable.         *)
EXTENDS Kmgt

MCW == 12
MCS == 2
=============================================================================
