--------------------------- MODULE MCOhlcvBuckets ---------------------------
(***************************************************************************)
(* OhlcvBuckets for TLC: the callers of onSwap are interchangeable.        *)
(***************************************************************************)
EXTENDS OhlcvBuckets, TLC

Symmetry == Permutations(Consumers)
=============================================================================
