---------------------------- MODULE MCRateLimiter ----------------------------
(* Two keys, a window of two ticks and two attempts per window: the clock    *)
(* passes two whole windows, and a key can be granted twice as often as one  *)
(* window allows.                                                            *)
EXTENDS RateLimiter, TLC

CONSTANTS k1, k2

MCKeys == {k1, k2}
KeySymmetry == Permutations(MCKeys)
==============================================================================
