--------------------------- MODULE MCHeldMessages ---------------------------
(***************************************************************************)
(* Small instances of HeldMessages.  A message is in one open claim at     *)
(* most, so as many claims as messages never run out.                      *)
(***************************************************************************)
EXTENDS HeldMessages, TLC

CONSTANTS m1, m2, k1, k2, a1, a2

Alike == Permutations(Messages) \cup Permutations(Claims)
=============================================================================
