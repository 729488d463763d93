----------------------------- MODULE MCStateDelta -----------------------------
(***************************************************************************)
(* Instance of StateDelta: every pair of states of two accounts with two   *)
(* slots each, and every list of changes the pair allows.                  *)
(***************************************************************************)
EXTENDS StateDelta, TLC

CONSTANTS a1, a2, k1, k2

MCAddress == {a1, a2}
MCKey == {k1, k2}

\* Neither the accounts nor the slots are told apart.
Alike == Permutations(MCAddress) \cup Permutations(MCKey)
=============================================================================
