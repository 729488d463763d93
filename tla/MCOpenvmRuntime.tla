---------------------------- MODULE MCOpenvmRuntime ----------------------------
(***************************************************************************)
(* Instance of OpenvmRuntime: hint reads of at most 2 words, so that the   *)
(* inputs need none, one, one partial, and two chunks; output of up to the *)
(* whole buffer, in chunks that cross the word boundaries.                 *)
(***************************************************************************)
EXTENDS OpenvmRuntime

MCInputs == {<< >>, <<7>>, <<1, 2, 3, 4>>, <<1, 2, 3, 4, 5, 6, 7, 8, 9, 10, 11>>}
MCChunks == {<< >>, <<1>>, <<2, 3, 4>>, <<5, 6, 7, 8, 9>>}
MCBlocks == {<<6, 6, 6, 6>>}
MCReturnCodes == {0, 1, 256}
=============================================================================
