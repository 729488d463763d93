----------------------------- MODULE MCZiskRuntime -----------------------------
(***************************************************************************)
(* Instance of ZiskRuntime: 2 output slots instead of 64 and, as in the    *)
(* code, a buffer four times as large as the slots; output in chunks that  *)
(* cross the slot boundaries.                                              *)
(***************************************************************************)
EXTENDS ZiskRuntime

MCInputs == {<< >>, <<7>>, <<1, 2, 3, 4, 5>>}
MCChunks == {<< >>, <<1>>, <<2, 3, 4>>, <<5, 6, 7, 8, 9>>}
MCReturnCodes == {0, 1, 255}
=============================================================================
