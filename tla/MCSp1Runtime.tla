------------------------------ MODULE MCSp1Runtime ------------------------------
(***************************************************************************)
(* Instance of Sp1Runtime: an initial capacity of 2 bytes instead of 4096, *)
(* so that a few small chunks make the buffer grow twice, once by more     *)
(* than one doubling.                                                      *)
(***************************************************************************)
EXTENDS Sp1Runtime

MCHintStreams == {<< >>, <<<< >>>>, <<<<7, 8, 9>>>>, <<<<7>>, <<8, 9>>>>}
MCChunks == {<< >>, <<1>>, <<2, 3, 4>>, <<1, 2, 3, 4, 5>>}
MCBlocks == {<<5>>, <<6, 6>>}
MCReturnCodes == {0, 1, 255}
=============================================================================
