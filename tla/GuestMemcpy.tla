------------------------------ MODULE GuestMemcpy ------------------------------
(***************************************************************************)
(* memcpy and memmove as the guests link them: the 64-bit routine on SP1   *)
(* and ZisK, the 32-bit one on OpenVM, under the same memmove.             *)
(***************************************************************************)
EXTENDS Memcpy64

CONSTANT MaxLength32    \* bound: the longest call of the 32-bit machine

VARIABLE machine

M32 == INSTANCE OpenvmMemcpy

InitGuest ==
    /\ Init
    /\ \/ machine = "rv64im"
       \/ machine = "rv32im" /\ call.n <= MaxLength32

NextGuest ==
    /\ \/ machine = "rv64im" /\ Next
       \/ machine = "rv32im" /\ M32!Next /\ UNCHANGED <<merge, tail>>
    /\ UNCHANGED machine

SpecGuest == InitGuest /\ [][NextGuest]_<<vars, machine>> /\ WF_<<vars, machine>>(NextGuest)
=============================================================================
