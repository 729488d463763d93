----------------------------- MODULE MCGuestMemcpy -----------------------------
(***************************************************************************)
(* Instance of GuestMemcpy: each byte differs from the others; lengths are *)
(* those around which the code branches: up to 9 bytes, the tails, 64      *)
(* bytes and the remainders that end the merge loop after one to three     *)
(* turns.  Sources are aligned and not, at all distances modulo 8; memmove *)
(* is called with the destination up to 8 bytes below the source, which    *)
(* memcpy has to copy, and above it, which it copies backward.             *)
(***************************************************************************)
EXTENDS GuestMemcpy

MCAddr == 0..247
MCBefore == [a \in MCAddr |-> a + 1]

Lengths == (0..9) \cup (15..18) \cup (31..34) \cup (63..72) \cup (97..104)

DisjointCalls ==
    [op : {"memcpy"}, d : 128..135, s : {8, 11, 15}, n : Lengths]
ForwardCalls ==
    {[op |-> "memmove", d |-> s - k, s |-> s, n |-> m] :
        s \in {8, 11, 15}, k \in 0..8, m \in Lengths}
BackwardCalls ==
    {[op |-> "memmove", d |-> 8 + k, s |-> 8, n |-> m] :
        k \in {1, 3, 8, 17}, m \in (0..18)}

MCCalls == DisjointCalls \cup ForwardCalls \cup BackwardCalls
=============================================================================
