------------------------------ MODULE GuestMemory ------------------------------
(***************************************************************************)
(* Byte-addressed guest memory, as the runtimes use it: a function from    *)
(* addresses to bytes.                                                     *)
(***************************************************************************)
EXTENDS Integers, Sequences

\* (x + a - 1) & ~(a - 1), for a power of two a.
AlignUp(x, a) == ((x + a - 1) \div a) * a

Store(mem, at, bytes) ==
    [a \in DOMAIN mem |-> IF a \in at..(at + Len(bytes) - 1)
                          THEN bytes[a - at + 1] ELSE mem[a]]

Load(mem, at, n) == [i \in 1..n |-> mem[at + i - 1]]

\* m after its n bytes at s have all been loaded and then stored at d.
Moved(m, d, s, n) ==
    [a \in DOMAIN m |-> IF a \in d..(d + n - 1) THEN m[s + (a - d)] ELSE m[a]]

\* A block is <<address, bytes>>: what its owner left there.
Holds(mem, block) == Load(mem, block[1], Len(block[2])) = block[2]
=============================================================================
