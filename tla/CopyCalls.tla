------------------------------- MODULE CopyCalls -------------------------------
(***************************************************************************)
(* The calls of memcpy and memmove a guest may make, and what an access to *)
(* memory must satisfy on a machine that traps on misaligned words.        *)
(***************************************************************************)
EXTENDS GuestMemory

CONSTANTS
    Addr,               \* the addresses of the memory considered
    Before,             \* its contents at the time of the call
    Calls               \* the calls considered: [op, d, s, n]

Area(base, n) == base..(base + n - 1)

Disjoint(c) == c.d + c.n <= c.s \/ c.s + c.n <= c.d

\* The areas lie in memory, and memcpy is not called on areas that overlap.
ASSUME CallsAssumption ==
    /\ Addr \subseteq Nat
    /\ Before \in [Addr -> 0..255]
    /\ \A c \in Calls :
        /\ c \in [op : {"memcpy", "memmove"}, d : Nat, s : Nat, n : Nat]
        /\ Area(c.d, c.n) \subseteq Addr
        /\ Area(c.s, c.n) \subseteq Addr
        /\ c.op = "memcpy" => Disjoint(c)

\* memmove hands the call on to memcpy.
Forwarded(c) == c.d <= c.s \/ c.d >= c.s + c.n

\* An access is <<address, width>>: aligned to its width, inside the area.
Aligned(access) == access[1] % access[2] = 0
Inside(access, base, n) == base <= access[1] /\ access[1] + access[2] <= base + n

\* m words of w bytes from address a on.
Words(a, m, w) == {<<a + i * w, w>> : i \in 0..(m - 1)}
=============================================================================
