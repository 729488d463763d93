------------------------------ MODULE MemmoveLoop ------------------------------
(***************************************************************************)
(* memmove (memmove.cpp, the same for the three machines) and what it has  *)
(* in common with the memcpy it forwards to: a call, the three registers   *)
(* that move with it, and the promise both keep.                           *)
(***************************************************************************)
EXTENDS CopyCalls

VARIABLES
    call,
    pc,
    mem,
    dst, src, n,        \* the pointers and the bytes left
    loads, stores       \* ghost: the accesses of the last step

regs == <<dst, src, n>>
mvars == <<call, pc, mem, regs, loads, stores>>

InitCall ==
    /\ call \in Calls
    /\ pc = call.op
    /\ mem = Before
    /\ dst = call.d /\ src = call.s /\ n = call.n
    /\ loads = {} /\ stores = {}

NoAccess == loads' = {} /\ stores' = {} /\ UNCHANGED mem

Access(ld, st) == loads' = ld /\ stores' = st

\* Mistake: any overlap is taken to be safe for the forward copy.
MemmoveAlwaysForward ==
    /\ pc = "memmove"
    /\ pc' = "memcpy"
    /\ NoAccess
    /\ UNCHANGED <<call, regs>>

Memmove ==
    /\ pc = "memmove"
    /\ IF Forwarded(call)
       THEN pc' = "memcpy" /\ UNCHANGED regs
       ELSE pc' = "backward" /\ dst' = dst + n /\ src' = src + n /\ UNCHANGED n
    /\ NoAccess
    /\ UNCHANGED call

\* One iteration of the loop, from the last byte down.
BackwardByte ==
    /\ pc = "backward"
    /\ IF n = 0
       THEN pc' = "done" /\ UNCHANGED regs /\ NoAccess
       ELSE /\ dst' = dst - 1 /\ src' = src - 1 /\ n' = n - 1
            /\ mem' = Moved(mem, dst - 1, src - 1, 1)
            /\ Access({<<src - 1, 1>>}, {<<dst - 1, 1>>})
            /\ UNCHANGED pc
    /\ UNCHANGED call

Returned == pc = "done" /\ UNCHANGED mvars

-----------------------------------------------------------------------------
\* No instruction of memcpy or memmove traps or strays: words are accessed at
\* multiples of their width whatever the alignments of the call; no load leaves
\* the source, not even a read-ahead, and no store the destination.
AccessesAllowed ==
    /\ \A a \in loads : Aligned(a) /\ Inside(a, call.s, call.n)
    /\ \A a \in stores : Aligned(a) /\ Inside(a, call.d, call.n)

Promise == INSTANCE MemoryMove
              WITH memory <- IF pc = "done" THEN mem ELSE Before,
                   returned <- (pc = "done")

\* Whatever the alignments, the length and the overlap, the call returns, the
\* destination then holds the source as it was, and no other byte has changed.
Implements == Promise!Spec
=============================================================================
