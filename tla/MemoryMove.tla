------------------------------ MODULE MemoryMove ------------------------------
(***************************************************************************)
(* What a call of memcpy or memmove promises: in one step the destination  *)
(* holds what the source held at the time of the call, and no other byte   *)
(* has changed.                                                            *)
(***************************************************************************)
EXTENDS GuestMemory

CONSTANT Before         \* the memory at the time of the call

VARIABLES
    call,               \* [op, d, s, n]: function, destination, source, length
    memory,
    returned

mvars == <<call, memory, returned>>

Init ==
    /\ memory = Before
    /\ returned = FALSE

Copy ==
    /\ ~ returned
    /\ memory' = Moved(Before, call.d, call.s, call.n)
    /\ returned' = TRUE
    /\ UNCHANGED call

Spec == Init /\ [][Copy]_mvars /\ WF_mvars(Copy)
=============================================================================
