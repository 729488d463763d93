----------------------------- MODULE OpenvmMemcpy -----------------------------
(***************************************************************************)
(* memcpy of the OpenVM guest (zkvm/openvm/src/memcpy.cpp), loop iteration *)
(* by loop iteration: a word loop when both pointers are aligned, then a   *)
(* byte loop.                                                              *)
(***************************************************************************)
EXTENDS MemmoveLoop

\* Mistake: only the destination is tested for alignment.
MemcpyTestsDestination ==
    /\ pc = "memcpy"
    /\ pc' = IF n = 0 THEN "done" ELSE IF dst % 4 = 0 THEN "words" ELSE "bytes"
    /\ NoAccess
    /\ UNCHANGED <<call, regs>>

\* (dst | src) & 3 selects the loop.
Memcpy ==
    /\ pc = "memcpy"
    /\ pc' = IF n = 0 THEN "done"
             ELSE IF dst % 4 = 0 /\ src % 4 = 0 THEN "words" ELSE "bytes"
    /\ NoAccess
    /\ UNCHANGED <<call, regs>>

\* k bytes, loaded at once and stored at once.
CopyForward(k) ==
    /\ mem' = Moved(mem, dst, src, k)
    /\ dst' = dst + k /\ src' = src + k /\ n' = n - k
    /\ Access({<<src, k>>}, {<<dst, k>>})
    /\ UNCHANGED pc

CopyWord ==
    /\ pc = "words"
    /\ IF n < 4 THEN pc' = "bytes" /\ UNCHANGED regs /\ NoAccess
       ELSE CopyForward(4)
    /\ UNCHANGED call

CopyByte ==
    /\ pc = "bytes"
    /\ IF n = 0 THEN pc' = "done" /\ UNCHANGED regs /\ NoAccess
       ELSE CopyForward(1)
    /\ UNCHANGED call

Next == Memmove \/ BackwardByte \/ Memcpy \/ CopyWord \/ CopyByte \/ Returned

Spec == InitCall /\ [][Next]_mvars /\ WF_mvars(Next)
=============================================================================
