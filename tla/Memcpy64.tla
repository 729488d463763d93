------------------------------- MODULE Memcpy64 -------------------------------
(***************************************************************************)
(* memcpy of the SP1 guest (zkvm/sp1/src/memcpy.cpp); ZisK's differs from  *)
(* it only in the width of the jump table.  It aligns the source byte by   *)
(* byte, then copies words if the destination came out aligned too.  If    *)
(* not, it goes by size: 64 bytes or more are copied in words shifted and  *)
(* merged by the offset of the destination, what is left in unrolled byte  *)
(* copies of 32 down to 1.                                                 *)
(*                                                                         *)
(* A register is the sequence of its eight bytes, lowest first, and shifts *)
(* are counted in bytes.                                                   *)
(***************************************************************************)
EXTENDS MemmoveLoop

VARIABLES
    case,               \* the row of the jump table that is executing
    word,               \* a4: the source word loaded last
    size,               \* the unrolled copy that comes next
    held,               \* bytes an unrolled copy has loaded and not yet stored
    ahead               \* bytes it has still to load

merge == <<case, word>>
tail  == <<size, held, ahead>>
vars  == <<mvars, merge, tail>>

Init ==
    /\ InitCall
    /\ case = 0 /\ word = << >>
    /\ size = 0 /\ held = << >> /\ ahead = 0

-----------------------------------------------------------------------------
\* An aligned source, or nothing to copy, needs no prologue.
Memcpy ==
    /\ pc = "memcpy"
    /\ pc' = IF src % 8 = 0 \/ n = 0 THEN "dispatch" ELSE "align"
    /\ NoAccess
    /\ UNCHANGED <<call, regs, merge, tail>>

AlignSource ==
    /\ pc = "align"
    /\ mem' = Moved(mem, dst, src, 1)
    /\ dst' = dst + 1 /\ src' = src + 1 /\ n' = n - 1
    /\ pc' = IF src' % 8 = 0 \/ n' = 0 THEN "dispatch" ELSE "align"
    /\ Access({<<src, 1>>}, {<<dst, 1>>})
    /\ UNCHANGED <<call, merge, tail>>

\* The source is aligned: words, shifted words or bytes.
Dispatch ==
    /\ pc = "dispatch"
    /\ IF dst % 8 = 0 THEN pc' = "words" /\ size' = 32
       ELSE IF n >= 64 THEN pc' = "jump" /\ UNCHANGED size
       ELSE pc' = "tail" /\ size' = 32
    /\ NoAccess
    /\ UNCHANGED <<call, regs, merge, held, ahead>>

-----------------------------------------------------------------------------
(***************************************************************************)
(* Both aligned: 32 bytes at a time, then 16, 8 and 4 by the bits of the   *)
(* remainder, and the last three bytes with the unrolled copies.  The      *)
(* remainder is not counted down any more.                                 *)
(***************************************************************************)
HasBit(x, b) == (x \div b) % 2 = 1

CopyWords(w) ==
    /\ mem' = Moved(mem, dst, src, size)
    /\ dst' = dst + size /\ src' = src + size
    /\ Access(Words(src, size \div w, w), Words(dst, size \div w, w))

NextSize == IF size = 4 THEN pc' = "tail" /\ size' = 2
            ELSE UNCHANGED pc /\ size' = size \div 2

WordLoop ==
    /\ pc = "words" /\ size = 32
    /\ IF n >= 32 THEN CopyWords(8) /\ n' = n - 32 /\ UNCHANGED <<pc, size>>
       ELSE NextSize /\ NoAccess /\ UNCHANGED regs
    /\ UNCHANGED <<call, merge, held, ahead>>

LastWords ==
    /\ pc = "words" /\ size < 32
    /\ IF HasBit(n, size) THEN CopyWords(IF size = 4 THEN 4 ELSE 8) /\ UNCHANGED n
       ELSE NoAccess /\ UNCHANGED regs
    /\ NextSize
    /\ UNCHANGED <<call, merge, held, ahead>>

-----------------------------------------------------------------------------
(***************************************************************************)
(* The rows of the jump table, one for each offset of the destination: the *)
(* bytes stored before the destination is aligned, the shifts of the next  *)
(* word up and of the previous word down, the remainder above which the    *)
(* loop goes on, and how far the read-ahead source pointer is set back     *)
(* after it.                                                               *)
(***************************************************************************)
DstOffset1 == [first |-> 7, up |-> 1, down |-> 7, more |-> 32, back |-> 25]
DstOffset2 == [first |-> 6, up |-> 2, down |-> 6, more |-> 33, back |-> 26]
DstOffset3 == [first |-> 5, up |-> 3, down |-> 5, more |-> 34, back |-> 27]
DstOffset4 == [first |-> 4, up |-> 4, down |-> 4, more |-> 35, back |-> 28]
\* Mistake: the loop goes on with one byte less than its last load needs.
DstOffset5Short == [first |-> 3, up |-> 5, down |-> 3, more |-> 35, back |-> 29]
DstOffset5 == [first |-> 3, up |-> 5, down |-> 3, more |-> 36, back |-> 29]
\* Mistake: the set-back of the next row.
DstOffset6Swapped == [first |-> 2, up |-> 6, down |-> 2, more |-> 37, back |-> 31]
DstOffset6 == [first |-> 2, up |-> 6, down |-> 2, more |-> 37, back |-> 30]
DstOffset7 == [first |-> 1, up |-> 7, down |-> 1, more |-> 38, back |-> 31]

JumpTable == <<DstOffset1, DstOffset2, DstOffset3, DstOffset4,
               DstOffset5, DstOffset6, DstOffset7>>

ShiftDown(w, k) == [i \in 1..8 |-> IF i + k <= 8 THEN w[i + k] ELSE 0]
ShiftUp(w, k)   == [i \in 1..8 |-> IF i > k THEN w[i - k] ELSE 0]

\* `or' of two words that occupy different bytes.
Or(v, w) == [i \in 1..8 |-> v[i] + w[i]]

\* The first word is loaded and its first bytes stored, one by one; the
\* source pointer runs 32 bytes ahead of the word that is loaded next.
StoreFirstBytes ==
    LET row == JumpTable[dst % 8] IN
    /\ pc = "jump"
    /\ case' = dst % 8
    /\ word' = Load(mem, src, 8)
    /\ mem' = Store(mem, dst, SubSeq(word', 1, row.first))
    /\ dst' = dst + row.first /\ src' = src + 32 /\ n' = n - row.first
    /\ pc' = "merge"
    /\ Access({<<src, 8>>}, Words(dst, row.first, 1))
    /\ UNCHANGED <<call, tail>>

\* Four words are loaded, merged pairwise with the one before, and stored.
MergeWords ==
    LET row   == JumpTable[case]
        next  == [i \in 1..4 |-> Load(mem, src - 32 + 8 * i, 8)]
        prev  == <<word>> \o next
        \* srli, slli, or
        merged == [i \in 1..4 |-> Or(ShiftUp(next[i], row.up),
                                     ShiftDown(prev[i], row.down))]
    IN
    /\ pc = "merge"
    /\ mem' = Store(mem, dst, [b \in 1..32 |-> merged[1 + ((b - 1) \div 8)][1 + ((b - 1) % 8)]])
    /\ word' = next[4]
    /\ dst' = dst + 32 /\ n' = n - 32
    /\ IF n' > row.more THEN src' = src + 32 /\ UNCHANGED <<pc, size>>
       ELSE src' = src + 32 - row.back /\ pc' = "tail" /\ size' = 32
    /\ Access(Words(src - 24, 4, 8), Words(dst, 4, 8))
    /\ UNCHANGED <<call, case, held, ahead>>

-----------------------------------------------------------------------------
(***************************************************************************)
(* The unrolled byte copies of 32, 16, 8, 4, 2 and 1 bytes.  Each loads up *)
(* to eight bytes before its first store and then alternates stores and    *)
(* loads of four.                                                          *)
(***************************************************************************)
AtMost(k, limit) == IF k <= limit THEN k ELSE limit

NextTail ==
    /\ pc = "tail"
    /\ IF size = 0 THEN pc' = "done" /\ UNCHANGED <<src, size, held, ahead>> /\ NoAccess
       ELSE IF HasBit(n, size)
       THEN LET k == AtMost(size, 8) IN
            /\ held' = Load(mem, src, k) /\ ahead' = size - k
            /\ src' = src + k
            /\ pc' = "unrolled"
            /\ Access(Words(src, k, 1), {}) /\ UNCHANGED <<mem, size>>
       ELSE size' = size \div 2 /\ UNCHANGED <<pc, src, held, ahead>> /\ NoAccess
    /\ UNCHANGED <<call, dst, n, merge>>

UnrolledBytes ==
    LET k == AtMost(Len(held), 4)
        l == AtMost(ahead, 4)
        stored == Store(mem, dst, SubSeq(held, 1, k))
    IN
    /\ pc = "unrolled"
    /\ mem' = stored
    /\ held' = SubSeq(held, k + 1, Len(held)) \o Load(stored, src, l)
    /\ ahead' = ahead - l
    /\ src' = src + l /\ dst' = dst + k
    /\ IF held' = << >> THEN pc' = "tail" /\ size' = size \div 2
       ELSE UNCHANGED <<pc, size>>
    /\ Access(Words(src, l, 1), Words(dst, k, 1))
    /\ UNCHANGED <<call, n, merge>>

Next ==
    \/ (Memmove \/ BackwardByte \/ Returned) /\ UNCHANGED <<merge, tail>>
    \/ Memcpy \/ AlignSource \/ Dispatch
    \/ WordLoop \/ LastWords
    \/ StoreFirstBytes \/ MergeWords
    \/ NextTail \/ UnrolledBytes

Spec == Init /\ [][Next]_vars /\ WF_vars(Next)
=============================================================================
