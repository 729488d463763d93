----------------------------- MODULE OpenvmRuntime -----------------------------
(***************************************************************************)
(* zkvm/openvm/src/openvm_runtime.cpp under an arbitrary guest program:    *)
(* the chunked read of the input from the hint stream into the heap, the   *)
(* fixed output buffer, and the word-by-word reveal after main returns.    *)
(*                                                                         *)
(* The hint stream is the host's: the length of the input, then its bytes  *)
(* padded with zeros to whole words.                                       *)
(***************************************************************************)
EXTENDS GuestMemory

CONSTANTS
    Inputs,                 \* the inputs a host may provide
    Chunks,                 \* byte sequences passed to write_output
    Blocks,                 \* byte sequences the program keeps on the heap
    ReturnCodes,            \* values main may return
    HeapStart,              \* _heap_start, anywhere after BSS
    MaxMemory,              \* bound: bytes of memory
    MAX_HINT_BUFFER_WORDS,  \* 1023
    OutputCap,              \* sizeof(g_output_buf), 256
    PublicBytes,            \* size of the public-values area
    HeapLimit,              \* bound: the program's heap stays below it
    MaxOutput               \* bound: bytes passed to write_output

\* Bytes; room for the largest input above the program's heap; an output buffer
\* no larger than the public-values area, which is whole words.
ASSUME RuntimeAssumption ==
    /\ \A s \in Inputs \cup Chunks \cup Blocks : s \in Seq(0..255)
    /\ ReturnCodes \subseteq Int
    /\ HeapStart \in Nat /\ HeapLimit \in Nat /\ MaxMemory \in Nat
    /\ AlignUp(HeapStart, 4) <= HeapLimit
    /\ \A i \in Inputs : HeapLimit + AlignUp(Len(i), 4) <= MaxMemory
    /\ MAX_HINT_BUFFER_WORDS \in Nat \ {0}
    /\ OutputCap \in Nat /\ PublicBytes \in Nat /\ PublicBytes % 4 = 0
    /\ MaxOutput \in Nat
    /\ OutputCap <= PublicBytes

VARIABLES
    pc,
    mem, heap,              \* memory and _heap_ptr
    input, hint,            \* the host's input; hint bytes not yet read
    buffer,                 \* option: <<v.ptr, v.len>> of read_vec_raw
    ptr, words,             \* hint_buffer_chunked: where, words left
    cached,                 \* g_input_read
    written, out,           \* ghost: all output; g_output_buf with its length
    word,                   \* zkvm_io_flush: index of the next word
    revealed,               \* the public-values area
    rc, code                \* options: what main returned, the exit code

vars == <<pc, mem, heap, input, hint, buffer, ptr, words, cached, written, out,
          word, revealed, rc, code>>

readvars == <<hint, buffer, ptr, words, cached>>
outvars  == <<written, out>>
endvars  == <<word, revealed, rc, code>>

Zeros(n) == [i \in 1..n |-> 0]

Init ==
    /\ pc = "entry"
    /\ mem = [a \in 0..(MaxMemory - 1) |-> 0]
    /\ heap = 0
    /\ input \in Inputs
    /\ hint = << >>
    /\ buffer = << >> /\ ptr = 0 /\ words = 0
    /\ cached = FALSE
    /\ written = << >> /\ out = << >>
    /\ word = 0
    /\ revealed = Zeros(PublicBytes)
    /\ rc = << >> /\ code = << >>

\* __start, steps 0 and 1: the constructors use memory as main does.
Start ==
    /\ pc = "entry"
    /\ heap' = AlignUp(HeapStart, 4)
    /\ pc' = "main"
    /\ UNCHANGED <<mem, input, readvars, outvars, endvars>>

\* malloc on top of _sbrk, and the use of it.
Allocate(bytes) ==
    /\ pc = "main"
    /\ heap + Len(bytes) <= HeapLimit
    /\ heap' = heap + Len(bytes)
    /\ mem' = Store(mem, heap, bytes)
    /\ UNCHANGED <<pc, input, readvars, outvars, endvars>>

\* Mistake: the length is allocated, whole words are read.
ReadLengthUnrounded ==
    /\ pc = "main" /\ ~cached
    /\ LET len      == Len(input)
           capacity == AlignUp(len, 4)
       IN  /\ hint' = input \o Zeros(capacity - len)
           /\ IF len = 0
              THEN /\ buffer' = <<<<0, 0>>>> /\ cached' = TRUE
                   /\ UNCHANGED <<pc, heap, ptr, words>>
              ELSE /\ buffer' = <<<<heap, len>>>>
                   /\ heap' = heap + len
                   /\ ptr' = heap
                   /\ words' = capacity \div 4
                   /\ pc' = "hints"
                   /\ UNCHANGED cached
    /\ UNCHANGED <<mem, input, outvars, endvars>>

\* read_input for the first time, read_vec_raw up to the payload: hint_input
\* moves to the next hint stream and its first word is the length.
ReadLength ==
    /\ pc = "main" /\ ~cached
    /\ LET len      == Len(input)
           capacity == AlignUp(len, 4)
       IN  /\ hint' = input \o Zeros(capacity - len)
           /\ IF len = 0
              THEN /\ buffer' = <<<<0, 0>>>> /\ cached' = TRUE
                   /\ UNCHANGED <<pc, heap, ptr, words>>
              ELSE /\ buffer' = <<<<heap, len>>>>
                   /\ heap' = heap + capacity
                   /\ ptr' = heap
                   /\ words' = capacity \div 4
                   /\ pc' = "hints"
                   /\ UNCHANGED cached
    /\ UNCHANGED <<mem, input, outvars, endvars>>

\* Mistake: the pointer advances by words, not by bytes.
HintChunkByWords ==
    /\ pc = "hints" /\ words > 0
    /\ LET chunk == IF words < MAX_HINT_BUFFER_WORDS THEN words
                                                     ELSE MAX_HINT_BUFFER_WORDS
       IN  /\ mem' = Store(mem, ptr, SubSeq(hint, 1, 4 * chunk))
           /\ hint' = SubSeq(hint, 4 * chunk + 1, Len(hint))
           /\ ptr' = ptr + chunk
           /\ words' = words - chunk
    /\ UNCHANGED <<pc, heap, input, buffer, cached, outvars, endvars>>

\* One turn of hint_buffer_chunked.
HintChunk ==
    /\ pc = "hints" /\ words > 0
    /\ LET chunk == IF words < MAX_HINT_BUFFER_WORDS THEN words
                                                     ELSE MAX_HINT_BUFFER_WORDS
       IN  /\ mem' = Store(mem, ptr, SubSeq(hint, 1, 4 * chunk))
           /\ hint' = SubSeq(hint, 4 * chunk + 1, Len(hint))
           /\ ptr' = ptr + chunk * 4
           /\ words' = words - chunk
    /\ UNCHANGED <<pc, heap, input, buffer, cached, outvars, endvars>>

InputRead ==
    /\ pc = "hints" /\ words = 0
    /\ cached' = TRUE
    /\ pc' = "main"
    /\ UNCHANGED <<mem, heap, input, hint, buffer, ptr, words, outvars, endvars>>

\* What write_output appends: no more than the buffer has room for.
Taken(bytes) ==
    LET room == OutputCap - Len(out)
    IN  IF Len(bytes) > room THEN SubSeq(bytes, 1, room) ELSE bytes

WriteOutput(bytes) ==
    /\ pc = "main"
    /\ Len(written) + Len(bytes) <= MaxOutput
    /\ written' = written \o bytes
    /\ out' = out \o Taken(bytes)
    /\ UNCHANGED <<pc, mem, heap, input, readvars, endvars>>

MainReturns(r) ==
    /\ pc = "main"
    /\ rc' = <<r>>
    /\ pc' = "flush"
    /\ UNCHANGED <<mem, heap, input, readvars, outvars, word, revealed, code>>

\* The i-th word of the buffer as its four bytes, lowest first.
WordBytes(i) ==
    [b \in 1..4 |-> IF 4 * i + b <= Len(out) THEN out[4 * i + b] ELSE 0]

\* One turn of zkvm_io_flush: reveal_u32 at byte offset 4 * word.
RevealWord ==
    /\ pc = "flush" /\ 4 * word < Len(out)
    /\ revealed' = Store(revealed, 4 * word + 1, WordBytes(word))
    /\ word' = word + 1
    /\ UNCHANGED <<pc, mem, heap, input, readvars, outvars, rc, code>>

Terminate ==
    /\ pc = "flush" /\ 4 * word >= Len(out)
    /\ code' = IF rc[1] = 0 THEN <<0>> ELSE <<1>>
    /\ pc' = "halted"
    /\ UNCHANGED <<mem, heap, input, readvars, outvars, word, revealed, rc>>

\* sys_panic: nothing that was buffered is revealed.
Panic ==
    /\ pc = "main"
    /\ code' = <<1>>
    /\ pc' = "halted"
    /\ UNCHANGED <<mem, heap, input, readvars, outvars, word, revealed, rc>>

Terminated == pc = "halted" /\ UNCHANGED vars

Next ==
    \/ Start \/ ReadLength \/ HintChunk \/ InputRead
    \/ RevealWord \/ Terminate \/ Panic
    \/ \E b \in Blocks : Allocate(b)
    \/ \E b \in Chunks : WriteOutput(b)
    \/ \E r \in ReturnCodes : MainReturns(r)
    \/ Terminated

Spec == Init /\ [][Next]_vars

-----------------------------------------------------------------------------
\* While the payload is read, what is left of it fits exactly in what is left
\* of the block that was allocated for it, padding included (read_vec_raw,
\* hint_buffer_chunked).
HintsStayInBlock ==
    pc = "hints" => /\ Len(hint) = 4 * words
                    /\ ptr + 4 * words = heap

\* The bytes read_input points at.
InputBytes ==
    IF cached THEN <<Load(mem, buffer[1][1], buffer[1][2])>> ELSE << >>

IsInput(v) == v \in Inputs

Io == INSTANCE ZkvmIo
      WITH IsPrivate <- IsInput, private <- input, view <- InputBytes,
           output <- written, returned <- rc, exit <- code,
           public <- IF code = << >> THEN << >> ELSE revealed

\* The runtime meets the io-interface: read_input always returns the host's
\* bytes, however they are chunked and whatever is allocated before and after;
\* the public values are all the output, in order, padded with zeros; the exit
\* code says whether main succeeded.  It holds for programs that write no more
\* than g_output_buf holds.
Implements == Io!Spec

\* What the io-interface says of write_output for every program: "Multiple
\* calls are observed as if their byte buffers were concatenated."
OutputIsConcatenated ==
    pc = "halted" /\ rc # << >> => Io!Publishes(revealed, written)
=============================================================================
