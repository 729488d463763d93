------------------------------ MODULE Sp1Runtime ------------------------------
(***************************************************************************)
(* zkvm/sp1/src/sp1_runtime.cpp under an arbitrary guest program: start,   *)
(* the bump allocator, the hint-stream read, the public-values buffer and  *)
(* the halt that commits the digest of that buffer.                        *)
(*                                                                         *)
(* The program is the environment: constructors and main may allocate,     *)
(* main may read the input, write output in any number of chunks, panic    *)
(* and return any code of ReturnCodes.                                     *)
(***************************************************************************)
EXTENDS GuestMemory

CONSTANTS
    HintStreams,            \* the hint streams a host may provide
    Chunks,                 \* byte sequences passed to write_output
    Blocks,                 \* byte sequences the program keeps on the heap
    ReturnCodes,            \* values main may return
    HeapStart,              \* _heap_start, anywhere after BSS
    InputRegionStart,       \* INPUT_REGION_START
    MaxMemory,              \* MAX_MEMORY
    PV_BUF_INITIAL_CAP,     \* 4096
    HeapLimit,              \* bound: the program's heap stays below it
    MaxOutput               \* bound: bytes of output

\* Bytes; the heap, the input region and memory in this order, with room for
\* every buffer the public values outgrow and for the vector that is read.
ASSUME RuntimeAssumption ==
    /\ \A s \in Chunks \cup Blocks : s \in Seq(0..255)
    /\ \A s \in HintStreams : s \in Seq(Seq(0..255))
    /\ ReturnCodes \subseteq Int
    /\ HeapStart \in Nat /\ HeapLimit \in Nat /\ AlignUp(HeapStart, 8) <= HeapLimit
    /\ PV_BUF_INITIAL_CAP \in Nat \ {0} /\ MaxOutput \in Nat
    /\ InputRegionStart \in Nat /\ MaxMemory \in Nat
    /\ HeapLimit + PV_BUF_INITIAL_CAP + 4 * MaxOutput <= InputRegionStart
    /\ InputRegionStart <= MaxMemory
    /\ \A s \in HintStreams :
          s # << >> => InputRegionStart + Len(Head(s)) <= MaxMemory

VARIABLES
    pc,
    mem, heap,              \* memory and _heap_ptr
    blocks,                 \* ghost: what the program keeps on the heap
    pvBuf, pvLen, pvCap,    \* g_pv_buf, g_pv_len, g_pv_cap
    data, newCap,           \* pv_buf_append: data with its length, new_cap
    hints,                  \* ghost: the hint stream the host provided
    stream, inputPtr,       \* hint vectors not yet read, _input_ptr
    cached,                 \* option: <<g_input_ptr, g_input_len>>
    host,                   \* bytes the host got by WRITE on the public fd
    rc,                     \* option: what main returned
    digest,                 \* option: the bytes whose SHA-256 is committed
    code                    \* option: exit code of HALT

vars == <<pc, mem, heap, blocks, pvBuf, pvLen, pvCap, data, newCap, hints, stream,
          inputPtr, cached, host, rc, digest, code>>

pvvars  == <<pvBuf, pvLen, pvCap>>
loop    == <<data, newCap>>
invars  == <<hints, stream, inputPtr, cached>>
endvars == <<rc, digest, code>>

Init ==
    /\ pc = "entry"
    /\ mem = [a \in 0..(MaxMemory - 1) |-> 0]
    /\ heap = 0
    /\ blocks = {}
    /\ pvBuf = 0 /\ pvLen = 0 /\ pvCap = 0
    /\ data = << >> /\ newCap = 0
    /\ hints \in HintStreams
    /\ stream = hints
    /\ inputPtr = InputRegionStart
    /\ cached = << >>
    /\ host = << >>
    /\ rc = << >> /\ digest = << >> /\ code = << >>

\* __start, step 0.
SetHeap ==
    /\ pc = "entry"
    /\ heap' = AlignUp(HeapStart, 8)
    /\ pc' = "constructors"
    /\ UNCHANGED <<mem, blocks, pvvars, loop, invars, host, endvars>>

\* malloc on top of _sbrk, by a constructor or by main, and the use of it.
Allocate(bytes) ==
    /\ pc \in {"constructors", "main"}
    /\ heap + Len(bytes) <= HeapLimit
    /\ heap' = heap + Len(bytes)
    /\ mem' = Store(mem, heap, bytes)
    /\ blocks' = blocks \cup {<<heap, bytes>>}
    /\ UNCHANGED <<pc, pvvars, loop, invars, host, endvars>>

\* Mistake: the buffer is left to be allocated by the first append.
InitPublicValuesLazily ==
    /\ pc = "constructors"
    /\ pc' = "main"
    /\ UNCHANGED <<mem, heap, blocks, pvvars, loop, invars, host, endvars>>

\* __start, step 2: pv_buf_init, once the constructors have run.
InitPublicValues ==
    /\ pc = "constructors"
    /\ pvBuf' = heap
    /\ heap' = heap + PV_BUF_INITIAL_CAP
    /\ pvLen' = 0
    /\ pvCap' = PV_BUF_INITIAL_CAP
    /\ pc' = "main"
    /\ UNCHANGED <<mem, blocks, loop, invars, host, endvars>>

\* Mistake: every call reads the next vector of the hint stream.
ReadInputUncached ==
    /\ pc = "main"
    /\ IF stream = << >>
       THEN cached' = <<<<0, 0>>>> /\ UNCHANGED <<mem, stream, inputPtr>>
       ELSE /\ cached' = <<<<inputPtr, Len(Head(stream))>>>>
            /\ mem' = Store(mem, inputPtr, Head(stream))
            /\ inputPtr' = inputPtr + AlignUp(Len(Head(stream)), 8)
            /\ stream' = Tail(stream)
    /\ UNCHANGED <<pc, heap, blocks, pvvars, loop, hints, host, endvars>>

\* read_input with read_vec_raw; an exhausted stream reads as (nullptr, 0).
ReadInput ==
    /\ pc = "main"
    /\ IF cached # << >>
       THEN UNCHANGED <<mem, stream, inputPtr, cached>>
       ELSE IF stream = << >>
       THEN cached' = <<<<0, 0>>>> /\ UNCHANGED <<mem, stream, inputPtr>>
       ELSE /\ cached' = <<<<inputPtr, Len(Head(stream))>>>>
            /\ mem' = Store(mem, inputPtr, Head(stream))
            /\ inputPtr' = inputPtr + AlignUp(Len(Head(stream)), 8)
            /\ stream' = Tail(stream)
    /\ UNCHANGED <<pc, heap, blocks, pvvars, loop, hints, host, endvars>>

\* write_output is syscall_write on the public-values descriptor: the host
\* gets the bytes, and they are kept for the digest.
WriteOutput(bytes) ==
    /\ pc = "main"
    /\ Len(host) + Len(bytes) <= MaxOutput
    /\ host' = host \o bytes
    /\ data' = bytes /\ newCap' = pvCap
    /\ pc' = "append"
    /\ UNCHANGED <<mem, heap, blocks, pvvars, invars, endvars>>

\* One turn of the loop of pv_buf_append.
DoubleCapacity ==
    /\ pc = "append" /\ newCap < pvLen + Len(data)
    /\ newCap' = 2 * newCap
    /\ UNCHANGED <<pc, mem, heap, blocks, pvvars, data, invars, host, endvars>>

\* Mistake: the buffer is taken to be the last block of the heap and grown in
\* place.
PvBufAppendInPlace ==
    /\ pc = "append" /\ newCap >= pvLen + Len(data)
    /\ mem' = Store(mem, pvBuf + pvLen, data)
    /\ heap' = heap + (newCap - pvCap)
    /\ pvLen' = pvLen + Len(data)
    /\ pvCap' = newCap
    /\ data' = << >> /\ newCap' = 0
    /\ pc' = "main"
    /\ UNCHANGED <<pvBuf, blocks, invars, host, endvars>>

\* The rest of pv_buf_append: a buffer that is too small is left behind and its
\* contents are copied to a new one at the top of the heap.
PvBufAppend ==
    /\ pc = "append" /\ newCap >= pvLen + Len(data)
    /\ LET grow == pvLen + Len(data) > pvCap
           base == IF grow THEN heap ELSE pvBuf
           kept == IF grow THEN Store(mem, heap, Load(mem, pvBuf, pvLen)) ELSE mem
       IN  /\ mem' = Store(kept, base + pvLen, data)
           /\ pvBuf' = base
           /\ heap' = IF grow THEN heap + newCap ELSE heap
    /\ pvLen' = pvLen + Len(data)
    /\ pvCap' = newCap
    /\ data' = << >> /\ newCap' = 0
    /\ pc' = "main"
    /\ UNCHANGED <<blocks, invars, host, endvars>>

MainReturns(r) ==
    /\ pc = "main"
    /\ rc' = <<r>>
    /\ pc' = "halting"
    /\ UNCHANGED <<mem, heap, blocks, pvvars, loop, invars, host, digest, code>>

\* syscall_halt: commit the digest of the buffered bytes, then HALT with the
\* code cut to a byte.
Halt(c) ==
    /\ digest' = <<Load(mem, pvBuf, pvLen)>>
    /\ code' = <<c % 256>>
    /\ pc' = "halted"

HaltAfterMain ==
    /\ pc = "halting"
    /\ Halt(rc[1])
    /\ UNCHANGED <<mem, heap, blocks, pvvars, loop, invars, host, rc>>

\* sys_panic: a message on descriptor 2, which is not a public value.
Panic ==
    /\ pc \in {"constructors", "main"}
    /\ Halt(1)
    /\ UNCHANGED <<mem, heap, blocks, pvvars, loop, invars, host, rc>>

Terminated == pc = "halted" /\ UNCHANGED vars

Next ==
    \/ SetHeap \/ InitPublicValues \/ ReadInput \/ DoubleCapacity \/ PvBufAppend
    \/ HaltAfterMain \/ Panic
    \/ \E b \in Blocks : Allocate(b)
    \/ \E b \in Chunks : WriteOutput(b)
    \/ \E r \in ReturnCodes : MainReturns(r)
    \/ Terminated

\* Nothing interrupts an append.
Spec == Init /\ [][Next]_vars /\ WF_vars(DoubleCapacity \/ PvBufAppend)

-----------------------------------------------------------------------------
\* Wherever the public-values buffer has been moved to, it holds every byte the
\* host got, in order, as soon as write_output has returned; and neither
\* growing it nor reading the hint stream touches what the program keeps on the
\* heap (pv_buf_append, read_vec_raw).
MemoryIntact ==
    /\ pc # "append" => Load(mem, pvBuf, pvLen) = host
    /\ \A b \in blocks : Holds(mem, b)

\* write_output returns: the capacity that is doubled is not 0 (pv_buf_append,
\* and __start, which calls pv_buf_init before main).
WritesReturn == pc = "append" ~> pc = "main"

FirstVector(s) == IF s = << >> THEN << >> ELSE Head(s)

IsFirstVector(v) == \E s \in HintStreams : v = FirstVector(s)

\* The bytes read_input points at.
InputBytes ==
    IF cached = << >> THEN << >> ELSE <<Load(mem, cached[1][1], cached[1][2])>>

Io == INSTANCE ZkvmIo
      WITH IsPrivate <- IsFirstVector, private <- FirstVector(hints),
           view <- InputBytes, output <- host, returned <- rc, exit <- code,
           public <- IF digest = << >> THEN << >> ELSE digest[1]

\* The runtime meets the io-interface: read_input always returns the first
\* vector of the hint stream, intact; the committed digest is that of all the
\* chunks in order; the exit code says whether main succeeded (zkvm_io.h, and
\* syscall_halt for the values main may return in a byte).
Implements == Io!Spec
=============================================================================
