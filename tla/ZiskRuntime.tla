------------------------------ MODULE ZiskRuntime ------------------------------
(***************************************************************************)
(* zkvm/zisk/src/zisk_runtime.cpp under an arbitrary guest program: the    *)
(* memory-mapped input, the fixed output buffer, and its flush to u32      *)
(* output slots after main returns.                                        *)
(***************************************************************************)
EXTENDS GuestMemory

CONSTANTS
    Inputs,                 \* the inputs a host may provide
    Chunks,                 \* byte sequences passed to write_output
    ReturnCodes,            \* values main may return
    INPUT_HEADER,           \* ZISK_INPUT_HEADER, 8
    LenBytes,               \* bytes of the record length, 8
    OutputCap,              \* sizeof(g_output_buf), 1024
    MAX_OUTPUT_SLOTS,       \* ZISK_MAX_OUTPUT_SLOTS, 64
    MappedSlots,            \* slots the output region is modelled with
    MaxOutput               \* bound: bytes passed to write_output

ASSUME RuntimeAssumption ==
    /\ \A s \in Inputs \cup Chunks : s \in Seq(0..255)
    /\ \A i \in Inputs : Len(i) < 256
    /\ ReturnCodes \subseteq Int
    /\ INPUT_HEADER \in Nat /\ LenBytes \in Nat \ {0}
    /\ OutputCap \in Nat /\ MaxOutput \in Nat
    /\ MAX_OUTPUT_SLOTS \in Nat /\ MappedSlots \in Nat

VARIABLES
    pc,
    input, region,          \* ghost: the host's input; the input region
    seen,                   \* option: what read_input last returned
    written, out,           \* ghost: all output; g_output_buf with its length
    taken, slot,            \* write_output_bytes: i, and g_zisk_output_slot
    slots,                  \* the output region, byte by byte
    rc, code                \* options: what main returned, the exit code

vars == <<pc, input, region, seen, written, out, taken, slot, slots, rc, code>>

invars   == <<input, region, seen>>
outvars  == <<written, out>>
slotvars == <<taken, slot, slots>>

Zeros(n) == [i \in 1..n |-> 0]

\* The record length is little endian; inputs here are shorter than 256 bytes.
Init ==
    /\ pc = "main"
    /\ input \in Inputs
    /\ region = Zeros(INPUT_HEADER) \o <<Len(input)>> \o Zeros(LenBytes - 1)
                    \o input
    /\ seen = << >>
    /\ written = << >> /\ out = << >>
    /\ taken = 0 /\ slot = 0
    /\ slots = Zeros(4 * MappedSlots)
    /\ rc = << >> /\ code = << >>

\* read_input_raw: skip the header, read the length, point at the data.
ReadInput ==
    /\ pc = "main"
    /\ seen' = <<Load(region, INPUT_HEADER + LenBytes + 1,
                      region[INPUT_HEADER + 1])>>
    /\ UNCHANGED <<pc, input, region, outvars, slotvars, rc, code>>

\* What write_output appends: no more than the buffer has room for.
Taken(bytes) ==
    LET room == OutputCap - Len(out)
    IN  IF Len(bytes) > room THEN SubSeq(bytes, 1, room) ELSE bytes

WriteOutput(bytes) ==
    /\ pc = "main"
    /\ Len(written) + Len(bytes) <= MaxOutput
    /\ written' = written \o bytes
    /\ out' = out \o Taken(bytes)
    /\ UNCHANGED <<pc, invars, slotvars, rc, code>>

MainReturns(r) ==
    /\ pc = "main"
    /\ rc' = <<r>>
    /\ pc' = "flush"
    /\ UNCHANGED <<invars, outvars, slotvars, code>>

\* Mistake: the slot counter is not advanced.
SetOutputInPlace(bytes) ==
    /\ slots' = Store(slots, 4 * slot + 1, bytes)
    /\ UNCHANGED <<pc, slot, invars, outvars, rc, code>>

\* zisk_set_output of the next slot.
SetOutput(bytes) ==
    /\ slots' = Store(slots, 4 * slot + 1, bytes)
    /\ slot' = slot + 1
    /\ UNCHANGED <<pc, invars, outvars, rc, code>>

\* One turn of the loop of write_output_bytes.
SetFullWord ==
    /\ pc = "flush" /\ taken + 4 <= Len(out)
    /\ SetOutput(SubSeq(out, taken + 1, taken + 4))
    /\ taken' = taken + 4

\* Mistake: the remainder is written even when nothing remains.
SetLastWordAlways ==
    /\ pc = "flush" /\ taken + 4 > Len(out) /\ slot * 4 = taken
    /\ LET rest == SubSeq(out, taken + 1, Len(out))
       IN  SetOutput(rest \o Zeros(4 - Len(rest)))
    /\ taken' = Len(out)

\* The remaining 1 to 3 bytes, padded with zeros.
SetLastWord ==
    /\ pc = "flush" /\ taken + 4 > Len(out) /\ taken < Len(out)
    /\ LET rest == SubSeq(out, taken + 1, Len(out))
       IN  SetOutput(rest \o Zeros(4 - Len(rest)))
    /\ taken' = Len(out)

\* sys_halt, with the code cut to a byte.
Halt ==
    /\ pc = "flush" /\ taken = Len(out)
    /\ code' = <<rc[1] % 256>>
    /\ pc' = "halted"
    /\ UNCHANGED <<invars, outvars, slotvars, rc>>

\* sys_panic: nothing that was buffered reaches a slot.
Panic ==
    /\ pc = "main"
    /\ code' = <<1>>
    /\ pc' = "halted"
    /\ UNCHANGED <<invars, outvars, slotvars, rc>>

Terminated == pc = "halted" /\ UNCHANGED vars

Next ==
    \/ ReadInput \/ SetFullWord \/ SetLastWord \/ Halt \/ Panic
    \/ \E b \in Chunks : WriteOutput(b)
    \/ \E r \in ReturnCodes : MainReturns(r)
    \/ Terminated

Spec == Init /\ [][Next]_vars

-----------------------------------------------------------------------------
\* zisk_syscalls.hpp: "ZisK exposes up to 64 u32 slots at OUTPUT_ADDR".  No
\* slot beyond them is written (write_output_bytes), which holds for programs
\* whose output is no longer than the slots.
SlotsInRange == slot <= MAX_OUTPUT_SLOTS

IsInput(v) == v \in Inputs

Io == INSTANCE ZkvmIo
      WITH IsPrivate <- IsInput, private <- input, view <- seen,
           output <- written, returned <- rc, exit <- code,
           public <- IF code = << >> THEN << >> ELSE slots

\* The runtime meets the io-interface: read_input returns the host's bytes at
\* any time, the slots are all the output in order, the last padded with
\* zeros, and the exit code says whether main succeeded (zkvm_io.h).
Implements == Io!Spec
=============================================================================
