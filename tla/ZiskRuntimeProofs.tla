--------------------------- MODULE ZiskRuntimeProofs ---------------------------
(***************************************************************************)
(* The ZisK runtime for every program and input: the slots it writes are   *)
(* in range and hold all the output, as long as the program writes no more *)
(* than the slots and the buffer hold.  The invariant relates the slot     *)
(* counter to the bytes taken from the buffer.                             *)
(***************************************************************************)
EXTENDS ZiskRuntime, SequenceTheorems, TLAPS

Byte == 0..255

TypeOK ==
    /\ pc \in {"main", "flush", "halted"}
    /\ input \in Inputs
    /\ written \in Seq(Byte) /\ out \in Seq(Byte)
    /\ taken \in Nat /\ slot \in Nat

ControlOK ==
    /\ pc = "main" => rc = << >> /\ code = << >> /\ taken = 0 /\ slot = 0
    /\ pc = "flush" => (\E r \in ReturnCodes : rc = <<r>>) /\ code = << >>
    /\ pc = "halted" => code # << >>

\* The input region as the host fills it.
InputOK ==
    /\ region = Zeros(INPUT_HEADER) \o <<Len(input)>> \o Zeros(LenBytes - 1) \o input
    /\ seen \in {<< >>, <<input>>}

OutputOK ==
    /\ Len(out) <= OutputCap
    /\ Len(out) <= Len(written) /\ Len(written) <= MaxOutput
    /\ MaxOutput <= OutputCap => out = written

\* Up to the last slot, the slots and the bytes taken advance together.
FlushOK ==
    /\ taken <= Len(out)
    /\ taken <= 4 * slot /\ 4 * slot < Len(out) + 4
    /\ taken < Len(out) => taken = 4 * slot
    /\ slots = [i \in 1..(4 * MappedSlots) |-> IF i <= taken THEN out[i] ELSE 0]

IInv == TypeOK /\ ControlOK /\ InputOK /\ OutputOK /\ FlushOK

-----------------------------------------------------------------------------
LEMMA ZerosFacts ==
    ASSUME NEW n \in Nat
    PROVE  Zeros(n) \in Seq(Byte) /\ Len(Zeros(n)) = n
  <1>1. Zeros(n) \in [1..n -> Byte] /\ DOMAIN Zeros(n) = 1..n
    BY DEF Zeros, Byte
  <1>2. Zeros(n) \in Seq(Byte)
    BY <1>1, SeqDef
  <1>3. Len(Zeros(n)) \in Nat /\ 1..Len(Zeros(n)) = 1..n
    BY <1>1, <1>2, LenProperties
  <1> QED BY <1>2, <1>3

\* What read_input_raw finds behind the header and the length.
LEMMA RegionFacts ==
    ASSUME InputOK, input \in Inputs
    PROVE  Load(region, INPUT_HEADER + LenBytes + 1, region[INPUT_HEADER + 1]) = input
  <1> DEFINE H == INPUT_HEADER
             L == LenBytes - 1
             n == Len(input)
             r1 == Zeros(H) \o <<n>>
             r2 == r1 \o Zeros(L)
  <1>1. H \in Nat /\ L \in Nat /\ input \in Seq(Byte) /\ n \in Nat
    BY RuntimeAssumption DEF Byte
  <1>2. /\ Zeros(H) \in Seq(Nat) /\ Zeros(L) \in Seq(Nat)
        /\ input \in Seq(Nat) /\ <<n>> \in Seq(Nat)
        /\ Len(Zeros(H)) = H /\ Len(Zeros(L)) = L /\ Len(<<n>>) = 1
    <2>1. Byte \subseteq Nat
      BY DEF Byte
    <2>2. /\ Zeros(H) \in Seq(Byte) /\ Zeros(L) \in Seq(Byte)
          /\ Len(Zeros(H)) = H /\ Len(Zeros(L)) = L
      BY <1>1, ZerosFacts
    <2>3. Zeros(H) \in Seq(Nat) /\ Zeros(L) \in Seq(Nat) /\ input \in Seq(Nat)
      BY <1>1, <2>1, <2>2, SeqMonotonic
    <2>4. <<n>> \in Seq(Nat) /\ Len(<<n>>) = 1
      BY <1>1
    <2> QED BY <2>2, <2>3, <2>4
  <1>3. r1 \in Seq(Nat) /\ Len(r1) = H + 1 /\ r1[H + 1] = n
    <2>1. /\ r1 \in Seq(Nat) /\ Len(r1) = Len(Zeros(H)) + Len(<<n>>)
          /\ \A i \in 1..(Len(Zeros(H)) + Len(<<n>>)) :
                r1[i] = IF i <= Len(Zeros(H)) THEN Zeros(H)[i] ELSE <<n>>[i - Len(Zeros(H))]
      BY <1>2, ConcatProperties
    <2>2. H + 1 \in 1..(H + 1) /\ ~ (H + 1 <= H) /\ H + 1 - H = 1
      BY <1>1
    <2> QED BY <1>2, <2>1, <2>2
  <1> HIDE DEF r1, n, L, H
  <1>4. r2 \in Seq(Nat) /\ Len(r2) = H + 1 + L /\ r2[H + 1] = n
    <2>1. /\ r2 \in Seq(Nat) /\ Len(r2) = Len(r1) + Len(Zeros(L))
          /\ \A i \in 1..(Len(r1) + Len(Zeros(L))) :
                r2[i] = IF i <= Len(r1) THEN r1[i] ELSE Zeros(L)[i - Len(r1)]
      BY <1>2, <1>3, ConcatProperties
    <2>2. H + 1 \in 1..(H + 1 + L)
      BY <1>1
    <2> QED BY <1>2, <1>3, <2>1, <2>2
  <1> HIDE DEF r2
  <1>5. region = r2 \o input
    BY DEF InputOK, r2, r1, n, L, H
  <1>6. region[H + 1] = n
    BY <1>1, <1>2, <1>4, <1>5, ConcatProperties
  <1>7. ASSUME NEW i \in 1..n
        PROVE  region[(H + LenBytes + 1) + i - 1] = input[i]
    <2> DEFINE k == H + 1 + L + i
    <2>1. k = (H + LenBytes + 1) + i - 1 /\ k \in 1..(Len(r2) + Len(input))
          /\ ~ (k <= Len(r2)) /\ k - Len(r2) = i
      BY <1>1, <1>4, RuntimeAssumption DEF n, L
    <2> HIDE DEF k
    <2>2. \A j \in 1..(Len(r2) + Len(input)) :
            region[j] = IF j <= Len(r2) THEN r2[j] ELSE input[j - Len(r2)]
      BY <1>2, <1>4, <1>5, ConcatProperties
    <2> QED BY <2>1, <2>2
  <1>8. input = [i \in 1..n |-> input[i]]
    BY <1>1, LenProperties DEF n
  <1>9. Load(region, H + LenBytes + 1, region[H + 1])
          = [i \in 1..n |-> region[(H + LenBytes + 1) + i - 1]]
    BY <1>6 DEF Load
  <1> QED BY <1>7, <1>8, <1>9 DEF H

LEMMA TakenFacts ==
    ASSUME out \in Seq(Byte), Len(out) <= OutputCap, NEW bytes \in Seq(Byte)
    PROVE  /\ out \o Taken(bytes) \in Seq(Byte)
           /\ Len(out \o Taken(bytes)) <= OutputCap
           /\ Len(out \o Taken(bytes)) \in Nat
           /\ Len(out \o Taken(bytes)) <= Len(out) + Len(bytes)
           /\ Len(out) + Len(bytes) <= OutputCap => Taken(bytes) = bytes
  <1> DEFINE room == OutputCap - Len(out)
  <1>1. Len(out) \in Nat /\ Len(bytes) \in Nat /\ OutputCap \in Nat /\ room \in Nat
    BY RuntimeAssumption
  <1>2. CASE Len(bytes) > room
    <2>1. Taken(bytes) = SubSeq(bytes, 1, room)
      BY <1>2 DEF Taken
    <2>2. \A i \in 1..room : bytes[i] \in Byte
      BY <1>1, <1>2
    <2>3. /\ SubSeq(bytes, 1, room) \in Seq(Byte)
          /\ Len(SubSeq(bytes, 1, room)) = IF 1 <= room THEN room - 1 + 1 ELSE 0
      BY <1>1, <2>2, SubSeqProperties
    <2>4. Taken(bytes) \in Seq(Byte) /\ Len(Taken(bytes)) = room
      BY <1>1, <2>1, <2>3
    <2> QED BY <1>1, <1>2, <2>4, ConcatProperties
  <1>3. CASE ~ (Len(bytes) > room)
    <2>1. Taken(bytes) = bytes
      BY <1>3 DEF Taken
    <2> QED BY <1>1, <1>3, <2>1, ConcatProperties
  <1> QED BY <1>2, <1>3


-----------------------------------------------------------------------------
LEMMA InitIInv == Init => IInv
  <1> SUFFICES ASSUME Init PROVE IInv
    OBVIOUS
  <1>1. /\ pc = "main" /\ input \in Inputs /\ written = << >> /\ out = << >>
        /\ taken = 0 /\ slot = 0 /\ rc = << >> /\ code = << >> /\ seen = << >>
        /\ slots = Zeros(4 * MappedSlots) /\ Len(out) = 0 /\ Len(written) = 0
    BY DEF Init
  <1>2. TypeOK /\ ControlOK
    BY <1>1, EmptySeq DEF TypeOK, ControlOK
  <1>3. InputOK
    BY DEF Init, InputOK
  <1>4. OutputOK
    BY <1>1, RuntimeAssumption DEF OutputOK
  <1>5. slots = [i \in 1..(4 * MappedSlots) |-> IF i <= taken THEN out[i] ELSE 0]
    <2>1. \A i \in 1..(4 * MappedSlots) : ~ (i <= taken)
      BY <1>1, RuntimeAssumption
    <2> QED BY <1>1, <2>1 DEF Zeros
  <1>6. FlushOK
    <2>1. /\ taken <= Len(out) /\ taken <= 4 * slot /\ 4 * slot < Len(out) + 4
          /\ ~ (taken < Len(out))
      BY <1>1
    <2> QED BY <1>5, <2>1 DEF FlushOK
  <1> QED BY <1>2, <1>3, <1>4, <1>6 DEF IInv

LEMMA ReadInputInv == IInv /\ ReadInput => IInv' /\ seen' = <<input>>
  <1> SUFFICES ASSUME IInv, ReadInput PROVE IInv' /\ seen' = <<input>>
    OBVIOUS
  <1>1. UNCHANGED <<pc, input, region, written, out, taken, slot, slots, rc, code>>
    BY DEF ReadInput, outvars, slotvars
  <1>2. seen' = <<input>>
    BY RegionFacts DEF ReadInput, IInv, TypeOK
  <1>3. InputOK'
    BY <1>1, <1>2 DEF IInv, InputOK
  <1> QED BY <1>1, <1>2, <1>3 DEF IInv, TypeOK, ControlOK, OutputOK, FlushOK

LEMMA WriteOutputInv ==
    ASSUME IInv, NEW bytes \in Chunks, WriteOutput(bytes)
    PROVE  IInv'
  <1>1. /\ pc = "main" /\ Len(written) + Len(bytes) <= MaxOutput
        /\ written' = written \o bytes /\ out' = out \o Taken(bytes)
        /\ UNCHANGED <<pc, input, region, seen, taken, slot, slots, rc, code>>
    BY DEF WriteOutput, invars, slotvars
  <1>2. /\ bytes \in Seq(Byte) /\ written \in Seq(Byte) /\ out \in Seq(Byte)
        /\ Len(out) <= OutputCap /\ Len(out) <= Len(written)
    BY RuntimeAssumption DEF Byte, IInv, TypeOK, OutputOK
  <1>3. /\ written' \in Seq(Byte) /\ Len(written') = Len(written) + Len(bytes)
        /\ out' \in Seq(Byte) /\ Len(out') <= OutputCap /\ Len(out') \in Nat
        /\ Len(out') <= Len(out) + Len(bytes)
    BY <1>1, <1>2, TakenFacts, ConcatProperties
  <1>4. MaxOutput <= OutputCap => out' = written'
    <2> SUFFICES ASSUME MaxOutput <= OutputCap PROVE out' = written'
      OBVIOUS
    <2>1. out = written
      BY DEF IInv, OutputOK
    <2>2. Len(out) + Len(bytes) <= OutputCap
      BY <1>1, <1>2, <2>1, RuntimeAssumption
    <2> QED BY <1>1, <1>2, <2>1, <2>2, TakenFacts
  <1>5. OutputOK'
    <2>1. Len(out) \in Nat /\ Len(written) \in Nat /\ Len(bytes) \in Nat
      BY <1>2
    <2>2. Len(out') <= Len(written') /\ Len(written') <= MaxOutput
      BY <1>1, <1>2, <1>3, <2>1
    <2> QED BY <1>3, <1>4, <2>2 DEF OutputOK
  <1>6. taken = 0 /\ taken' = 0 /\ slot' = 0
    BY <1>1 DEF IInv, ControlOK
  <1>7. slots' = [i \in 1..(4 * MappedSlots) |-> IF i <= taken' THEN out'[i] ELSE 0]
    <2>1. \A i \in 1..(4 * MappedSlots) : ~ (i <= taken) /\ ~ (i <= taken')
      BY <1>6, RuntimeAssumption
    <2> QED BY <1>1, <2>1 DEF IInv, FlushOK
  <1>8. FlushOK'
    BY <1>3, <1>6, <1>7 DEF FlushOK
  <1> QED BY <1>1, <1>3, <1>5, <1>8 DEF IInv, TypeOK, ControlOK, InputOK

LEMMA MainReturnsInv ==
    ASSUME IInv, NEW r \in ReturnCodes, MainReturns(r)
    PROVE  IInv'
  BY DEF MainReturns, invars, outvars, slotvars, IInv, TypeOK, ControlOK, InputOK,
         OutputOK, FlushOK

LEMMA HaltInv == IInv /\ Halt => IInv'
  BY DEF Halt, invars, outvars, slotvars, IInv, TypeOK, ControlOK, InputOK, OutputOK,
         FlushOK

LEMMA PanicInv == IInv /\ Panic => IInv'
  BY DEF Panic, invars, outvars, slotvars, IInv, TypeOK, ControlOK, InputOK, OutputOK,
         FlushOK

\* A slot takes the next bytes of the buffer, and zeros past its end.
LEMMA SlotInv ==
    ASSUME IInv, pc = "flush", taken < Len(out),
           NEW k \in 1..4, taken + k <= Len(out), k < 4 => taken + k = Len(out),
           NEW bytes, Len(bytes) = 4,
           \A b \in 1..4 : bytes[b] = IF b <= k THEN out[taken + b] ELSE 0,
           SetOutput(bytes), taken' = taken + k
    PROVE  IInv'
  <1>1. /\ slots' = Store(slots, 4 * slot + 1, bytes) /\ slot' = slot + 1
        /\ UNCHANGED <<pc, input, region, seen, written, out, rc, code>>
    BY DEF SetOutput, invars, outvars
  <1>2. /\ taken \in Nat /\ slot \in Nat /\ Len(out) \in Nat /\ taken = 4 * slot
        /\ slots = [i \in 1..(4 * MappedSlots) |-> IF i <= taken THEN out[i] ELSE 0]
    BY DEF IInv, TypeOK, FlushOK
  <1>3. ASSUME NEW i \in 1..(4 * MappedSlots)
        PROVE  slots'[i] = IF i <= taken' THEN out'[i] ELSE 0
    <2>0. i \in Int
      BY RuntimeAssumption
    <2>1. CASE i \in (taken + 1)..(taken + 4)
      <3>1. i - (4 * slot + 1) + 1 \in 1..4 /\ taken + (i - (4 * slot + 1) + 1) = i
            /\ (i - (4 * slot + 1) + 1 <= k <=> i <= taken')
        BY <1>2, <2>0, <2>1
      <3>2. slots'[i] = bytes[i - (4 * slot + 1) + 1]
        BY <1>1, <1>2, <2>1 DEF Store
      <3> QED BY <1>1, <3>1, <3>2
    <2>2. CASE i \notin (taken + 1)..(taken + 4)
      <3>1. slots'[i] = slots[i]
        BY <1>1, <1>2, <2>2 DEF Store
      <3>2. i <= taken' <=> i <= taken
        BY <1>2, <2>0, <2>2
      <3> QED BY <1>1, <1>2, <3>1, <3>2
    <2> QED BY <2>1, <2>2
  <1>4. slots' = [i \in 1..(4 * MappedSlots) |-> slots'[i]]
    BY <1>1, <1>2 DEF Store
  <1>5. slots' = [i \in 1..(4 * MappedSlots) |-> IF i <= taken' THEN out'[i] ELSE 0]
    BY <1>3, <1>4
  <1>6. taken' \in Nat /\ slot' \in Nat
    BY <1>1, <1>2
  <1>7. /\ taken' <= Len(out') /\ taken' <= 4 * slot' /\ 4 * slot' < Len(out') + 4
        /\ (taken' < Len(out') => taken' = 4 * slot')
    BY <1>1, <1>2
  <1>8. FlushOK'
    BY <1>5, <1>7 DEF FlushOK
  <1> QED BY <1>1, <1>6, <1>8 DEF IInv, TypeOK, ControlOK, InputOK, OutputOK

LEMMA SetFullWordInv == IInv /\ SetFullWord => IInv'
  <1> SUFFICES ASSUME IInv, SetFullWord PROVE IInv'
    OBVIOUS
  <1> DEFINE bytes == SubSeq(out, taken + 1, taken + 4)
  <1>1. /\ pc = "flush" /\ taken + 4 <= Len(out) /\ SetOutput(bytes) /\ taken' = taken + 4
        /\ out \in Seq(Byte) /\ taken \in Nat /\ Len(out) \in Nat
    BY DEF SetFullWord, IInv, TypeOK
  <1>2. \A i \in (taken + 1)..(taken + 4) : out[i] \in Byte
    BY <1>1
  <1>3. /\ Len(bytes) = IF taken + 1 <= taken + 4 THEN taken + 4 - (taken + 1) + 1 ELSE 0
        /\ \A b \in 1..(taken + 4 - (taken + 1) + 1) : bytes[b] = out[taken + 1 + b - 1]
    BY <1>1, <1>2, SubSeqProperties
  <1>4. Len(bytes) = 4 /\ \A b \in 1..4 : bytes[b] = out[taken + b]
    BY <1>1, <1>3
  <1> HIDE DEF bytes
  <1> QED BY <1>1, <1>4, SlotInv

LEMMA SetLastWordInv == IInv /\ SetLastWord => IInv'
  <1> SUFFICES ASSUME IInv, SetLastWord PROVE IInv'
    OBVIOUS
  <1> DEFINE rest == SubSeq(out, taken + 1, Len(out))
             k == Len(out) - taken
             bytes == rest \o Zeros(4 - Len(rest))
  <1>1. /\ pc = "flush" /\ taken + 4 > Len(out) /\ taken < Len(out)
        /\ SetOutput(bytes) /\ taken' = Len(out)
        /\ out \in Seq(Byte) /\ taken \in Nat /\ Len(out) \in Nat
    BY DEF SetLastWord, IInv, TypeOK
  <1>2. \A i \in (taken + 1)..Len(out) : out[i] \in Byte
    BY <1>1
  <1>3. /\ rest \in Seq(Byte)
        /\ Len(rest) = IF taken + 1 <= Len(out) THEN Len(out) - (taken + 1) + 1 ELSE 0
        /\ \A b \in 1..(Len(out) - (taken + 1) + 1) : rest[b] = out[taken + 1 + b - 1]
    BY <1>1, <1>2, SubSeqProperties
  <1>4. k \in 1..4 /\ k < 4 /\ taken + k = Len(out)
    BY <1>1
  <1>5. Len(rest) = k /\ \A b \in 1..k : rest[b] = out[taken + b]
    BY <1>1, <1>3
  <1> HIDE DEF rest, k
  <1>6. /\ Zeros(4 - k) \in Seq(Byte) /\ Len(Zeros(4 - k)) = 4 - k
        /\ \A b \in 1..(4 - k) : Zeros(4 - k)[b] = 0
    <2>1. 4 - k \in Nat
      BY <1>4
    <2>2. \A b \in 1..(4 - k) : Zeros(4 - k)[b] = 0
      BY DEF Zeros
    <2> QED BY <2>1, <2>2, ZerosFacts
  <1>7. /\ Len(bytes) = k + (4 - k)
        /\ \A b \in 1..(k + (4 - k)) : bytes[b] = IF b <= k THEN rest[b]
                                                   ELSE Zeros(4 - k)[b - k]
    BY <1>3, <1>5, <1>6, ConcatProperties
  <1>8. Len(bytes) = 4 /\ \A b \in 1..4 : bytes[b] = IF b <= k THEN out[taken + b] ELSE 0
    <2>1. k + (4 - k) = 4
      BY <1>4
    <2>2. \A b \in 1..4 : b <= k => b \in 1..k
      BY <1>4
    <2>3. \A b \in 1..4 : ~ (b <= k) => b - k \in 1..(4 - k)
      BY <1>4
    <2> QED BY <1>5, <1>6, <1>7, <2>1, <2>2, <2>3
  <1> HIDE DEF bytes
  <1> QED BY <1>1, <1>4, <1>8, SlotInv

LEMMA StepInv == IInv /\ [Next]_vars => IInv'
  <1> SUFFICES ASSUME IInv, [Next]_vars PROVE IInv'
    OBVIOUS
  <1>1. CASE UNCHANGED vars
    BY <1>1 DEF vars, IInv, TypeOK, ControlOK, InputOK, OutputOK, FlushOK
  <1>2. CASE Terminated
    BY <1>1, <1>2 DEF Terminated
  <1> QED BY <1>1, <1>2, ReadInputInv, WriteOutputInv, MainReturnsInv, SetFullWordInv,
          SetLastWordInv, HaltInv, PanicInv DEF Next

LEMMA Invariant == Spec => []IInv
  BY InitIInv, StepInv, PTL DEF Spec

\* No slot beyond MAX_OUTPUT_SLOTS is written by a program whose output is no
\* longer than the slots.
THEOREM ZiskSlotsInRange ==
    ASSUME MaxOutput <= 4 * MAX_OUTPUT_SLOTS
    PROVE  Spec => []SlotsInRange
  <1>1. IInv => SlotsInRange
    BY RuntimeAssumption DEF IInv, TypeOK, OutputOK, FlushOK, SlotsInRange
  <1> QED BY <1>1, Invariant, PTL

-----------------------------------------------------------------------------
LEMMA WritesOutput ==
    ASSUME IInv, NEW bytes \in Chunks, WriteOutput(bytes)
    PROVE  Io!WriteOutput
  <1>1. /\ written' = written \o bytes /\ rc = << >> /\ code = << >>
        /\ UNCHANGED <<input, seen, rc, code>>
    BY DEF WriteOutput, invars, slotvars, IInv, ControlOK
  <1>2. Io!IsPrefix(written, written')
    <2>1. written \in Seq(Byte) /\ bytes \in Seq(Byte)
      BY RuntimeAssumption DEF Byte, IInv, TypeOK
    <2> DEFINE m == Len(written)
    <2>2. m \in Nat /\ Len(bytes) \in Nat /\ Len(written') = m + Len(bytes)
          /\ \A i \in 1..m : written'[i] = written[i]
      BY <1>1, <2>1, ConcatProperties
    <2>3. SubSeq(written, 1, m) = [i \in 1..(m - 1 + 1) |-> written[1 + i - 1]]
          /\ SubSeq(written', 1, m) = [i \in 1..(m - 1 + 1) |-> written'[1 + i - 1]]
      OBVIOUS
    <2> QED BY <2>2, <2>3 DEF Io!IsPrefix
  <1> QED BY <1>1, <1>2 DEF Io!WriteOutput, Io!Running

LEMMA Finishes ==
    ASSUME MaxOutput <= OutputCap, MaxOutput <= 4 * MappedSlots,
           \A r \in ReturnCodes : r % 256 = 0 => r = 0,
           IInv, Halt
    PROVE  Io!Finish
  <1>1. /\ code' = <<rc[1] % 256>> /\ code = << >> /\ taken = Len(out)
        /\ UNCHANGED <<input, seen, written, out, slots, rc>>
        /\ rc # << >> /\ rc[1] \in ReturnCodes
    BY DEF Halt, invars, outvars, slotvars, IInv, ControlOK
  <1>2. code'[1] = 0 <=> rc[1] = 0
    <2>1. rc[1] \in Int /\ (rc[1] % 256 = 0 => rc[1] = 0)
      BY <1>1, RuntimeAssumption
    <2>2. code'[1] = rc[1] % 256
      BY <1>1
    <2> QED BY <2>1, <2>2
  <1>3. /\ out = written /\ Len(out) \in Nat /\ Len(written) <= 4 * MappedSlots
        /\ slots = [i \in 1..(4 * MappedSlots) |-> IF i <= taken THEN out[i] ELSE 0]
    BY RuntimeAssumption DEF IInv, OutputOK, FlushOK, TypeOK
  <1>4. Len(slots) = 4 * MappedSlots
    BY <1>3, RuntimeAssumption
  <1>5. Io!Publishes(slots, written)
    BY <1>1, <1>3, <1>4 DEF Io!Publishes
  <1> QED BY <1>1, <1>2, <1>5 DEF Io!Finish

LEMMA Panics == IInv /\ Panic => Io!Panic
  <1> SUFFICES ASSUME IInv, Panic PROVE Io!Panic
    OBVIOUS
  <1>1. /\ code' = <<1>> /\ rc = << >> /\ code = << >> /\ taken = 0
        /\ UNCHANGED <<input, seen, written, slots, rc>>
    BY DEF Panic, invars, outvars, slotvars, IInv, ControlOK
  <1>2. slots = [i \in 1..(4 * MappedSlots) |-> IF i <= taken THEN out[i] ELSE 0]
    BY DEF IInv, FlushOK
  <1>3. Len(slots) = 4 * MappedSlots /\ Len(<< >>) = 0 /\ MappedSlots \in Nat
    BY <1>2, RuntimeAssumption
  <1>4. Io!Publishes(slots, << >>)
    BY <1>1, <1>2, <1>3 DEF Io!Publishes
  <1> QED BY <1>1, <1>4 DEF Io!Panic, Io!Running

\* read_input returns the host's bytes at any time, the output slots hold the
\* whole output and the exit code says whether main succeeded, as long as the
\* output fits in the buffer and the slots and no failure is a multiple of 256.
THEOREM ZiskMeetsIo ==
    ASSUME MaxOutput <= OutputCap, MaxOutput <= 4 * MappedSlots,
           \A r \in ReturnCodes : r % 256 = 0 => r = 0
    PROVE  Spec => Implements
  <1>1. Init => Io!Init
    BY DEF Init, Io!Init, IsInput
  <1>2. IInv /\ [Next]_vars => [Io!Next]_(Io!zvars)
    <2> SUFFICES ASSUME IInv, [Next]_vars PROVE [Io!Next]_(Io!zvars)
      OBVIOUS
    <2>1. CASE ReadInput
      <3>1. UNCHANGED <<input, written, slots, rc, code>> /\ rc = << >> /\ code = << >>
            /\ seen' = <<input>>
        BY <2>1, ReadInputInv DEF ReadInput, outvars, slotvars, IInv, ControlOK
      <3> QED BY <3>1 DEF Io!ReadInput, Io!Running, Io!Next
    <2>2. ASSUME NEW r \in ReturnCodes, MainReturns(r) PROVE Io!Return
      BY <2>2 DEF MainReturns, invars, outvars, slotvars, IInv, ControlOK, Io!Return,
                  Io!Running
    <2>3. CASE SetFullWord \/ SetLastWord \/ Terminated \/ UNCHANGED vars
      <3>1. UNCHANGED <<input, seen, written, rc, code>>
            /\ (code # << >> => UNCHANGED slots)
        BY <2>3 DEF SetFullWord, SetLastWord, SetOutput, Terminated, vars, invars, outvars,
                    IInv, ControlOK
      <3> QED BY <3>1 DEF Io!zvars
    <2> QED BY <2>1, <2>2, <2>3, WritesOutput, Finishes, Panics DEF Next, Io!Next
  <1> QED BY <1>1, <1>2, Invariant, PTL DEF Spec, Implements, Io!Spec
=============================================================================
