---------------------------- MODULE Sp1RuntimeProofs ----------------------------
(***************************************************************************)
(* The SP1 runtime for every program, hint stream and placement of the     *)
(* heap: growing the public-values buffer and reading the input spare what *)
(* the program keeps, and the runtime meets the io-interface.  The         *)
(* invariant is the layout of memory - blocks, buffer, heap, input region  *)
(* - with a bound on the heap that pays for the buffers left behind.       *)
(***************************************************************************)
EXTENDS Sp1Runtime, SequenceTheorems, TLAPS

Byte == 0..255
Memory == 0..(MaxMemory - 1)

TypeOK ==
    /\ pc \in {"entry", "constructors", "main", "append", "halting", "halted"}
    /\ DOMAIN mem = Memory
    /\ heap \in Nat /\ pvBuf \in Nat /\ pvLen \in Nat /\ pvCap \in Nat /\ newCap \in Nat
    /\ hints \in HintStreams
    /\ host \in Seq(Byte) /\ data \in Seq(Byte)

ControlOK ==
    /\ pc \in {"entry", "constructors", "main", "append"} => rc = << >> /\ code = << >>
    /\ pc = "halting" => (\E r \in ReturnCodes : rc = <<r>>) /\ code = << >>
    /\ pc = "halted" => code # << >> /\ digest = <<host>>
    /\ pc # "halted" => digest = << >>
    /\ pc # "append" => data = << >>
    /\ pc \in {"entry", "constructors"} =>
         pvBuf = 0 /\ pvLen = 0 /\ pvCap = 0 /\ host = << >> /\ cached = << >>
    /\ pc = "entry" => blocks = {}
    /\ pc \in {"main", "append", "halting"} => PV_BUF_INITIAL_CAP <= pvCap

\* The block lies below the heap pointer and not in the buffer.
Apart(b) ==
    /\ b[1] \in Nat /\ b[2] \in Seq(Byte)
    /\ b[1] + Len(b[2]) <= heap
    /\ b[1] + Len(b[2]) <= pvBuf \/ pvBuf + pvCap <= b[1]

\* Every capacity is at least twice the one before, so that all the buffers
\* together take less than twice the last one.
LayoutOK ==
    /\ pvLen <= pvCap /\ pvBuf + pvCap <= heap
    /\ pvCap = 0 => heap <= HeapLimit
    /\ pvCap # 0 =>
         /\ heap + PV_BUF_INITIAL_CAP <= HeapLimit + 2 * pvCap
         /\ pvCap = PV_BUF_INITIAL_CAP \/ pvCap < 2 * MaxOutput
    /\ \A b \in blocks : Apart(b)

LoopOK ==
    pc = "append" =>
        \/ newCap = pvCap
        \/ newCap >= 2 * pvCap /\ newCap < 2 * Len(host) /\ Len(host) > pvCap

\* The host has what the buffer holds and what is being appended.
OutputOK ==
    /\ Len(host) = pvLen + Len(data) /\ Len(host) <= MaxOutput
    /\ \A i \in 1..pvLen : mem[pvBuf + i - 1] = host[i]
    /\ \A j \in 1..Len(data) : host[pvLen + j] = data[j]

BlocksOK == \A b \in blocks : \A i \in 1..Len(b[2]) : mem[b[1] + i - 1] = b[2][i]

InputOK ==
    /\ cached = << >> => stream = hints /\ inputPtr = InputRegionStart
    /\ cached # << >> =>
         /\ cached = <<<<cached[1][1], Len(FirstVector(hints))>>>>
         /\ FirstVector(hints) # << >> => cached[1][1] = InputRegionStart
         /\ \A i \in 1..Len(FirstVector(hints)) :
              mem[InputRegionStart + i - 1] = FirstVector(hints)[i]

IInv == TypeOK /\ ControlOK /\ LayoutOK /\ LoopOK /\ OutputOK /\ BlocksOK /\ InputOK

-----------------------------------------------------------------------------
LEMMA VectorFacts ==
    ASSUME NEW s \in HintStreams
    PROVE  /\ FirstVector(s) \in Seq(Byte) /\ Len(FirstVector(s)) \in Nat
           /\ FirstVector(s) # << >> => s # << >> /\ FirstVector(s) = Head(s)
           /\ FirstVector(s) # << >> => InputRegionStart + Len(FirstVector(s)) <= MaxMemory
           /\ FirstVector(s) = << >> => Len(FirstVector(s)) = 0
  <1>1. s \in Seq(Seq(Byte))
    BY RuntimeAssumption DEF Byte
  <1>2. FirstVector(s) \in Seq(Byte)
    BY <1>1, EmptySeq, HeadTailProperties DEF FirstVector
  <1>3. FirstVector(s) # << >> => s # << >> /\ FirstVector(s) = Head(s)
    BY DEF FirstVector
  <1>4. FirstVector(s) # << >> => InputRegionStart + Len(FirstVector(s)) <= MaxMemory
    BY <1>3, RuntimeAssumption
  <1> QED BY <1>2, <1>3, <1>4, LenProperties

\* What a store does to the bytes in and outside its area.
Stored(r, m, at, bytes) ==
    /\ DOMAIN r = DOMAIN m
    /\ \A a \in DOMAIN m : a \notin at..(at + Len(bytes) - 1) => r[a] = m[a]
    /\ \A a \in DOMAIN m :
          a \in at..(at + Len(bytes) - 1) => r[a] = bytes[a - at + 1]

LEMMA StoreFacts ==
    ASSUME NEW m, NEW at \in Nat, NEW bytes
    PROVE  Stored(Store(m, at, bytes), m, at, bytes)
  <1> DEFINE r == Store(m, at, bytes)
  <1>1. DOMAIN r = DOMAIN m
    BY DEF Store
  <1>2. ASSUME NEW a \in DOMAIN m
        PROVE  r[a] = IF a \in at..(at + Len(bytes) - 1) THEN bytes[a - at + 1] ELSE m[a]
    BY DEF Store
  <1> HIDE DEF r
  <1>3. Stored(r, m, at, bytes)
    BY <1>1, <1>2 DEF Stored
  <1> QED BY <1>3 DEF r

\* The heap and the buffer about to be allocated stay below the input region.
LEMMA HeapBelowInput ==
    ASSUME IInv
    PROVE  /\ heap <= InputRegionStart
           /\ pc = "append" /\ newCap >= pvLen + Len(data) /\ pvLen + Len(data) > pvCap
                => heap + newCap <= InputRegionStart
  <1> USE RuntimeAssumption
  <1>1. /\ heap \in Nat /\ pvCap \in Nat /\ newCap \in Nat /\ pvLen \in Nat
        /\ Len(host) \in Nat /\ Len(data) \in Nat
    BY DEF IInv, TypeOK
  <1>2. /\ pvCap = 0 => heap <= HeapLimit
        /\ pvCap # 0 => /\ heap + PV_BUF_INITIAL_CAP <= HeapLimit + 2 * pvCap
                        /\ pvCap = PV_BUF_INITIAL_CAP \/ pvCap < 2 * MaxOutput
    BY DEF IInv, LayoutOK
  <1>3. heap <= InputRegionStart
    BY <1>1, <1>2
  <1>4. ASSUME pc = "append", newCap >= pvLen + Len(data), pvLen + Len(data) > pvCap
        PROVE  heap + newCap <= InputRegionStart
    <2>1. pvCap # 0 /\ Len(host) = pvLen + Len(data) /\ Len(host) <= MaxOutput
      BY <1>1, <1>4 DEF IInv, ControlOK, OutputOK
    <2>2. newCap >= 2 * pvCap /\ newCap < 2 * Len(host)
      BY <1>1, <1>4, <2>1 DEF IInv, LoopOK
    <2> QED BY <1>1, <1>2, <2>1, <2>2
  <1> QED BY <1>3, <1>4

-----------------------------------------------------------------------------
LEMMA InitIInv == Init => IInv
  <1> SUFFICES ASSUME Init PROVE IInv
    OBVIOUS
  <1>1. /\ pc = "entry" /\ DOMAIN mem = Memory /\ heap = 0 /\ blocks = {} /\ pvBuf = 0
        /\ pvLen = 0 /\ pvCap = 0 /\ newCap = 0 /\ data = << >> /\ host = << >>
        /\ hints \in HintStreams /\ stream = hints /\ inputPtr = InputRegionStart
        /\ cached = << >> /\ rc = << >> /\ digest = << >> /\ code = << >>
    BY DEF Init, Memory
  <1>2. TypeOK
    BY <1>1, EmptySeq DEF TypeOK
  <1>3. ControlOK /\ LoopOK /\ BlocksOK /\ InputOK
    BY <1>1 DEF ControlOK, LoopOK, BlocksOK, InputOK
  <1>4. LayoutOK
    BY <1>1, RuntimeAssumption DEF LayoutOK
  <1>5. Len(host) = 0 /\ Len(data) = 0
    BY <1>1
  <1>6. OutputOK
    BY <1>1, <1>5, RuntimeAssumption DEF OutputOK
  <1> QED BY <1>2, <1>3, <1>4, <1>6 DEF IInv

LEMMA SetHeapInv == IInv /\ SetHeap => IInv'
  <1> SUFFICES ASSUME IInv, SetHeap PROVE IInv'
    OBVIOUS
  <1>1. /\ pc = "entry" /\ pc' = "constructors" /\ heap' = AlignUp(HeapStart, 8)
        /\ UNCHANGED <<mem, blocks, pvBuf, pvLen, pvCap, data, newCap, hints, stream,
                       inputPtr, cached, host, rc, digest, code>>
    BY DEF SetHeap, pvvars, loop, invars, endvars
  <1>2. heap' \in Nat /\ heap' <= HeapLimit
    BY <1>1, RuntimeAssumption DEF AlignUp
  <1>3. pvBuf = 0 /\ pvLen = 0 /\ pvCap = 0 /\ blocks = {}
    BY <1>1 DEF IInv, ControlOK
  <1>4. TypeOK'
    BY <1>1, <1>2 DEF IInv, TypeOK
  <1>5. ControlOK'
    BY <1>1 DEF IInv, ControlOK
  <1>6. LayoutOK'
    BY <1>1, <1>2, <1>3 DEF LayoutOK
  <1>7. LoopOK' /\ OutputOK' /\ BlocksOK' /\ InputOK'
    BY <1>1 DEF IInv, LoopOK, OutputOK, BlocksOK, InputOK
  <1> QED BY <1>4, <1>5, <1>6, <1>7 DEF IInv

LEMMA InitPublicValuesInv == IInv /\ InitPublicValues => IInv'
  <1> SUFFICES ASSUME IInv, InitPublicValues PROVE IInv'
    OBVIOUS
  <1>1. /\ pc = "constructors" /\ pc' = "main" /\ pvBuf' = heap
        /\ heap' = heap + PV_BUF_INITIAL_CAP /\ pvLen' = 0
        /\ pvCap' = PV_BUF_INITIAL_CAP
        /\ UNCHANGED <<mem, blocks, data, newCap, hints, stream, inputPtr, cached, host,
                       rc, digest, code>>
    BY DEF InitPublicValues, loop, invars, endvars
  <1>2. heap \in Nat /\ PV_BUF_INITIAL_CAP \in Nat \ {0} /\ HeapLimit \in Nat
    BY RuntimeAssumption DEF IInv, TypeOK
  <1>3. pvBuf = 0 /\ pvLen = 0 /\ pvCap = 0 /\ data = << >> /\ host = << >>
    BY <1>1 DEF IInv, ControlOK
  <1>4. TypeOK'
    BY <1>1, <1>2 DEF IInv, TypeOK
  <1>5. ControlOK'
    BY <1>1, <1>2 DEF IInv, ControlOK
  <1>6. \A b \in blocks' : Apart(b)'
    <2> TAKE b \in blocks'
    <2>1. b[1] \in Nat /\ b[2] \in Seq(Byte) /\ b[1] + Len(b[2]) <= heap
      BY <1>1 DEF IInv, LayoutOK, Apart
    <2> QED BY <1>1, <1>2, <2>1 DEF Apart
  <1>7. LayoutOK'
    <2>1. heap <= HeapLimit
      BY <1>3 DEF IInv, LayoutOK
    <2> QED BY <1>1, <1>2, <1>6, <2>1 DEF LayoutOK
  <1>8. OutputOK'
    BY <1>1, <1>3 DEF IInv, OutputOK
  <1>9. LoopOK' /\ BlocksOK' /\ InputOK'
    BY <1>1 DEF IInv, LoopOK, BlocksOK, InputOK
  <1> QED BY <1>4, <1>5, <1>7, <1>8, <1>9 DEF IInv

\* A new block starts where the heap ends: above the others and the buffer,
\* below the input region.
LEMMA AllocateInv ==
    ASSUME IInv, NEW bytes \in Blocks, Allocate(bytes)
    PROVE  IInv'
  <1>1. /\ pc \in {"constructors", "main"} /\ heap + Len(bytes) <= HeapLimit
        /\ heap' = heap + Len(bytes) /\ mem' = Store(mem, heap, bytes)
        /\ blocks' = blocks \cup {<<heap, bytes>>}
        /\ UNCHANGED <<pc, pvBuf, pvLen, pvCap, data, newCap, hints, stream, inputPtr,
                       cached, host, rc, digest, code>>
    BY DEF Allocate, pvvars, loop, invars, endvars
  <1>2. /\ bytes \in Seq(Byte) /\ Len(bytes) \in Nat /\ heap \in Nat
        /\ pvBuf \in Nat /\ pvLen \in Nat /\ pvCap \in Nat
        /\ HeapLimit \in Nat /\ InputRegionStart \in Nat /\ MaxMemory \in Nat
        /\ HeapLimit <= InputRegionStart /\ InputRegionStart <= MaxMemory
        /\ PV_BUF_INITIAL_CAP \in Nat \ {0}
    BY RuntimeAssumption DEF Byte, IInv, TypeOK
  <1>3. /\ DOMAIN mem = Memory /\ DOMAIN mem' = Memory
        /\ \A a \in Memory : a < heap \/ a >= heap + Len(bytes) => mem'[a] = mem[a]
        /\ \A i \in 1..Len(bytes) : mem'[heap + i - 1] = bytes[i]
    <2>1. DOMAIN mem = Memory
      BY DEF IInv, TypeOK
    <2>2. \A i \in 1..Len(bytes) :
            heap + i - 1 \in Memory /\ heap + i - 1 \in heap..(heap + Len(bytes) - 1)
            /\ (heap + i - 1) - heap + 1 = i
      BY <1>1, <1>2 DEF Memory
    <2>3. \A a \in Memory : a \in Int
      BY DEF Memory
    <2>4. \A a \in Memory : a < heap \/ a >= heap + Len(bytes)
                              => a \notin heap..(heap + Len(bytes) - 1)
      BY <1>2, <2>3
    <2>5. /\ DOMAIN mem' = DOMAIN mem
          /\ \A a \in DOMAIN mem :
                a \notin heap..(heap + Len(bytes) - 1) => mem'[a] = mem[a]
          /\ \A a \in DOMAIN mem :
                a \in heap..(heap + Len(bytes) - 1) => mem'[a] = bytes[a - heap + 1]
      <3> HIDE DEF Memory
      <3>1. heap \in Nat /\ mem' = Store(mem, heap, bytes)
        BY <1>1, <1>2
      <3>2. Stored(mem', mem, heap, bytes)
        BY <3>1, StoreFacts
      <3> QED BY <3>2 DEF Stored
    <2> QED BY <2>1, <2>2, <2>4, <2>5
  <1>4. TypeOK'
    BY <1>1, <1>2, <1>3 DEF IInv, TypeOK
  <1>5. ControlOK' /\ LoopOK'
    BY <1>1 DEF IInv, ControlOK, LoopOK
  <1>6. /\ pvLen <= pvCap /\ pvBuf + pvCap <= heap
        /\ \A b \in blocks : /\ b[1] \in Nat /\ b[2] \in Seq(Byte) /\ Len(b[2]) \in Nat
                             /\ b[1] + Len(b[2]) <= heap
                             /\ b[1] + Len(b[2]) <= pvBuf \/ pvBuf + pvCap <= b[1]
    BY DEF IInv, LayoutOK, Apart
  <1>7. LayoutOK'
    <2>1. \A b \in blocks' : Apart(b)'
      BY <1>1, <1>2, <1>6 DEF Apart
    <2>2. pvLen' <= pvCap' /\ pvBuf' + pvCap' <= heap' /\ heap' <= HeapLimit
      BY <1>1, <1>2, <1>6
    <2>3. pvCap' # 0 =>
            /\ heap' + PV_BUF_INITIAL_CAP <= HeapLimit + 2 * pvCap'
            /\ pvCap' = PV_BUF_INITIAL_CAP \/ pvCap' < 2 * MaxOutput
      <3> SUFFICES ASSUME pvCap' # 0
                   PROVE /\ heap' + PV_BUF_INITIAL_CAP <= HeapLimit + 2 * pvCap'
                         /\ pvCap' = PV_BUF_INITIAL_CAP \/ pvCap' < 2 * MaxOutput
        OBVIOUS
      <3>1. pvCap # 0 /\ pc = "main"
        BY <1>1 DEF IInv, ControlOK
      <3>2. PV_BUF_INITIAL_CAP <= pvCap
        BY <3>1 DEF IInv, ControlOK
      <3>3. pvCap = PV_BUF_INITIAL_CAP \/ pvCap < 2 * MaxOutput
        BY <3>1 DEF IInv, LayoutOK
      <3> QED BY <1>1, <1>2, <2>2, <3>2, <3>3
    <2> QED BY <2>1, <2>2, <2>3 DEF LayoutOK
  <1>8. OutputOK'
    <2>1. \A i \in 1..pvLen : pvBuf + i - 1 \in Memory /\ pvBuf + i - 1 < heap
      BY <1>1, <1>2, <1>6 DEF Memory
    <2> QED BY <1>1, <1>3, <2>1 DEF IInv, OutputOK
  <1>9. BlocksOK'
    <2>1. \A b \in blocks : \A i \in 1..Len(b[2]) :
            b[1] + i - 1 \in Memory /\ b[1] + i - 1 < heap
      BY <1>1, <1>2, <1>6 DEF Memory
    <2>2. \A b \in blocks : \A i \in 1..Len(b[2]) : mem'[b[1] + i - 1] = b[2][i]
      BY <1>3, <2>1 DEF IInv, BlocksOK
    <2> QED BY <1>1, <1>3, <2>2 DEF BlocksOK
  <1>10. InputOK'
    <2>1. hints \in HintStreams
      BY DEF IInv, TypeOK
    <2>2. \A i \in 1..Len(FirstVector(hints)) :
            /\ InputRegionStart + i - 1 \in Memory
            /\ InputRegionStart + i - 1 >= heap + Len(bytes)
      BY <1>1, <1>2, <2>1, VectorFacts DEF Memory
    <2>3. \A i \in 1..Len(FirstVector(hints)) :
            mem'[InputRegionStart + i - 1] = mem[InputRegionStart + i - 1]
      BY <1>3, <2>2
    <2> QED BY <1>1, <2>3 DEF IInv, InputOK
  <1> QED BY <1>4, <1>5, <1>7, <1>8, <1>9, <1>10 DEF IInv

\* The vector arrives in the input region, above everything else.
LEMMA ReadInputInv == IInv /\ ReadInput => IInv' /\ cached' # << >>
  <1> SUFFICES ASSUME IInv, ReadInput PROVE IInv' /\ cached' # << >>
    OBVIOUS
  <1> DEFINE V == FirstVector(hints)
  <1>1. /\ pc = "main"
        /\ UNCHANGED <<pc, heap, blocks, pvBuf, pvLen, pvCap, data, newCap, hints, host,
                       rc, digest, code>>
    BY DEF ReadInput, pvvars, loop, endvars
  <1>2. /\ hints \in HintStreams /\ V \in Seq(Byte) /\ Len(V) \in Nat
        /\ (V # << >> => hints # << >> /\ V = Head(hints))
        /\ (V # << >> => InputRegionStart + Len(V) <= MaxMemory)
        /\ (V = << >> => Len(V) = 0)
    BY VectorFacts DEF IInv, TypeOK
  <1>3. CASE cached # << >>
    <2>1. UNCHANGED <<mem, stream, inputPtr, cached>>
      BY <1>3 DEF ReadInput
    <2>2. TypeOK' /\ ControlOK' /\ LoopOK' /\ OutputOK' /\ BlocksOK' /\ InputOK'
      BY <1>1, <2>1 DEF IInv, TypeOK, ControlOK, LoopOK, OutputOK, BlocksOK, InputOK
    <2>3. LayoutOK'
      BY <1>1 DEF IInv, LayoutOK, Apart
    <2> QED BY <1>3, <2>1, <2>2, <2>3 DEF IInv
  <1>4. CASE cached = << >>
    <2>1. stream = hints /\ inputPtr = InputRegionStart
      BY <1>4 DEF IInv, InputOK
    <2>2. CASE hints = << >>
      <3>1. cached' = <<<<0, 0>>>> /\ UNCHANGED <<mem, stream, inputPtr>> /\ Len(V) = 0
        BY <1>2, <1>4, <2>1, <2>2 DEF ReadInput
      <3>2. TypeOK' /\ ControlOK' /\ LoopOK' /\ OutputOK' /\ BlocksOK'
        BY <1>1, <3>1 DEF IInv, TypeOK, ControlOK, LoopOK, OutputOK, BlocksOK
      <3>3. LayoutOK'
        BY <1>1 DEF IInv, LayoutOK, Apart
      <3>4. InputOK'
        BY <1>1, <1>2, <2>2, <3>1 DEF InputOK
      <3> QED BY <3>1, <3>2, <3>3, <3>4 DEF IInv
    <2>3. CASE hints # << >>
      <3>1. V = Head(hints) /\ cached' = <<<<InputRegionStart, Len(V)>>>>
            /\ mem' = Store(mem, InputRegionStart, V)
        BY <1>4, <2>1, <2>3 DEF ReadInput, FirstVector
      <3>2. /\ heap <= InputRegionStart /\ heap \in Nat /\ InputRegionStart \in Nat
            /\ MaxMemory \in Nat /\ DOMAIN mem = Memory
            /\ pvBuf \in Nat /\ pvLen \in Nat /\ pvCap \in Nat
        BY HeapBelowInput, RuntimeAssumption DEF IInv, TypeOK
      <3>3. /\ DOMAIN mem' = Memory
            /\ \A a \in Memory : a < InputRegionStart => mem'[a] = mem[a]
            /\ \A i \in 1..Len(V) : mem'[InputRegionStart + i - 1] = V[i]
        <4>1. /\ DOMAIN mem' = DOMAIN mem
              /\ \A a \in DOMAIN mem :
                    a \notin InputRegionStart..(InputRegionStart + Len(V) - 1)
                      => mem'[a] = mem[a]
              /\ \A a \in DOMAIN mem :
                    a \in InputRegionStart..(InputRegionStart + Len(V) - 1)
                      => mem'[a] = V[a - InputRegionStart + 1]
          <5>1. InputRegionStart \in Nat /\ mem' = Store(mem, InputRegionStart, V)
            BY <3>1, <3>2
          <5> HIDE DEF V
          <5>2. Stored(mem', mem, InputRegionStart, V)
            BY <5>1, StoreFacts
          <5> QED BY <5>2 DEF Stored
        <4>2. \A a \in Memory : a < InputRegionStart
                => a \notin InputRegionStart..(InputRegionStart + Len(V) - 1)
          BY <3>2 DEF Memory
        <4>3. \A i \in 1..Len(V) :
                /\ InputRegionStart + i - 1 \in Memory
                /\ InputRegionStart + i - 1
                     \in InputRegionStart..(InputRegionStart + Len(V) - 1)
                /\ (InputRegionStart + i - 1) - InputRegionStart + 1 = i
          BY <1>2, <3>2 DEF Memory
        <4> QED BY <3>2, <4>1, <4>2, <4>3
      <3>4. \A a \in Int : 0 <= a /\ a < heap => a \in Memory /\ a < InputRegionStart
        BY <3>2, RuntimeAssumption DEF Memory
      <3>5. OutputOK'
        <4>1. pvBuf + pvCap <= heap /\ pvLen <= pvCap
          BY DEF IInv, LayoutOK
        <4>2. \A i \in 1..pvLen : 0 <= pvBuf + i - 1 /\ pvBuf + i - 1 < heap
          BY <3>2, <4>1
        <4>3. \A i \in 1..pvLen : mem'[pvBuf + i - 1] = mem[pvBuf + i - 1]
          BY <3>2, <3>3, <3>4, <4>2
        <4> QED BY <1>1, <4>3 DEF IInv, OutputOK
      <3>6. BlocksOK'
        <4>1. \A b \in blocks : b[1] \in Nat /\ Len(b[2]) \in Nat /\ b[1] + Len(b[2]) <= heap
          BY DEF IInv, LayoutOK, Apart
        <4>2. \A b \in blocks : \A i \in 1..Len(b[2]) :
                0 <= b[1] + i - 1 /\ b[1] + i - 1 < heap
          BY <3>2, <4>1
        <4>3. \A b \in blocks : \A i \in 1..Len(b[2]) :
                mem'[b[1] + i - 1] = mem[b[1] + i - 1]
          BY <3>2, <3>3, <3>4, <4>1, <4>2
        <4> QED BY <1>1, <4>3 DEF IInv, BlocksOK
      <3>7. TypeOK' /\ ControlOK' /\ LoopOK'
        BY <1>1, <3>3 DEF IInv, TypeOK, ControlOK, LoopOK
      <3>8. LayoutOK'
        BY <1>1 DEF IInv, LayoutOK, Apart
      <3>9. InputOK'
        BY <1>1, <3>1, <3>3 DEF InputOK
      <3> QED BY <3>1, <3>5, <3>6, <3>7, <3>8, <3>9 DEF IInv
    <2> QED BY <2>2, <2>3
  <1> QED BY <1>3, <1>4

LEMMA WriteOutputInv ==
    ASSUME IInv, NEW bytes \in Chunks, WriteOutput(bytes)
    PROVE  IInv'
  <1>1. /\ pc = "main" /\ Len(host) + Len(bytes) <= MaxOutput /\ host' = host \o bytes
        /\ data' = bytes /\ newCap' = pvCap /\ pc' = "append"
        /\ UNCHANGED <<mem, heap, blocks, pvBuf, pvLen, pvCap, hints, stream, inputPtr,
                       cached, rc, digest, code>>
    BY DEF WriteOutput, pvvars, invars, endvars
  <1>2. bytes \in Seq(Byte) /\ host \in Seq(Byte) /\ data = << >>
    BY <1>1, RuntimeAssumption DEF Byte, IInv, TypeOK, ControlOK
  <1>3. /\ host' \in Seq(Byte) /\ Len(host') = Len(host) + Len(bytes)
        /\ \A i \in 1..(Len(host) + Len(bytes)) :
              host'[i] = IF i <= Len(host) THEN host[i] ELSE bytes[i - Len(host)]
    BY <1>1, <1>2, ConcatProperties
  <1>4. Len(host) = pvLen /\ pvLen \in Nat /\ Len(bytes) \in Nat
    BY <1>2 DEF IInv, OutputOK, TypeOK
  <1>5. TypeOK'
    BY <1>1, <1>2, <1>3 DEF IInv, TypeOK
  <1>6. ControlOK'
    BY <1>1 DEF IInv, ControlOK
  <1>7. LayoutOK'
    BY <1>1 DEF IInv, LayoutOK, Apart
  <1>8. LoopOK'
    BY <1>1 DEF LoopOK
  <1>10. BlocksOK' /\ InputOK'
    BY <1>1 DEF IInv, BlocksOK, InputOK
  <1>9. OutputOK'
    <2>1. \A i \in 1..pvLen : host'[i] = host[i]
      BY <1>3, <1>4
    <2>2. \A j \in 1..Len(bytes) : host'[pvLen + j] = bytes[j]
      <3> TAKE j \in 1..Len(bytes)
      <3> DEFINE k == pvLen + j
      <3>1. k \in 1..(Len(host) + Len(bytes)) /\ ~ (k <= Len(host)) /\ k - Len(host) = j
        BY <1>4
      <3> HIDE DEF k
      <3>2. host'[k] = bytes[j]
        BY <1>3, <3>1
      <3> QED BY <3>2 DEF k
    <2> QED BY <1>1, <1>3, <1>4, <2>1, <2>2 DEF IInv, OutputOK
  <1> QED BY <1>5, <1>6, <1>7, <1>8, <1>9, <1>10 DEF IInv

LEMMA DoubleCapacityInv == IInv /\ DoubleCapacity => IInv'
  <1> SUFFICES ASSUME IInv, DoubleCapacity PROVE IInv'
    OBVIOUS
  <1>1. /\ pc = "append" /\ newCap < pvLen + Len(data) /\ newCap' = 2 * newCap
        /\ UNCHANGED <<pc, mem, heap, blocks, pvBuf, pvLen, pvCap, data, hints, stream,
                       inputPtr, cached, host, rc, digest, code>>
    BY DEF DoubleCapacity, pvvars, invars, endvars
  <1>2. newCap \in Nat /\ pvCap \in Nat /\ Len(host) \in Nat /\ newCap < Len(host)
    BY <1>1 DEF IInv, TypeOK, OutputOK
  <1>3. newCap = pvCap \/ newCap >= 2 * pvCap
    BY <1>1 DEF IInv, LoopOK
  <1>4. newCap' >= 2 * pvCap /\ newCap' < 2 * Len(host) /\ Len(host) > pvCap
    BY <1>1, <1>2, <1>3
  <1>5. LoopOK'
    BY <1>1, <1>4 DEF LoopOK
  <1>6. TypeOK'
    BY <1>1, <1>2 DEF IInv, TypeOK
  <1>7. ControlOK' /\ OutputOK' /\ BlocksOK' /\ InputOK'
    BY <1>1 DEF IInv, ControlOK, OutputOK, BlocksOK, InputOK
  <1>8. LayoutOK'
    BY <1>1 DEF IInv, LayoutOK, Apart
  <1> QED BY <1>5, <1>6, <1>7, <1>8 DEF IInv

\* The area that is written is free, whether it is the room left in the buffer
\* or a new buffer on top of the heap.
LEMMA AppendInMemory ==
    ASSUME IInv, pc = "append", newCap >= pvLen + Len(data),
           NEW base \in Nat, NEW area \in Nat,
           \/ base = pvBuf /\ area = pvCap /\ pvLen + Len(data) <= pvCap
           \/ base = heap /\ area = newCap /\ pvLen + Len(data) > pvCap
    PROVE  /\ base + pvLen + Len(data) <= base + area
           /\ base + area <= InputRegionStart
           /\ \A a \in base..(base + area - 1) : a \in Memory
           /\ \A b \in blocks : b[1] + Len(b[2]) <= base \/ base + area <= b[1]
  <1>1. /\ heap \in Nat /\ pvBuf \in Nat /\ pvLen \in Nat /\ pvCap \in Nat
        /\ newCap \in Nat /\ Len(data) \in Nat /\ InputRegionStart \in Nat
        /\ MaxMemory \in Nat /\ InputRegionStart <= MaxMemory
    BY RuntimeAssumption DEF IInv, TypeOK
  <1>2. pvBuf + pvCap <= heap /\ heap <= InputRegionStart
    BY HeapBelowInput DEF IInv, LayoutOK
  <1>3. pvLen + Len(data) > pvCap => heap + newCap <= InputRegionStart
    BY HeapBelowInput
  <1>4. \A b \in blocks : /\ b[1] \in Nat /\ Len(b[2]) \in Nat /\ b[1] + Len(b[2]) <= heap
                          /\ b[1] + Len(b[2]) <= pvBuf \/ pvBuf + pvCap <= b[1]
    BY DEF IInv, LayoutOK, Apart
  <1>5. base + area <= InputRegionStart /\ pvLen + Len(data) <= area
    BY <1>1, <1>2, <1>3
  <1>6. \A a \in base..(base + area - 1) : a \in Memory
    BY <1>1, <1>5 DEF Memory
  <1>7. \A b \in blocks : b[1] + Len(b[2]) <= base \/ base + area <= b[1]
    BY <1>4
  <1> QED BY <1>1, <1>5, <1>6, <1>7

LEMMA PvBufAppendInv == IInv /\ PvBufAppend => IInv'
  <1> SUFFICES ASSUME IInv, PvBufAppend PROVE IInv'
    OBVIOUS
  <1> DEFINE grow == pvLen + Len(data) > pvCap
             base == IF grow THEN heap ELSE pvBuf
             area == IF grow THEN newCap ELSE pvCap
             kept == IF grow THEN Store(mem, heap, Load(mem, pvBuf, pvLen)) ELSE mem
  <1>1. /\ pc = "append" /\ newCap >= pvLen + Len(data) /\ pc' = "main"
        /\ mem' = Store(kept, base + pvLen, data)
        /\ pvBuf' = base /\ heap' = (IF grow THEN heap + newCap ELSE heap)
        /\ pvLen' = pvLen + Len(data) /\ pvCap' = newCap /\ data' = << >> /\ newCap' = 0
        /\ UNCHANGED <<blocks, hints, stream, inputPtr, cached, host, rc, digest, code>>
    BY DEF PvBufAppend, invars, endvars
  <1>2. /\ heap \in Nat /\ pvBuf \in Nat /\ pvLen \in Nat /\ pvCap \in Nat
        /\ newCap \in Nat /\ Len(data) \in Nat /\ Len(host) \in Nat
        /\ DOMAIN mem = Memory /\ HeapLimit \in Nat /\ MaxOutput \in Nat
        /\ InputRegionStart \in Nat /\ MaxMemory \in Nat
        /\ PV_BUF_INITIAL_CAP \in Nat \ {0}
    BY RuntimeAssumption DEF IInv, TypeOK
  <1>3. /\ Len(host) = pvLen + Len(data) /\ Len(host) <= MaxOutput
        /\ \A i \in 1..pvLen : mem[pvBuf + i - 1] = host[i]
        /\ \A j \in 1..Len(data) : host[pvLen + j] = data[j]
    BY DEF IInv, OutputOK
  <1>4. /\ pvLen <= pvCap /\ pvBuf + pvCap <= heap
        /\ heap + PV_BUF_INITIAL_CAP <= HeapLimit + 2 * pvCap
        /\ pvCap = PV_BUF_INITIAL_CAP \/ pvCap < 2 * MaxOutput
        /\ PV_BUF_INITIAL_CAP <= pvCap
    <2>1. PV_BUF_INITIAL_CAP <= pvCap
      BY <1>1 DEF IInv, ControlOK
    <2> QED BY <1>2, <2>1 DEF IInv, LayoutOK
  <1>5. IF grow THEN newCap >= 2 * pvCap /\ newCap < 2 * Len(host) ELSE newCap = pvCap
    BY <1>1, <1>2, <1>3 DEF IInv, LoopOK
  <1>6. /\ base \in Nat /\ area \in Nat
        /\ base + pvLen + Len(data) <= base + area
        /\ base + area <= InputRegionStart
        /\ \A a \in base..(base + area - 1) : a \in Memory
        /\ \A b \in blocks : b[1] + Len(b[2]) <= base \/ base + area <= b[1]
    <2>1. base \in Nat /\ area \in Nat
      BY <1>2
    <2>2. \/ base = pvBuf /\ area = pvCap /\ pvLen + Len(data) <= pvCap
          \/ base = heap /\ area = newCap /\ pvLen + Len(data) > pvCap
      BY <1>2
    <2> HIDE DEF base, area, grow
    <2> QED BY <1>1, <2>1, <2>2, AppendInMemory
  \* The old contents are at base, and nothing else has moved.
  <1>7. /\ DOMAIN kept = Memory
        /\ \A i \in 1..pvLen : kept[base + i - 1] = host[i]
        /\ \A a \in Memory : a < base \/ a >= base + area => kept[a] = mem[a]
    <2>1. CASE grow
      <3> DEFINE old == Load(mem, pvBuf, pvLen)
      <3>1. kept = Store(mem, heap, old) /\ base = heap /\ area = newCap
        BY <2>1
      <3>2. Len(old) = pvLen /\ \A i \in 1..pvLen : old[i] = mem[pvBuf + i - 1]
        BY <1>2 DEF Load
      <3> HIDE DEF old, kept, base, area
      <3>3. /\ DOMAIN kept = DOMAIN mem
            /\ \A a \in DOMAIN mem :
                  a \notin heap..(heap + Len(old) - 1) => kept[a] = mem[a]
            /\ \A a \in DOMAIN mem :
                  a \in heap..(heap + Len(old) - 1) => kept[a] = old[a - heap + 1]
        <4>1. heap \in Nat /\ kept = Store(mem, heap, old)
          BY <1>2, <3>1
        <4>2. Stored(kept, mem, heap, old)
          BY <4>1, StoreFacts
        <4> QED BY <4>2 DEF Stored
      <3>4. ASSUME NEW i \in 1..pvLen
            PROVE  kept[heap + i - 1] = host[i]
        <4> DEFINE a == heap + i - 1
        <4>1. a \in heap..(heap + pvLen - 1) /\ a - heap + 1 = i
              /\ a \in heap..(heap + newCap - 1)
          BY <1>1, <1>2
        <4>2. a \in Memory
          BY <1>6, <3>1, <4>1
        <4> HIDE DEF a
        <4>3. kept[a] = old[i]
          BY <1>2, <3>2, <3>3, <4>1, <4>2
        <4> QED BY <1>3, <3>2, <4>3 DEF a
      <3>5. \A a \in Memory : a < base \/ a >= base + area
                                => a \notin heap..(heap + Len(old) - 1)
        BY <1>1, <1>2, <3>1, <3>2 DEF Memory
      <3> QED BY <1>2, <3>1, <3>3, <3>4, <3>5
    <2>2. CASE ~ grow
      BY <1>2, <1>3, <2>2
    <2> QED BY <2>1, <2>2
  <1> HIDE DEF kept, base, area
  <1>8. /\ DOMAIN mem' = Memory
        /\ \A a \in Memory : a < base \/ a >= base + area => mem'[a] = mem[a]
        /\ \A i \in 1..pvLen : mem'[base + i - 1] = host[i]
        /\ \A j \in 1..Len(data) : mem'[base + pvLen + j - 1] = data[j]
    <2> DEFINE at == base + pvLen
    <2>1. at \in Nat
      BY <1>2, <1>6
    <2> HIDE DEF at
    <2>2. /\ DOMAIN mem' = DOMAIN kept
          /\ \A a \in DOMAIN kept :
                a \notin at..(at + Len(data) - 1) => mem'[a] = kept[a]
          /\ \A a \in DOMAIN kept :
                a \in at..(at + Len(data) - 1) => mem'[a] = data[a - at + 1]
      <3>1. mem' = Store(kept, at, data)
        BY <1>1 DEF at
      <3>2. Stored(mem', kept, at, data)
        BY <2>1, <3>1, StoreFacts
      <3> QED BY <3>2 DEF Stored
    <2>3. \A a \in Memory : a < base \/ a >= base + area => a \notin at..(at + Len(data) - 1)
      BY <1>2, <1>6 DEF at, Memory
    <2>4. ASSUME NEW i \in 1..pvLen
          PROVE  mem'[base + i - 1] = host[i]
      <3> DEFINE a == base + i - 1
      <3>1. a \in base..(base + area - 1) /\ a \notin at..(at + Len(data) - 1)
        BY <1>2, <1>6 DEF at
      <3>2. a \in Memory
        BY <1>6, <3>1
      <3> HIDE DEF a
      <3>3. mem'[a] = kept[a]
        BY <1>7, <2>2, <3>1, <3>2
      <3> QED BY <1>7, <3>3 DEF a
    <2>5. ASSUME NEW j \in 1..Len(data)
          PROVE  mem'[base + pvLen + j - 1] = data[j]
      <3> DEFINE a == base + pvLen + j - 1
      <3>1. /\ a \in base..(base + area - 1) /\ a \in at..(at + Len(data) - 1)
            /\ a - at + 1 = j
        BY <1>2, <1>6 DEF at
      <3>2. a \in Memory
        BY <1>6, <3>1
      <3> HIDE DEF a
      <3>3. mem'[a] = data[j]
        BY <1>7, <2>2, <3>1, <3>2
      <3> QED BY <3>3 DEF a
    <2> QED BY <1>7, <2>2, <2>3, <2>4, <2>5
  <1>9. TypeOK'
    <2>1. heap' \in Nat /\ pvBuf' \in Nat /\ pvLen' \in Nat /\ pvCap' \in Nat
          /\ newCap' \in Nat
      BY <1>1, <1>2, <1>6
    <2> QED BY <1>1, <1>8, <2>1, EmptySeq DEF IInv, TypeOK
  <1>10. ControlOK'
    <2>1. PV_BUF_INITIAL_CAP <= pvCap'
      BY <1>1, <1>2, <1>4, <1>5
    <2> QED BY <1>1, <2>1 DEF IInv, ControlOK
  <1>11. LayoutOK'
    <2>1. pvLen' <= pvCap'
      BY <1>1
    <2>2. base + newCap <= heap' /\ heap <= heap' /\ newCap = area
      BY <1>1, <1>2, <1>4, <1>5 DEF base, area
    <2>3. pvCap' # 0 /\ heap' + PV_BUF_INITIAL_CAP <= HeapLimit + 2 * pvCap'
          /\ (pvCap' = PV_BUF_INITIAL_CAP \/ pvCap' < 2 * MaxOutput)
      BY <1>1, <1>2, <1>3, <1>4, <1>5
    <2>4. ASSUME NEW b \in blocks PROVE Apart(b)'
      <3>1. b[1] \in Nat /\ b[2] \in Seq(Byte) /\ Len(b[2]) \in Nat
            /\ b[1] + Len(b[2]) <= heap
        BY DEF IInv, LayoutOK, Apart
      <3>2. b[1] + Len(b[2]) <= base \/ base + newCap <= b[1]
        BY <1>6, <2>2
      <3>3. b[1] + Len(b[2]) <= heap'
        BY <1>1, <1>2, <2>2, <3>1
      <3> QED BY <1>1, <3>1, <3>2, <3>3 DEF Apart
    <2> QED BY <1>1, <2>1, <2>2, <2>3, <2>4 DEF LayoutOK
  <1>12. LoopOK'
    BY <1>1 DEF LoopOK
  <1>13. OutputOK'
    <2>1. ASSUME NEW i \in 1..pvLen'
          PROVE  mem'[pvBuf' + i - 1] = host'[i]
      <3>1. CASE i <= pvLen
        BY <1>1, <1>2, <1>8, <3>1
      <3>2. CASE i > pvLen
        <4> DEFINE j == i - pvLen
        <4>1. j \in 1..Len(data) /\ base + pvLen + j - 1 = base + i - 1 /\ pvLen + j = i
          BY <1>1, <1>2, <1>6, <3>2
        <4> HIDE DEF j
        <4>2. mem'[base + i - 1] = data[j]
          BY <1>8, <4>1
        <4>3. host[i] = data[j]
          BY <1>3, <4>1
        <4> QED BY <1>1, <4>2, <4>3
      <3> QED BY <1>1, <1>2, <3>1, <3>2
    <2>2. Len(data') = 0
      BY <1>1
    <2>3. Len(host') = pvLen' + Len(data') /\ Len(host') <= MaxOutput
      BY <1>1, <1>2, <1>3, <2>2
    <2> QED BY <2>1, <2>2, <2>3 DEF OutputOK
  <1>14. BlocksOK'
    <2>1. ASSUME NEW b \in blocks, NEW i \in 1..Len(b[2])
          PROVE  mem'[b[1] + i - 1] = b[2][i]
      <3> DEFINE a == b[1] + i - 1
      <3>1. b[1] \in Nat /\ Len(b[2]) \in Nat /\ b[1] + Len(b[2]) <= heap
            /\ heap <= InputRegionStart /\ InputRegionStart <= MaxMemory
        BY HeapBelowInput, RuntimeAssumption DEF IInv, LayoutOK, Apart
      <3>2. a \in Memory /\ (a < base \/ a >= base + area)
        <4>1. /\ base \in Nat /\ area \in Nat /\ MaxMemory \in Nat
              /\ heap \in Nat /\ InputRegionStart \in Nat
              /\ b[1] + Len(b[2]) <= base \/ base + area <= b[1]
          BY <1>2, <1>6
        <4> HIDE DEF base, area
        <4> QED BY <3>1, <4>1 DEF Memory
      <3>3. mem[a] = b[2][i]
        BY DEF IInv, BlocksOK
      <3>4. mem'[a] = b[2][i]
        <4> HIDE DEF a
        <4> QED BY <1>8, <3>2, <3>3
      <3> QED BY <3>4
    <2> QED BY <1>1, <2>1 DEF BlocksOK
  <1>15. InputOK'
    <2>1. ASSUME NEW i \in 1..Len(FirstVector(hints))
          PROVE  mem'[InputRegionStart + i - 1] = mem[InputRegionStart + i - 1]
      <3> DEFINE a == InputRegionStart + i - 1
      <3>1. Len(FirstVector(hints)) \in Nat
            /\ (Len(FirstVector(hints)) > 0
                  => InputRegionStart + Len(FirstVector(hints)) <= MaxMemory)
        BY VectorFacts DEF IInv, TypeOK
      <3>2. a \in Memory /\ a >= base + area
        BY <1>2, <1>6, <3>1 DEF Memory
      <3> HIDE DEF a
      <3>3. mem'[a] = mem[a]
        BY <1>8, <3>2
      <3> QED BY <3>3 DEF a
    <2> QED BY <1>1, <2>1 DEF IInv, InputOK
  <1> QED BY <1>9, <1>10, <1>11, <1>12, <1>13, <1>14, <1>15 DEF IInv

\* The steps that touch no memory.
LEMMA EndInv ==
    ASSUME IInv, pc' \in {"halting", "halted"}, pc \notin {"append", "entry"},
           UNCHANGED <<mem, heap, blocks, pvBuf, pvLen, pvCap, data, newCap, hints, stream,
                       inputPtr, cached, host>>
    PROVE  TypeOK' /\ LayoutOK' /\ LoopOK' /\ OutputOK' /\ BlocksOK' /\ InputOK'
  <1>1. TypeOK' /\ LoopOK'
    BY DEF IInv, TypeOK, LoopOK
  <1>2. LayoutOK'
    BY DEF IInv, LayoutOK, Apart
  <1>3. OutputOK' /\ BlocksOK' /\ InputOK'
    BY DEF IInv, OutputOK, BlocksOK, InputOK
  <1> QED BY <1>1, <1>2, <1>3

\* What the buffer holds is what the host has.
LEMMA BufferIsHost ==
    ASSUME IInv, pc # "append"
    PROVE  Load(mem, pvBuf, pvLen) = host
  <1>1. data = << >> /\ Len(data) = 0
    BY DEF IInv, ControlOK
  <1>2. /\ host \in Seq(Byte) /\ Len(host) = pvLen
        /\ \A i \in 1..pvLen : mem[pvBuf + i - 1] = host[i]
    BY <1>1 DEF IInv, TypeOK, OutputOK
  <1>3. host = [i \in 1..pvLen |-> host[i]]
    BY <1>2, LenProperties
  <1> QED BY <1>2, <1>3 DEF Load

LEMMA MainReturnsInv ==
    ASSUME IInv, NEW r \in ReturnCodes, MainReturns(r)
    PROVE  IInv'
  <1>1. /\ pc = "main" /\ pc' = "halting" /\ rc' = <<r>>
        /\ UNCHANGED <<mem, heap, blocks, pvBuf, pvLen, pvCap, data, newCap, hints, stream,
                       inputPtr, cached, host, digest, code>>
    BY DEF MainReturns, pvvars, loop, invars
  <1>2. ControlOK'
    BY <1>1 DEF IInv, ControlOK
  <1> QED BY <1>1, <1>2, EndInv DEF IInv

LEMMA HaltInv == IInv /\ (HaltAfterMain \/ Panic) => IInv'
  <1> SUFFICES ASSUME IInv, HaltAfterMain \/ Panic PROVE IInv'
    OBVIOUS
  <1>1. /\ pc \in {"constructors", "main", "halting"} /\ pc' = "halted"
        /\ code' # << >> /\ digest' = <<Load(mem, pvBuf, pvLen)>>
        /\ UNCHANGED <<mem, heap, blocks, pvBuf, pvLen, pvCap, data, newCap, hints, stream,
                       inputPtr, cached, host, rc>>
    <2>1. \A c : Halt(c) => pc' = "halted" /\ code' # << >>
                             /\ digest' = <<Load(mem, pvBuf, pvLen)>>
      BY DEF Halt
    <2>2. HaltAfterMain => pc = "halting" /\ Halt(rc[1])
      BY DEF HaltAfterMain
    <2>3. Panic => pc \in {"constructors", "main"} /\ Halt(1)
      BY DEF Panic
    <2>4. UNCHANGED <<mem, heap, blocks, pvBuf, pvLen, pvCap, data, newCap, hints, stream,
                     inputPtr, cached, host, rc>>
      BY DEF HaltAfterMain, Panic, pvvars, loop, invars
    <2> QED BY <2>1, <2>2, <2>3, <2>4
  <1>2. digest' = <<host'>>
    BY <1>1, BufferIsHost
  <1>3. ControlOK'
    BY <1>1, <1>2 DEF IInv, ControlOK
  <1> QED BY <1>1, <1>3, EndInv DEF IInv

LEMMA StepInv == IInv /\ [Next]_vars => IInv'
  <1> SUFFICES ASSUME IInv, [Next]_vars PROVE IInv'
    OBVIOUS
  <1>1. CASE UNCHANGED vars \/ Terminated
    <2>1. UNCHANGED vars
      BY <1>1 DEF Terminated
    <2>2. TypeOK' /\ ControlOK' /\ LoopOK' /\ OutputOK' /\ BlocksOK' /\ InputOK'
      BY <2>1 DEF vars, IInv, TypeOK, ControlOK, LoopOK, OutputOK, BlocksOK, InputOK
    <2>3. LayoutOK'
      BY <2>1 DEF vars, IInv, LayoutOK, Apart
    <2> QED BY <2>2, <2>3 DEF IInv
  <1> QED BY <1>1, SetHeapInv, InitPublicValuesInv, ReadInputInv, DoubleCapacityInv,
          PvBufAppendInv, HaltInv, AllocateInv, WriteOutputInv, MainReturnsInv DEF Next

LEMMA Invariant == Spec => []IInv
  BY InitIInv, StepInv, PTL DEF Spec

\* Growing the public-values buffer and reading the hint stream spare the heap,
\* and the buffer always holds what the host got.
THEOREM Sp1MemoryIntact == Spec => []MemoryIntact
  <1>1. ASSUME IInv PROVE MemoryIntact
    <2>1. ASSUME NEW b \in blocks PROVE Holds(mem, b)
      <3>1. b[2] \in Seq(Byte) /\ \A i \in 1..Len(b[2]) : mem[b[1] + i - 1] = b[2][i]
        BY <1>1 DEF IInv, LayoutOK, Apart, BlocksOK
      <3>2. b[2] = [i \in 1..Len(b[2]) |-> b[2][i]]
        BY <3>1, LenProperties
      <3> QED BY <3>1, <3>2 DEF Holds, Load
    <2> QED BY <1>1, <2>1, BufferIsHost DEF MemoryIntact
  <1> QED BY <1>1, Invariant, PTL

-----------------------------------------------------------------------------
\* What read_input shows the program: the first vector or, before the first
\* call, nothing.
LEMMA View ==
    ASSUME IInv
    PROVE  InputBytes = IF cached # << >> THEN <<FirstVector(hints)>> ELSE << >>
  <1> DEFINE V == FirstVector(hints)
  <1>1. CASE cached # << >>
    <2>1. /\ cached = <<<<cached[1][1], Len(V)>>>>
          /\ V # << >> => cached[1][1] = InputRegionStart
          /\ \A i \in 1..Len(V) : mem[InputRegionStart + i - 1] = V[i]
      BY <1>1 DEF IInv, InputOK
    <2>2. V \in Seq(Byte) /\ (V = << >> => Len(V) = 0)
      BY VectorFacts DEF IInv, TypeOK
    <2>3. V = [i \in 1..Len(V) |-> V[i]]
      BY <2>2, LenProperties
    <2>4. cached[1][2] = Len(V)
      BY <2>1
    <2> HIDE DEF V
    <2>5. Load(mem, cached[1][1], Len(V)) = V
      <3>1. CASE V # << >>
        BY <2>1, <2>3, <3>1 DEF Load
      <3>2. CASE V = << >>
        BY <2>2, <2>3, <3>2 DEF Load
      <3> QED BY <3>1, <3>2
    <2> QED BY <1>1, <2>4, <2>5 DEF InputBytes, V
  <1>2. CASE cached = << >>
    BY <1>2 DEF InputBytes
  <1> QED BY <1>1, <1>2

\* A step that neither reads nor moves what was read.
LEMMA SameView ==
    ASSUME IInv, IInv', UNCHANGED <<hints, cached>>
    PROVE  InputBytes' = InputBytes
  <1>1. CASE cached = << >>
    BY <1>1 DEF InputBytes
  <1>2. CASE cached # << >>
    <2> DEFINE V == FirstVector(hints)
    <2>1. /\ cached = <<<<cached[1][1], Len(V)>>>>
          /\ V # << >> => cached[1][1] = InputRegionStart
          /\ \A i \in 1..Len(V) : mem[InputRegionStart + i - 1] = V[i]
          /\ \A i \in 1..Len(V) : mem'[InputRegionStart + i - 1] = V[i]
      BY <1>2 DEF IInv, InputOK
    <2>2. cached[1][2] = Len(V) /\ (V = << >> => Len(V) = 0)
      BY <2>1
    <2> HIDE DEF V
    <2>3. Load(mem', cached[1][1], Len(V)) = Load(mem, cached[1][1], Len(V))
      <3>1. CASE V # << >>
        BY <2>1, <3>1 DEF Load
      <3>2. CASE V = << >>
        BY <2>2, <3>2 DEF Load
      <3> QED BY <3>1, <3>2
    <2> QED BY <1>2, <2>2, <2>3 DEF InputBytes
  <1> QED BY <1>1, <1>2

LEMMA ReadsInput == IInv /\ IInv' /\ ReadInput => Io!ReadInput
  <1> SUFFICES ASSUME IInv, IInv', ReadInput PROVE Io!ReadInput
    OBVIOUS
  <1>1. /\ rc = << >> /\ code = << >>
        /\ UNCHANGED <<hints, host, rc, digest, code>>
    BY DEF ReadInput, pvvars, loop, endvars, IInv, ControlOK
  <1>2. cached' # << >>
    BY ReadInputInv
  <1>3. InputBytes' = <<FirstVector(hints)>>
    <2>1. CASE cached # << >>
      <3>1. UNCHANGED cached
        BY <2>1 DEF ReadInput
      <3> QED BY <1>1, <2>1, <3>1, SameView, View
    <2>2. CASE cached = << >>
      <3> DEFINE V == FirstVector(hints)
      <3>1. /\ cached' = <<<<cached'[1][1], Len(V)>>>>
            /\ V # << >> => cached'[1][1] = InputRegionStart
            /\ \A i \in 1..Len(V) : mem'[InputRegionStart + i - 1] = V[i]
        BY <1>1, <1>2 DEF IInv, InputOK
      <3>2. V \in Seq(Byte) /\ (V = << >> => Len(V) = 0)
        BY VectorFacts DEF IInv, TypeOK
      <3>3. V = [i \in 1..Len(V) |-> V[i]]
        BY <3>2, LenProperties
      <3>4. cached'[1][2] = Len(V)
        BY <3>1
      <3> HIDE DEF V
      <3>5. Load(mem', cached'[1][1], Len(V)) = V
        <4>1. CASE V # << >>
          BY <3>1, <3>3, <4>1 DEF Load
        <4>2. CASE V = << >>
          BY <3>2, <3>3, <4>2 DEF Load
        <4> QED BY <4>1, <4>2
      <3> QED BY <1>2, <3>4, <3>5 DEF InputBytes, V
    <2> QED BY <2>1, <2>2
  <1> QED BY <1>1, <1>3 DEF Io!ReadInput, Io!Running

LEMMA PrefixOfConcat ==
    ASSUME NEW s \in Seq(Byte), NEW t \in Seq(Byte)
    PROVE  Io!IsPrefix(s, s \o t)
  <1> DEFINE u == s \o t
             m == Len(s)
  <1>1. m \in Nat /\ Len(t) \in Nat /\ Len(u) = m + Len(t)
        /\ \A i \in 1..m : u[i] = s[i]
    BY ConcatProperties
  <1>2. SubSeq(s, 1, m) = [i \in 1..(m - 1 + 1) |-> s[1 + i - 1]]
        /\ SubSeq(u, 1, m) = [i \in 1..(m - 1 + 1) |-> u[1 + i - 1]]
    OBVIOUS
  <1> HIDE DEF u
  <1> QED BY <1>1, <1>2 DEF Io!IsPrefix, u

LEMMA WritesOutput ==
    ASSUME IInv, IInv', NEW bytes \in Chunks, WriteOutput(bytes)
    PROVE  Io!WriteOutput
  <1>1. /\ host' = host \o bytes /\ rc = << >> /\ code = << >>
        /\ UNCHANGED <<hints, cached, rc, digest, code>>
    BY DEF WriteOutput, invars, endvars, IInv, ControlOK
  <1>2. host \in Seq(Byte) /\ bytes \in Seq(Byte)
    BY RuntimeAssumption DEF Byte, IInv, TypeOK
  <1>3. Io!IsPrefix(host, host')
    BY <1>1, <1>2, PrefixOfConcat
  <1>4. InputBytes' = InputBytes
    BY <1>1, SameView
  <1> QED BY <1>1, <1>3, <1>4 DEF Io!WriteOutput, Io!Running

LEMMA Returns ==
    ASSUME IInv, IInv', NEW r \in ReturnCodes, MainReturns(r)
    PROVE  Io!Return
  <1>1. /\ rc' = <<r>> /\ rc = << >> /\ code = << >>
        /\ UNCHANGED <<hints, cached, host, digest, code>>
    BY DEF MainReturns, invars, IInv, ControlOK
  <1>2. InputBytes' = InputBytes
    BY <1>1, SameView
  <1> QED BY <1>1, <1>2 DEF Io!Return, Io!Running

\* The committed digest is that of what the host has.
LEMMA Commits ==
    ASSUME IInv, IInv', pc' = "halted", pc # "halted", UNCHANGED <<hints, cached, host, rc>>
    PROVE  /\ Io!Publishes(digest'[1], host)
           /\ digest' # << >> /\ code = << >> /\ InputBytes' = InputBytes
  <1>1. digest' = <<host>> /\ host \in Seq(Byte) /\ code = << >>
    BY DEF IInv, ControlOK, TypeOK
  <1>2. \A i \in 1..Len(host) : host[i] = IF i <= Len(host) THEN host[i] ELSE 0
    BY <1>1
  <1>3. Io!Publishes(host, host)
    <2>1. Len(host) \in Nat
      BY <1>1
    <2> QED BY <1>2, <2>1 DEF Io!Publishes
  <1> QED BY <1>1, <1>3, SameView

LEMMA Finishes ==
    ASSUME \A r \in ReturnCodes : r % 256 = 0 => r = 0,
           IInv, IInv', HaltAfterMain
    PROVE  Io!Finish
  <1>1. /\ pc = "halting" /\ pc' = "halted" /\ code' = <<rc[1] % 256>>
        /\ UNCHANGED <<hints, cached, host, rc>>
    BY DEF HaltAfterMain, Halt, invars
  <1>2. rc # << >> /\ rc[1] \in ReturnCodes
    BY <1>1 DEF IInv, ControlOK
  <1>3. code'[1] = 0 <=> rc[1] = 0
    <2>1. rc[1] \in Int /\ (rc[1] % 256 = 0 => rc[1] = 0)
      BY <1>2, RuntimeAssumption
    <2>2. code'[1] = rc[1] % 256
      BY <1>1
    <2> QED BY <2>1, <2>2
  <1>4. Io!Publishes(digest'[1], host) /\ digest' # << >> /\ code = << >>
        /\ InputBytes' = InputBytes
    BY <1>1, Commits
  <1> QED BY <1>1, <1>2, <1>3, <1>4 DEF Io!Finish

LEMMA Panics == IInv /\ IInv' /\ Panic => Io!Panic
  <1> SUFFICES ASSUME IInv, IInv', Panic PROVE Io!Panic
    OBVIOUS
  <1>1. /\ pc \in {"constructors", "main"} /\ pc' = "halted" /\ code' = <<1>>
        /\ UNCHANGED <<hints, cached, host, rc>> /\ rc = << >>
    BY DEF Panic, Halt, invars, IInv, ControlOK
  <1>2. Io!Publishes(digest'[1], host) /\ digest' # << >> /\ code = << >>
        /\ InputBytes' = InputBytes
    BY <1>1, Commits
  <1> QED BY <1>1, <1>2 DEF Io!Panic, Io!Running

\* read_input returns the first vector of the hint stream, the committed digest
\* is that of the whole output and the exit code says whether main succeeded,
\* as long as no failure is a multiple of 256.
THEOREM Sp1MeetsIo ==
    ASSUME \A r \in ReturnCodes : r % 256 = 0 => r = 0
    PROVE  Spec => Implements
  <1>1. Init => Io!Init
    <2> SUFFICES ASSUME Init PROVE Io!Init
      OBVIOUS
    <2>1. /\ hints \in HintStreams /\ InputBytes = << >> /\ host = << >> /\ rc = << >>
          /\ code = << >> /\ digest = << >>
      BY DEF Init, InputBytes
    <2> QED BY <2>1 DEF Io!Init, IsFirstVector
  <1>2. IInv /\ IInv' /\ [Next]_vars => [Io!Next]_(Io!zvars)
    <2> SUFFICES ASSUME IInv, IInv', [Next]_vars PROVE [Io!Next]_(Io!zvars)
      OBVIOUS
    <2>1. CASE \/ SetHeap \/ InitPublicValues \/ DoubleCapacity \/ PvBufAppend
               \/ (\E b \in Blocks : Allocate(b)) \/ Terminated \/ UNCHANGED vars
      <3>1. UNCHANGED <<hints, cached, host, rc, digest, code>>
        BY <2>1 DEF SetHeap, InitPublicValues, DoubleCapacity, PvBufAppend, Allocate,
                    Terminated, vars, invars, endvars
      <3>2. InputBytes' = InputBytes
        BY <3>1, SameView
      <3> QED BY <3>1, <3>2 DEF Io!zvars
    <2> QED BY <2>1, ReadsInput, WritesOutput, Returns, Finishes, Panics DEF Next, Io!Next
  <1> QED BY <1>1, <1>2, Invariant, PTL DEF Spec, Implements, Io!Spec
=============================================================================
