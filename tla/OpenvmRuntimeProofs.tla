--------------------------- MODULE OpenvmRuntimeProofs ---------------------------
(***************************************************************************)
(* The OpenVM runtime meets the io-interface for every program, input,     *)
(* placement of the heap and chunk size, as long as the program writes no  *)
(* more than the output buffer holds.  The invariant follows the payload   *)
(* from the hint stream into its block and the output from the buffer to   *)
(* the public values.                                                      *)
(***************************************************************************)
EXTENDS OpenvmRuntime, SequenceTheorems, TLAPS

Byte == 0..255
Memory == 0..(MaxMemory - 1)

\* The hint stream of input i, and where the block it is read into starts.
Payload(i) == i \o Zeros(AlignUp(Len(i), 4) - Len(i))
Block == buffer[1][1]

TypeOK ==
    /\ pc \in {"entry", "main", "hints", "flush", "halted"}
    /\ DOMAIN mem = Memory
    /\ heap \in Nat
    /\ input \in Inputs
    /\ cached \in BOOLEAN
    /\ written \in Seq(Byte) /\ out \in Seq(Byte)
    /\ word \in Nat

\* Nothing is returned, exited or revealed too early.
ControlOK ==
    /\ pc \in {"entry", "main", "hints"} => rc = << >> /\ code = << >> /\ word = 0
    /\ pc = "flush" => (\E r \in Int : rc = <<r>>) /\ code = << >>
    /\ pc = "halted" => code # << >>
    /\ pc \in {"entry", "hints"} => ~ cached
    /\ pc = "main" /\ ~ cached => heap <= HeapLimit

\* What has been read is in the block, what has not still fits in it.
HintsOK ==
    pc = "hints" =>
        /\ hint \in Seq(Byte) /\ words \in Nat /\ ptr \in Nat /\ Block \in Nat
        /\ buffer = <<<<Block, Len(input)>>>>
        /\ Len(hint) = 4 * words /\ ptr + 4 * words = heap
        /\ Block <= ptr /\ heap = Block + AlignUp(Len(input), 4) /\ heap <= MaxMemory
        /\ \A a \in Block..(ptr - 1) : mem[a] = Payload(input)[a - Block + 1]
        /\ \A j \in 1..Len(hint) : hint[j] = Payload(input)[ptr - Block + j]

InputOK ==
    cached =>
        /\ Block \in Nat /\ buffer = <<<<Block, Len(input)>>>>
        /\ Block + Len(input) <= heap
        /\ Load(mem, Block, Len(input)) = input

OutputOK ==
    /\ Len(out) <= OutputCap
    /\ MaxOutput <= OutputCap => out = written
    /\ 4 * word < Len(out) + 4
    /\ revealed = [i \in 1..PublicBytes |->
                      IF i <= 4 * word /\ i <= Len(out) THEN out[i] ELSE 0]
    /\ pc = "halted" /\ rc # << >> => Len(out) <= 4 * word

IInv == TypeOK /\ ControlOK /\ HintsOK /\ InputOK /\ OutputOK

-----------------------------------------------------------------------------
LEMMA AlignUpFacts ==
    ASSUME NEW x \in Nat
    PROVE  /\ AlignUp(x, 4) \in Nat /\ x <= AlignUp(x, 4) /\ AlignUp(x, 4) <= x + 3
           /\ AlignUp(x, 4) = 4 * (AlignUp(x, 4) \div 4) /\ AlignUp(x, 4) \div 4 \in Nat
  BY DEF AlignUp

LEMMA ZerosFacts ==
    ASSUME NEW n \in Nat
    PROVE  Zeros(n) \in Seq(Byte) /\ Len(Zeros(n)) = n
  <1>1. Zeros(n) \in [1..n -> Byte] /\ DOMAIN Zeros(n) = 1..n
    BY DEF Zeros, Byte
  <1>2. Zeros(n) \in Seq(Byte)
    BY <1>1, SeqDef
  <1>3. Len(Zeros(n)) \in Nat /\ 1..Len(Zeros(n)) = 1..n
    BY <1>1, <1>2, LenProperties
  <1> QED BY <1>2, <1>3

LEMMA PayloadFacts ==
    ASSUME NEW i \in Inputs
    PROVE  /\ i \in Seq(Byte) /\ Len(i) \in Nat
           /\ Payload(i) \in Seq(Byte) /\ Len(Payload(i)) = AlignUp(Len(i), 4)
           /\ \A j \in 1..Len(i) : Payload(i)[j] = i[j]
  <1>1. i \in Seq(Byte) /\ Len(i) \in Nat
    BY RuntimeAssumption DEF Byte
  <1>2. AlignUp(Len(i), 4) - Len(i) \in Nat
    <2>1. AlignUp(Len(i), 4) \in Nat /\ Len(i) <= AlignUp(Len(i), 4)
      BY <1>1, AlignUpFacts
    <2> QED BY <1>1, <2>1
  <1>3. /\ Zeros(AlignUp(Len(i), 4) - Len(i)) \in Seq(Byte)
        /\ Len(Zeros(AlignUp(Len(i), 4) - Len(i))) = AlignUp(Len(i), 4) - Len(i)
    BY <1>2, ZerosFacts
  <1>4. AlignUp(Len(i), 4) \in Nat
    BY <1>1, AlignUpFacts
  <1> HIDE DEF Byte
  <1>5. /\ Payload(i) \in Seq(Byte)
        /\ Len(Payload(i)) = Len(i) + (AlignUp(Len(i), 4) - Len(i))
        /\ \A j \in 1..(Len(i) + (AlignUp(Len(i), 4) - Len(i))) :
              j <= Len(i) => Payload(i)[j] = i[j]
    BY <1>1, <1>3, ConcatProperties DEF Payload
  <1> QED BY <1>1, <1>2, <1>4, <1>5

\* A store above a block leaves what can be loaded from the block.
LEMMA LoadBelow ==
    ASSUME NEW m, DOMAIN m \subseteq Int, NEW at \in Int, NEW bytes \in Seq(Byte),
           NEW b \in Int, NEW k \in Nat, b + k <= at,
           \A a \in b..(b + k - 1) : a \in DOMAIN m
    PROVE  Load(Store(m, at, bytes), b, k) = Load(m, b, k)
  <1>1. \A i \in 1..k : b + i - 1 \in DOMAIN m /\ b + i - 1 < at
    OBVIOUS
  <1>2. \A i \in 1..k : Store(m, at, bytes)[b + i - 1] = m[b + i - 1]
    BY <1>1 DEF Store
  <1> QED BY <1>2 DEF Load

-----------------------------------------------------------------------------
LEMMA InitIInv == Init => IInv
  <1> SUFFICES ASSUME Init PROVE IInv
    OBVIOUS
  <1>1. TypeOK
    <2>1. << >> \in Seq(Byte)
      BY EmptySeq
    <2>2. DOMAIN mem = Memory /\ heap = 0 /\ input \in Inputs /\ cached = FALSE
          /\ word = 0 /\ pc = "entry" /\ written = << >> /\ out = << >>
      BY DEF Init, Memory
    <2> QED BY <2>1, <2>2 DEF TypeOK
  <1>2. ControlOK /\ HintsOK /\ InputOK
    BY DEF Init, ControlOK, HintsOK, InputOK
  <1>3. OutputOK
    <2>1. out = << >> /\ written = << >> /\ word = 0 /\ revealed = Zeros(PublicBytes)
          /\ pc = "entry" /\ Len(out) = 0
      BY DEF Init
    <2>2. \A i \in 1..PublicBytes : ~ (i <= 4 * word)
      BY <2>1, RuntimeAssumption
    <2>3. revealed = [i \in 1..PublicBytes |->
                        IF i <= 4 * word /\ i <= Len(out) THEN out[i] ELSE 0]
      BY <2>1, <2>2 DEF Zeros
    <2> QED BY <2>1, <2>3, RuntimeAssumption DEF OutputOK
  <1> QED BY <1>1, <1>2, <1>3 DEF IInv
LEMMA StartInv == IInv /\ Start => IInv'
  <1> SUFFICES ASSUME IInv, Start PROVE IInv'
    OBVIOUS
  <1>1. /\ pc = "entry" /\ pc' = "main" /\ heap' = AlignUp(HeapStart, 4)
        /\ UNCHANGED <<mem, input, hint, buffer, ptr, words, cached, written, out,
                       word, revealed, rc, code>>
    BY DEF Start, readvars, outvars, endvars
  <1>2. heap' \in Nat /\ heap' <= HeapLimit
    BY <1>1, AlignUpFacts, RuntimeAssumption
  <1>3. TypeOK'
    BY <1>1, <1>2 DEF IInv, TypeOK
  <1>4. ControlOK' /\ ~ cached'
    BY <1>1, <1>2 DEF IInv, ControlOK
  <1>5. HintsOK' /\ InputOK'
    BY <1>1, <1>4 DEF HintsOK, InputOK
  <1>6. OutputOK'
    BY <1>1 DEF IInv, OutputOK
  <1> QED BY <1>3, <1>4, <1>5, <1>6 DEF IInv

\* What the program keeps lies above the input once that has been read.
LEMMA AllocateInv ==
    ASSUME IInv, NEW bytes \in Blocks, Allocate(bytes)
    PROVE  IInv'
  <1>1. /\ pc = "main" /\ heap + Len(bytes) <= HeapLimit
        /\ heap' = heap + Len(bytes) /\ mem' = Store(mem, heap, bytes)
        /\ UNCHANGED <<pc, input, hint, buffer, ptr, words, cached, written, out,
                       word, revealed, rc, code>>
    BY DEF Allocate, readvars, outvars, endvars
  <1>2. bytes \in Seq(Byte) /\ Len(bytes) \in Nat /\ heap \in Nat /\ MaxMemory \in Nat
    BY RuntimeAssumption DEF Byte, IInv, TypeOK
  <1>3. TypeOK'
    BY <1>1, <1>2 DEF IInv, TypeOK, Store
  <1>4. ControlOK'
    BY <1>1 DEF IInv, ControlOK
  <1>5. HintsOK'
    BY <1>1 DEF HintsOK
  <1>6. ASSUME cached PROVE InputOK'
    <2>1. /\ Block \in Nat /\ buffer = <<<<Block, Len(input)>>>>
          /\ Block + Len(input) <= heap /\ Load(mem, Block, Len(input)) = input
      BY <1>6 DEF IInv, InputOK
    <2>2. Len(input) \in Nat /\ HeapLimit <= MaxMemory /\ HeapLimit \in Nat
      <3>1. input \in Inputs
        BY DEF IInv, TypeOK
      <3>2. Len(input) \in Nat /\ AlignUp(Len(input), 4) \in Nat
        BY <3>1, PayloadFacts, AlignUpFacts
      <3> QED BY <3>1, <3>2, RuntimeAssumption
    <2>3. \A a \in Block..(Block + Len(input) - 1) : a \in DOMAIN mem
      BY <1>1, <1>2, <2>1, <2>2 DEF IInv, TypeOK, Memory
    <2>4. DOMAIN mem \subseteq Int
      BY <1>2 DEF IInv, TypeOK, Memory
    <2>5. Load(mem', Block, Len(input)) = input
      <3>1. heap \in Int /\ Block \in Int /\ Block + Len(input) <= heap
        BY <1>2, <2>1
      <3>2. Load(Store(mem, heap, bytes), Block, Len(input)) = Load(mem, Block, Len(input))
        BY <1>2, <2>2, <2>3, <2>4, <3>1, LoadBelow, SMTT(30)
      <3> QED BY <1>1, <2>1, <3>2
    <2>6. buffer' = buffer /\ input' = input /\ cached' = cached /\ Block' = Block
      BY <1>1 DEF Block
    <2>7. Block + Len(input) <= heap'
      BY <1>1, <1>2, <2>1, <2>2
    <2> QED BY <2>1, <2>5, <2>6, <2>7 DEF InputOK
  <1>7. ~ cached => InputOK'
    BY <1>1 DEF InputOK
  <1>8. OutputOK'
    BY <1>1 DEF IInv, OutputOK
  <1> QED BY <1>3, <1>4, <1>5, <1>6, <1>7, <1>8 DEF IInv, TypeOK

LEMMA ReadLengthInv == IInv /\ ReadLength => IInv'
  <1> SUFFICES ASSUME IInv, ReadLength PROVE IInv'
    OBVIOUS
  <1> DEFINE capacity == AlignUp(Len(input), 4)
  <1>1. /\ pc = "main" /\ ~ cached /\ hint' = Payload(input)
        /\ UNCHANGED <<mem, input, written, out, word, revealed, rc, code>>
    BY DEF ReadLength, Payload, outvars, endvars
  <1>2. input \in Inputs /\ heap \in Nat /\ heap <= HeapLimit
    BY <1>1 DEF IInv, TypeOK, ControlOK
  <1>3. /\ Len(input) \in Nat /\ capacity \in Nat /\ Len(input) <= capacity
        /\ capacity = 4 * (capacity \div 4) /\ capacity \div 4 \in Nat
    BY <1>2, PayloadFacts, AlignUpFacts
  <1>4. hint' \in Seq(Byte) /\ Len(hint') = capacity
    BY <1>1, <1>2, PayloadFacts
  <1>5. CASE Len(input) = 0
    <2>1. buffer' = <<<<0, 0>>>> /\ cached' = TRUE /\ UNCHANGED <<pc, heap, ptr, words>>
      BY <1>5 DEF ReadLength
    <2>2. TypeOK' /\ HintsOK' /\ OutputOK'
      BY <1>1, <2>1 DEF IInv, TypeOK, HintsOK, OutputOK
    <2>5. ControlOK'
      BY <1>1, <2>1 DEF IInv, ControlOK
    <2>3. Load(mem, 0, 0) = << >> /\ input = << >>
      BY <1>2, <1>5, PayloadFacts, EmptySeq DEF Load
    <2>4. InputOK'
      BY <1>1, <1>2, <1>5, <2>1, <2>3 DEF InputOK, Block
    <2> QED BY <2>2, <2>4, <2>5 DEF IInv
  <1>6. CASE Len(input) # 0
    <2>1. /\ buffer' = <<<<heap, Len(input)>>>> /\ heap' = heap + capacity /\ ptr' = heap
          /\ words' = capacity \div 4 /\ pc' = "hints" /\ UNCHANGED cached
      BY <1>6 DEF ReadLength
    <2>2. heap' \in Nat /\ heap' <= MaxMemory
      <3>1. HeapLimit \in Nat /\ MaxMemory \in Nat
        BY RuntimeAssumption
      <3>2. HeapLimit + capacity <= MaxMemory
        BY <1>2, RuntimeAssumption
      <3>3. heap \in Nat /\ heap <= HeapLimit /\ capacity \in Nat /\ heap' = heap + capacity
        BY <1>2, <1>3, <2>1
      <3> HIDE DEF capacity
      <3> QED BY <3>1, <3>2, <3>3
    <2>3. TypeOK' /\ ControlOK' /\ InputOK' /\ OutputOK'
      <3>1. TypeOK'
        BY <1>1, <2>1, <2>2 DEF IInv, TypeOK
      <3>2. ControlOK' /\ InputOK'
        BY <1>1, <2>1 DEF IInv, ControlOK, InputOK
      <3>3. OutputOK'
        BY <1>1, <2>1 DEF IInv, OutputOK
      <3> QED BY <3>1, <3>2, <3>3
    <2>4. Block' = heap /\ ptr' = Block' /\ ptr' \in Nat
      BY <1>2, <2>1 DEF Block
    <2>5. \A a \in Block'..(ptr' - 1) : FALSE
      BY <2>4
    <2>6. \A j \in 1..Len(hint') : hint'[j] = Payload(input')[ptr' - Block' + j]
      BY <1>1, <1>3, <1>4, <2>4
    <2>7. Len(hint') = 4 * words' /\ ptr' + 4 * words' = heap' /\ words' \in Nat
      BY <1>2, <1>3, <1>4, <2>1
    <2>8. heap' = Block' + AlignUp(Len(input'), 4) /\ buffer' = <<<<Block', Len(input')>>>>
      BY <1>1, <2>1, <2>4
    <2>9. HintsOK'
      BY <1>4, <2>2, <2>4, <2>5, <2>6, <2>7, <2>8 DEF HintsOK
    <2> QED BY <2>3, <2>9 DEF IInv
  <1> QED BY <1>5, <1>6

\* One chunk: its words leave the hint stream and arrive where they belong.
LEMMA HintChunkInv == IInv /\ HintChunk => IInv' /\ ~ cached'
  <1> SUFFICES ASSUME IInv, HintChunk PROVE IInv' /\ ~ cached'
    OBVIOUS
  <1> DEFINE P == Payload(input)
             chunk == IF words < MAX_HINT_BUFFER_WORDS THEN words
                                                       ELSE MAX_HINT_BUFFER_WORDS
             bytes == SubSeq(hint, 1, 4 * chunk)
  <1>1. /\ pc = "hints" /\ words > 0 /\ mem' = Store(mem, ptr, bytes)
        /\ hint' = SubSeq(hint, 4 * chunk + 1, Len(hint))
        /\ ptr' = ptr + chunk * 4 /\ words' = words - chunk
        /\ UNCHANGED <<pc, heap, input, buffer, cached, written, out, word, revealed,
                       rc, code>>
    BY DEF HintChunk, outvars, endvars
  <1>2. /\ hint \in Seq(Byte) /\ words \in Nat /\ ptr \in Nat /\ Block \in Nat
        /\ buffer = <<<<Block, Len(input)>>>>
        /\ Len(hint) = 4 * words /\ ptr + 4 * words = heap
        /\ Block <= ptr /\ heap = Block + AlignUp(Len(input), 4) /\ heap <= MaxMemory
        /\ \A a \in Block..(ptr - 1) : mem[a] = P[a - Block + 1]
        /\ \A j \in 1..Len(hint) : hint[j] = P[ptr - Block + j]
    BY <1>1 DEF IInv, HintsOK
  <1>3. chunk \in Nat /\ chunk > 0 /\ chunk <= words
    BY <1>1, <1>2, RuntimeAssumption
  <1> HIDE DEF chunk
  <1>4. \A i \in 1..Len(hint) : hint[i] \in Byte
    BY <1>2
  <1>5. /\ Len(bytes) = 4 * chunk
        /\ \A j \in 1..(4 * chunk) : bytes[j] = hint[j]
    <2>1. \A i \in 1..(4 * chunk) : hint[i] \in Byte
      BY <1>2, <1>3, <1>4
    <2>2. /\ Len(bytes) = IF 1 <= 4 * chunk THEN 4 * chunk - 1 + 1 ELSE 0
          /\ \A j \in 1..(4 * chunk - 1 + 1) : bytes[j] = hint[1 + j - 1]
      BY <1>3, <2>1, SubSeqProperties
    <2> QED BY <1>3, <2>2
  <1>6. /\ hint' \in Seq(Byte) /\ Len(hint') = 4 * words'
        /\ \A j \in 1..Len(hint') : hint'[j] = hint[4 * chunk + j]
    <2>1. \A i \in (4 * chunk + 1)..Len(hint) : hint[i] \in Byte
      BY <1>2, <1>3, <1>4
    <2>2. 4 * chunk + 1 \in Int /\ Len(hint) \in Int
      BY <1>2, <1>3
    <2>3. /\ hint' \in Seq(Byte)
          /\ Len(hint') = IF 4 * chunk + 1 <= Len(hint)
                          THEN Len(hint) - (4 * chunk + 1) + 1 ELSE 0
          /\ \A j \in 1..(Len(hint) - (4 * chunk + 1) + 1) :
                hint'[j] = hint[4 * chunk + 1 + j - 1]
      <3> DEFINE rest == SubSeq(hint, 4 * chunk + 1, Len(hint))
      <3>1. /\ rest \in Seq(Byte)
            /\ Len(rest) = IF 4 * chunk + 1 <= Len(hint)
                           THEN Len(hint) - (4 * chunk + 1) + 1 ELSE 0
            /\ \A j \in 1..(Len(hint) - (4 * chunk + 1) + 1) :
                  rest[j] = hint[4 * chunk + 1 + j - 1]
        BY <2>1, <2>2, SubSeqProperties, SMTT(30)
      <3> HIDE DEF rest
      <3>2. hint' = rest
        BY <1>1 DEF rest
      <3> QED BY <3>1, <3>2
    <2>4. Len(hint') = 4 * words'
      BY <1>1, <1>2, <1>3, <2>3
    <2>5. Len(hint') = Len(hint) - (4 * chunk + 1) + 1
      BY <1>2, <1>3, <2>3
    <2>6. ASSUME NEW j \in 1..Len(hint') PROVE hint'[j] = hint[4 * chunk + j]
      <3>1. j \in 1..(Len(hint) - (4 * chunk + 1) + 1) /\ j \in Int
        BY <2>5
      <3>2. 4 * chunk + 1 + j - 1 = 4 * chunk + j
        BY <1>3, <3>1
      <3> QED BY <2>3, <3>1, <3>2
    <2> QED BY <2>3, <2>4, <2>6
  <1>sizes.
        /\ words \in Nat /\ ptr \in Nat /\ Block \in Nat /\ chunk \in Nat /\ chunk <= words
        /\ Block <= ptr /\ ptr' = ptr + 4 * chunk /\ ptr + 4 * words = heap
        /\ Len(hint) = 4 * words /\ Len(hint') = 4 * words - 4 * chunk
    <2>1. Len(hint') = 4 * (words - chunk) /\ ptr' = ptr + chunk * 4
      BY <1>1, <1>6
    <2> QED BY <1>2, <1>3, <2>1
  <1>7. \A j \in 1..Len(hint') : hint'[j] = P[ptr' - Block + j]
    <2> TAKE j \in 1..Len(hint')
    <2>1. hint'[j] = hint[4 * chunk + j]
      BY <1>6
    <2>2. 4 * chunk + j \in 1..Len(hint)
      BY <1>sizes
    <2>3. ptr - Block + (4 * chunk + j) = ptr' - Block + j
      BY <1>sizes
    <2> QED BY <1>2, <2>1, <2>2, <2>3
  <1> HIDE DEF bytes
  <1>8. \A a \in Block..(ptr' - 1) : mem'[a] = P[a - Block + 1]
    <2> TAKE a \in Block..(ptr' - 1)
    <2>1. a \in DOMAIN mem
      <3>1. MaxMemory \in Nat /\ DOMAIN mem = Memory
        BY RuntimeAssumption DEF IInv, TypeOK
      <3>2. 0 <= a /\ a < heap /\ a \in Int
        BY <1>sizes
      <3> QED BY <1>2, <3>1, <3>2 DEF Memory
    <2>2. CASE a < ptr
      <3>1. a \in Block..(ptr - 1) /\ a \notin ptr..(ptr + Len(bytes) - 1)
        BY <1>1, <1>2, <1>3, <2>2
      <3> QED BY <1>1, <1>2, <2>1, <3>1 DEF Store
    <2>3. CASE a >= ptr
      <3>1. a - ptr + 1 \in 1..(4 * chunk) /\ a \in ptr..(ptr + Len(bytes) - 1)
        BY <1>1, <1>2, <1>3, <1>5, <2>3
      <3>2. mem'[a] = hint[a - ptr + 1]
        BY <1>1, <1>5, <2>1, <3>1 DEF Store
      <3>3. a - ptr + 1 \in 1..Len(hint)
            /\ ptr - Block + (a - ptr + 1) = a - Block + 1
        BY <1>2, <1>3, <3>1
      <3> QED BY <1>2, <3>2, <3>3
    <2>4. a \in Int /\ ptr \in Int
      BY <1>1, <1>2, <1>3
    <2> QED BY <2>2, <2>3, <2>4
  <1>9. words' \in Nat /\ ptr' \in Nat /\ ptr' + 4 * words' = heap' /\ Block <= ptr'
    <2>1. words - chunk \in Nat /\ ptr + chunk * 4 \in Nat
          /\ (ptr + chunk * 4) + 4 * (words - chunk) = ptr + 4 * words
          /\ Block <= ptr + chunk * 4
      BY <1>2, <1>3
    <2>2. words' = words - chunk /\ ptr' = ptr + chunk * 4 /\ heap' = heap
      BY <1>1
    <2> QED BY <1>2, <2>1, <2>2
  <1>10. Block' = Block /\ Payload(input)' = Payload(input)
    BY <1>1 DEF Block
  <1>11. HintsOK'
    BY <1>1, <1>2, <1>6, <1>7, <1>8, <1>9, <1>10 DEF HintsOK
  <1>12. ~ cached' /\ InputOK'
    BY <1>1 DEF IInv, ControlOK, InputOK
  <1>13. TypeOK'
    BY <1>1 DEF IInv, TypeOK, Store
  <1>14. ControlOK' /\ OutputOK'
    BY <1>1 DEF IInv, ControlOK, OutputOK
  <1> QED BY <1>11, <1>12, <1>13, <1>14 DEF IInv

LEMMA InputReadInv == IInv /\ InputRead => IInv'
  <1> SUFFICES ASSUME IInv, InputRead PROVE IInv'
    OBVIOUS
  <1>1. /\ pc = "hints" /\ words = 0 /\ pc' = "main" /\ cached' = TRUE
        /\ UNCHANGED <<mem, heap, input, hint, buffer, ptr, words, written, out, word,
                       revealed, rc, code>>
    BY DEF InputRead, outvars, endvars
  <1>2. /\ Block \in Nat /\ buffer = <<<<Block, Len(input)>>>> /\ ptr = heap
        /\ heap = Block + AlignUp(Len(input), 4)
        /\ \A a \in Block..(ptr - 1) : mem[a] = Payload(input)[a - Block + 1]
    BY <1>1 DEF IInv, HintsOK
  <1>3. /\ input \in Seq(Byte) /\ Len(input) \in Nat
        /\ Len(input) <= AlignUp(Len(input), 4) /\ AlignUp(Len(input), 4) \in Nat
        /\ \A j \in 1..Len(input) : Payload(input)[j] = input[j]
    BY PayloadFacts, AlignUpFacts DEF IInv, TypeOK
  <1>4. \A i \in 1..Len(input) : mem[Block + i - 1] = input[i]
    <2> TAKE i \in 1..Len(input)
    <2>1. Block + i - 1 \in Block..(ptr - 1) /\ (Block + i - 1) - Block + 1 = i
      BY <1>2, <1>3
    <2> QED BY <1>2, <1>3, <2>1
  <1>5. Load(mem, Block, Len(input)) = input
    <2>1. input = [i \in 1..Len(input) |-> input[i]]
      BY <1>3, LenProperties
    <2> QED BY <1>4, <2>1 DEF Load
  <1>6. Block' = Block
    BY <1>1 DEF Block
  <1>7. InputOK'
    BY <1>1, <1>2, <1>3, <1>5, <1>6 DEF InputOK
  <1>8. TypeOK' /\ HintsOK' /\ OutputOK'
    BY <1>1 DEF IInv, TypeOK, HintsOK, OutputOK
  <1>9. ControlOK'
    BY <1>1 DEF IInv, ControlOK
  <1> QED BY <1>7, <1>8, <1>9 DEF IInv

\* Before the flush nothing is revealed, whatever the buffer holds.
LEMMA NothingRevealed ==
    ASSUME word = 0
    PROVE  [i \in 1..PublicBytes |->
               IF i <= 4 * word /\ i <= Len(out) THEN out[i] ELSE 0] = Zeros(PublicBytes)
  <1>1. \A i \in 1..PublicBytes : ~ (i <= 4 * word)
    BY RuntimeAssumption
  <1> QED BY <1>1 DEF Zeros

LEMMA TakenFacts ==
    ASSUME out \in Seq(Byte), Len(out) <= OutputCap, NEW bytes \in Seq(Byte)
    PROVE  /\ out \o Taken(bytes) \in Seq(Byte)
           /\ Len(out \o Taken(bytes)) <= OutputCap
           /\ Len(out \o Taken(bytes)) \in Nat
           /\ Len(out) + Len(bytes) <= OutputCap => Taken(bytes) = bytes
  <1> DEFINE room == OutputCap - Len(out)
  <1>1. Len(out) \in Nat /\ Len(bytes) \in Nat /\ OutputCap \in Nat /\ room \in Nat
    BY RuntimeAssumption
  <1>2. CASE Len(bytes) > room
    <2>1. Taken(bytes) = SubSeq(bytes, 1, room)
      BY <1>2 DEF Taken
    <2>2. \A i \in 1..room : bytes[i] \in Byte
      BY <1>1, <1>2
    <2>3. /\ SubSeq(bytes, 1, room) \in Seq(Byte)
          /\ Len(SubSeq(bytes, 1, room)) = IF 1 <= room THEN room - 1 + 1 ELSE 0
      BY <1>1, <2>2, SubSeqProperties
    <2>4. Taken(bytes) \in Seq(Byte) /\ Len(Taken(bytes)) = room
      BY <1>1, <2>1, <2>3
    <2> QED BY <1>1, <1>2, <2>4, ConcatProperties
  <1>3. CASE ~ (Len(bytes) > room)
    <2>1. Taken(bytes) = bytes
      BY <1>3 DEF Taken
    <2> QED BY <1>1, <1>3, <2>1, ConcatProperties
  <1> QED BY <1>2, <1>3

LEMMA WriteOutputInv ==
    ASSUME IInv, NEW bytes \in Chunks, WriteOutput(bytes)
    PROVE  IInv'
  <1>1. /\ pc = "main" /\ Len(written) + Len(bytes) <= MaxOutput
        /\ written' = written \o bytes /\ out' = out \o Taken(bytes)
        /\ UNCHANGED <<pc, mem, heap, input, hint, buffer, ptr, words, cached, word,
                       revealed, rc, code>>
    BY DEF WriteOutput, readvars, endvars
  <1>2. /\ bytes \in Seq(Byte) /\ written \in Seq(Byte) /\ out \in Seq(Byte)
        /\ Len(out) <= OutputCap
    BY RuntimeAssumption DEF Byte, IInv, TypeOK, OutputOK
  <1>3. written' \in Seq(Byte) /\ out' \in Seq(Byte) /\ Len(out') <= OutputCap
        /\ Len(out') \in Nat
    BY <1>1, <1>2, TakenFacts, ConcatProperties
  <1>4. MaxOutput <= OutputCap => out' = written'
    <2> SUFFICES ASSUME MaxOutput <= OutputCap PROVE out' = written'
      OBVIOUS
    <2>1. out = written
      BY DEF IInv, OutputOK
    <2>2. Len(out) + Len(bytes) <= OutputCap
      BY <1>1, <1>2, <2>1, RuntimeAssumption
    <2> QED BY <1>1, <1>2, <2>1, <2>2, TakenFacts
  <1>5. word = 0 /\ word' = 0
    BY <1>1 DEF IInv, ControlOK
  <1>6. revealed = Zeros(PublicBytes)
    BY <1>5, NothingRevealed DEF IInv, OutputOK
  <1>7. revealed' = [i \in 1..PublicBytes |->
                       IF i <= 4 * word' /\ i <= Len(out') THEN out'[i] ELSE 0]
    <2>1. \A i \in 1..PublicBytes : ~ (i <= 4 * word')
      BY <1>5, RuntimeAssumption
    <2> QED BY <1>1, <1>6, <2>1 DEF Zeros
  <1>8. OutputOK'
    BY <1>1, <1>3, <1>4, <1>5, <1>7 DEF OutputOK
  <1>9. TypeOK' /\ HintsOK' /\ InputOK'
    BY <1>1, <1>3 DEF IInv, TypeOK, HintsOK, InputOK, Block
  <1>10. ControlOK'
    BY <1>1 DEF IInv, ControlOK
  <1> QED BY <1>8, <1>9, <1>10 DEF IInv

LEMMA MainReturnsInv ==
    ASSUME IInv, NEW r \in ReturnCodes, MainReturns(r)
    PROVE  IInv'
  <1>1. /\ pc = "main" /\ rc' = <<r>> /\ pc' = "flush" /\ r \in Int
        /\ UNCHANGED <<mem, heap, input, hint, buffer, ptr, words, cached, written, out,
                       word, revealed, code>>
    BY RuntimeAssumption DEF MainReturns, readvars, outvars
  <1>2. TypeOK' /\ HintsOK' /\ InputOK' /\ OutputOK'
    BY <1>1 DEF IInv, TypeOK, HintsOK, InputOK, OutputOK, Block
  <1>3. ControlOK'
    BY <1>1 DEF IInv, ControlOK
  <1> QED BY <1>2, <1>3 DEF IInv

LEMMA PanicInv == IInv /\ Panic => IInv'
  <1> SUFFICES ASSUME IInv, Panic PROVE IInv'
    OBVIOUS
  <1>1. /\ pc = "main" /\ code' = <<1>> /\ pc' = "halted" /\ rc = << >>
        /\ UNCHANGED <<mem, heap, input, hint, buffer, ptr, words, cached, written, out,
                       word, revealed, rc>>
    BY DEF Panic, readvars, outvars, IInv, ControlOK
  <1>2. TypeOK' /\ HintsOK' /\ InputOK' /\ OutputOK'
    BY <1>1 DEF IInv, TypeOK, HintsOK, InputOK, OutputOK, Block
  <1>3. ControlOK'
    BY <1>1 DEF IInv, ControlOK
  <1> QED BY <1>2, <1>3 DEF IInv

\* A word that is revealed is the next four bytes of the buffer, or what is
\* left of it and zeros.
LEMMA RevealWordInv == IInv /\ RevealWord => IInv'
  <1> SUFFICES ASSUME IInv, RevealWord PROVE IInv'
    OBVIOUS
  <1>1. /\ pc = "flush" /\ 4 * word < Len(out)
        /\ revealed' = Store(revealed, 4 * word + 1, WordBytes(word)) /\ word' = word + 1
        /\ UNCHANGED <<pc, mem, heap, input, hint, buffer, ptr, words, cached, written,
                       out, rc, code>>
    BY DEF RevealWord, readvars, outvars
  <1>2. /\ word \in Nat /\ Len(out) \in Nat
        /\ revealed = [i \in 1..PublicBytes |->
                         IF i <= 4 * word /\ i <= Len(out) THEN out[i] ELSE 0]
    BY DEF IInv, TypeOK, OutputOK
  <1>3. Len(WordBytes(word)) = 4 /\ \A b \in 1..4 :
          WordBytes(word)[b] = IF 4 * word + b <= Len(out) THEN out[4 * word + b] ELSE 0
    BY DEF WordBytes
  <1>4. ASSUME NEW i \in 1..PublicBytes
        PROVE  revealed'[i] = IF i <= 4 * word' /\ i <= Len(out') THEN out'[i] ELSE 0
    <2>1. CASE i \in (4 * word + 1)..(4 * word + 4)
      <3> DEFINE b == i - (4 * word + 1) + 1
      <3>1. b \in 1..4 /\ 4 * word + b = i
        BY <1>2, <2>1
      <3>2. revealed'[i] = WordBytes(word)[b]
        BY <1>1, <1>2, <1>3, <2>1 DEF Store
      <3>3. i <= 4 * word' /\ out' = out
        BY <1>1, <1>2, <2>1
      <3> HIDE DEF b
      <3>4. revealed'[i] = IF i <= Len(out) THEN out[i] ELSE 0
        BY <1>3, <3>1, <3>2
      <3> QED BY <3>3, <3>4
    <2>2. CASE i \notin (4 * word + 1)..(4 * word + 4)
      <3>1. revealed'[i] = revealed[i]
        BY <1>1, <1>2, <1>3, <2>2 DEF Store
      <3>2. i <= 4 * word' <=> i <= 4 * word
        BY <1>1, <1>2, <2>2
      <3> QED BY <1>1, <1>2, <3>1, <3>2
    <2> QED BY <2>1, <2>2
  <1>5. DOMAIN revealed' = 1..PublicBytes /\ revealed' = [i \in 1..PublicBytes |-> revealed'[i]]
    BY <1>1, <1>2 DEF Store
  <1>6. OutputOK'
    <2>1. revealed' = [i \in 1..PublicBytes |->
                         IF i <= 4 * word' /\ i <= Len(out') THEN out'[i] ELSE 0]
      BY <1>4, <1>5
    <2>2. 4 * word' < Len(out') + 4 /\ pc' # "halted"
      BY <1>1, <1>2
    <2>3. Len(out') <= OutputCap /\ (MaxOutput <= OutputCap => out' = written')
      BY <1>1 DEF IInv, OutputOK
    <2> QED BY <2>1, <2>2, <2>3 DEF OutputOK
  <1>7. TypeOK' /\ ControlOK' /\ HintsOK' /\ InputOK'
    BY <1>1 DEF IInv, TypeOK, ControlOK, HintsOK, InputOK, Block
  <1> QED BY <1>6, <1>7 DEF IInv

LEMMA TerminateInv == IInv /\ Terminate => IInv'
  <1> SUFFICES ASSUME IInv, Terminate PROVE IInv'
    OBVIOUS
  <1>1. /\ pc = "flush" /\ 4 * word >= Len(out) /\ code' # << >> /\ pc' = "halted"
        /\ UNCHANGED <<mem, heap, input, hint, buffer, ptr, words, cached, written, out,
                       word, revealed, rc>>
    BY DEF Terminate, readvars, outvars
  <1>2. Len(out) <= 4 * word
    BY <1>1 DEF IInv, TypeOK
  <1>3. TypeOK' /\ HintsOK' /\ InputOK' /\ OutputOK'
    BY <1>1, <1>2 DEF IInv, TypeOK, HintsOK, InputOK, OutputOK, Block
  <1>4. ControlOK'
    BY <1>1 DEF IInv, ControlOK
  <1> QED BY <1>3, <1>4 DEF IInv

LEMMA StepInv == IInv /\ [Next]_vars => IInv'
  <1> SUFFICES ASSUME IInv, [Next]_vars PROVE IInv'
    OBVIOUS
  <1>1. CASE UNCHANGED vars
    BY <1>1 DEF vars, IInv, TypeOK, ControlOK, HintsOK, InputOK, OutputOK, Block, Load
  <1>2. CASE Terminated
    BY <1>1, <1>2 DEF Terminated
  <1> QED BY <1>1, <1>2, StartInv, AllocateInv, ReadLengthInv, HintChunkInv, InputReadInv,
          WriteOutputInv, MainReturnsInv, RevealWordInv, TerminateInv, PanicInv DEF Next

LEMMA Invariant == Spec => []IInv
  BY InitIInv, StepInv, PTL DEF Spec

\* The chunked hint read never leaves the block that was allocated for the
\* input, whatever its length, the chunk size and the program.
THEOREM HintsInBlock == Spec => []HintsStayInBlock
  <1>1. IInv => HintsStayInBlock
    BY DEF IInv, HintsOK, HintsStayInBlock
  <1> QED BY <1>1, Invariant, PTL

-----------------------------------------------------------------------------
\* What read_input shows the program: the host's bytes or, before the first
\* call, nothing.
LEMMA View ==
    ASSUME IInv
    PROVE  InputBytes = IF cached THEN <<input>> ELSE << >>
  BY DEF IInv, InputOK, InputBytes, Block

LEMMA NextView ==
    ASSUME IInv'
    PROVE  InputBytes' = IF cached' THEN <<input'>> ELSE << >>
  BY DEF IInv, InputOK, InputBytes, Block

\* One lemma for each step of the io-interface.
LEMMA ReadsInput ==
    ASSUME IInv, IInv', ReadLength \/ HintChunk \/ InputRead
    PROVE  Io!ReadInput \/ UNCHANGED Io!zvars
  <1>1. UNCHANGED <<input, written, revealed, rc, code>> /\ rc = << >> /\ code = << >>
    BY DEF ReadLength, HintChunk, InputRead, outvars, endvars, IInv, ControlOK
  <1>2. ~ cached /\ cached' \in BOOLEAN
    BY DEF ReadLength, HintChunk, InputRead, IInv, ControlOK, TypeOK
  <1>3. CASE cached'
    <2>1. InputBytes' = <<input>>
      BY <1>1, <1>3, View, NextView
    <2> QED BY <1>1, <2>1 DEF Io!ReadInput, Io!Running
  <1>4. CASE ~ cached'
    <2>1. InputBytes' = InputBytes
      BY <1>2, <1>4, View, NextView
    <2> QED BY <1>1, <2>1 DEF Io!zvars
  <1> QED BY <1>2, <1>3, <1>4

LEMMA WritesOutput ==
    ASSUME IInv, IInv', NEW bytes \in Chunks, WriteOutput(bytes)
    PROVE  Io!WriteOutput
  <1>1. /\ written' = written \o bytes /\ rc = << >> /\ code = << >>
        /\ UNCHANGED <<input, cached, rc, code>>
    BY DEF WriteOutput, readvars, endvars, IInv, ControlOK
  <1>2. InputBytes' = InputBytes
    BY <1>1, View, NextView
  <1>3. Io!IsPrefix(written, written')
    <2>1. written \in Seq(Byte) /\ bytes \in Seq(Byte)
      BY RuntimeAssumption DEF Byte, IInv, TypeOK
    <2> DEFINE m == Len(written)
    <2>2. m \in Nat /\ Len(bytes) \in Nat /\ Len(written') = m + Len(bytes)
          /\ \A i \in 1..m : written'[i] = written[i]
      BY <1>1, <2>1, ConcatProperties
    <2>3. SubSeq(written, 1, m) = [i \in 1..(m - 1 + 1) |-> written[1 + i - 1]]
          /\ SubSeq(written', 1, m) = [i \in 1..(m - 1 + 1) |-> written'[1 + i - 1]]
      OBVIOUS
    <2> QED BY <2>2, <2>3 DEF Io!IsPrefix
  <1> QED BY <1>1, <1>2, <1>3 DEF Io!WriteOutput, Io!Running

LEMMA Returns ==
    ASSUME IInv, IInv', NEW r \in ReturnCodes, MainReturns(r)
    PROVE  Io!Return
  <1>1. /\ rc' = <<r>> /\ rc = << >> /\ code = << >>
        /\ UNCHANGED <<input, cached, written, code>>
    BY DEF MainReturns, readvars, outvars, IInv, ControlOK
  <1>2. InputBytes' = InputBytes
    BY <1>1, View, NextView
  <1> QED BY <1>1, <1>2 DEF Io!Return, Io!Running

\* What is revealed at the end is the buffer, which is all the output.
LEMMA Finishes ==
    ASSUME MaxOutput <= OutputCap, IInv, IInv', Terminate
    PROVE  Io!Finish
  <1>1. /\ code' = IF rc[1] = 0 THEN <<0>> ELSE <<1>>
        /\ rc # << >> /\ code = << >> /\ 4 * word >= Len(out)
        /\ UNCHANGED <<input, cached, written, out, revealed, rc>>
    BY DEF Terminate, readvars, outvars, IInv, ControlOK
  <1>2. InputBytes' = InputBytes
    BY <1>1, View, NextView
  <1>3. /\ out = written /\ Len(out) <= OutputCap /\ Len(out) \in Nat /\ word \in Nat
        /\ revealed = [i \in 1..PublicBytes |->
                         IF i <= 4 * word /\ i <= Len(out) THEN out[i] ELSE 0]
    BY DEF IInv, OutputOK, TypeOK
  <1>4. Len(revealed) = PublicBytes /\ OutputCap <= PublicBytes /\ PublicBytes \in Nat
        /\ OutputCap \in Nat
    BY <1>3, RuntimeAssumption
  <1>5. \A i \in 1..Len(revealed) : revealed[i] = IF i <= Len(written) THEN written[i] ELSE 0
    BY <1>1, <1>3, <1>4
  <1>6. Io!Publishes(revealed, written)
    BY <1>3, <1>4, <1>5 DEF Io!Publishes
  <1> QED BY <1>1, <1>2, <1>6 DEF Io!Finish

LEMMA Panics ==
    ASSUME IInv, IInv', Panic
    PROVE  Io!Panic
  <1>1. /\ code' = <<1>> /\ rc = << >> /\ code = << >> /\ word = 0
        /\ UNCHANGED <<input, cached, written, revealed, rc>>
    BY DEF Panic, readvars, outvars, IInv, ControlOK
  <1>2. InputBytes' = InputBytes
    BY <1>1, View, NextView
  <1>3. revealed = Zeros(PublicBytes)
    BY <1>1, NothingRevealed DEF IInv, OutputOK
  <1>4. Io!Publishes(revealed, << >>)
    <2>1. Len(revealed) = PublicBytes /\ PublicBytes \in Nat /\ Len(<< >>) = 0
      BY <1>3, RuntimeAssumption, ZerosFacts
    <2> QED BY <1>3, <2>1 DEF Io!Publishes, Zeros
  <1> QED BY <1>1, <1>2, <1>4 DEF Io!Panic, Io!Running

\* The steps the io-interface does not see.
LEMMA Stutters ==
    ASSUME IInv, IInv',
           Start \/ (\E b \in Blocks : Allocate(b)) \/ RevealWord \/ UNCHANGED vars
    PROVE  UNCHANGED Io!zvars
  <1>1. UNCHANGED <<input, cached, written, rc, code>> /\ (code # << >> => UNCHANGED revealed)
    BY DEF Start, Allocate, RevealWord, vars, readvars, outvars, endvars, IInv, ControlOK
  <1>2. InputBytes' = InputBytes
    BY <1>1, View, NextView
  <1> QED BY <1>1, <1>2 DEF Io!zvars

\* read_input returns the host's bytes, the public values are the whole output
\* and the exit code says whether main succeeded, as long as the program writes
\* no more than g_output_buf holds.
THEOREM OpenvmMeetsIo ==
    ASSUME MaxOutput <= OutputCap
    PROVE  Spec => Implements
  <1>1. Init => Io!Init
    BY InitIInv, View DEF Init, Io!Init, IsInput
  <1>2. IInv /\ IInv' /\ [Next]_vars => [Io!Next]_(Io!zvars)
    <2> SUFFICES ASSUME IInv, IInv', [Next]_vars PROVE [Io!Next]_(Io!zvars)
      OBVIOUS
    <2> QED BY ReadsInput, WritesOutput, Returns, Finishes, Panics, Stutters
            DEF Next, Terminated, Io!Next
  <1> QED BY <1>1, <1>2, Invariant, PTL DEF Spec, Implements, Io!Spec
=============================================================================
